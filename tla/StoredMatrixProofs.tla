------------------------- MODULE StoredMatrixProofs -------------------------
(***************************************************************************)
(* The operators of StoredMatrix, MatrixReordering and ColumnStructures,   *)
(* for matrices of any size, structure, block size and scalars: sums,      *)
(* sorting and lists of entries; reordering and scaling and what undoes    *)
(* them; products with vectors; the scalars a matrix represents; block     *)
(* columns, and the problems of approximate inverses. What is built by     *)
(* recursion (folds, sums, sorting) is shown to follow its rule by well-   *)
(* founded induction on numbers and on the subsets of a finite set.        *)
(***************************************************************************)
EXTENDS ColumnStructures, SequenceTheorems, FiniteSetTheorems, WellFoundedInduction, TLAPS

(***************************************************************************)
(* Induction on numbers and on finite sets, and recursion over the subsets *)
(* of a finite set, without operators as parameters: what is to be shown   *)
(* is a set of numbers or of sets.                                         *)
(***************************************************************************)
LEMMA NumbersInduction ==
  ASSUME NEW T, 0 \in T, \A n \in Nat : n \in T => n + 1 \in T
  PROVE  Nat \subseteq T
<1> SUFFICES ASSUME Nat \ T # {} PROVE FALSE OBVIOUS
<1> DEFINE R == {p \in Nat \X Nat : p[1] < p[2]}
<1>1. OpToRel(<, Nat) = R BY Zenon DEF OpToRel
<1>2. IsWellFoundedOn(R, Nat) BY <1>1, NatLessThanWellFounded
<1>3. Nat \ T \subseteq Nat OBVIOUS
<1> HIDE DEF R
<1>4. \E n \in Nat \ T : \A m \in Nat \ T : ~(<<m, n>> \in R)
  BY <1>2, <1>3, WFMin, Zenon
<1>5. PICK n \in Nat \ T : \A m \in Nat \ T : ~(<<m, n>> \in R) BY <1>4
<1>6. n # 0 /\ n - 1 \in Nat BY <1>5
<1>7. n - 1 \notin T BY <1>5, <1>6
<1>8. <<n - 1, n>> \in R BY <1>6 DEF R
<1> QED BY <1>5, <1>6, <1>7, <1>8

LEMMA FiniteFacts ==
  ASSUME NEW S, IsFiniteSet(S)
  PROVE  /\ Cardinality(S) \in Nat
         /\ Cardinality(S) = 0 <=> S = {}
         /\ \A s \in SUBSET S : IsFiniteSet(s) /\ Cardinality(s) \in Nat
         /\ \A s \in SUBSET S : Cardinality(s) <= Cardinality(S)
         /\ \A x \in S : IsFiniteSet(S \ {x}) /\ Cardinality(S \ {x}) = Cardinality(S) - 1
<1>1. \A s \in SUBSET S : IsFiniteSet(s) /\ Cardinality(s) <= Cardinality(S)
  BY FS_Subset
<1>2. \A s \in SUBSET S : Cardinality(s) \in Nat BY <1>1, FS_CardinalityType
<1>3. \A x \in S : IsFiniteSet(S \ {x}) /\ Cardinality(S \ {x}) = Cardinality(S) - 1
  BY FS_RemoveElement
<1>4. Cardinality(S) = 0 <=> S = {} BY FS_EmptySet
<1>5. Cardinality(S) \in Nat BY FS_CardinalityType
<1> QED BY <1>1, <1>2, <1>3, <1>4, <1>5

LEMMA FiniteInduction ==
  ASSUME NEW S, IsFiniteSet(S), NEW T, {} \in T,
         \A s \in SUBSET S : s # {} /\ (\A x \in s : s \ {x} \in T) => s \in T
  PROVE  SUBSET S \subseteq T
<1> DEFINE Sizes == {n \in Nat : \A s \in SUBSET S : Cardinality(s) = n => s \in T}
<1>1. \A s \in SUBSET S : IsFiniteSet(s) /\ Cardinality(s) \in Nat BY FiniteFacts
<1>2. \A s \in SUBSET S : Cardinality(s) = 0 => s = {} BY <1>1, FS_EmptySet
<1>3. \A s \in SUBSET S : s # {} => Cardinality(s) # 0 BY <1>2
<1>4. 0 \in Sizes BY <1>2
<1>5. ASSUME NEW n \in Nat, n \in Sizes PROVE n + 1 \in Sizes
  <2>1. ASSUME NEW s \in SUBSET S, Cardinality(s) = n + 1 PROVE s \in T
    <3>1. s # {} BY <1>4, <2>1, FS_EmptySet
    <3>2. \A x \in s : Cardinality(s \ {x}) = n /\ s \ {x} \in SUBSET S
      BY <1>1, <2>1, FS_RemoveElement
    <3>3. \A x \in s : s \ {x} \in T BY <1>5, <3>2
    <3> QED BY <3>1, <3>3
  <2>2. n + 1 \in Nat OBVIOUS
  <2> QED BY <2>1, <2>2
<1> HIDE DEF Sizes
<1>6. Nat \subseteq Sizes BY <1>4, <1>5, NumbersInduction
<1> QED BY <1>1, <1>6 DEF Sizes

(***************************************************************************)
(* A fold: first is what it starts from, op what it does with an element   *)
(* and what it has got from the others, next the element it does last.     *)
(***************************************************************************)
Chooses(S, next) == \A s \in SUBSET S : s # {} => next[s] \in s

FoldRule(g, S, next, first, op) ==
  \A s \in SUBSET S : g[s] = IF s = {} THEN first ELSE op[<<next[s], g[s \ {next[s]}]>>]

LEMMA FoldExists ==
  ASSUME NEW S, IsFiniteSet(S), NEW next, Chooses(S, next),
         NEW V, NEW first \in V, NEW op \in [S \X V -> V]
  PROVE  \E g \in [SUBSET S -> V] : FoldRule(g, S, next, first, op)
<1> DEFINE D(n) == {s \in SUBSET S : Cardinality(s) <= n}
           Good(n, g) == \A s \in D(n) : g[s] = IF s = {} THEN first
                                                ELSE op[<<next[s], g[s \ {next[s]}]>>]
           Sizes == {n \in Nat : \E g \in [D(n) -> V] : Good(n, g)}
<1>1. \A s \in SUBSET S : IsFiniteSet(s) /\ Cardinality(s) \in Nat
  BY FS_Subset, FS_CardinalityType
<1>2. 0 \in Sizes
  <2>1. D(0) = {{}} BY <1>1, FS_EmptySet
  <2> DEFINE g == [s \in D(0) |-> first]
  <2>2. g \in [D(0) -> V] /\ Good(0, g) BY <2>1
  <2> QED BY <2>2
<1>3. ASSUME NEW n \in Nat, n \in Sizes PROVE n + 1 \in Sizes
  <2>1. PICK g \in [D(n) -> V] : Good(n, g) BY <1>3
  <2> DEFINE h == [s \in D(n + 1) |-> IF s = {} THEN first ELSE op[<<next[s], g[s \ {next[s]}]>>]]
  <2>2. D(n) \subseteq D(n + 1) BY <1>1
  <2>3. ASSUME NEW s \in D(n + 1), s # {}
        PROVE  next[s] \in s /\ s \ {next[s]} \in D(n)
    <3>1. next[s] \in s BY <2>3 DEF Chooses
    <3>2. Cardinality(s \ {next[s]}) = Cardinality(s) - 1
      BY <1>1, <3>1, FS_RemoveElement
    <3> QED BY <1>1, <3>1, <3>2
  <2>4. h \in [D(n + 1) -> V] BY <2>3
  <2>5. \A s \in D(n) : h[s] = g[s] BY <2>1, <2>2
  <2>6. Good(n + 1, h)
    <3> SUFFICES ASSUME NEW s \in D(n + 1), s # {}
                 PROVE  h[s] = op[<<next[s], h[s \ {next[s]}]>>]
      OBVIOUS
    <3>1. h[s] = op[<<next[s], g[s \ {next[s]}]>>] OBVIOUS
    <3> HIDE DEF h, D
    <3> QED BY <2>3, <2>5, <3>1
  <2> HIDE DEF h, Good, D
  <2>7. n + 1 \in Nat OBVIOUS
  <2> QED BY <2>4, <2>6, <2>7
<1> HIDE DEF Sizes
<1>4. Nat \subseteq Sizes BY <1>2, <1>3, NumbersInduction
<1>5. PICK g \in [D(Cardinality(S)) -> V] : Good(Cardinality(S), g)
  BY <1>1, <1>4 DEF Sizes
<1>6. D(Cardinality(S)) = SUBSET S BY FS_Subset, <1>1
<1> QED BY <1>5, <1>6 DEF FoldRule

-----------------------------------------------------------------------------
(***************************************************************************)
(* Sums over finite sets (SumFunctionOnSet of the community modules).      *)
(***************************************************************************)
Chosen(s) == CHOOSE x \in s : TRUE
SumRule(g, f, S) ==
  \A s \in SUBSET S : g[s] = IF s = {} THEN 0 ELSE f[Chosen(s)] + g[s \ {Chosen(s)}]

LEMMA SumsExist ==
  ASSUME NEW S, IsFiniteSet(S), NEW f, \A x \in S : f[x] \in Int
  PROVE  \E g \in [SUBSET S -> Int] : SumRule(g, f, S)
<1> DEFINE next == [s \in SUBSET S |-> Chosen(s)]
           op == [p \in S \X Int |-> f[p[1]] + p[2]]
<1>1. \A s \in SUBSET S : s # {} => next[s] \in s BY DEF Chosen
<1>2. Chooses(S, next) BY <1>1 DEF Chooses
<1>3. op \in [S \X Int -> Int] OBVIOUS
<1>4. \A x \in S, v \in Int : op[<<x, v>>] = f[x] + v OBVIOUS
<1>5. \A s \in SUBSET S : next[s] = Chosen(s) OBVIOUS
<1> HIDE DEF next, op
<1>6. PICK g \in [SUBSET S -> Int] : FoldRule(g, S, next, 0, op)
  <2>1. 0 \in Int OBVIOUS
  <2> QED BY <1>2, <1>3, <2>1, FoldExists, Zenon
<1>7. ASSUME NEW s \in SUBSET S, s # {} PROVE g[s] = f[Chosen(s)] + g[s \ {Chosen(s)}]
  <2>1. next[s] \in S /\ s \ {next[s]} \in SUBSET S BY <1>1, <1>7
  <2>2. g[s \ {next[s]}] \in Int BY <2>1
  <2> QED BY <1>4, <1>5, <1>6, <1>7, <2>1, <2>2 DEF FoldRule
<1> QED BY <1>6, <1>7 DEF SumRule, FoldRule

LEMMA SumIsRule ==
  ASSUME NEW U, IsFiniteSet(U), NEW f, \A x \in U : f[x] \in Int,
         NEW g, SumRule(g, f, U)
  PROVE  SumFunctionOnSet(f, U) = g[U]
<1> DEFINE F(h) == [s \in SUBSET U |-> IF s = {} THEN 0
                                       ELSE f[CHOOSE x \in s : TRUE]
                                            + h[s \ {CHOOSE x \in s : TRUE}]]
           iter == CHOOSE h : h = F(h)
           k == [s \in SUBSET U |-> g[s]]
<1>1. k = F(k)
  <2>1. ASSUME NEW s \in SUBSET U, s # {} PROVE s \ {CHOOSE x \in s : TRUE} \in SUBSET U
    OBVIOUS
  <2> QED BY <2>1 DEF SumRule, Chosen
<1>2. iter = F(iter) BY <1>1
<1>3. SumFunctionOnSet(f, U) = iter[U]
  BY DEF SumFunctionOnSet, FoldFunctionOnSet, MapThenFoldSet
<1> DEFINE next == [s \in SUBSET U |-> Chosen(s)]
           op == [p \in U \X Int |-> f[p[1]] + p[2]]
<1>4. \A s \in SUBSET U : iter[s] = IF s = {} THEN 0 ELSE f[Chosen(s)] + iter[s \ {Chosen(s)}]
  BY <1>2 DEF Chosen
<1> HIDE DEF iter, F
<1> DEFINE T == {s \in SUBSET U : g[s] = iter[s]}
<1>5. {} \in T BY <1>4 DEF SumRule
<1>6. ASSUME NEW s \in SUBSET U, s # {}, \A x \in s : s \ {x} \in T PROVE s \in T
  <2>1. Chosen(s) \in s BY <1>6 DEF Chosen
  <2>2. s \ {Chosen(s)} \in T BY <1>6, <2>1
  <2> QED BY <1>4, <1>6, <2>2 DEF SumRule
<1> HIDE DEF T
<1>7. SUBSET U \subseteq T BY <1>5, <1>6, FiniteInduction
<1>8. U \in T BY <1>7
<1> QED BY <1>3, <1>8 DEF T

LEMMA SumRules ==
  ASSUME NEW S, IsFiniteSet(S), NEW f, \A x \in S : f[x] \in Int
  PROVE  /\ SumFunctionOnSet(f, {}) = 0
         /\ \A s \in SUBSET S : SumFunctionOnSet(f, s) \in Int
         /\ \A s \in SUBSET S : s # {} => SumFunctionOnSet(f, s) = f[Chosen(s)] + SumFunctionOnSet(f, s \ {Chosen(s)})
<1>1. PICK g \in [SUBSET S -> Int] : SumRule(g, f, S) BY SumsExist
<1>2. ASSUME NEW s \in SUBSET S PROVE SumFunctionOnSet(f, s) = g[s]
  <2>1. IsFiniteSet(s) BY FiniteFacts
  <2>2. SumRule(g, f, s) BY <1>1 DEF SumRule
  <2> QED BY <2>1, <2>2, SumIsRule
<1>3. \A s \in SUBSET S : s # {} => s \ {Chosen(s)} \in SUBSET S OBVIOUS
<1>4. g[{}] = 0 /\ SumFunctionOnSet(f, {}) = g[{}] BY <1>1, <1>2 DEF SumRule
<1>5. \A s \in SUBSET S : SumFunctionOnSet(f, s) \in Int BY <1>2
<1>6. \A s \in SUBSET S : s # {} => SumFunctionOnSet(f, s) = f[Chosen(s)] + SumFunctionOnSet(f, s \ {Chosen(s)})
  BY <1>1, <1>2, <1>3 DEF SumRule
<1> QED BY <1>4, <1>5, <1>6

\* The order does not matter.
LEMMA SumStep ==
  ASSUME NEW S, IsFiniteSet(S), NEW f, \A x \in S : f[x] \in Int
  PROVE  /\ SumFunctionOnSet(f, {}) = 0 /\ SumFunctionOnSet(f, S) \in Int
         /\ \A x \in S : SumFunctionOnSet(f, S) = f[x] + SumFunctionOnSet(f, S \ {x}) /\ SumFunctionOnSet(f, S \ {x}) \in Int
<1> DEFINE T == {s \in SUBSET S : \A x \in s : SumFunctionOnSet(f, s) = f[x] + SumFunctionOnSet(f, s \ {x})}
<1>1. {} \in T OBVIOUS
<1>2. ASSUME NEW s \in SUBSET S, s # {}, \A x \in s : s \ {x} \in T PROVE s \in T
  <2> SUFFICES ASSUME NEW x \in s PROVE SumFunctionOnSet(f, s) = f[x] + SumFunctionOnSet(f, s \ {x}) OBVIOUS
  <2> DEFINE c == Chosen(s)
  <2>1. c \in s BY <1>2 DEF Chosen
  <2>2. SumFunctionOnSet(f, s) = f[c] + SumFunctionOnSet(f, s \ {c})
    BY <1>2, SumRules
  <2> HIDE DEF c
  <2>3. CASE c = x BY <2>2, <2>3
  <2>4. CASE c # x
    <3>1. SumFunctionOnSet(f, s \ {c}) = f[x] + SumFunctionOnSet(f, (s \ {c}) \ {x})
      BY <1>2, <2>1, <2>4
    <3>2. SumFunctionOnSet(f, s \ {x}) = f[c] + SumFunctionOnSet(f, (s \ {x}) \ {c})
      BY <1>2, <2>1, <2>4
    <3>3. (s \ {c}) \ {x} = (s \ {x}) \ {c} OBVIOUS
    <3>4. SumFunctionOnSet(f, (s \ {x}) \ {c}) \in Int
      <4>1. (s \ {x}) \ {c} \in SUBSET S OBVIOUS
      <4> QED BY <4>1, SumRules
    <3>5. f[x] \in Int /\ f[c] \in Int BY <2>1
    <3>6. SumFunctionOnSet(f, s) = f[c] + (f[x] + SumFunctionOnSet(f, (s \ {x}) \ {c}))
      BY <2>2, <3>1, <3>3
    <3> QED BY <3>2, <3>4, <3>5, <3>6
  <2> QED BY <2>3, <2>4
<1> HIDE DEF T
<1>3. SUBSET S \subseteq T BY <1>1, <1>2, FiniteInduction
<1>4. S \in T BY <1>3
<1> QED BY <1>4, SumRules DEF T

\* What a sum over a set is for each of its subsets is shown element by element.
LEMMA SumByElement ==
  ASSUME NEW S, IsFiniteSet(S), NEW f, \A x \in S : f[x] \in Int,
         NEW T, {} \in T,
         \A s \in SUBSET S : \A x \in S \ s :
           s \in T /\ SumFunctionOnSet(f, s) \in Int /\ SumFunctionOnSet(f, s \cup {x}) = f[x] + SumFunctionOnSet(f, s)
             => s \cup {x} \in T
  PROVE  SUBSET S \subseteq T
<1>1. ASSUME NEW s \in SUBSET S, s # {}, \A x \in s : s \ {x} \in T PROVE s \in T
  <2>1. PICK x \in s : TRUE BY <1>1
  <2>2. IsFiniteSet(s) BY FiniteFacts
  <2>3. SumFunctionOnSet(f, s) = f[x] + SumFunctionOnSet(f, s \ {x}) /\ SumFunctionOnSet(f, s \ {x}) \in Int
    BY <2>2, SumStep
  <2>4. (s \ {x}) \cup {x} = s /\ x \in S \ (s \ {x}) /\ s \ {x} \in SUBSET S OBVIOUS
  <2> QED BY <1>1, <2>3, <2>4
<1> QED BY <1>1, FiniteInduction

LEMMA SubsetsInduction ==
  ASSUME NEW S, IsFiniteSet(S), NEW T, {} \in T,
         \A s \in SUBSET S : \A x \in S \ s : s \in T => s \cup {x} \in T
  PROVE  SUBSET S \subseteq T
<1>1. ASSUME NEW s \in SUBSET S, s # {}, \A x \in s : s \ {x} \in T PROVE s \in T
  <2>1. PICK x \in s : TRUE BY <1>1
  <2>2. (s \ {x}) \cup {x} = s /\ x \in S \ (s \ {x}) /\ s \ {x} \in SUBSET S OBVIOUS
  <2> QED BY <1>1, <2>2
<1> QED BY <1>1, FiniteInduction

LEMMA SumFacts ==
  ASSUME NEW S, IsFiniteSet(S), NEW f, \A x \in S : f[x] \in Int
  PROVE  /\ SumFunctionOnSet(f, {}) = 0
         /\ \A s \in SUBSET S : SumFunctionOnSet(f, s) \in Int
         /\ \A s \in SUBSET S : \A x \in S \ s : SumFunctionOnSet(f, s \cup {x}) = f[x] + SumFunctionOnSet(f, s)
<1>1. ASSUME NEW s \in SUBSET S, NEW x \in S \ s
      PROVE  SumFunctionOnSet(f, s \cup {x}) = f[x] + SumFunctionOnSet(f, s)
  <2>1. s \cup {x} \in SUBSET S /\ (s \cup {x}) \ {x} = s OBVIOUS
  <2>2. IsFiniteSet(s \cup {x}) BY <2>1, FiniteFacts
  <2>3. \A y \in s \cup {x} : f[y] \in Int OBVIOUS
  <2> QED BY <2>1, <2>2, <2>3, SumStep
<1> QED BY <1>1, SumRules

Summed(f, S) ==
  /\ SumFunctionOnSet(f, {}) = 0
  /\ \A s \in SUBSET S : \A x \in S \ s : SumFunctionOnSet(f, s \cup {x}) = f[x] + SumFunctionOnSet(f, s)

LEMMA SumIsSummed ==
  ASSUME NEW S, IsFiniteSet(S), NEW f, \A x \in S : f[x] \in Int
  PROVE  Summed(f, S)
BY SumFacts DEF Summed

LEMMA SameSum ==
  ASSUME NEW S, IsFiniteSet(S), NEW f, NEW g,
         \A x \in S : f[x] \in Int /\ g[x] = f[x]
  PROVE  SumFunctionOnSet(f, S) = SumFunctionOnSet(g, S)
<1> DEFINE T == {s \in SUBSET S : SumFunctionOnSet(f, s) = SumFunctionOnSet(g, s)}
<1>1. {} \in T BY SumFacts
<1>2. ASSUME NEW s \in SUBSET S, NEW x \in S \ s, s \in T PROVE s \cup {x} \in T
  <2>1. SumFunctionOnSet(f, s \cup {x}) = f[x] + SumFunctionOnSet(f, s) BY SumFacts
  <2>2. SumFunctionOnSet(g, s \cup {x}) = g[x] + SumFunctionOnSet(g, s) BY SumFacts
  <2>3. s \cup {x} \in SUBSET S OBVIOUS
  <2> QED BY <1>2, <2>1, <2>2, <2>3
<1> HIDE DEF T
<1>3. SUBSET S \subseteq T BY <1>1, <1>2, SubsetsInduction
<1>4. S \in T BY <1>3
<1> QED BY <1>4 DEF T

\* Elements may be renamed.
LEMMA SumRenamed ==
  ASSUME NEW R, IsFiniteSet(R), NEW S, IsFiniteSet(S), NEW f, NEW g,
         \A x \in S : f[x] \in Int,
         NEW h \in [R -> S], \A a, b \in R : h[a] = h[b] => a = b,
         \A x \in S : \E a \in R : h[a] = x,
         \A a \in R : g[a] = f[h[a]]
  PROVE  SumFunctionOnSet(f, S) = SumFunctionOnSet(g, R)
<1> DEFINE Image(r) == {h[a] : a \in r}
           T == {r \in SUBSET R : SumFunctionOnSet(f, Image(r)) = SumFunctionOnSet(g, r)}
<1>1. \A a \in R : g[a] \in Int OBVIOUS
<1>2. Summed(f, S) BY SumIsSummed
<1>3. Summed(g, R) BY <1>1, SumIsSummed
<1>4. {} \in T
  <2>1. Image({}) = {} OBVIOUS
  <2> HIDE DEF Image
  <2> QED BY <1>2, <1>3, <2>1 DEF Summed
<1>5. ASSUME NEW r \in SUBSET R, NEW a \in R \ r, r \in T PROVE r \cup {a} \in T
  <2>1. Image(r \cup {a}) = Image(r) \cup {h[a]} OBVIOUS
  <2>2. Image(r) \in SUBSET S /\ h[a] \in S \ Image(r) OBVIOUS
  <2> HIDE DEF Image
  <2>3. SumFunctionOnSet(f, Image(r) \cup {h[a]}) = f[h[a]] + SumFunctionOnSet(f, Image(r))
    BY <1>2, <2>2 DEF Summed
  <2>4. SumFunctionOnSet(g, r \cup {a}) = g[a] + SumFunctionOnSet(g, r)
    BY <1>3 DEF Summed
  <2>5. r \cup {a} \in SUBSET R OBVIOUS
  <2> QED BY <1>5, <2>1, <2>3, <2>4, <2>5
<1>6. Image(R) = S OBVIOUS
<1> HIDE DEF T, Image
<1>7. SUBSET R \subseteq T BY <1>4, <1>5, SubsetsInduction
<1>8. R \in T BY <1>7
<1> QED BY <1>6, <1>8 DEF T

LEMMA SumOfNaturals ==
  ASSUME NEW S, IsFiniteSet(S), NEW f, \A x \in S : f[x] \in Nat
  PROVE  SumFunctionOnSet(f, S) \in Nat
<1> DEFINE T == {s \in SUBSET S : SumFunctionOnSet(f, s) \in Nat}
<1>0. \A x \in S : f[x] \in Int OBVIOUS
<1>1. {} \in T BY <1>0, SumFacts
<1>2. ASSUME NEW s \in SUBSET S, NEW x \in S \ s, s \in T PROVE s \cup {x} \in T
  <2>1. SumFunctionOnSet(f, s \cup {x}) = f[x] + SumFunctionOnSet(f, s)
    BY <1>0, SumFacts
  <2>3. s \cup {x} \in SUBSET S OBVIOUS
  <2> QED BY <1>2, <2>1, <2>3
<1> HIDE DEF T
<1>3. SUBSET S \subseteq T BY <1>1, <1>2, SubsetsInduction
<1>4. S \in T BY <1>3
<1> QED BY <1>4 DEF T
-----------------------------------------------------------------------------
(***************************************************************************)
(* Arithmetic modulo n.                                                    *)
(***************************************************************************)
LEMMA DivisionFacts ==
  ASSUME NEW k \in Nat, NEW n \in Nat \ {0}
  PROVE  k % n \in 0 .. n - 1 /\ k \div n \in Nat /\ k = n * (k \div n) + (k % n)
<1>1. k % n \in 0 .. n - 1 /\ k \div n \in Nat OBVIOUS
<1>2. k = n * (k \div n) + (k % n) BY SMTT(30)
<1> QED BY <1>1, <1>2

LEMMA DivisionUnique ==
  ASSUME NEW n \in Nat \ {0}, NEW q \in Nat, NEW r \in 0 .. n - 1
  PROVE  (n * q + r) \div n = q /\ (n * q + r) % n = r
<1> DEFINE k == n * q + r
           p == k \div n
           s == k % n
<1>1. k \in Nat OBVIOUS
<1>2. p \in Nat /\ s \in 0 .. n - 1 /\ k = n * p + s BY <1>1, DivisionFacts
<1> HIDE DEF p, s
<1>3. n * q \in Nat /\ n * p \in Nat /\ n * q + r = n * p + s BY <1>2
<1>4. \A a, b, c \in Nat : a <= b => a * c <= b * c OBVIOUS
<1>5. ~(p < q)
  <2> SUFFICES ASSUME p < q PROVE FALSE OBVIOUS
  <2>1. (p + 1) * n <= q * n BY <1>2, <1>4
  <2>2. (p + 1) * n = n * p + n /\ q * n = n * q BY <1>2
  <2> QED BY <1>2, <1>3, <2>1, <2>2
<1>6. ~(q < p)
  <2> SUFFICES ASSUME q < p PROVE FALSE OBVIOUS
  <2>1. (q + 1) * n <= p * n BY <1>2, <1>4
  <2>2. (q + 1) * n = n * q + n /\ p * n = n * p BY <1>2
  <2> QED BY <1>2, <1>3, <2>1, <2>2
<1>7. p = q BY <1>2, <1>5, <1>6
<1>8. s = r BY <1>2, <1>3, <1>7
<1> QED BY <1>7, <1>8 DEF p, s

LEMMA ModuloShift ==
  ASSUME NEW n \in Nat \ {0}, NEW q \in Nat, NEW k \in Nat
  PROVE  (n * q + k) % n = k % n
<1> DEFINE p == k \div n
           r == k % n
<1>1. p \in Nat /\ r \in 0 .. n - 1 /\ k = n * p + r BY DivisionFacts
<1> HIDE DEF p, r
<1>2. q + p \in Nat BY <1>1
<1>3. (n * (q + p) + r) % n = r BY <1>1, <1>2, DivisionUnique
<1>4. n * (q + p) = n * q + n * p BY <1>1
<1>5. n * q \in Nat /\ n * p \in Nat BY <1>1
<1>6. n * (q + p) + r = n * q + k BY <1>1, <1>4, <1>5
<1> QED BY <1>3, <1>6 DEF r

LEMMA Modulo ==
  ASSUME NEW n \in Nat \ {0}, NEW a \in Nat, NEW b \in Nat
  PROVE  /\ a % n \in Nat /\ (a < n => a % n = a)
         /\ ((a % n) + b) % n = (a + b) % n
         /\ ((a % n) * b) % n = (a * b) % n
<1> DEFINE q == a \div n
           r == a % n
<1>1. q \in Nat /\ r \in 0 .. n - 1 /\ a = n * q + r BY DivisionFacts
<1>2. a < n => a % n = a
  <2> HAVE a < n
  <2>1. (n * 0 + a) % n = a BY DivisionUnique
  <2> QED BY <2>1
<1> HIDE DEF q, r
<1>3. n * q \in Nat /\ r * b \in Nat /\ q * b \in Nat BY <1>1
<1>4. (n * q + (r + b)) % n = (r + b) % n
  <2>1. r + b \in Nat BY <1>1
  <2> QED BY <1>1, <2>1, ModuloShift
<1>5. n * q + (r + b) = a + b BY <1>1, <1>3
<1>6. (n * (q * b) + r * b) % n = (r * b) % n BY <1>3, ModuloShift
<1>7. n * (q * b) + r * b = a * b
  <2>1. (n * q + r) * b = (n * q) * b + r * b BY <1>1, <1>3
  <2>2. (n * q) * b = n * (q * b) BY <1>1
  <2> QED BY <1>1, <2>1, <2>2
<1>8. a % n = r BY DEF r
<1>9. r \in Nat BY <1>1
<1> QED BY <1>2, <1>4, <1>5, <1>6, <1>7, <1>8, <1>9

Same(n, a, b) == a % n = b % n

LEMMA SameRules ==
  ASSUME NEW n \in Nat \ {0}
  PROVE  /\ \A a : Same(n, a, a)
         /\ \A a \in Nat : Same(n, a % n, a) /\ a % n \in 0 .. n - 1
         /\ \A a, b : Same(n, a, b) => Same(n, b, a)
         /\ \A a, b, c : Same(n, a, b) /\ Same(n, b, c) => Same(n, a, c)
<1>1. \A a \in Nat : (a % n) % n = a % n /\ a % n \in 0 .. n - 1
  <2> TAKE a \in Nat
  <2> DEFINE r == a % n
  <2>1. r \in 0 .. n - 1 BY DivisionFacts
  <2> HIDE DEF r
  <2>2. r \in Nat /\ r < n BY <2>1
  <2>3. r % n = r BY <2>2, Modulo
  <2> QED BY <2>1, <2>3 DEF r
<1> QED BY <1>1 DEF Same

\* Numbers that are the same modulo n, added and multiplied.
LEMMA SameSums ==
  ASSUME NEW n \in Nat \ {0}, NEW a \in Nat, NEW b \in Nat, NEW c \in Nat, NEW d \in Nat,
         Same(n, a, c), Same(n, b, d)
  PROVE  Same(n, a + b, c + d)
<1>1. (a + b) % n = ((a % n) + b) % n /\ (c + b) % n = ((c % n) + b) % n BY Modulo
<1>2. (b + c) % n = ((b % n) + c) % n /\ (d + c) % n = ((d % n) + c) % n BY Modulo
<1>3. b + c = c + b /\ d + c = c + d OBVIOUS
<1> QED BY <1>1, <1>2, <1>3 DEF Same

LEMMA SameProducts ==
  ASSUME NEW n \in Nat \ {0}, NEW a \in Nat, NEW b \in Nat, NEW c \in Nat, NEW d \in Nat,
         Same(n, a, c), Same(n, b, d)
  PROVE  Same(n, a * b, c * d)
<1>1. (a * b) % n = ((a % n) * b) % n /\ (c * b) % n = ((c % n) * b) % n BY Modulo
<1>2. (b * c) % n = ((b % n) * c) % n /\ (d * c) % n = ((d % n) * c) % n BY Modulo
<1>3. b * c = c * b /\ d * c = c * d OBVIOUS
<1> QED BY <1>1, <1>2, <1>3 DEF Same

LEMMA SumModulo ==
  ASSUME NEW S, IsFiniteSet(S), NEW n \in Nat \ {0}, NEW f, NEW g,
         \A x \in S : f[x] \in Nat /\ g[x] \in Nat /\ Same(n, f[x], g[x])
  PROVE  Same(n, SumFunctionOnSet(f, S), SumFunctionOnSet(g, S))
<1> DEFINE T == {s \in SUBSET S : Same(n, SumFunctionOnSet(f, s), SumFunctionOnSet(g, s))}
<1>0. \A x \in S : f[x] \in Int /\ g[x] \in Int OBVIOUS
<1>1. {} \in T BY <1>0, SumFacts DEF Same
<1>2. ASSUME NEW s \in SUBSET S, NEW x \in S \ s, s \in T PROVE s \cup {x} \in T
  <2>1. SumFunctionOnSet(f, s \cup {x}) = f[x] + SumFunctionOnSet(f, s)
    BY <1>0, SumFacts
  <2>2. SumFunctionOnSet(g, s \cup {x}) = g[x] + SumFunctionOnSet(g, s)
    BY <1>0, SumFacts
  <2>3. s \cup {x} \in SUBSET S /\ IsFiniteSet(s) BY FiniteFacts
  <2>4. SumFunctionOnSet(f, s) \in Nat /\ SumFunctionOnSet(g, s) \in Nat
    BY <2>3, SumOfNaturals
  <2>5. Same(n, f[x] + SumFunctionOnSet(f, s), g[x] + SumFunctionOnSet(g, s))
    BY <1>2, <2>4, SameSums
  <2> QED BY <1>2, <2>1, <2>2, <2>3, <2>5
<1> HIDE DEF T
<1>3. SUBSET S \subseteq T BY <1>1, <1>2, SubsetsInduction
<1>4. S \in T BY <1>3
<1> QED BY <1>4 DEF T

LEMMA SumMultiplied ==
  ASSUME NEW S, IsFiniteSet(S), NEW c \in Int, NEW f, NEW g,
         \A x \in S : f[x] \in Int /\ g[x] = c * f[x]
  PROVE  SumFunctionOnSet(g, S) = c * SumFunctionOnSet(f, S)
<1> DEFINE T == {s \in SUBSET S : SumFunctionOnSet(g, s) = c * SumFunctionOnSet(f, s)}
<1>0. \A x \in S : f[x] \in Int /\ g[x] \in Int OBVIOUS
<1>1. {} \in T BY <1>0, SumFacts
<1>2. ASSUME NEW s \in SUBSET S, NEW x \in S \ s, s \in T PROVE s \cup {x} \in T
  <2>1. SumFunctionOnSet(f, s \cup {x}) = f[x] + SumFunctionOnSet(f, s)
    BY <1>0, SumFacts
  <2>2. SumFunctionOnSet(g, s \cup {x}) = g[x] + SumFunctionOnSet(g, s)
    BY <1>0, SumFacts
  <2>3. s \cup {x} \in SUBSET S OBVIOUS
  <2>4. SumFunctionOnSet(f, s) \in Int /\ f[x] \in Int BY <1>0, SumFacts
  <2>5. \A a, b \in Int : c * (a + b) = c * a + c * b OBVIOUS
  <2> QED BY <1>2, <2>1, <2>2, <2>3, <2>4, <2>5
<1> HIDE DEF T
<1>3. SUBSET S \subseteq T BY <1>1, <1>2, SubsetsInduction
<1>4. S \in T BY <1>3
<1> QED BY <1>4 DEF T

-----------------------------------------------------------------------------
(***************************************************************************)
(* Pointers to the rows of a matrix, and matrices as lists of rows.        *)
(***************************************************************************)
LEMMA BelowFacts ==
  ASSUME NEW n \in Nat
  PROVE  /\ IsFiniteSet(Below(n)) /\ Cardinality(Below(n)) = n
         /\ Below(n + 1) = Below(n) \cup {n} /\ n \notin Below(n)
         /\ n # 0 => n - 1 \in Nat /\ Below(n) = Below(n - 1) \cup {n - 1}
<1>1. IsFiniteSet(0 .. n - 1) /\ Cardinality(0 .. n - 1) = n
  <2>1. 0 \in Int /\ n - 1 \in Int OBVIOUS
  <2>2. IsFiniteSet(0 .. n - 1) /\ Cardinality(0 .. n - 1) = IF 0 > n - 1 THEN 0 ELSE (n - 1) - 0 + 1
    BY <2>1, FS_Interval
  <2> QED BY <2>2
<1> QED BY <1>1 DEF Below

LEMMA ScanRule ==
  ASSUME NEW n \in Nat, NEW count, \A k \in Below(n) : count[k] \in Nat
  PROVE  /\ Scan(n, count) \in [0 .. n -> Nat]
         /\ Scan(n, count)[0] = 0
         /\ \A i \in Below(n) : Scan(n, count)[i + 1] = Scan(n, count)[i] + count[i]
<1>1. \A i \in 0 .. n : Scan(n, count)[i] = SumFunctionOnSet(count, Below(i))
  BY DEF Scan
<1>2. \A i \in 0 .. n : SumFunctionOnSet(count, Below(i)) \in Nat
  <2> TAKE i \in 0 .. n
  <2>1. i \in Nat /\ Below(i) \subseteq Below(n) BY DEF Below
  <2>2. IsFiniteSet(Below(i)) BY <2>1, BelowFacts
  <2> QED BY <2>1, <2>2, SumOfNaturals
<1>3. SumFunctionOnSet(count, Below(0)) = 0
  <2>1. Below(0) = {} BY DEF Below
  <2>2. IsFiniteSet({}) BY FS_EmptySet
  <2> QED BY <2>1, <2>2, SumFacts
<1>4. \A i \in Below(n) : SumFunctionOnSet(count, Below(i + 1)) = SumFunctionOnSet(count, Below(i)) + count[i]
  <2> TAKE i \in Below(n)
  <2>1. i \in Nat /\ i + 1 \in Nat /\ Below(i + 1) \subseteq Below(n) BY DEF Below
  <2>2. Below(i + 1) = Below(i) \cup {i} /\ i \notin Below(i) BY <2>1, BelowFacts
  <2>3. IsFiniteSet(Below(i + 1)) BY <2>1, BelowFacts
  <2>4. \A k \in Below(i + 1) : count[k] \in Int BY <2>1
  <2>5. Summed(count, Below(i + 1)) BY <2>3, <2>4, SumIsSummed
  <2>6. Below(i) \in SUBSET Below(i + 1) /\ i \in Below(i + 1) \ Below(i) BY <2>2
  <2>7. SumFunctionOnSet(count, Below(i) \cup {i}) = count[i] + SumFunctionOnSet(count, Below(i))
    BY <2>5, <2>6 DEF Summed
  <2>8. SumFunctionOnSet(count, Below(i)) \in Nat BY <1>2, <2>1 DEF Below
  <2>9. count[i] \in Nat OBVIOUS
  <2>10. SumFunctionOnSet(count, Below(i + 1)) = count[i] + SumFunctionOnSet(count, Below(i))
    BY <2>2, <2>7
  <2> QED BY <2>8, <2>9, <2>10
<1>5. Scan(n, count) \in [0 .. n -> Nat] BY <1>1, <1>2 DEF Scan
<1>6. 0 \in 0 .. n /\ \A i \in Below(n) : i \in 0 .. n /\ i + 1 \in 0 .. n
  BY DEF Below
<1> QED BY <1>1, <1>3, <1>4, <1>5, <1>6

Pointers(ptr, n) ==
  ptr \in [0 .. n -> Nat] /\ ptr[0] = 0 /\ \A i \in Below(n) : ptr[i] <= ptr[i + 1]

LEMMA PointersAscend ==
  ASSUME NEW n \in Nat, NEW ptr, Pointers(ptr, n)
  PROVE  \A i, j \in 0 .. n : i <= j => ptr[i] <= ptr[j]
<1> DEFINE T == {k \in Nat : \A i, j \in 0 .. n : i <= j /\ j <= i + k => ptr[i] <= ptr[j]}
<1>1. \A i \in 0 .. n : ptr[i] \in Nat BY DEF Pointers
<1>2. 0 \in T
  <2>1. \A i, j \in 0 .. n : i <= j /\ j <= i + 0 => i = j OBVIOUS
  <2> QED BY <1>1, <2>1
<1>3. ASSUME NEW k \in Nat, k \in T PROVE k + 1 \in T
  <2> SUFFICES ASSUME NEW i \in 0 .. n, NEW j \in 0 .. n, i <= j, j <= i + (k + 1)
               PROVE  ptr[i] <= ptr[j]
    OBVIOUS
  <2>1. CASE j <= i + k BY <1>3, <2>1
  <2>2. CASE j = i + (k + 1)
    <3>1. j - 1 \in Below(n) /\ j - 1 \in 0 .. n /\ i <= j - 1 /\ j - 1 <= i + k /\ (j - 1) + 1 = j
      BY <2>2 DEF Below
    <3>2. ptr[i] <= ptr[j - 1] BY <1>3, <3>1
    <3>3. ptr[j - 1] <= ptr[(j - 1) + 1] BY <3>1 DEF Pointers
    <3> QED BY <1>1, <3>1, <3>2, <3>3
  <2> QED BY <2>1, <2>2
<1> HIDE DEF T
<1>4. Nat \subseteq T BY <1>2, <1>3, NumbersInduction
<1> SUFFICES ASSUME NEW i \in 0 .. n, NEW j \in 0 .. n, i <= j PROVE ptr[i] <= ptr[j] OBVIOUS
<1>5. n \in T /\ j <= i + n BY <1>4
<1> QED BY <1>5 DEF T

Span(ptr, i) == ptr[i] .. ptr[i + 1] - 1

LEMMA PointersCover ==
  ASSUME NEW n \in Nat, NEW ptr, Pointers(ptr, n)
  PROVE  /\ \A jj \in Below(ptr[n]) : \E i \in Below(n) : jj \in Span(ptr, i)
         /\ \A i \in Below(n) : Span(ptr, i) \subseteq Below(ptr[n])
         /\ \A i, j \in Below(n) : \A jj \in Span(ptr, i) : jj \in Span(ptr, j) => i = j
<1>1. \A i \in 0 .. n : ptr[i] \in Nat BY DEF Pointers
<1>2. \A i, j \in 0 .. n : i <= j => ptr[i] <= ptr[j] BY PointersAscend
<1>3. \A i \in Below(n) : i \in 0 .. n /\ i + 1 \in 0 .. n /\ i \in Nat /\ i < n
  BY DEF Below
<1>4. ASSUME NEW i \in Below(n) PROVE Span(ptr, i) \subseteq Below(ptr[n])
  <2>1. ptr[i] \in Nat /\ ptr[i + 1] \in Nat /\ ptr[n] \in Nat BY <1>1, <1>3
  <2>2. ptr[i + 1] <= ptr[n] BY <1>2, <1>3
  <2> QED BY <2>1, <2>2 DEF Span, Below
<1>5. ASSUME NEW i \in Below(n), NEW j \in Below(n), i < j, NEW jj \in Span(ptr, i)
      PROVE  jj \notin Span(ptr, j)
  <2>1. i + 1 <= j /\ i + 1 \in 0 .. n /\ j \in 0 .. n BY <1>3, <1>5
  <2>2. ptr[i + 1] <= ptr[j] BY <1>2, <2>1
  <2>3. ptr[i] \in Nat /\ ptr[i + 1] \in Nat /\ ptr[j] \in Nat BY <1>1, <1>3
  <2> QED BY <2>2, <2>3 DEF Span
<1>6. ASSUME NEW i \in Below(n), NEW j \in Below(n), NEW jj \in Span(ptr, i), jj \in Span(ptr, j)
      PROVE  i = j
  <2>1. ~(i < j) BY <1>5, <1>6
  <2>2. ~(j < i) BY <1>5, <1>6
  <2> QED BY <1>3, <2>1, <2>2
<1> DEFINE T == {k \in Nat : k <= n => \A jj \in Below(ptr[k]) : \E i \in Below(k) : jj \in Span(ptr, i)}
<1>7. 0 \in T BY DEF Below, Pointers
<1>8. ASSUME NEW k \in Nat, k \in T PROVE k + 1 \in T
  <2> SUFFICES ASSUME k + 1 <= n, NEW jj \in Below(ptr[k + 1])
               PROVE  \E i \in Below(k + 1) : jj \in Span(ptr, i)
    OBVIOUS
  <2>1. k \in Below(n) /\ k \in Below(k + 1) /\ Below(k) \subseteq Below(k + 1)
    BY DEF Below
  <2>2. ptr[k] \in Nat /\ ptr[k + 1] \in Nat BY <1>1, <1>3, <2>1
  <2>3. CASE jj \in Below(ptr[k])
    <3>1. \E i \in Below(k) : jj \in Span(ptr, i) BY <1>8, <2>3
    <3> QED BY <2>1, <3>1
  <2>4. CASE jj \notin Below(ptr[k])
    <3>1. jj \in Span(ptr, k) BY <2>2, <2>4 DEF Span, Below
    <3> QED BY <2>1, <3>1
  <2> QED BY <2>3, <2>4
<1> HIDE DEF T
<1>9. Nat \subseteq T BY <1>7, <1>8, NumbersInduction
<1>10. \A jj \in Below(ptr[n]) : \E i \in Below(n) : jj \in Span(ptr, i)
  BY <1>9 DEF T
<1> QED BY <1>4, <1>6, <1>10

\* The fields of a matrix; the list of its rows is in Lists.
IsMatrix(m) ==
  /\ m = [nbrows |-> m.nbrows, bs |-> m.bs, stor |-> m.stor, browptr |-> m.browptr,
          bcolind |-> m.bcolind, vals |-> m.vals, diagind |-> m.diagind]
  /\ m.nbrows \in Nat /\ m.bs \in Nat \ {0}

EntriesOf(n, V) == [col : Below(n), val : V]
Entries(m) == EntriesOf(m.nbrows, [Places(m) -> Scalars])
Lists(m) == [Rows(m) -> Seq(Entries(m))]

Stored(m) ==
  /\ IsMatrix(m)
  /\ Pointers(m.browptr, m.nbrows)
  /\ m.bcolind \in [Below(Nnzb(m)) -> Rows(m)]
  /\ m.vals \in [Below(Nnzb(m)) -> [Places(m) -> Scalars]]

LEMMA RowFacts ==
  ASSUME NEW m, Stored(m)
  PROVE  /\ \A i \in Rows(m) : Row(m, i) = Span(m.browptr, i)
         /\ \A i \in Rows(m) : /\ m.browptr[i] \in Nat /\ m.browptr[i + 1] \in Nat
                               /\ m.browptr[i] <= m.browptr[i + 1]
                               /\ m.browptr[i + 1] - m.browptr[i] \in Nat
         /\ \A i \in Rows(m) : Row(m, i) \subseteq Below(Nnzb(m))
         /\ \A jj \in Below(Nnzb(m)) : \E i \in Rows(m) : jj \in Row(m, i)
         /\ \A i, j \in Rows(m) : \A jj \in Row(m, i) : jj \in Row(m, j) => i = j
<1>1. m.nbrows \in Nat /\ Pointers(m.browptr, m.nbrows) BY DEF Stored, IsMatrix
<1>2. \A i \in Rows(m) : /\ m.browptr[i] \in Nat /\ m.browptr[i + 1] \in Nat
                         /\ m.browptr[i] <= m.browptr[i + 1]
                         /\ m.browptr[i + 1] - m.browptr[i] \in Nat
  <2> TAKE i \in Rows(m)
  <2>1. i \in 0 .. m.nbrows /\ i + 1 \in 0 .. m.nbrows BY <1>1 DEF Rows, Below
  <2>2. m.browptr[i] \in Nat /\ m.browptr[i + 1] \in Nat BY <1>1, <2>1 DEF Pointers
  <2>3. m.browptr[i] <= m.browptr[i + 1] BY <1>1 DEF Pointers, Rows
  <2> QED BY <2>2, <2>3
<1>3. \A i \in Rows(m) : Row(m, i) = Span(m.browptr, i) BY DEF Row, Span
<1> DEFINE p == m.browptr
           n == m.nbrows
<1>4. n \in Nat /\ Pointers(p, n) BY <1>1
<1> HIDE DEF p, n
<1>5. /\ \A jj \in Below(p[n]) : \E i \in Below(n) : jj \in Span(p, i)
      /\ \A i \in Below(n) : Span(p, i) \subseteq Below(p[n])
      /\ \A i, j \in Below(n) : \A jj \in Span(p, i) : jj \in Span(p, j) => i = j
  BY <1>4, PointersCover
<1>6. Rows(m) = Below(n) /\ Nnzb(m) = p[n] /\ m.browptr = p BY DEF p, n, Rows, Nnzb
<1>7. \A i \in Below(n) : Row(m, i) = Span(p, i) BY <1>3, <1>6
<1> QED BY <1>2, <1>3, <1>5, <1>6, <1>7

LEMMA RowListFacts ==
  ASSUME NEW m, Stored(m)
  PROVE  /\ RowList(m) \in Lists(m)
         /\ \A i \in Rows(m) : Len(RowList(m)[i]) = m.browptr[i + 1] - m.browptr[i]
         /\ \A i \in Rows(m) : \A jj \in Row(m, i) :
              /\ jj - m.browptr[i] + 1 \in 1 .. Len(RowList(m)[i])
              /\ RowList(m)[i][jj - m.browptr[i] + 1] = [col |-> m.bcolind[jj], val |-> m.vals[jj]]
         /\ \A i \in Rows(m) : \A q \in 1 .. Len(RowList(m)[i]) :
              /\ m.browptr[i] + q - 1 \in Row(m, i)
              /\ RowList(m)[i][q] = [col |-> m.bcolind[m.browptr[i] + q - 1],
                                     val |-> m.vals[m.browptr[i] + q - 1]]
<1> DEFINE n(i) == m.browptr[i + 1] - m.browptr[i]
           L == RowList(m)
           e(jj) == [col |-> m.bcolind[jj], val |-> m.vals[jj]]
<1>1. \A i \in Rows(m) : L[i] = [q \in 1 .. n(i) |-> e(m.browptr[i] + q - 1)]
  BY DEF RowList
<1>2. DOMAIN L = Rows(m) BY DEF RowList
<1>3. \A jj \in Below(Nnzb(m)) : e(jj) \in Entries(m)
  BY DEF Stored, Entries, EntriesOf, Rows
<1> HIDE DEF L
<1>4. ASSUME NEW i \in Rows(m)
      PROVE  /\ L[i] \in Seq(Entries(m)) /\ Len(L[i]) = n(i)
             /\ \A jj \in Row(m, i) : /\ jj - m.browptr[i] + 1 \in 1 .. n(i)
                                      /\ L[i][jj - m.browptr[i] + 1] = e(jj)
             /\ \A q \in 1 .. n(i) : /\ m.browptr[i] + q - 1 \in Row(m, i)
                                     /\ L[i][q] = e(m.browptr[i] + q - 1)
  <2> DEFINE a == m.browptr[i]
             b == m.browptr[i + 1]
  <2>1. a \in Nat /\ b \in Nat /\ b - a \in Nat BY RowFacts
  <2>2. Row(m, i) = a .. b - 1 BY DEF Row
  <2>3. Row(m, i) \subseteq Below(Nnzb(m)) BY RowFacts
  <2>4. L[i] = [q \in 1 .. b - a |-> e(a + q - 1)] BY <1>1
  <2> HIDE DEF a, b, e
  <2>5. \A q \in 1 .. b - a : a + q - 1 \in Row(m, i) BY <2>1, <2>2
  <2>6. \A jj \in Row(m, i) : jj - a + 1 \in 1 .. b - a /\ a + (jj - a + 1) - 1 = jj
    BY <2>1, <2>2
  <2>7. \A q \in 1 .. b - a : e(a + q - 1) \in Entries(m) BY <1>3, <2>3, <2>5
  <2>8. L[i] \in Seq(Entries(m)) /\ Len(L[i]) = b - a BY <2>1, <2>4, <2>7
  <2>9. \A jj \in Row(m, i) : L[i][jj - a + 1] = e(jj) BY <2>4, <2>6
  <2> QED BY <2>4, <2>5, <2>6, <2>8, <2>9 DEF a, b
<1> QED BY <1>1, <1>2, <1>4 DEF L, Lists, RowList

LEMMA Repacked ==
  ASSUME NEW m, IsMatrix(m), NEW a, NEW b, NEW c
  PROVE  [m EXCEPT !.browptr = a, !.bcolind = b, !.vals = c] =
           [nbrows |-> m.nbrows, bs |-> m.bs, stor |-> m.stor, browptr |-> a,
            bcolind |-> b, vals |-> c, diagind |-> m.diagind]
<1> DEFINE M(x, y, z) == [nbrows |-> m.nbrows, bs |-> m.bs, stor |-> m.stor, browptr |-> x,
                          bcolind |-> y, vals |-> z, diagind |-> m.diagind]
           m1 == [m EXCEPT !.browptr = a]
           m2 == [m1 EXCEPT !.bcolind = b]
<1>1. m = M(m.browptr, m.bcolind, m.vals) BY DEF IsMatrix
<1>2. m1 = M(a, m.bcolind, m.vals) BY <1>1
<1> HIDE DEF m1
<1>3. m2 = M(a, b, m.vals) BY <1>2
<1> HIDE DEF m2
<1>4. [m2 EXCEPT !.vals = c] = M(a, b, c) BY <1>3
<1> QED BY <1>4 DEF m1, m2

LEMMA PackedFacts ==
  ASSUME NEW m, IsMatrix(m), NEW rows \in Lists(m)
  PROVE  LET P == Packed(m, rows)
         IN /\ Stored(P)
            /\ P.nbrows = m.nbrows /\ P.bs = m.bs /\ P.stor = m.stor /\ P.diagind = m.diagind
            /\ RowList(P) = rows
<1> DEFINE n == m.nbrows
           count == [i \in Rows(m) |-> Len(rows[i])]
           ptr == Scan(n, count)
           At(jj) == CHOOSE i \in Rows(m) : jj \in ptr[i] .. ptr[i + 1] - 1
           Entry(jj) == rows[At(jj)][jj - ptr[At(jj)] + 1]
           cols == [jj \in Below(ptr[n]) |-> Entry(jj).col]
           vals == [jj \in Below(ptr[n]) |-> Entry(jj).val]
           P == [nbrows |-> n, bs |-> m.bs, stor |-> m.stor, browptr |-> ptr,
                 bcolind |-> cols, vals |-> vals, diagind |-> m.diagind]
<1>1. Packed(m, rows) = P
  <2>1. Packed(m, rows) = [m EXCEPT !.browptr = ptr, !.bcolind = cols, !.vals = vals]
    BY DEF Packed
  <2> HIDE DEF ptr, cols, vals
  <2> QED BY <2>1, Repacked
<1>2. n \in Nat /\ Rows(m) = Below(n) BY DEF IsMatrix, Rows
<1>3. \A i \in Rows(m) : rows[i] \in Seq(Entries(m)) /\ Len(rows[i]) \in Nat
  BY DEF Lists
<1>4. \A i \in Below(n) : count[i] = Len(rows[i]) /\ count[i] \in Nat BY <1>2, <1>3
<1> HIDE DEF count
<1>5. /\ ptr \in [0 .. n -> Nat] /\ ptr[0] = 0
      /\ \A i \in Below(n) : ptr[i + 1] = ptr[i] + count[i]
  BY <1>2, <1>4, ScanRule
<1> HIDE DEF ptr
<1>6. Pointers(ptr, n)
  <2> SUFFICES ASSUME NEW i \in Below(n) PROVE ptr[i] <= ptr[i + 1]
    BY <1>5 DEF Pointers
  <2>1. i \in 0 .. n BY <1>2 DEF Below
  <2>2. ptr[i] \in Nat /\ count[i] \in Nat BY <1>4, <1>5, <2>1
  <2> QED BY <1>5, <2>2
<1>7. ASSUME NEW i \in Below(n), NEW jj \in Span(ptr, i)
      PROVE  At(jj) = i /\ Entry(jj) = rows[i][jj - ptr[i] + 1] /\ Entry(jj) \in Entries(m)
             /\ jj - ptr[i] + 1 \in 1 .. Len(rows[i])
  <2>1. At(jj) \in Rows(m) /\ jj \in Span(ptr, At(jj)) BY <1>2, <1>7 DEF Span
  <2> HIDE DEF At
  <2>2. At(jj) = i BY <1>2, <1>6, <2>1, PointersCover
  <2>3. Entry(jj) = rows[i][jj - ptr[i] + 1] BY <2>2
  <2>4. ptr[i + 1] = ptr[i] + Len(rows[i]) BY <1>4, <1>5
  <2>5. ptr[i] \in Nat BY <1>2, <1>5 DEF Below
  <2>6. Len(rows[i]) \in Nat /\ rows[i] \in Seq(Entries(m)) BY <1>2, <1>3
  <2>7. jj - ptr[i] + 1 \in 1 .. Len(rows[i]) BY <2>4, <2>5, <2>6 DEF Span
  <2>8. rows[i][jj - ptr[i] + 1] \in Entries(m) BY <2>6, <2>7
  <2> QED BY <2>2, <2>3, <2>7, <2>8
<1>8. \A jj \in Below(ptr[n]) : \E i \in Below(n) : jj \in Span(ptr, i)
  BY <1>2, <1>6, PointersCover
<1>9. \A i \in Below(n) : Span(ptr, i) \subseteq Below(ptr[n])
  BY <1>2, <1>6, PointersCover
<1> HIDE DEF Entry, At
<1>10. \A jj \in Below(ptr[n]) : Entry(jj) \in Entries(m) BY <1>7, <1>8
<1>11. cols \in [Below(ptr[n]) -> Rows(m)] /\ vals \in [Below(ptr[n]) -> [Places(m) -> Scalars]]
  BY <1>10 DEF Entries, EntriesOf, Rows
<1>12. /\ \A jj \in Below(ptr[n]) : cols[jj] = Entry(jj).col /\ vals[jj] = Entry(jj).val
  OBVIOUS
<1> HIDE DEF cols, vals
<1>13. Stored(P) BY <1>2, <1>6, <1>11 DEF Stored, IsMatrix, Nnzb, Rows, Places
<1>14. RowList(P) = rows
  <2>1. Rows(P) = Rows(m) BY DEF Rows
  <2>2. RowList(P) \in Lists(P) BY <1>13, RowListFacts
  <2>3. RowList(P) = [i \in Rows(m) |-> RowList(P)[i]] /\ rows = [i \in Rows(m) |-> rows[i]]
    BY <2>1, <2>2 DEF Lists
  <2>4. ASSUME NEW i \in Rows(m) PROVE RowList(P)[i] = rows[i]
    <3> DEFINE r == RowList(P)[i]
    <3>1. r \in Seq(Entries(P)) /\ rows[i] \in Seq(Entries(m))
      BY <1>3, <2>1, <2>2 DEF Lists
    <3>2. Len(r) = ptr[i + 1] - ptr[i] BY <1>13, <2>1, RowListFacts
    <3>3. i \in Below(n) /\ ptr[i] \in Nat /\ ptr[i + 1] = ptr[i] + Len(rows[i])
      BY <1>2, <1>4, <1>5 DEF Below
    <3>4. Len(r) = Len(rows[i]) BY <1>3, <3>2, <3>3
    <3>5. ASSUME NEW q \in 1 .. Len(rows[i]) PROVE r[q] = rows[i][q]
      <4> DEFINE jj == ptr[i] + q - 1
      <4>1. jj \in Row(P, i) /\ r[q] = [col |-> cols[jj], val |-> vals[jj]]
        BY <1>13, <2>1, <3>4, RowListFacts
      <4>2. jj \in Span(ptr, i) BY <4>1 DEF Row, Span
      <4>3. jj - ptr[i] + 1 = q /\ q \in Nat BY <3>3
      <4> HIDE DEF jj
      <4>4. Entry(jj) = rows[i][q] /\ jj \in Below(ptr[n])
        BY <1>7, <1>9, <3>3, <4>2, <4>3
      <4>5. rows[i][q] \in Entries(m) BY <3>1
      <4>6. r[q] = [col |-> rows[i][q].col, val |-> rows[i][q].val]
        BY <1>12, <4>1, <4>4
      <4> QED BY <4>5, <4>6 DEF Entries, EntriesOf
    <3> HIDE DEF r
    <3>6. r = rows[i] BY <3>1, <3>4, <3>5
    <3> QED BY <3>6 DEF r
  <2> QED BY <2>3, <2>4
<1> HIDE DEF P
<1> QED BY <1>1, <1>13, <1>14 DEF P

\* The list of its rows says all of a matrix.
LEMMA SameMatrix ==
  ASSUME NEW m, Stored(m), NEW k, Stored(k), RowList(m) = RowList(k), m.nbrows = k.nbrows,
         m.bs = k.bs, m.stor = k.stor, m.diagind = k.diagind
  PROVE  m = k
<1> DEFINE n == m.nbrows
           p == m.browptr
           r == k.browptr
<1>1. n \in Nat /\ Rows(m) = Below(n) /\ Rows(k) = Below(n)
  BY DEF Stored, IsMatrix, Rows
<1>2. p \in [0 .. n -> Nat] /\ r \in [0 .. n -> Nat] /\ p[0] = 0 /\ r[0] = 0
  BY DEF Stored, Pointers
<1>3. ASSUME NEW i \in Below(n), p[i] = r[i] PROVE p[i + 1] = r[i + 1]
  <2>1. p[i + 1] - p[i] = r[i + 1] - r[i] BY <1>1, RowListFacts
  <2>2. i \in 0 .. n /\ i + 1 \in 0 .. n BY <1>1 DEF Below
  <2>3. p[i] \in Nat /\ p[i + 1] \in Nat /\ r[i] \in Nat /\ r[i + 1] \in Nat
    BY <1>2, <2>2
  <2> HIDE DEF p, r
  <2> QED BY <1>3, <2>1, <2>3
<1> DEFINE T == {i \in Nat : i <= n => p[i] = r[i]}
<1>4. 0 \in T BY <1>2
<1>5. ASSUME NEW i \in Nat, i \in T PROVE i + 1 \in T
  <2> SUFFICES ASSUME i + 1 <= n PROVE p[i + 1] = r[i + 1] OBVIOUS
  <2>1. i \in Below(n) /\ p[i] = r[i] BY <1>1, <1>5 DEF Below
  <2> QED BY <1>3, <2>1
<1> HIDE DEF T
<1>6. Nat \subseteq T BY <1>4, <1>5, NumbersInduction
<1>7. \A i \in 0 .. n : p[i] = r[i] BY <1>1, <1>6 DEF T
<1> HIDE DEF p, r, n
<1>8. p = r
  <2>1. p = [i \in 0 .. n |-> p[i]] /\ r = [i \in 0 .. n |-> r[i]] BY <1>2
  <2> QED BY <1>7, <2>1
<1>9. Nnzb(m) = Nnzb(k) BY <1>8 DEF Nnzb, p, r
<1>10. ASSUME NEW jj \in Below(Nnzb(m)) PROVE m.bcolind[jj] = k.bcolind[jj] /\ m.vals[jj] = k.vals[jj]
  <2>1. PICK i \in Rows(m) : jj \in Row(m, i) BY RowFacts
  <2>2. i \in Rows(k) /\ jj \in Row(k, i) BY <1>1, <1>8, <2>1 DEF Row, p, r
  <2> DEFINE q == jj - p[i] + 1
  <2>3. RowList(m)[i][q] = [col |-> m.bcolind[jj], val |-> m.vals[jj]]
    BY <2>1, RowListFacts DEF p
  <2>4. RowList(k)[i][q] = [col |-> k.bcolind[jj], val |-> k.vals[jj]]
    BY <1>8, <2>2, RowListFacts DEF p, r
  <2> QED BY <2>3, <2>4
<1>11. m.bcolind = k.bcolind /\ m.vals = k.vals
  <2>1. /\ m.bcolind \in [Below(Nnzb(m)) -> Rows(m)] /\ k.bcolind \in [Below(Nnzb(m)) -> Rows(k)]
        /\ m.vals \in [Below(Nnzb(m)) -> [Places(m) -> Scalars]]
        /\ k.vals \in [Below(Nnzb(m)) -> [Places(k) -> Scalars]]
    BY <1>9 DEF Stored
  <2> QED BY <1>10, <2>1
<1>12. m = [nbrows |-> m.nbrows, bs |-> m.bs, stor |-> m.stor, browptr |-> m.browptr,
            bcolind |-> m.bcolind, vals |-> m.vals, diagind |-> m.diagind]
  BY DEF Stored, IsMatrix
<1>13. k = [nbrows |-> k.nbrows, bs |-> k.bs, stor |-> k.stor, browptr |-> k.browptr,
            bcolind |-> k.bcolind, vals |-> k.vals, diagind |-> k.diagind]
  BY DEF Stored, IsMatrix
<1> QED BY <1>8, <1>11, <1>12, <1>13 DEF p, r

-----------------------------------------------------------------------------
(***************************************************************************)
(* sortBlockInnerDimension sorts.                                          *)
(***************************************************************************)
LEMMA PermutationsCompose ==
  ASSUME NEW D, NEW p, IsPermutation(p, D), NEW r, IsPermutation(r, D),
         NEW c \in [D -> D], \A q \in D : c[q] = p[r[q]]
  PROVE  IsPermutation(c, D)
<1>2. \A a, b \in D : c[a] = c[b] => a = b BY DEF IsPermutation
<1>3. ASSUME NEW d \in D PROVE \E a \in D : c[a] = d
  <2>1. PICK e \in D : p[e] = d BY DEF IsPermutation
  <2>2. PICK a \in D : r[a] = e BY DEF IsPermutation
  <2> QED BY <2>1, <2>2
<1> QED BY <1>2, <1>3 DEF IsPermutation

Largest(s, last) ==
  CHOOSE q \in 1 .. last :
    /\ \A r \in 1 .. last : s[r].col <= s[q].col
    /\ \A r \in 1 .. q - 1 : s[r].col < s[q].col

LEMMA LargestExists ==
  ASSUME NEW s, NEW last \in Nat \ {0}, \A r \in 1 .. last : s[r].col \in Int
  PROVE  /\ Largest(s, last) \in 1 .. last
         /\ \A r \in 1 .. last : s[r].col <= s[Largest(s, last)].col
<1> DEFINE c(r) == s[r].col
           T == {k \in Nat : k + 1 <= last =>
                   \E q \in 1 .. k + 1 : /\ \A r \in 1 .. k + 1 : c(r) <= c(q)
                                         /\ \A r \in 1 .. q - 1 : c(r) < c(q)}
<1>1. \A r \in 1 .. last : c(r) \in Int OBVIOUS
<1> HIDE DEF c
<1>2. 0 \in T
  <2>1. CASE 1 <= last
    <3>1. \A r \in 1 .. 1 : c(r) <= c(1) BY <1>1, <2>1
    <3>2. 1 .. 1 - 1 = {} OBVIOUS
    <3>3. 1 \in 1 .. 0 + 1 /\ 1 .. 0 + 1 = 1 .. 1 OBVIOUS
    <3> QED BY <3>1, <3>2, <3>3
  <2> QED BY <2>1
<1>3. ASSUME NEW k \in Nat, k \in T PROVE k + 1 \in T
  <2> SUFFICES ASSUME (k + 1) + 1 <= last
               PROVE  \E q \in 1 .. (k + 1) + 1 :
                        /\ \A r \in 1 .. (k + 1) + 1 : c(r) <= c(q)
                        /\ \A r \in 1 .. q - 1 : c(r) < c(q)
    OBVIOUS
  <2>1. k + 1 <= last OBVIOUS
  <2>2. PICK q \in 1 .. k + 1 : /\ \A r \in 1 .. k + 1 : c(r) <= c(q)
                                /\ \A r \in 1 .. q - 1 : c(r) < c(q)
    BY <1>3, <2>1
  <2> DEFINE z == (k + 1) + 1
  <2>3. z \in 1 .. last /\ q \in 1 .. z /\ q \in 1 .. last OBVIOUS
  <2>4. \A r \in 1 .. z : r = z \/ r \in 1 .. k + 1 OBVIOUS
  <2>5. 1 .. z - 1 = 1 .. k + 1 OBVIOUS
  <2>6. c(z) \in Int /\ c(q) \in Int BY <1>1, <2>3
  <2>7. CASE c(z) <= c(q) BY <2>2, <2>3, <2>4, <2>7
  <2>8. CASE c(q) < c(z)
    <3>1. \A r \in 1 .. k + 1 : c(r) < c(z)
      <4> TAKE r \in 1 .. k + 1
      <4>1. r \in 1 .. last /\ c(r) <= c(q) BY <2>1, <2>2
      <4> QED BY <1>1, <2>6, <2>8, <4>1
    <3>2. \A r \in 1 .. z : c(r) <= c(z) BY <2>4, <2>6, <3>1, <1>1
    <3>3. z \in 1 .. z OBVIOUS
    <3> HIDE DEF z
    <3> QED BY <2>5, <3>1, <3>2, <3>3 DEF z
  <2> QED BY <2>6, <2>7, <2>8
<1> HIDE DEF T
<1>4. Nat \subseteq T BY <1>2, <1>3, NumbersInduction
<1>5. last - 1 \in T /\ (last - 1) + 1 = last BY <1>4
<1>6. \E q \in 1 .. last : /\ \A r \in 1 .. last : c(r) <= c(q)
                           /\ \A r \in 1 .. q - 1 : c(r) < c(q)
  BY <1>5 DEF T
<1> QED BY <1>6 DEF Largest, c

Swapped(s, i) ==
  LET last == Len(s) - i
  IN [s EXCEPT ![last] = s[Largest(s, last)], ![Largest(s, last)] = s[last]]

\* The elements with keys, by their number.
Keyed(E) == \A e \in E : e.col \in Int

\* The last k elements are the largest, and in order.
SortedFrom(t, n, k) ==
  \A b \in 1 .. n : b > n - k => \A a \in 1 .. b : t[a].col <= t[b].col

Rearranged(t, s, n) ==
  \E p : IsPermutation(p, 1 .. n) /\ \A q \in 1 .. n : t[q] = s[p[q]]

LEMMA SwapFacts ==
  ASSUME NEW E, Keyed(E), NEW n \in Nat, NEW s \in [1 .. n -> E], NEW k \in Nat, k + 1 <= n
  PROVE  /\ Swapped(s, k) \in [1 .. n -> E]
         /\ Rearranged(Swapped(s, k), s, n)
         /\ SortedFrom(s, n, k) => SortedFrom(Swapped(s, k), n, k + 1)
<1> DEFINE last == n - k
           pos == Largest(s, last)
           t == Swapped(s, k)
           p == [q \in 1 .. n |-> IF q = last THEN pos ELSE IF q = pos THEN last ELSE q]
<1>1. Len(s) = n
  <2>1. s \in Seq(E) OBVIOUS
  <2> QED BY <2>1
<1>2. last \in Nat \ {0} /\ last \in 1 .. n OBVIOUS
<1>3. \A r \in 1 .. n : s[r] \in E /\ s[r].col \in Int BY DEF Keyed
<1>4. \A r \in 1 .. last : s[r].col \in Int BY <1>2, <1>3
<1> HIDE DEF last
<1>5. pos \in 1 .. last /\ \A r \in 1 .. last : s[r].col <= s[pos].col
  BY <1>2, <1>4, LargestExists
<1>6. t = [s EXCEPT ![last] = s[pos], ![pos] = s[last]] BY <1>1 DEF Swapped, last
<1> HIDE DEF pos, t
<1>7. pos \in 1 .. n BY <1>2, <1>5
<1>8. IsPermutation(p, 1 .. n)
  <2>1. p \in [1 .. n -> 1 .. n] BY <1>2, <1>7
  <2>2. \A d \in 1 .. n : p[p[d]] = d BY <1>2, <1>7
  <2> HIDE DEF p
  <2> QED BY <2>1, <2>2 DEF IsPermutation
<1>9. t = [q \in 1 .. n |-> s[p[q]]]
  <2>1. t \in [1 .. n -> E] BY <1>2, <1>3, <1>6, <1>7
  <2>2. \A q \in 1 .. n : t[q] = s[p[q]] BY <1>2, <1>6, <1>7
  <2>3. t = [q \in 1 .. n |-> t[q]] BY <2>1
  <2> HIDE DEF p
  <2> QED BY <2>2, <2>3
<1>10. t \in [1 .. n -> E] BY <1>3, <1>8, <1>9 DEF IsPermutation
<1>11. ASSUME SortedFrom(s, n, k) PROVE SortedFrom(t, n, k + 1)
  <2> SUFFICES ASSUME NEW b \in 1 .. n, b > n - (k + 1), NEW a \in 1 .. b
               PROVE  t[a].col <= t[b].col
    BY DEF SortedFrom
  <2>1. a \in 1 .. n /\ b >= last BY DEF last
  <2>2. t[a] = s[p[a]] /\ t[b] = s[p[b]] BY <1>9, <2>1
  <2>3. \A q \in 1 .. last : p[q] \in 1 .. last BY <1>2, <1>5
  <2>4. \A q \in 1 .. n : q > last => p[q] = q BY <1>2, <1>5
  <2>5. p[last] = pos BY <1>2
  <2>6. CASE b = last
    <3>1. p[a] \in 1 .. last BY <1>2, <2>3, <2>6
    <3> QED BY <1>5, <2>2, <2>5, <2>6, <3>1
  <2>7. CASE b > last
    <3>1. t[b] = s[b] BY <2>2, <2>4, <2>7
    <3>2. p[a] \in 1 .. b
      <4>1. CASE a > last BY <2>1, <2>4, <4>1
      <4>2. CASE a <= last
        <5>2. a \in 1 .. last BY <1>2, <2>1, <4>2
        <5> HIDE DEF p
        <5>1. p[a] \in 1 .. last BY <2>3, <5>2
        <5> QED BY <1>2, <2>7, <5>1
      <4> QED BY <1>2, <2>1, <4>1, <4>2
    <3>3. b > n - k BY <2>7 DEF last
    <3> HIDE DEF p
    <3> QED BY <1>11, <2>2, <3>1, <3>2, <3>3 DEF SortedFrom
  <2> QED BY <1>2, <2>1, <2>6, <2>7
<1> HIDE DEF p
<1>12. Rearranged(t, s, n) BY <1>8, <1>9 DEF Rearranged
<1> QED BY <1>10, <1>11, <1>12 DEF t

\* The state of the loop after the steps of a set of them, which are done in order.
SortRule(g, row, N) ==
  \A S \in SUBSET (1 .. N) :
    g[S] = IF S = {} THEN row ELSE Swapped(g[S \ {Max(S)}], Max(S) - 1)

LEMMA MaxFacts ==
  ASSUME NEW N \in Nat, NEW S \in SUBSET (1 .. N), S # {}
  PROVE  Max(S) \in S /\ \A x \in S : x <= Max(S)
<1> DEFINE T == {k \in Nat : \A U \in SUBSET (1 .. k) : U # {} => \E x \in U : \A y \in U : x >= y}
<1>1. 0 \in T
  <2>1. 1 .. 0 = {} OBVIOUS
  <2>2. \A U \in SUBSET (1 .. 0) : U = {} BY <2>1
  <2> QED BY <2>2
<1>2. ASSUME NEW k \in Nat, k \in T PROVE k + 1 \in T
  <2> SUFFICES ASSUME NEW U \in SUBSET (1 .. k + 1), U # {}
               PROVE  \E x \in U : \A y \in U : x >= y
    OBVIOUS
  <2>1. CASE k + 1 \in U BY <2>1
  <2>2. CASE k + 1 \notin U
    <3>1. U \in SUBSET (1 .. k) BY <2>2
    <3> QED BY <1>2, <3>1
  <2> QED BY <2>1, <2>2
<1> HIDE DEF T
<1>3. Nat \subseteq T BY <1>1, <1>2, NumbersInduction
<1>4. \E x \in S : \A y \in S : x >= y BY <1>3 DEF T
<1>5. Max(S) \in S /\ \A y \in S : Max(S) >= y BY <1>4 DEF Max
<1>6. \A x \in S : x \in Int OBVIOUS
<1> QED BY <1>5, <1>6

LEMMA SortExists ==
  ASSUME NEW E, Keyed(E), NEW n \in Nat, NEW row \in [1 .. n -> E], NEW N \in Nat, N < n \/ N = 0
  PROVE  \E g \in [SUBSET (1 .. N) -> [1 .. n -> E]] : SortRule(g, row, N)
<1> DEFINE D == 1 .. N
           V == [1 .. n -> E]
           next == [S \in SUBSET D |-> Max(S)]
           op == [x \in D \X V |-> Swapped(x[2], x[1] - 1)]
<1>1. \A S \in SUBSET D : next[S] = Max(S) OBVIOUS
<1>2. \A S \in SUBSET D : S # {} => Max(S) \in S BY MaxFacts
<1>3. ASSUME NEW k \in D, NEW s \in V PROVE Swapped(s, k - 1) \in V
  <2>1. k - 1 \in Nat /\ (k - 1) + 1 <= n OBVIOUS
  <2> QED BY <2>1, SwapFacts
<1>4. op \in [D \X V -> V] BY <1>3
<1>5. \A k \in D, s \in V : op[<<k, s>>] = Swapped(s, k - 1) OBVIOUS
<1>6. IsFiniteSet(D) BY FS_Interval
<1>7. row \in V OBVIOUS
<1> HIDE DEF D, V, next, op
<1>8. Chooses(D, next) BY <1>1, <1>2 DEF Chooses
<1>9. \E g \in [SUBSET D -> V] : FoldRule(g, D, next, row, op)
  BY <1>4, <1>6, <1>7, <1>8, FoldExists, Zenon
<1>10. PICK g \in [SUBSET D -> V] : FoldRule(g, D, next, row, op) BY <1>9
<1>11. ASSUME NEW S \in SUBSET D, S # {} PROVE g[S] = Swapped(g[S \ {Max(S)}], Max(S) - 1)
  <2>1. Max(S) \in D /\ S \ {Max(S)} \in SUBSET D BY <1>2, <1>11
  <2>2. g[S \ {Max(S)}] \in V BY <2>1
  <2> QED BY <1>1, <1>5, <1>10, <1>11, <2>1, <2>2 DEF FoldRule
<1>12. g[{}] = row BY <1>10 DEF FoldRule
<1>13. SortRule(g, row, N) BY <1>11, <1>12 DEF SortRule, D
<1> QED BY <1>13 DEF D, V

LEMMA SortIsRule ==
  ASSUME NEW row, NEW N \in Nat, N = (IF row = <<>> THEN 0 ELSE Len(row) - 1),
         NEW g, SortRule(g, row, N)
  PROVE  SortBlockInnerDimension(row) = g[1 .. N]
<1> DEFINE seq == [i \in 1 .. N |-> i - 1]
           F(h) == [S \in SUBSET (1 .. N) |->
                      IF S = {} THEN row ELSE Swapped(h[S \ {Max(S)}], seq[Max(S)])]
           iter == CHOOSE h : h = F(h)
           k == [S \in SUBSET (1 .. N) |-> g[S]]
<1>1. \A S \in SUBSET (1 .. N) : S # {} => /\ Max(S) \in S /\ S \ {Max(S)} \in SUBSET (1 .. N)
                                           /\ seq[Max(S)] = Max(S) - 1
  <2> TAKE S \in SUBSET (1 .. N)
  <2> HAVE S # {}
  <2>1. Max(S) \in S BY MaxFacts
  <2> QED BY <2>1
<1>2. DOMAIN seq = 1 .. N OBVIOUS
<1>3. SortBlockInnerDimension(row) = iter[1 .. N]
  BY <1>2 DEF SortBlockInnerDimension, FoldLeft, MapThenFoldSet, Swapped, Largest
<1> HIDE DEF seq
<1>4. k = F(k) BY <1>1 DEF SortRule
<1>5. iter = F(iter) BY <1>4
<1>6. \A S \in SUBSET (1 .. N) :
        iter[S] = IF S = {} THEN row ELSE Swapped(iter[S \ {Max(S)}], Max(S) - 1)
  BY <1>1, <1>5
<1> HIDE DEF iter, F, k
<1> DEFINE T == {S \in SUBSET (1 .. N) : g[S] = iter[S]}
<1>7. {} \in T BY <1>6 DEF SortRule
<1>8. ASSUME NEW S \in SUBSET (1 .. N), S # {}, \A x \in S : S \ {x} \in T PROVE S \in T
  <2>1. S \ {Max(S)} \in T BY <1>1, <1>8
  <2> QED BY <1>6, <1>8, <2>1 DEF SortRule
<1> HIDE DEF T
<1>9. IsFiniteSet(1 .. N) BY FS_Interval
<1>10. SUBSET (1 .. N) \subseteq T BY <1>7, <1>8, <1>9, FiniteInduction
<1>11. 1 .. N \in T BY <1>10
<1> QED BY <1>3, <1>11 DEF T

LEMMA SortSorts ==
  ASSUME NEW E, Keyed(E), NEW row \in Seq(E)
  PROVE  LET s == SortBlockInnerDimension(row)
         IN /\ s \in Seq(E) /\ Len(s) = Len(row)
            /\ Rearranged(s, row, Len(row))
            /\ \A b \in 1 .. Len(row) : \A a \in 1 .. b : s[a].col <= s[b].col
<1> DEFINE n == Len(row)
           N == IF row = <<>> THEN 0 ELSE Len(row) - 1
           V == [1 .. n -> E]
<1>1. n \in Nat /\ N \in Nat /\ (N < n \/ N = 0) /\ n <= N + 1 /\ row \in [1 .. n -> E]
  <2>1. row = <<>> <=> Len(row) = 0 BY EmptySeq
  <2> QED BY <2>1
<1>2. PICK g \in [SUBSET (1 .. N) -> V] : SortRule(g, row, N)
  <2> HIDE DEF N, n
  <2> QED BY <1>1, SortExists
<1>3. SortBlockInnerDimension(row) = g[1 .. N]
  <2>1. N = (IF row = <<>> THEN 0 ELSE Len(row) - 1) OBVIOUS
  <2> HIDE DEF N
  <2> QED BY <1>1, <1>2, <2>1, SortIsRule, ZenonT(60)
<1> HIDE DEF N, n
<1> DEFINE Good(k, s) == /\ s \in V
                         /\ Rearranged(s, row, n)
                         /\ SortedFrom(s, n, k)
           T == {k \in Nat : k <= N => Good(k, g[1 .. k])}
<1>4. 0 \in T
  <2>1. 1 .. 0 = {} OBVIOUS
  <2>2. g[1 .. 0] = row BY <1>2, <2>1 DEF SortRule
  <2> DEFINE p == [q \in 1 .. n |-> q]
  <2>3. IsPermutation(p, 1 .. n) BY DEF IsPermutation
  <2>4. \A q \in 1 .. n : row[q] = row[p[q]] OBVIOUS
  <2>5. SortedFrom(row, n, 0) BY <1>1 DEF SortedFrom
  <2> HIDE DEF p
  <2>6. Rearranged(row, row, n) BY <2>3, <2>4 DEF Rearranged
  <2> QED BY <1>1, <2>2, <2>5, <2>6
<1> HIDE DEF Good
<1>5. ASSUME NEW k \in Nat, k \in T PROVE k + 1 \in T
  <2> SUFFICES ASSUME k + 1 <= N PROVE Good(k + 1, g[1 .. k + 1]) OBVIOUS
  <2> DEFINE s == g[1 .. k]
             S == 1 .. k + 1
  <2>1. S \in SUBSET (1 .. N) /\ S # {}
    <3>1. 1 \in S OBVIOUS
    <3>2. \A x \in S : x \in 1 .. N BY <1>1
    <3> QED BY <3>1, <3>2
  <2>2. Max(S) = k + 1
    <3>1. Max(S) \in S /\ \A x \in S : x <= Max(S) BY <1>1, <2>1, MaxFacts
    <3>2. k + 1 \in S OBVIOUS
    <3> QED BY <3>1, <3>2
  <2>3. S \ {k + 1} = 1 .. k OBVIOUS
  <2>4. (k + 1) - 1 = k OBVIOUS
  <2> HIDE DEF S
  <2>5. g[S] = Swapped(s, k) BY <1>2, <2>1, <2>2, <2>3, <2>4 DEF SortRule
  <2>6. Good(k, s) /\ k + 1 <= n BY <1>1, <1>5
  <2> DEFINE t == Swapped(s, k)
  <2> HIDE DEF s
  <2>7. /\ t \in [1 .. n -> E]
        /\ Rearranged(t, s, n)
        /\ SortedFrom(t, n, k + 1)
    <3>1. s \in [1 .. n -> E] /\ SortedFrom(s, n, k) BY <2>6 DEF Good
    <3> QED BY <1>1, <2>6, <3>1, SwapFacts
  <2> HIDE DEF t
  <2>8. Rearranged(t, row, n)
    <3>1. PICK p : IsPermutation(p, 1 .. n) /\ \A q \in 1 .. n : s[q] = row[p[q]]
      BY <2>6 DEF Good, Rearranged
    <3>2. PICK r : IsPermutation(r, 1 .. n) /\ \A q \in 1 .. n : t[q] = s[r[q]]
      BY <2>7 DEF Rearranged
    <3> DEFINE c == [q \in 1 .. n |-> p[r[q]]]
    <3>4. \A q \in 1 .. n : r[q] \in 1 .. n BY <3>2 DEF IsPermutation
    <3>5. \A q \in 1 .. n : t[q] = row[c[q]] /\ c[q] = p[r[q]] BY <3>1, <3>2, <3>4
    <3>6. c \in [1 .. n -> 1 .. n] BY <3>1, <3>4 DEF IsPermutation
    <3> HIDE DEF c
    <3>3. IsPermutation(c, 1 .. n)
      <4> DEFINE D == 1 .. n
      <4>1. /\ IsPermutation(p, D) /\ IsPermutation(r, D) /\ c \in [D -> D]
            /\ \A q \in D : c[q] = p[r[q]]
        BY <3>1, <3>2, <3>5, <3>6
      <4> HIDE DEF D
      <4>2. IsPermutation(c, D) BY <4>1, PermutationsCompose
      <4> QED BY <4>2 DEF D
    <3> QED BY <3>3, <3>5 DEF Rearranged
  <2> QED BY <2>5, <2>7, <2>8 DEF S, t, Good
<1> HIDE DEF T
<1>6. Nat \subseteq T BY <1>4, <1>5, NumbersInduction
<1>7. Good(N, g[1 .. N]) BY <1>1, <1>6 DEF T
<1> DEFINE s == g[1 .. N]
<1>8. s \in Seq(E) /\ Len(s) = n BY <1>1, <1>7 DEF Good
<1>9. ASSUME NEW b \in 1 .. n, NEW a \in 1 .. b PROVE s[a].col <= s[b].col
  <2>1. CASE b > n - N BY <1>7, <2>1 DEF SortedFrom, Good
  <2>2. CASE ~(b > n - N)
    <3>1. a = b BY <1>1, <2>2
    <3>2. s[b] \in E BY <1>7 DEF Good
    <3> QED BY <3>1, <3>2 DEF Keyed
  <2> QED BY <2>1, <2>2
<1> HIDE DEF s
<1>10. Rearranged(s, row, n) BY <1>7 DEF s, Good
<1>11. SortBlockInnerDimension(row) = s BY <1>3 DEF s
<1> QED BY <1>8, <1>9, <1>10, <1>11 DEF n

\* A number is its own place in an order of numbers below n.
LEMMA AscendingIsIdentity ==
  ASSUME NEW n \in Nat, NEW p \in [1 .. n -> 1 .. n],
         \A a, b \in 1 .. n : a < b => p[a] < p[b]
  PROVE  \A a \in 1 .. n : p[a] = a
<1> DEFINE T == {k \in Nat : k + 1 <= n => p[k + 1] >= k + 1}
           U == {k \in Nat : k < n => p[n - k] <= n - k}
<1>1. \A a \in 1 .. n : p[a] \in 1 .. n OBVIOUS
<1>2. 0 \in T BY <1>1
<1>3. ASSUME NEW k \in Nat, k \in T PROVE k + 1 \in T
  <2> SUFFICES ASSUME (k + 1) + 1 <= n PROVE p[(k + 1) + 1] >= (k + 1) + 1 OBVIOUS
  <2>1. k + 1 \in 1 .. n /\ (k + 1) + 1 \in 1 .. n OBVIOUS
  <2>2. p[k + 1] < p[(k + 1) + 1] /\ p[k + 1] >= k + 1 BY <1>3, <2>1
  <2>3. p[k + 1] \in Int /\ p[(k + 1) + 1] \in Int BY <1>1, <2>1
  <2> QED BY <2>2, <2>3
<1>4. 0 \in U BY <1>1
<1>5. ASSUME NEW k \in Nat, k \in U PROVE k + 1 \in U
  <2> SUFFICES ASSUME k + 1 < n PROVE p[n - (k + 1)] <= n - (k + 1) OBVIOUS
  <2>1. n - k \in 1 .. n /\ n - (k + 1) \in 1 .. n /\ n - (k + 1) < n - k OBVIOUS
  <2>2. p[n - (k + 1)] < p[n - k] /\ p[n - k] <= n - k BY <1>5, <2>1
  <2>3. p[n - (k + 1)] \in Int /\ p[n - k] \in Int BY <1>1, <2>1
  <2> QED BY <2>2, <2>3
<1> HIDE DEF T, U
<1>6. Nat \subseteq T BY <1>2, <1>3, NumbersInduction
<1>7. Nat \subseteq U BY <1>4, <1>5, NumbersInduction
<1> TAKE a \in 1 .. n
<1>8. a - 1 \in T /\ (a - 1) + 1 = a /\ n - a \in U /\ n - (n - a) = a BY <1>6, <1>7
<1>9. p[a] >= a BY <1>8 DEF T
<1>10. p[a] <= a BY <1>8 DEF U
<1> QED BY <1>1, <1>9, <1>10

-----------------------------------------------------------------------------
(***************************************************************************)
(* A reordering renames the columns of a row and sorts it.  What is        *)
(* renamed back is, once it is sorted, what it was if that was sorted.     *)
(***************************************************************************)
RenamedBy(s, row, names) ==
  \E p : /\ IsPermutation(p, 1 .. Len(row))
         /\ \A q \in 1 .. Len(row) : s[q].col = names[row[p[q]].col] /\ s[q].val = row[p[q]].val

Ascending(s) == \A a, b \in 1 .. Len(s) : a < b => s[a].col < s[b].col

LEMMA RenamedFacts ==
  ASSUME NEW n \in Nat, NEW V, NEW names, IsPermutation(names, Below(n)),
         NEW row \in Seq(EntriesOf(n, V))
  PROVE  /\ Renamed(row, names) \in Seq(EntriesOf(n, V))
         /\ Len(Renamed(row, names)) = Len(row)
         /\ RenamedBy(Renamed(row, names), row, names)
         /\ \A b \in 1 .. Len(row) : \A a \in 1 .. b :
              Renamed(row, names)[a].col <= Renamed(row, names)[b].col
<1> DEFINE E == EntriesOf(n, V)
           k == Len(row)
           u == [q \in DOMAIN row |-> [row[q] EXCEPT !.col = names[@]]]
           s == SortBlockInnerDimension(u)
<1> HIDE DEF E
<1>0. row \in Seq(E) BY DEF E
<1>1. k \in Nat /\ DOMAIN row = 1 .. k /\ \A q \in 1 .. k : row[q] \in E BY <1>0
<1> USE DEF E, EntriesOf
<1>2. \A q \in 1 .. k : /\ u[q] = [row[q] EXCEPT !.col = names[row[q].col]]
                        /\ u[q].col = names[row[q].col] /\ u[q].val = row[q].val
                        /\ u[q] \in E
  <2> TAKE q \in 1 .. k
  <2>1. row[q] \in E BY <1>1
  <2>2. u[q] = [row[q] EXCEPT !.col = names[row[q].col]] BY <1>1
  <2>3. names[row[q].col] \in Below(n) BY <2>1 DEF IsPermutation
  <2> HIDE DEF u
  <2> QED BY <2>1, <2>2, <2>3
<1>3. u \in Seq(E) /\ Len(u) = k
  <2>1. u = [q \in 1 .. k |-> u[q]] BY <1>1
  <2> HIDE DEF u, E
  <2>2. \A q \in 1 .. k : u[q] \in E BY <1>2
  <2> QED BY <1>1, <2>1, <2>2
<1>4. Keyed(E) BY DEF Keyed, Below
<1>5. Renamed(row, names) = s BY DEF Renamed
<1> HIDE DEF u, E, EntriesOf
<1>6. /\ s \in Seq(E) /\ Len(s) = k /\ Rearranged(s, u, k)
      /\ \A b \in 1 .. k : \A a \in 1 .. b : s[a].col <= s[b].col
  BY <1>3, <1>4, SortSorts
<1> HIDE DEF s
<1>7. RenamedBy(s, row, names)
  <2>1. PICK p : IsPermutation(p, 1 .. k) /\ \A q \in 1 .. k : s[q] = u[p[q]]
    BY <1>6 DEF Rearranged
  <2>2. \A q \in 1 .. k : p[q] \in 1 .. k BY <2>1 DEF IsPermutation
  <2>3. \A q \in 1 .. k : s[q].col = names[row[p[q]].col] /\ s[q].val = row[p[q]].val
    BY <1>2, <2>1, <2>2
  <2> HIDE DEF k
  <2>4. \E r : /\ IsPermutation(r, 1 .. k)
               /\ \A q \in 1 .. k : s[q].col = names[row[r[q]].col] /\ s[q].val = row[r[q]].val
    BY <2>1, <2>3
  <2> QED BY <2>4 DEF RenamedBy, k
<1> QED BY <1>5, <1>6, <1>7 DEF E

LEMMA RenamedBack ==
  ASSUME NEW n \in Nat, NEW V, NEW f, IsPermutation(f, Below(n)), NEW g, IsPermutation(g, Below(n)),
         \A v \in Below(n) : g[f[v]] = v,
         NEW row \in Seq(EntriesOf(n, V)), Ascending(row)
  PROVE  Renamed(Renamed(row, f), g) = row
<1> DEFINE E == EntriesOf(n, V)
           k == Len(row)
           D == 1 .. k
           s == Renamed(row, f)
           t == Renamed(s, g)
<1>1. s \in Seq(E) /\ Len(s) = k /\ RenamedBy(s, row, f) BY RenamedFacts
<1> HIDE DEF s
<1>2. t \in Seq(E) /\ Len(t) = k /\ RenamedBy(t, s, g)
      /\ \A b \in 1 .. k : \A a \in 1 .. b : t[a].col <= t[b].col
  BY <1>1, RenamedFacts
<1> HIDE DEF t
<1>3. PICK p : /\ IsPermutation(p, D)
               /\ \A q \in D : s[q].col = f[row[p[q]].col] /\ s[q].val = row[p[q]].val
  BY <1>1 DEF RenamedBy
<1>4. PICK r : /\ IsPermutation(r, D)
               /\ \A q \in D : t[q].col = g[s[r[q]].col] /\ t[q].val = s[r[q]].val
  BY <1>1, <1>2 DEF RenamedBy
<1> DEFINE c == [q \in D |-> p[r[q]]]
<1>5. k \in Nat /\ \A q \in D : row[q] \in E /\ t[q] \in E
  <2> HIDE DEF E
  <2>1. row \in Seq(E) BY DEF E
  <2> QED BY <1>2, <2>1
<1>6. \A q \in D : p[q] \in D /\ r[q] \in D BY <1>3, <1>4 DEF IsPermutation
<1>7. c \in [D -> D] /\ \A q \in D : c[q] = p[r[q]] BY <1>6
<1> HIDE DEF D, c
<1>8. IsPermutation(c, D) BY <1>3, <1>4, <1>7, PermutationsCompose
<1>9. ASSUME NEW q \in D PROVE t[q] = row[c[q]]
  <2>1. r[q] \in D /\ c[q] = p[r[q]] /\ c[q] \in D BY <1>6, <1>7
  <2>2. row[c[q]].col \in Below(n) BY <1>5, <2>1 DEF EntriesOf
  <2>3. t[q].col = row[c[q]].col BY <1>3, <1>4, <2>1, <2>2
  <2>4. t[q].val = row[c[q]].val BY <1>3, <1>4, <2>1
  <2>5. t[q] \in E /\ row[c[q]] \in E BY <1>5, <2>1
  <2> HIDE DEF E
  <2>6. \A x, y \in E : x.col = y.col /\ x.val = y.val => x = y BY DEF E, EntriesOf
  <2> QED BY <2>3, <2>4, <2>5, <2>6
<1>10. ASSUME NEW a \in D, NEW b \in D, a < b PROVE c[a] < c[b]
  <2>1. c[a] \in D /\ c[b] \in D /\ c[a] # c[b]
    <3>1. a # b BY <1>10 DEF D
    <3> QED BY <1>7, <1>8, <3>1 DEF IsPermutation
  <2>2. t[a].col <= t[b].col BY <1>2, <1>10 DEF D
  <2>3. t[a] = row[c[a]] /\ t[b] = row[c[b]] BY <1>9
  <2>4. row[c[a]].col \in Int /\ row[c[b]].col \in Int
    BY <1>5, <2>1 DEF Below, EntriesOf
  <2>5. ~(c[b] < c[a])
    <3>1. c[b] < c[a] => row[c[b]].col < row[c[a]].col BY <2>1 DEF Ascending, D
    <3> QED BY <2>2, <2>3, <2>4, <3>1
  <2> QED BY <2>1, <2>5 DEF D
<1>11. \A a \in D : c[a] = a BY <1>5, <1>7, <1>10, AscendingIsIdentity DEF D
<1>12. \A q \in D : t[q] = row[q] BY <1>9, <1>11
<1> HIDE DEF E
<1>13. row \in Seq(E) BY DEF E
<1>14. t = row BY <1>2, <1>12, <1>13 DEF D
<1> QED BY <1>14 DEF t, s

-----------------------------------------------------------------------------
(***************************************************************************)
(* Reordering and scaling, forward and back.                               *)
(***************************************************************************)
\* An ordering and scaling of n block rows and columns, as setOrdering makes it.
OrdersRows(o, n) ==
  /\ o.rp # None => IsPermutation(o.rp, Below(n))
  /\ o.cp # None => /\ IsPermutation(o.cp, Below(n)) /\ o.icp \in [Below(n) -> Below(n)]
                    /\ \A v \in Below(n) : o.cp[o.icp[v]] = v
  /\ o.rowscale # None => o.rowscale \in [Below(n) -> Units]
  /\ o.colscale # None => o.colscale \in [Below(n) -> Units]

LEMMA InverseIsPermutation ==
  ASSUME NEW D, NEW p, IsPermutation(p, D), NEW r \in [D -> D], \A v \in D : p[r[v]] = v
  PROVE  IsPermutation(r, D) /\ \A v \in D : r[p[v]] = v
<1>1. \A v \in D : r[p[v]] = v
  <2> TAKE v \in D
  <2>1. p[v] \in D BY DEF IsPermutation
  <2>2. r[p[v]] \in D /\ p[r[p[v]]] = p[v] BY <2>1
  <2> QED BY <2>2 DEF IsPermutation
<1>2. \A a, b \in D : r[a] = r[b] => a = b
  <2> SUFFICES ASSUME NEW a \in D, NEW b \in D, r[a] = r[b] PROVE a = b OBVIOUS
  <2>1. p[r[a]] = a /\ p[r[b]] = b OBVIOUS
  <2> QED BY <2>1
<1>3. \A d \in D : \E a \in D : r[a] = d BY <1>1 DEF IsPermutation
<1> QED BY <1>1, <1>2, <1>3 DEF IsPermutation

\* Each row of the list.
ForwardRow(m, o, i) == IF o.rp = None THEN RowList(m)[i] ELSE RowList(m)[o.rp[i]]

SameFrame(k, m) == k.nbrows = m.nbrows /\ k.bs = m.bs /\ k.stor = m.stor /\ k.diagind = m.diagind

LEMMA SameFrameFacts ==
  ASSUME NEW k, NEW m, SameFrame(k, m)
  PROVE  /\ k.nbrows = m.nbrows /\ k.bs = m.bs /\ k.stor = m.stor /\ k.diagind = m.diagind
         /\ Rows(k) = Rows(m) /\ Places(k) = Places(m) /\ Dim(k) = Dim(m)
         /\ Entries(k) = Entries(m) /\ Lists(k) = Lists(m)
BY DEF SameFrame, Rows, Places, Dim, Entries, Lists

LEMMA ForwardFacts ==
  ASSUME NEW m, Stored(m), NEW o, OrdersRows(o, m.nbrows)
  PROVE  /\ Stored(OrderedForward(m, o)) /\ SameFrame(OrderedForward(m, o), m)
         /\ \A i \in Rows(m) :
              /\ ForwardRow(m, o, i) \in Seq(Entries(m))
              /\ RowList(OrderedForward(m, o))[i] =
                   IF o.cp = None THEN ForwardRow(m, o, i) ELSE Renamed(ForwardRow(m, o, i), o.icp)
<1> DEFINE n == m.nbrows
           V == [Places(m) -> Scalars]
           L == RowList(m)
           rows == IF o.rp = None THEN L ELSE [i \in Rows(m) |-> L[o.rp[i]]]
           new == IF o.cp = None THEN rows ELSE [i \in Rows(m) |-> Renamed(rows[i], o.icp)]
<1>1. n \in Nat /\ Rows(m) = Below(n) BY DEF Stored, IsMatrix, Rows
<1>2. L \in [Below(n) -> Seq(EntriesOf(n, V))]
  BY <1>1, RowListFacts DEF Lists, Entries
<1>3. OrderedForward(m, o) = Packed(m, new) BY DEF OrderedForward
<1>4. \A i \in Below(n) : rows[i] = ForwardRow(m, o, i) BY <1>1 DEF ForwardRow
<1> HIDE DEF n, V, L
<1>5. rows \in [Below(n) -> Seq(EntriesOf(n, V))]
  <2>1. CASE o.rp = None BY <1>2, <2>1
  <2>2. CASE o.rp # None
    <3>1. IsPermutation(o.rp, Below(n)) BY <2>2 DEF OrdersRows, n
    <3>2. \A i \in Below(n) : L[o.rp[i]] \in Seq(EntriesOf(n, V))
      BY <1>2, <3>1 DEF IsPermutation
    <3> QED BY <1>1, <2>2, <3>2
  <2> QED BY <2>1, <2>2
<1> HIDE DEF rows
<1>6. new \in [Below(n) -> Seq(EntriesOf(n, V))]
  <2>1. CASE o.cp = None BY <1>5, <2>1
  <2>2. CASE o.cp # None
    <3>1. IsPermutation(o.icp, Below(n))
      BY <2>2, InverseIsPermutation DEF OrdersRows, n
    <3>2. \A i \in Below(n) : Renamed(rows[i], o.icp) \in Seq(EntriesOf(n, V))
      BY <1>1, <1>5, <3>1, RenamedFacts
    <3> QED BY <1>1, <2>2, <3>2
  <2> QED BY <2>1, <2>2
<1>7. new \in Lists(m) BY <1>1, <1>6 DEF Lists, Entries, n, V
<1>8. \A i \in Below(n) : new[i] = IF o.cp = None THEN rows[i] ELSE Renamed(rows[i], o.icp)
  BY <1>1
<1> HIDE DEF new
<1>9. IsMatrix(m) BY DEF Stored
<1> DEFINE P == Packed(m, new)
<1>10. /\ Stored(P)
       /\ P.nbrows = m.nbrows /\ P.bs = m.bs /\ P.stor = m.stor /\ P.diagind = m.diagind
       /\ RowList(P) = new
  BY <1>7, <1>9, PackedFacts
<1> HIDE DEF P
<1>11. OrderedForward(m, o) = P BY <1>3 DEF P
<1>12. \A i \in Below(n) : ForwardRow(m, o, i) \in Seq(Entries(m))
  BY <1>4, <1>5 DEF Entries, n, V
<1> QED BY <1>1, <1>4, <1>8, <1>10, <1>11, <1>12 DEF SameFrame

Placed(o, n, d) == CHOOSE i \in Below(n) : o.rp[i] = d

LEMMA InverseFacts ==
  ASSUME NEW m, Stored(m), NEW o, OrdersRows(o, m.nbrows)
  PROVE  /\ Stored(OrderedInverse(m, o)) /\ SameFrame(OrderedInverse(m, o), m)
         /\ o.rp # None => \A d \in Rows(m) : /\ Placed(o, m.nbrows, d) \in Rows(m)
                                              /\ o.rp[Placed(o, m.nbrows, d)] = d
         /\ \A d \in Rows(m) :
              LET old == IF o.rp = None THEN RowList(m)[d]
                         ELSE RowList(m)[Placed(o, m.nbrows, d)]
              IN RowList(OrderedInverse(m, o))[d] =
                   IF o.cp = None THEN old ELSE Renamed(old, o.cp)
<1> DEFINE n == m.nbrows
           V == [Places(m) -> Scalars]
           L == RowList(m)
           rows == IF o.rp = None THEN L
                   ELSE [d \in Rows(m) |-> L[CHOOSE i \in Rows(m) : o.rp[i] = d]]
           new == IF o.cp = None THEN rows ELSE [i \in Rows(m) |-> Renamed(rows[i], o.cp)]
<1>1. n \in Nat /\ Rows(m) = Below(n) BY DEF Stored, IsMatrix, Rows
<1>2. L \in [Below(n) -> Seq(EntriesOf(n, V))]
  BY <1>1, RowListFacts DEF Lists, Entries
<1>3. OrderedInverse(m, o) = Packed(m, new) BY DEF OrderedInverse
<1>4. \A d \in Below(n) : rows[d] = IF o.rp = None THEN L[d] ELSE L[Placed(o, n, d)]
  BY <1>1 DEF Placed
<1> HIDE DEF n, V, L
<1>5. ASSUME o.rp # None, NEW d \in Below(n)
      PROVE  Placed(o, n, d) \in Below(n) /\ o.rp[Placed(o, n, d)] = d
  <2>1. IsPermutation(o.rp, Below(n)) BY <1>5 DEF OrdersRows, n
  <2>2. \E i \in Below(n) : o.rp[i] = d BY <1>5, <2>1 DEF IsPermutation
  <2> QED BY <2>2 DEF Placed
<1>6. rows \in [Below(n) -> Seq(EntriesOf(n, V))]
  <2>1. CASE o.rp = None BY <1>2, <2>1
  <2>2. CASE o.rp # None
    <3>1. rows = [d \in Below(n) |-> rows[d]] BY <1>1, <2>2
    <3> HIDE DEF rows
    <3>2. \A d \in Below(n) : rows[d] \in Seq(EntriesOf(n, V))
      <4> TAKE d \in Below(n)
      <4>1. rows[d] = L[Placed(o, n, d)] BY <1>4, <2>2
      <4>2. Placed(o, n, d) \in Below(n) BY <1>5, <2>2
      <4> QED BY <1>2, <4>1, <4>2
    <3> QED BY <3>1, <3>2
  <2> QED BY <2>1, <2>2
<1> HIDE DEF rows
<1>7. new \in [Below(n) -> Seq(EntriesOf(n, V))]
  <2>1. CASE o.cp = None BY <1>6, <2>1
  <2>2. CASE o.cp # None
    <3>1. IsPermutation(o.cp, Below(n)) BY <2>2 DEF OrdersRows, n
    <3>2. \A i \in Below(n) : Renamed(rows[i], o.cp) \in Seq(EntriesOf(n, V))
      BY <1>1, <1>6, <3>1, RenamedFacts
    <3> QED BY <1>1, <2>2, <3>2
  <2> QED BY <2>1, <2>2
<1>8. new \in Lists(m) BY <1>1, <1>7 DEF Lists, Entries, n, V
<1>9. \A i \in Below(n) : new[i] = IF o.cp = None THEN rows[i] ELSE Renamed(rows[i], o.cp)
  BY <1>1
<1> HIDE DEF new
<1>10. IsMatrix(m) BY DEF Stored
<1> DEFINE P == Packed(m, new)
<1>11. /\ Stored(P)
       /\ P.nbrows = m.nbrows /\ P.bs = m.bs /\ P.stor = m.stor /\ P.diagind = m.diagind
       /\ RowList(P) = new
  BY <1>8, <1>10, PackedFacts
<1> HIDE DEF P
<1>12. OrderedInverse(m, o) = P BY <1>3 DEF P
<1>13. Stored(P) /\ SameFrame(P, m) BY <1>11 DEF SameFrame
<1>14. \A d \in Below(n) :
         RowList(P)[d] = LET old == IF o.rp = None THEN L[d] ELSE L[Placed(o, n, d)]
                         IN IF o.cp = None THEN old ELSE Renamed(old, o.cp)
  BY <1>4, <1>9, <1>11
<1> QED BY <1>1, <1>5, <1>12, <1>13, <1>14 DEF n, L

\* A reordering that is undone.
LEMMA OrderUndone ==
  ASSUME NEW m, Stored(m), NEW o, OrdersRows(o, m.nbrows),
         \A i \in Rows(m) : Ascending(RowList(m)[i])
  PROVE  OrderedInverse(OrderedForward(m, o), o) = m
<1> DEFINE n == m.nbrows
           V == [Places(m) -> Scalars]
           L == RowList(m)
           F == OrderedForward(m, o)
           I == OrderedInverse(F, o)
<1>1. n \in Nat /\ Rows(m) = Below(n) BY DEF Stored, IsMatrix, Rows
<1>2. L \in [Below(n) -> Seq(EntriesOf(n, V))]
  BY <1>1, RowListFacts DEF Lists, Entries
<1>3. /\ Stored(F) /\ SameFrame(F, m)
      /\ \A i \in Below(n) : RowList(F)[i] =
           IF o.cp = None THEN ForwardRow(m, o, i) ELSE Renamed(ForwardRow(m, o, i), o.icp)
  BY <1>1, ForwardFacts
<1> HIDE DEF F
<1>4. F.nbrows = n /\ Rows(F) = Below(n) /\ OrdersRows(o, F.nbrows)
  BY <1>1, <1>3, SameFrameFacts
<1>5. /\ Stored(I) /\ SameFrame(I, F)
      /\ o.rp # None => \A d \in Below(n) : /\ Placed(o, n, d) \in Below(n)
                                            /\ o.rp[Placed(o, n, d)] = d
      /\ \A d \in Below(n) :
           LET old == IF o.rp = None THEN RowList(F)[d] ELSE RowList(F)[Placed(o, n, d)]
           IN RowList(I)[d] = IF o.cp = None THEN old ELSE Renamed(old, o.cp)
  BY <1>3, <1>4, InverseFacts
<1> HIDE DEF I
<1>6. ASSUME NEW d \in Below(n) PROVE RowList(I)[d] = L[d]
  <2> DEFINE old == IF o.rp = None THEN RowList(F)[d] ELSE RowList(F)[Placed(o, n, d)]
  <2>1. RowList(I)[d] = IF o.cp = None THEN old ELSE Renamed(old, o.cp) BY <1>5
  <2>2. old = IF o.cp = None THEN L[d] ELSE Renamed(L[d], o.icp)
    <3>1. CASE o.rp = None BY <1>3, <3>1 DEF ForwardRow
    <3>2. CASE o.rp # None BY <1>3, <1>5, <3>2 DEF ForwardRow
    <3> QED BY <3>1, <3>2
  <2> HIDE DEF old
  <2>3. CASE o.cp = None BY <2>1, <2>2, <2>3
  <2>4. CASE o.cp # None
    <3>1. /\ IsPermutation(o.cp, Below(n)) /\ o.icp \in [Below(n) -> Below(n)]
          /\ \A v \in Below(n) : o.cp[o.icp[v]] = v
      BY <2>4 DEF OrdersRows
    <3>2. IsPermutation(o.icp, Below(n)) BY <3>1, InverseIsPermutation
    <3> HIDE DEF L, V, n
    <3>3. L[d] \in Seq(EntriesOf(n, V)) /\ Ascending(L[d]) BY <1>1, <1>2 DEF L
    <3>4. Renamed(Renamed(L[d], o.icp), o.cp) = L[d]
      BY <1>1, <3>1, <3>2, <3>3, RenamedBack
    <3> QED BY <2>1, <2>2, <2>4, <3>4
  <2> QED BY <2>3, <2>4
<1>7. RowList(I) = L
  <2>1. RowList(I) \in Lists(I) BY <1>5, RowListFacts
  <2>2. Rows(I) = Below(n) BY <1>1, <1>3, <1>5, SameFrameFacts
  <2>3. RowList(I) = [d \in Below(n) |-> RowList(I)[d]] BY <2>1, <2>2 DEF Lists
  <2>4. L = [d \in Below(n) |-> L[d]] BY <1>2
  <2> HIDE DEF L
  <2> QED BY <1>6, <2>3, <2>4
<1>8. I.nbrows = m.nbrows /\ I.bs = m.bs /\ I.stor = m.stor /\ I.diagind = m.diagind
  BY <1>3, <1>5 DEF SameFrame
<1>9. I = m BY <1>5, <1>7, <1>8, SameMatrix
<1> QED BY <1>9 DEF I, F

\* A reordering back that is undone; rows whose columns are renamed must be sorted.
LEMMA OrderDone ==
  ASSUME NEW m, Stored(m), NEW o, OrdersRows(o, m.nbrows),
         o.cp # None => \A i \in Rows(m) : Ascending(RowList(m)[i])
  PROVE  OrderedForward(OrderedInverse(m, o), o) = m
<1> DEFINE n == m.nbrows
           V == [Places(m) -> Scalars]
           L == RowList(m)
           I == OrderedInverse(m, o)
           F == OrderedForward(I, o)
<1>1. n \in Nat /\ Rows(m) = Below(n) BY DEF Stored, IsMatrix, Rows
<1>2. L \in [Below(n) -> Seq(EntriesOf(n, V))]
  BY <1>1, RowListFacts DEF Lists, Entries
<1>3. /\ Stored(I) /\ SameFrame(I, m)
      /\ o.rp # None => \A d \in Below(n) : /\ Placed(o, n, d) \in Below(n)
                                            /\ o.rp[Placed(o, n, d)] = d
      /\ \A d \in Below(n) :
           LET old == IF o.rp = None THEN L[d] ELSE L[Placed(o, n, d)]
           IN RowList(I)[d] = IF o.cp = None THEN old ELSE Renamed(old, o.cp)
  BY <1>1, InverseFacts
<1> HIDE DEF I
<1>4. I.nbrows = n /\ Rows(I) = Below(n) /\ OrdersRows(o, I.nbrows)
  BY <1>1, <1>3, SameFrameFacts
<1>5. /\ Stored(F) /\ SameFrame(F, I)
      /\ \A i \in Below(n) : RowList(F)[i] =
           IF o.cp = None THEN ForwardRow(I, o, i) ELSE Renamed(ForwardRow(I, o, i), o.icp)
  BY <1>3, <1>4, ForwardFacts
<1> HIDE DEF F, L
<1>6. ASSUME NEW i \in Below(n) PROVE RowList(F)[i] = L[i]
  <2> DEFINE d == IF o.rp = None THEN i ELSE o.rp[i]
  <2>1. d \in Below(n) /\ (o.rp # None => Placed(o, n, d) = i)
    <3>1. CASE o.rp = None BY <3>1
    <3>2. CASE o.rp # None
      <4>1. IsPermutation(o.rp, Below(n)) BY <3>2 DEF OrdersRows
      <4>2. d = o.rp[i] /\ d \in Below(n) BY <3>2, <4>1 DEF IsPermutation
      <4>3. Placed(o, n, d) \in Below(n) /\ o.rp[Placed(o, n, d)] = o.rp[i] BY <1>3, <3>2, <4>2
      <4>4. Placed(o, n, d) = i BY <4>1, <4>3 DEF IsPermutation
      <4> QED BY <4>2, <4>4
    <3> QED BY <3>1, <3>2
  <2>2. ForwardRow(I, o, i) = RowList(I)[d] BY DEF ForwardRow
  <2> HIDE DEF d
  <2>3. RowList(I)[d] = IF o.cp = None THEN L[i] ELSE Renamed(L[i], o.cp)
    <3>1. CASE o.rp = None
      <4>1. d = i BY <3>1 DEF d
      <4> QED BY <1>3, <3>1, <4>1
    <3>2. CASE o.rp # None BY <1>3, <2>1, <3>2
    <3> QED BY <3>1, <3>2
  <2>4. CASE o.cp = None BY <1>5, <2>2, <2>3, <2>4
  <2>5. CASE o.cp # None
    <3>1. /\ IsPermutation(o.cp, Below(n)) /\ o.icp \in [Below(n) -> Below(n)]
          /\ \A v \in Below(n) : o.cp[o.icp[v]] = v
      BY <2>5 DEF OrdersRows
    <3>2. IsPermutation(o.icp, Below(n)) /\ \A v \in Below(n) : o.icp[o.cp[v]] = v
      BY <3>1, InverseIsPermutation
    <3> HIDE DEF V, n
    <3>3. L[i] \in Seq(EntriesOf(n, V)) /\ Ascending(L[i]) BY <1>1, <1>2, <2>5 DEF L
    <3>4. Renamed(Renamed(L[i], o.cp), o.icp) = L[i]
      BY <1>1, <3>1, <3>2, <3>3, RenamedBack
    <3> QED BY <1>5, <2>2, <2>3, <2>5, <3>4
  <2> QED BY <2>4, <2>5
<1>7. RowList(F) = L
  <2>1. RowList(F) \in Lists(F) BY <1>5, RowListFacts
  <2>2. Rows(F) = Below(n) BY <1>4, <1>5, SameFrameFacts
  <2>3. RowList(F) = [d \in Below(n) |-> RowList(F)[d]] BY <2>1, <2>2 DEF Lists
  <2>4. L = [d \in Below(n) |-> L[d]] BY <1>2
  <2> QED BY <1>6, <2>3, <2>4
<1>8. F.nbrows = m.nbrows /\ F.bs = m.bs /\ F.stor = m.stor /\ F.diagind = m.diagind
  BY <1>3, <1>5 DEF SameFrame
<1>9. F = m BY <1>5, <1>7, <1>8, SameMatrix DEF L
<1> QED BY <1>9 DEF I, F

LEMMA Multiplied ==
  ASSUME Field, NEW v \in Nat, NEW a \in Nat, NEW b \in Nat
  PROVE  (v * a * b) % Mod \in Scalars /\ Same(Mod, (v * a * b) % Mod, v * a * b)
<1>1. v * a * b \in Nat OBVIOUS
<1> DEFINE x == v * a * b
<1> HIDE DEF x
<1>2. x % Mod \in 0 .. Mod - 1 /\ Same(Mod, x % Mod, x)
  BY <1>1, SameRules DEF Field, x
<1> QED BY <1>2 DEF x, Scalars, Below

LEMMA ReciprocalFacts ==
  ASSUME Field, NEW a \in Units
  PROVE  Reciprocal(a) \in Scalars /\ Same(Mod, a * Reciprocal(a), 1)
<1>1. Reciprocal(a) \in Scalars /\ (a * Reciprocal(a)) % Mod = 1
  BY DEF Field, Reciprocal
<1>2. Mod \in Nat \ {0} BY DEF Field
<1>3. 1 % Mod = 1
  <2>1. Mod > 1 BY <1>2 DEF Units, Scalars, Below
  <2> QED BY <1>2, <2>1, Modulo
<1> QED BY <1>1, <1>3 DEF Same

\* The factor of a scaling: 1 when it is left out.
Factor(scale, i) == IF scale = None THEN 1 ELSE scale[i]

LEMMA InversesFacts ==
  ASSUME Field, NEW D, NEW scale, scale # None => scale \in [D -> Units]
  PROVE  /\ \A i \in D : Factor(scale, i) \in Nat /\ Factor(Inverses(scale), i) \in Nat
         /\ \A i \in D : Same(Mod, Factor(scale, i) * Factor(Inverses(scale), i), 1)
         /\ Inverses(scale) # None => Inverses(scale) \in [D -> Scalars]
<1>1. Mod \in Nat \ {0} /\ Units \subseteq Nat /\ Scalars \subseteq Nat
  BY DEF Field, Units, Scalars, Below
<1>2. CASE scale = None
  <2>1. DOMAIN None = {}
    <3>1. None \in Seq({}) /\ Len(None) = 0 BY DEF None
    <3> QED BY <3>1
  <2>2. Inverses(scale) = None
    <3>1. Inverses(scale) = [i \in {} |-> Reciprocal(scale[i])]
      BY <1>2, <2>1 DEF Inverses
    <3> DEFINE f == [i \in {} |-> Reciprocal(scale[i])]
    <3>2. f \in Seq({}) /\ Len(f) = 0
      <4>1. 1 .. 0 = {} OBVIOUS
      <4>2. f \in [1 .. 0 -> {}] BY <4>1
      <4> QED BY <4>2
    <3> HIDE DEF f
    <3>3. f = <<>> BY <3>2, EmptySeq
    <3> QED BY <3>1, <3>3 DEF None, f
  <2>3. \A i \in D : Factor(scale, i) = 1 /\ Factor(Inverses(scale), i) = 1
    BY <1>2, <2>2 DEF Factor
  <2>4. Same(Mod, 1 * 1, 1) BY DEF Same
  <2> QED BY <2>2, <2>3, <2>4
<1>3. CASE scale # None
  <2>1. scale \in [D -> Units] BY <1>3
  <2>2. \A i \in D : Inverses(scale)[i] = Reciprocal(scale[i]) BY <2>1 DEF Inverses
  <2>3. \A i \in D : /\ scale[i] \in Units /\ Reciprocal(scale[i]) \in Scalars
                     /\ Same(Mod, scale[i] * Reciprocal(scale[i]), 1)
    BY <2>1, ReciprocalFacts
  <2>4. Inverses(scale) \in [D -> Scalars] BY <2>1, <2>3 DEF Inverses
  <2>5. CASE D = {} BY <2>4, <2>5
  <2>6. CASE D # {}
    <3>1. Inverses(scale) # None
      <4>1. DOMAIN Inverses(scale) = D BY <2>4
      <4>2. DOMAIN None = {}
        <5>1. None \in Seq({}) /\ Len(None) = 0 BY DEF None
        <5> QED BY <5>1
      <4> QED BY <2>6, <4>1, <4>2
    <3>2. \A i \in D : /\ Factor(scale, i) = scale[i]
                       /\ Factor(Inverses(scale), i) = Reciprocal(scale[i])
      BY <1>3, <2>2, <3>1 DEF Factor
    <3> QED BY <1>1, <2>3, <2>4, <3>2
  <2> QED BY <2>5, <2>6
<1> QED BY <1>2, <1>3

Scales(scale, n) == scale # None => scale \in [Below(n) -> Scalars]

LEMMA ScaledFacts ==
  ASSUME Field, NEW m, Stored(m), NEW r, Scales(r, m.nbrows), NEW c, Scales(c, m.nbrows)
  PROVE  LET s == ScaledBy(m, r, c)
         IN /\ Stored(s) /\ SameFrame(s, m) /\ s.browptr = m.browptr /\ s.bcolind = m.bcolind
            /\ \A i \in Rows(m) : \A jj \in Row(m, i) : \A k \in Places(m) :
                 s.vals[jj][k] = (m.vals[jj][k] * Factor(r, i) * Factor(c, m.bcolind[jj])) % Mod
<1> DEFINE s == ScaledBy(m, r, c)
           vals == [jj \in Below(Nnzb(m)) |-> [k \in Places(m) |->
                     (m.vals[jj][k] * Factor(r, RowOf(m, jj)) * Factor(c, m.bcolind[jj])) % Mod]]
           S == [nbrows |-> m.nbrows, bs |-> m.bs, stor |-> m.stor, browptr |-> m.browptr,
                 bcolind |-> m.bcolind, vals |-> vals, diagind |-> m.diagind]
<1>1. m = [nbrows |-> m.nbrows, bs |-> m.bs, stor |-> m.stor, browptr |-> m.browptr,
           bcolind |-> m.bcolind, vals |-> m.vals, diagind |-> m.diagind]
  BY DEF Stored, IsMatrix
<1>2. DOMAIN m.vals = Below(Nnzb(m)) /\ \A jj \in Below(Nnzb(m)) : DOMAIN m.vals[jj] = Places(m)
  BY DEF Stored
<1>3. s = [m EXCEPT !.vals = vals]
  BY <1>2 DEF ScaledBy, Valued, Factor
<1> HIDE DEF s, vals
<1>4. s = S BY <1>1, <1>3
<1>5. \A i \in Rows(m) : \A jj \in Row(m, i) : RowOf(m, jj) = i
  <2> SUFFICES ASSUME NEW i \in Rows(m), NEW jj \in Row(m, i) PROVE RowOf(m, jj) = i OBVIOUS
  <2>1. RowOf(m, jj) \in Rows(m) /\ jj \in Row(m, RowOf(m, jj)) BY DEF RowOf
  <2> QED BY <2>1, RowFacts
<1>6. ASSUME NEW i \in Rows(m), NEW jj \in Row(m, i), NEW k \in Places(m)
      PROVE  /\ jj \in Below(Nnzb(m))
             /\ vals[jj][k] = (m.vals[jj][k] * Factor(r, i) * Factor(c, m.bcolind[jj])) % Mod
             /\ vals[jj][k] \in Scalars
  <2>1. jj \in Below(Nnzb(m)) BY RowFacts
  <2>2. m.vals[jj][k] \in Scalars /\ m.bcolind[jj] \in Rows(m) BY <2>1 DEF Stored
  <2>3. Factor(r, i) \in Nat /\ Factor(c, m.bcolind[jj]) \in Nat
    <3>1. Scalars \subseteq Nat BY DEF Scalars, Below, Field
    <3>2. i \in Below(m.nbrows) /\ m.bcolind[jj] \in Below(m.nbrows)
      BY <2>2 DEF Rows
    <3>3. \A scale : Scales(scale, m.nbrows) => \A j \in Below(m.nbrows) : Factor(scale, j) \in Nat
      BY <3>1 DEF Scales, Factor
    <3> QED BY <3>2, <3>3
  <2>4. vals[jj][k] = (m.vals[jj][k] * Factor(r, i) * Factor(c, m.bcolind[jj])) % Mod
    BY <1>5, <2>1 DEF vals
  <2>5. m.vals[jj][k] \in Nat BY <2>2 DEF Scalars, Below
  <2> QED BY <2>1, <2>3, <2>4, <2>5, Multiplied
<1>7. vals \in [Below(Nnzb(m)) -> [Places(m) -> Scalars]]
  <2>1. \A jj \in Below(Nnzb(m)) : \A k \in Places(m) : vals[jj][k] \in Scalars
    BY <1>6, RowFacts
  <2>2. \A jj \in Below(Nnzb(m)) : vals[jj] = [k \in Places(m) |-> vals[jj][k]]
    BY DEF vals
  <2>3. vals = [jj \in Below(Nnzb(m)) |-> vals[jj]] BY DEF vals
  <2> QED BY <2>1, <2>2, <2>3
<1>8. Stored(S) BY <1>7 DEF Stored, IsMatrix, Nnzb, Rows, Places
<1>9. SameFrame(S, m) BY DEF SameFrame
<1> QED BY <1>4, <1>6, <1>8, <1>9 DEF s

\* Factors that undo each other.
Undoes(a, b, n) ==
  \A i \in Below(n) : /\ Factor(a, i) \in Nat /\ Factor(b, i) \in Nat
                       /\ Same(Mod, Factor(a, i) * Factor(b, i), 1)

LEMMA TwoScalings ==
  ASSUME Field, NEW m, Stored(m), NEW r, NEW c, NEW ri, NEW ci,
         Scales(r, m.nbrows), Scales(c, m.nbrows), Scales(ri, m.nbrows), Scales(ci, m.nbrows),
         Undoes(r, ri, m.nbrows), Undoes(c, ci, m.nbrows)
  PROVE  ScaledBy(ScaledBy(m, r, c), ri, ci) = m
<1> DEFINE n == m.nbrows
           s == ScaledBy(m, r, c)
           u == ScaledBy(s, ri, ci)
<1>1. Scales(r, n) /\ Scales(c, n) /\ Scales(ri, n) /\ Scales(ci, n) OBVIOUS
<1>5. /\ Stored(s) /\ SameFrame(s, m) /\ s.browptr = m.browptr /\ s.bcolind = m.bcolind
      /\ \A i \in Rows(m) : \A jj \in Row(m, i) : \A k \in Places(m) :
           s.vals[jj][k] = (m.vals[jj][k] * Factor(r, i) * Factor(c, m.bcolind[jj])) % Mod
  BY <1>1, ScaledFacts
<1> HIDE DEF s
<1>6. s.nbrows = n /\ Rows(s) = Rows(m) /\ Places(s) = Places(m)
  BY <1>5, SameFrameFacts
<1>7. Scales(ri, s.nbrows) /\ Scales(ci, s.nbrows) BY <1>1, <1>6
<1>8. \A i \in Rows(m) : Row(s, i) = Row(m, i) BY <1>5 DEF Row
<1>9. /\ Stored(u) /\ SameFrame(u, s) /\ u.browptr = s.browptr /\ u.bcolind = s.bcolind
      /\ \A i \in Rows(s) : \A jj \in Row(s, i) : \A k \in Places(s) :
           u.vals[jj][k] = (s.vals[jj][k] * Factor(ri, i) * Factor(ci, s.bcolind[jj])) % Mod
  <2>1. Field /\ Stored(s) /\ Scales(ri, s.nbrows) /\ Scales(ci, s.nbrows) BY <1>5, <1>7
  <2> QED BY <2>1, ScaledFacts
<1> HIDE DEF u
<1>10. ASSUME NEW i \in Rows(m), NEW jj \in Row(m, i), NEW k \in Places(m)
       PROVE  u.vals[jj][k] = m.vals[jj][k]
  <2> DEFINE j == m.bcolind[jj]
             v == m.vals[jj][k]
             w == s.vals[jj][k]
             z == u.vals[jj][k]
             a == Factor(r, i)
             ai == Factor(ri, i)
             b == Factor(c, j)
             bi == Factor(ci, j)
  <2>1. jj \in Below(Nnzb(m)) BY RowFacts
  <2>2. v \in Scalars /\ j \in Rows(m) BY <2>1 DEF Stored
  <2>3. i \in Below(n) /\ j \in Below(n) BY <2>2 DEF Rows
  <2>4. a \in Nat /\ ai \in Nat /\ b \in Nat /\ bi \in Nat /\ Same(Mod, a * ai, 1) /\ Same(Mod, b * bi, 1)
    BY <2>3 DEF Undoes
  <2>5. w = (v * a * b) % Mod BY <1>5
  <2>6. z = (w * ai * bi) % Mod BY <1>5, <1>6, <1>8, <1>9
  <2> HIDE DEF j, v, w, z, a, ai, b, bi
  <2>7. v \in Nat /\ v < Mod /\ Mod \in Nat \ {0} BY <2>2 DEF Scalars, Below, Field
  <2>8. w \in Scalars /\ Same(Mod, w, v * a * b) BY <2>4, <2>5, <2>7, Multiplied
  <2>9. w \in Nat BY <2>8 DEF Scalars, Below
  <2>10. z \in Scalars /\ Same(Mod, z, w * ai * bi) BY <2>4, <2>6, <2>9, Multiplied
  <2>11. Same(Mod, w * ai * bi, v)
    <3>1. ai * bi \in Nat /\ v * a * b \in Nat /\ a * ai \in Nat /\ b * bi \in Nat
      BY <2>4, <2>7
    <3>2. Same(Mod, ai * bi, ai * bi) BY DEF Same
    <3>3. Same(Mod, w * (ai * bi), (v * a * b) * (ai * bi))
      BY <2>7, <2>8, <2>9, <3>1, <3>2, SameProducts
    <3>4. Same(Mod, (a * ai) * (b * bi), 1 * 1) BY <2>4, <2>7, <3>1, SameProducts
    <3>5. Same(Mod, v, v) BY DEF Same
    <3>6. Same(Mod, v * ((a * ai) * (b * bi)), v * 1)
      <4>1. (a * ai) * (b * bi) \in Nat /\ 1 * 1 = 1 /\ 1 \in Nat BY <3>1
      <4> QED BY <2>7, <3>4, <3>5, <4>1, SameProducts
    <3>7. w * (ai * bi) = w * ai * bi BY <2>4, <2>9
    <3>8. v * ((a * ai) * (b * bi)) = (v * a * b) * (ai * bi) BY <2>4, <2>7
    <3>9. v * 1 = v BY <2>7
    <3> QED BY <2>7, <3>3, <3>6, <3>7, <3>8, <3>9, SameRules
  <2>12. Same(Mod, z, v) BY <2>7, <2>10, <2>11, SameRules
  <2>13. z \in Nat /\ z < Mod BY <2>10 DEF Scalars, Below, Field
  <2>14. z % Mod = z /\ v % Mod = v BY <2>7, <2>13, Modulo
  <2>15. z = v BY <2>12, <2>14 DEF Same
  <2> QED BY <2>15 DEF z, v
<1>11. u.vals = m.vals
  <2>1. /\ u.vals \in [Below(Nnzb(u)) -> [Places(u) -> Scalars]]
        /\ m.vals \in [Below(Nnzb(m)) -> [Places(m) -> Scalars]]
    BY <1>9 DEF Stored
  <2>2. Nnzb(u) = Nnzb(m) /\ Places(u) = Places(m)
    BY <1>5, <1>6, <1>9, SameFrameFacts DEF Nnzb
  <2>3. \A jj \in Below(Nnzb(m)) : \A k \in Places(m) : u.vals[jj][k] = m.vals[jj][k]
    BY <1>10, RowFacts
  <2>4. \A jj \in Below(Nnzb(m)) : u.vals[jj] = m.vals[jj]
    <3> TAKE jj \in Below(Nnzb(m))
    <3>1. u.vals[jj] \in [Places(m) -> Scalars] /\ m.vals[jj] \in [Places(m) -> Scalars]
      BY <2>1, <2>2
    <3> QED BY <2>3, <3>1
  <2> QED BY <2>1, <2>2, <2>4
<1>12. u = m
  <2>1. u = [nbrows |-> u.nbrows, bs |-> u.bs, stor |-> u.stor, browptr |-> u.browptr,
             bcolind |-> u.bcolind, vals |-> u.vals, diagind |-> u.diagind]
    BY <1>9 DEF Stored, IsMatrix
  <2>2. m = [nbrows |-> m.nbrows, bs |-> m.bs, stor |-> m.stor, browptr |-> m.browptr,
             bcolind |-> m.bcolind, vals |-> m.vals, diagind |-> m.diagind]
    BY DEF Stored, IsMatrix
  <2> QED BY <1>5, <1>9, <1>11, <2>1, <2>2 DEF SameFrame
<1> QED BY <1>12 DEF u, s

LEMMA ScalesUndone ==
  ASSUME Field, NEW n \in Nat, NEW scale, scale # None => scale \in [Below(n) -> Units]
  PROVE  /\ Scales(scale, n) /\ Scales(Inverses(scale), n)
         /\ Undoes(scale, Inverses(scale), n) /\ Undoes(Inverses(scale), scale, n)
<1>1. /\ \A i \in Below(n) : Factor(scale, i) \in Nat /\ Factor(Inverses(scale), i) \in Nat
      /\ \A i \in Below(n) : Same(Mod, Factor(scale, i) * Factor(Inverses(scale), i), 1)
      /\ Inverses(scale) # None => Inverses(scale) \in [Below(n) -> Scalars]
  BY InversesFacts
<1>2. Scales(scale, n) BY DEF Scales, Units
<1>3. Scales(Inverses(scale), n) BY <1>1 DEF Scales
<1>4. Undoes(scale, Inverses(scale), n) BY <1>1 DEF Undoes
<1>5. Undoes(Inverses(scale), scale, n)
  <2> DEFINE a(i) == Factor(scale, i)  b(i) == Factor(Inverses(scale), i)
  <2>1. \A i \in Below(n) : a(i) \in Nat /\ b(i) \in Nat /\ Same(Mod, a(i) * b(i), 1) BY <1>1
  <2> HIDE DEF a, b
  <2>2. ASSUME NEW i \in Below(n) PROVE a(i) \in Nat /\ b(i) \in Nat /\ Same(Mod, b(i) * a(i), 1)
    <3>1. a(i) * b(i) = b(i) * a(i) BY <2>1
    <3> QED BY <2>1, <3>1
  <2> QED BY <2>2 DEF a, b, Undoes
<1> QED BY <1>2, <1>3, <1>4, <1>5

LEMMA ScaleUndone ==
  ASSUME Field, NEW m, Stored(m), NEW o, OrdersRows(o, m.nbrows)
  PROVE  /\ Unscaled(ScaledBy(m, o.rowscale, o.colscale), o) = m
         /\ ScaledBy(Unscaled(m, o), o.rowscale, o.colscale) = m
<1> DEFINE r == o.rowscale
           c == o.colscale
           ri == Inverses(r)
           ci == Inverses(c)
           n == m.nbrows
<1>1. (r # None => r \in [Below(n) -> Units]) /\ (c # None => c \in [Below(n) -> Units])
  BY DEF OrdersRows
<1>2. n \in Nat BY DEF Stored, IsMatrix
<1>3. /\ Scales(r, n) /\ Scales(ri, n) /\ Undoes(r, ri, n) /\ Undoes(ri, r, n)
      /\ Scales(c, n) /\ Scales(ci, n) /\ Undoes(c, ci, n) /\ Undoes(ci, c, n)
  BY <1>1, <1>2, ScalesUndone
<1>4. Unscaled(ScaledBy(m, r, c), o) = ScaledBy(ScaledBy(m, r, c), ri, ci) BY DEF Unscaled
<1>5. ScaledBy(Unscaled(m, o), r, c) = ScaledBy(ScaledBy(m, ri, ci), r, c) BY DEF Unscaled
<1> HIDE DEF r, c, ri, ci
<1>6. ScaledBy(ScaledBy(m, r, c), ri, ci) = m BY <1>3, TwoScalings
<1>7. ScaledBy(ScaledBy(m, ri, ci), r, c) = m BY <1>3, TwoScalings
<1> QED BY <1>4, <1>5, <1>6, <1>7 DEF r, c

LEMMA AscendingRows ==
  ASSUME NEW m, Stored(m)
  PROVE  SortedRows(m) => \A i \in Rows(m) : Ascending(RowList(m)[i])
<1> SUFFICES ASSUME SortedRows(m), NEW i \in Rows(m) PROVE Ascending(RowList(m)[i])
  OBVIOUS
<1> DEFINE s == RowList(m)[i]
           n == Len(s)
           T == {k \in Nat : \A a, b \in 1 .. n : a < b /\ b <= a + 1 + k => s[a].col < s[b].col}
<1>1. s \in Seq(Entries(m)) BY RowListFacts DEF Lists
<1>2. n \in Nat /\ \A a \in 1 .. n : s[a].col \in Int
  <2> HIDE DEF s
  <2>1. \A a \in 1 .. n : s[a] \in Entries(m) BY <1>1
  <2> QED BY <1>1, <2>1 DEF Entries, EntriesOf, Below
<1>3. \A q \in 1 .. n : m.browptr[i] + q - 1 \in Row(m, i) /\ s[q].col = m.bcolind[m.browptr[i] + q - 1]
  <2>1. \A q \in 1 .. n : /\ m.browptr[i] + q - 1 \in Row(m, i)
                          /\ s[q] = [col |-> m.bcolind[m.browptr[i] + q - 1],
                                     val |-> m.vals[m.browptr[i] + q - 1]]
    BY RowListFacts
  <2> HIDE DEF s, n
  <2> TAKE q \in 1 .. n
  <2> DEFINE jj == m.browptr[i] + q - 1
  <2>2. jj \in Row(m, i) /\ s[q] = [col |-> m.bcolind[jj], val |-> m.vals[jj]]
    BY <2>1
  <2> HIDE DEF jj
  <2>3. s[q].col = m.bcolind[jj] BY <2>2
  <2> QED BY <2>2, <2>3 DEF jj
<1>4. m.browptr[i] \in Nat BY RowFacts
<1> HIDE DEF s
<1>5. ASSUME NEW a \in 1 .. n, NEW b \in 1 .. n, b = a + 1 PROVE s[a].col < s[b].col
  <2> DEFINE jj == m.browptr[i] + a - 1
  <2>1. jj \in Row(m, i) /\ s[a].col = m.bcolind[jj] BY <1>3
  <2>2. m.browptr[i] + b - 1 = jj + 1 BY <1>4, <1>5
  <2>3. jj + 1 \in Row(m, i) /\ s[b].col = m.bcolind[jj + 1] BY <1>3, <2>2
  <2> QED BY <2>1, <2>3 DEF SortedRows
<1>6. 0 \in T
  <2>1. \A a, b \in 1 .. n : a < b /\ b <= a + 1 + 0 => b = a + 1 BY <1>2
  <2> QED BY <1>5, <2>1
<1>7. ASSUME NEW k \in Nat, k \in T PROVE k + 1 \in T
  <2> SUFFICES ASSUME NEW a \in 1 .. n, NEW b \in 1 .. n, a < b, b <= a + 1 + (k + 1)
               PROVE  s[a].col < s[b].col
    OBVIOUS
  <2>1. CASE b = a + 1 BY <1>5, <2>1
  <2>2. CASE b # a + 1
    <3>1. b - 1 \in 1 .. n /\ a < b - 1 /\ b - 1 <= a + 1 + k /\ b = (b - 1) + 1
      BY <1>2, <2>2
    <3>2. s[a].col < s[b - 1].col BY <1>7, <3>1
    <3>3. s[b - 1].col < s[b].col BY <1>5, <3>1
    <3> QED BY <1>2, <3>1, <3>2, <3>3
  <2> QED BY <2>1, <2>2
<1> HIDE DEF T
<1>8. Nat \subseteq T BY <1>6, <1>7, NumbersInduction
<1>9. \A a, b \in 1 .. n : a < b => s[a].col < s[b].col
  <2> TAKE a, b \in 1 .. n
  <2>1. n \in T /\ b <= a + 1 + n BY <1>2, <1>8
  <2> QED BY <2>1 DEF T
<1> QED BY <1>9 DEF Ascending, s

LEMMA ScalingKeepsOrder ==
  ASSUME NEW m, NEW s, SameFrame(s, m), s.browptr = m.browptr, s.bcolind = m.bcolind
  PROVE  (SortedRows(m) <=> SortedRows(s)) /\ \A i \in Rows(m) : Row(s, i) = Row(m, i)
BY SameFrameFacts DEF SortedRows, Row

(***************************************************************************)
(* A matrix that was reordered and scaled, and restored, is the matrix it  *)
(* was.                                                                    *)
(***************************************************************************)
THEOREM ReorderingUndone ==
  ASSUME Field, NEW m, Stored(m), SortedRows(m), NEW o, OrdersRows(o, m.nbrows)
  PROVE  ReorderScaleInverse(ReorderScaleForward(m, o), o) = m
<1> DEFINE s == ScaledBy(m, o.rowscale, o.colscale)
<1>1. Scales(o.rowscale, m.nbrows) /\ Scales(o.colscale, m.nbrows)
  BY DEF OrdersRows, Scales, Units
<1>2. Stored(s) /\ SameFrame(s, m) /\ s.browptr = m.browptr /\ s.bcolind = m.bcolind
  BY <1>1, ScaledFacts
<1>3. Unscaled(s, o) = m BY ScaleUndone
<1> HIDE DEF s
<1>4. SortedRows(s) BY <1>2, ScalingKeepsOrder
<1>5. s.nbrows = m.nbrows BY <1>2, SameFrameFacts
<1>6. OrderedInverse(OrderedForward(s, o), o) = s
  BY <1>2, <1>4, <1>5, AscendingRows, OrderUndone
<1> QED BY <1>3, <1>6 DEF ReorderScaleInverse, ReorderScaleForward, s

-----------------------------------------------------------------------------
(***************************************************************************)
(* Vectors of n blocks of bs scalars, by the block and the place in it.    *)
(***************************************************************************)
At(i, bs, c) == i * bs + c
Vectors(n, bs, V) == [Below(n * bs) -> V]

LEMMA IndexFacts ==
  ASSUME NEW n \in Nat, NEW bs \in Nat \ {0}
  PROVE  /\ \A i \in Below(n), c \in Below(bs) :
              /\ At(i, bs, c) \in Below(n * bs)
              /\ At(i, bs, c) \div bs = i /\ At(i, bs, c) % bs = c
         /\ \A p \in Below(n * bs) :
              /\ p \div bs \in Below(n) /\ p % bs \in Below(bs)
              /\ p = At(p \div bs, bs, p % bs)
<1>1. ASSUME NEW i \in Below(n), NEW c \in Below(bs)
      PROVE  /\ At(i, bs, c) \in Below(n * bs)
             /\ At(i, bs, c) \div bs = i /\ At(i, bs, c) % bs = c
  <2>1. i \in Nat /\ c \in Nat /\ c < bs /\ i + 1 <= n BY DEF Below
  <2>2. (bs * i + c) \div bs = i /\ (bs * i + c) % bs = c BY <2>1, DivisionUnique
  <2>3. bs * i = i * bs BY <2>1
  <2>4. \A a, b, d \in Nat : a <= b => a * d <= b * d OBVIOUS
  <2>5. (i + 1) * bs <= n * bs BY <2>1, <2>4
  <2>6. (i + 1) * bs = i * bs + bs /\ i * bs \in Nat /\ n * bs \in Nat BY <2>1
  <2>7. i * bs + c < n * bs BY <2>1, <2>5, <2>6
  <2> QED BY <2>1, <2>2, <2>3, <2>6, <2>7 DEF At, Below
<1>2. ASSUME NEW p \in Below(n * bs)
      PROVE  /\ p \div bs \in Below(n) /\ p % bs \in Below(bs)
             /\ p = At(p \div bs, bs, p % bs)
  <2>1. p \in Nat /\ p < n * bs
    <3>1. n * bs \in Nat OBVIOUS
    <3> QED BY <3>1 DEF Below
  <2> DEFINE q == p \div bs
             r == p % bs
  <2>2. r \in 0 .. bs - 1 /\ q \in Nat /\ p = bs * q + r BY <2>1, DivisionFacts
  <2> HIDE DEF q, r
  <2>3. bs * q = q * bs BY <2>2
  <2>4. ~(n <= q)
    <3> SUFFICES ASSUME n <= q PROVE FALSE OBVIOUS
    <3>1. \A a, b, d \in Nat : a <= b => a * d <= b * d OBVIOUS
    <3>2. n * bs <= q * bs BY <2>2, <3>1
    <3>3. n * bs \in Nat /\ q * bs \in Nat BY <2>2
    <3> QED BY <2>1, <2>2, <2>3, <3>2, <3>3
  <2>5. q \in Below(n) /\ r \in Below(bs) BY <2>2, <2>4 DEF Below
  <2>6. p = At(q, bs, r) BY <2>2, <2>3 DEF At
  <2> QED BY <2>5, <2>6 DEF q, r
<1> QED BY <1>1, <1>2

IsIndex(x, n, bs, i, c) == x \in Below(n * bs) /\ x \div bs = i /\ x % bs = c

LEMMA IndexAt ==
  ASSUME NEW n \in Nat, NEW bs \in Nat \ {0}, NEW i \in Below(n), NEW c \in Below(bs)
  PROVE  IsIndex(At(i, bs, c), n, bs, i, c)
BY IndexFacts DEF IsIndex

LEMMA SameVector ==
  ASSUME NEW n \in Nat, NEW bs \in Nat \ {0}, NEW V,
         NEW v \in Vectors(n, bs, V), NEW w \in Vectors(n, bs, V),
         \A i \in Below(n), c \in Below(bs) : v[At(i, bs, c)] = w[At(i, bs, c)]
  PROVE  v = w
<1>1. \A p \in Below(n * bs) : v[p] = w[p]
  <2> TAKE p \in Below(n * bs)
  <2>1. PICK i \in Below(n), c \in Below(bs) : p = At(i, bs, c) BY IndexFacts
  <2> QED BY <2>1
<1> QED BY <1>1 DEF Vectors

\* The block that becomes block i, and the one that block i becomes.
Old(p, i) == IF p = None THEN i ELSE p[i]
New(p, i) == IF p = None THEN i ELSE CHOOSE b \in DOMAIN p : p[b] = i
Permutes(p, n) == p # None => IsPermutation(p, Below(n))

LEMMA OldNew ==
  ASSUME NEW n, NEW p, Permutes(p, n)
  PROVE  \A i \in Below(n) : /\ Old(p, i) \in Below(n) /\ New(p, i) \in Below(n)
                             /\ Old(p, New(p, i)) = i /\ New(p, Old(p, i)) = i
<1>1. CASE p = None BY <1>1 DEF Old, New
<1>2. CASE p # None
  <2>1. IsPermutation(p, Below(n)) BY <1>2 DEF Permutes
  <2>2. DOMAIN p = Below(n) BY <2>1 DEF IsPermutation
  <2>3. \A i \in Below(n) : New(p, i) \in Below(n) /\ p[New(p, i)] = i
    <3> TAKE i \in Below(n)
    <3>1. \E b \in DOMAIN p : p[b] = i BY <2>1, <2>2 DEF IsPermutation
    <3>2. New(p, i) = CHOOSE b \in DOMAIN p : p[b] = i BY <1>2 DEF New
    <3> QED BY <2>2, <3>1, <3>2
  <2>4. \A i \in Below(n) : Old(p, i) = p[i] /\ p[i] \in Below(n)
    BY <1>2, <2>1 DEF Old, IsPermutation
  <2> QED BY <2>1, <2>3, <2>4 DEF IsPermutation
<1> QED BY <1>1, <1>2

LEMMA OrderedVector ==
  ASSUME NEW n \in Nat, NEW bs \in Nat \ {0}, NEW V, NEW v \in Vectors(n, bs, V),
         NEW p, Permutes(p, n)
  PROVE  /\ OrderVectorForward(v, p, bs) \in Vectors(n, bs, V)
         /\ OrderVectorInverse(v, p, bs) \in Vectors(n, bs, V)
         /\ \A i \in Below(n), c \in Below(bs) :
              /\ OrderVectorForward(v, p, bs)[At(i, bs, c)] = v[At(Old(p, i), bs, c)]
              /\ OrderVectorInverse(v, p, bs)[At(i, bs, c)] = v[At(New(p, i), bs, c)]
<1>1. CASE p = None BY <1>1 DEF OrderVectorForward, OrderVectorInverse, Old, New
<1>2. CASE p # None
  <2> DEFINE f == OrderVectorForward(v, p, bs)
             g == OrderVectorInverse(v, p, bs)
             D == Below(n * bs)
  <2>1. f = [s \in D |-> v[At(Old(p, s \div bs), bs, s % bs)]]
    BY <1>2 DEF OrderVectorForward, At, Old, Vectors
  <2>2. g = [s \in D |-> v[At(New(p, s \div bs), bs, s % bs)]]
    BY <1>2 DEF OrderVectorInverse, At, New, Vectors
  <2> HIDE DEF f, g
  <2>3. \A s \in D : s \div bs \in Below(n) /\ s % bs \in Below(bs) BY IndexFacts
  <2>4. \A i \in Below(n), c \in Below(bs) : At(i, bs, c) \in D BY IndexFacts
  <2>5. \A i \in Below(n) : Old(p, i) \in Below(n) /\ New(p, i) \in Below(n)
    BY OldNew
  <2>6. \A s \in D : /\ At(Old(p, s \div bs), bs, s % bs) \in D
                     /\ At(New(p, s \div bs), bs, s % bs) \in D
    BY <2>3, <2>4, <2>5
  <2> HIDE DEF D
  <2>7. v \in [D -> V] BY DEF D, Vectors
  <2>8. f \in [D -> V] BY <2>1, <2>6, <2>7
  <2>9. g \in [D -> V] BY <2>2, <2>6, <2>7
  <2>10. \A i \in Below(n), c \in Below(bs) :
           At(i, bs, c) \div bs = i /\ At(i, bs, c) % bs = c
    BY IndexFacts
  <2>11. \A i \in Below(n), c \in Below(bs) :
           f[At(i, bs, c)] = v[At(Old(p, i), bs, c)] /\ g[At(i, bs, c)] = v[At(New(p, i), bs, c)]
    BY <2>1, <2>2, <2>4, <2>10
  <2> QED BY <2>8, <2>9, <2>11 DEF f, g, D, Vectors
<1> QED BY <1>1, <1>2

LEMMA ScaledVector ==
  ASSUME Field, NEW n \in Nat, NEW bs \in Nat \ {0}, NEW v \in Vectors(n, bs, Scalars),
         NEW scale, Scales(scale, n)
  PROVE  /\ ScaleVector(v, scale, bs) \in Vectors(n, bs, Scalars)
         /\ \A i \in Below(n), c \in Below(bs) :
              ScaleVector(v, scale, bs)[At(i, bs, c)] = (v[At(i, bs, c)] * Factor(scale, i)) % Mod
<1>1. Mod \in Nat \ {0} BY DEF Field
<1>2. \A i \in Below(n), c \in Below(bs) :
        At(i, bs, c) \in Below(n * bs) /\ At(i, bs, c) \div bs = i
  BY IndexFacts
<1>3. CASE scale = None
  <2>1. \A i \in Below(n), c \in Below(bs) :
          (v[At(i, bs, c)] * 1) % Mod = v[At(i, bs, c)]
    <3> TAKE i \in Below(n), c \in Below(bs)
    <3>1. v[At(i, bs, c)] \in Scalars BY <1>2 DEF Vectors
    <3> DEFINE a == v[At(i, bs, c)]
    <3> HIDE DEF a
    <3>2. a \in Nat /\ a < Mod BY <1>1, <3>1 DEF a, Scalars, Below
    <3>3. a % Mod = a BY <1>1, <3>2, Modulo
    <3>4. a * 1 = a BY <3>2
    <3> QED BY <3>3, <3>4 DEF a
  <2> QED BY <1>3, <2>1 DEF ScaleVector, Factor
<1>4. CASE scale # None
  <2> DEFINE D == Below(n * bs)
             f == ScaleVector(v, scale, bs)
  <2>1. f = [s \in D |-> (v[s] * scale[s \div bs]) % Mod]
    BY <1>4 DEF ScaleVector, Vectors
  <2>2. \A s \in D : s \div bs \in Below(n) BY IndexFacts
  <2>3. \A s \in D : v[s] \in Scalars /\ scale[s \div bs] \in Scalars
    BY <1>4, <2>2 DEF Scales, Vectors
  <2>4. \A s \in D : (v[s] * scale[s \div bs]) % Mod \in Scalars
    <3> TAKE s \in D
    <3> DEFINE a == v[s]
               b == scale[s \div bs]
    <3>1. a \in Nat /\ b \in Nat BY <1>1, <2>3, SMTT(60) DEF Scalars, Below
    <3> HIDE DEF a, b
    <3>2. a * b \in Nat BY <3>1
    <3>3. (a * b) % Mod \in 0 .. Mod - 1 BY <1>1, <3>2, SameRules
    <3> QED BY <3>3 DEF a, b, Scalars, Below
  <2> HIDE DEF f, D
  <2>5. f \in [D -> Scalars] BY <2>1, <2>4
  <2>6. \A i \in Below(n), c \in Below(bs) :
          f[At(i, bs, c)] = (v[At(i, bs, c)] * scale[i]) % Mod
    BY <1>2, <2>1 DEF D
  <2> QED BY <1>4, <2>5, <2>6 DEF f, D, Vectors, Factor
<1> QED BY <1>3, <1>4

\* What becomes of the solution, and back.
Moved(x, o, bs) == OrderVectorForward(ScaleVector(x, Inverses(o.colscale), bs), o.cp, bs)

LEMMA OrderedVectorUndone ==
  ASSUME NEW n \in Nat, NEW bs \in Nat \ {0}, NEW V, NEW v \in Vectors(n, bs, V),
         NEW p, Permutes(p, n)
  PROVE  OrderVectorInverse(OrderVectorForward(v, p, bs), p, bs) = v
<1> DEFINE f == OrderVectorForward(v, p, bs)
           g == OrderVectorInverse(f, p, bs)
<1>1. f \in Vectors(n, bs, V)
      /\ \A i \in Below(n), c \in Below(bs) : f[At(i, bs, c)] = v[At(Old(p, i), bs, c)]
  BY OrderedVector
<1> HIDE DEF f
<1>2. g \in Vectors(n, bs, V)
      /\ \A i \in Below(n), c \in Below(bs) : g[At(i, bs, c)] = f[At(New(p, i), bs, c)]
  BY <1>1, OrderedVector
<1> HIDE DEF g
<1>3. \A i \in Below(n) : New(p, i) \in Below(n) /\ Old(p, New(p, i)) = i BY OldNew
<1>4. \A i \in Below(n), c \in Below(bs) : g[At(i, bs, c)] = v[At(i, bs, c)]
  BY <1>1, <1>2, <1>3
<1>5. g = v BY <1>2, <1>4, SameVector
<1> QED BY <1>5 DEF f, g

LEMMA ScaledBack ==
  ASSUME Field, NEW v \in Scalars, NEW a \in Nat, NEW b \in Nat, Same(Mod, a * b, 1)
  PROVE  (((v * b) % Mod) * a) % Mod = v
<1>1. v \in Nat /\ v < Mod /\ Mod \in Nat \ {0} BY DEF Field, Scalars, Below
<1>2. v * b \in Nat /\ a * b \in Nat /\ (v * b) * a = v * (a * b) /\ v * 1 = v
  BY <1>1
<1>3. (((v * b) % Mod) * a) % Mod = ((v * b) * a) % Mod BY <1>1, <1>2, Modulo
<1>4. Same(Mod, v * (a * b), v * 1)
  <2>1. Same(Mod, v, v) /\ 1 \in Nat BY DEF Same
  <2> QED BY <1>1, <1>2, <2>1, SameProducts
<1>5. v % Mod = v BY <1>1, Modulo
<1> QED BY <1>2, <1>3, <1>4, <1>5 DEF Same

(***************************************************************************)
(* A vector of scalars that was moved and unscaled by columns, as the      *)
(* solution is, comes back unchanged: the two index maps and the two       *)
(* scalings of reorderingscaling.cpp undo each other, whatever the block   *)
(* size.                                                                   *)
(***************************************************************************)
THEOREM MovedBack ==
  ASSUME Field, NEW n \in Nat, NEW bs \in Nat \ {0}, NEW x \in Vectors(n, bs, Scalars),
         NEW o, OrdersRows(o, n)
  PROVE  /\ Moved(x, o, bs) \in Vectors(n, bs, Scalars)
         /\ ScaleVector(OrderVectorInverse(Moved(x, o, bs), o.cp, bs), o.colscale, bs) = x
<1> DEFINE cs == o.colscale
           is == Inverses(o.colscale)
           v == ScaleVector(x, is, bs)
           u == OrderVectorInverse(Moved(x, o, bs), o.cp, bs)
           w == ScaleVector(u, cs, bs)
<1>1. /\ \A i \in Below(n) : Factor(cs, i) \in Nat /\ Factor(is, i) \in Nat
      /\ \A i \in Below(n) : Same(Mod, Factor(cs, i) * Factor(is, i), 1)
      /\ is # None => is \in [Below(n) -> Scalars]
  BY InversesFacts DEF OrdersRows
<1>2. Permutes(o.cp, n) /\ Scales(cs, n) /\ Scales(is, n)
  BY <1>1 DEF OrdersRows, Permutes, Scales, Units
<1>3. Moved(x, o, bs) = OrderVectorForward(v, o.cp, bs) BY DEF Moved
<1> HIDE DEF cs, is
<1>4. v \in Vectors(n, bs, Scalars)
      /\ \A i \in Below(n), c \in Below(bs) :
           v[At(i, bs, c)] = (x[At(i, bs, c)] * Factor(is, i)) % Mod
  BY <1>2, ScaledVector
<1> HIDE DEF v
<1>5. Moved(x, o, bs) \in Vectors(n, bs, Scalars) BY <1>2, <1>3, <1>4, OrderedVector
<1>6. u = v BY <1>2, <1>3, <1>4, OrderedVectorUndone
<1> HIDE DEF u
<1>7. w \in Vectors(n, bs, Scalars)
      /\ \A i \in Below(n), c \in Below(bs) :
           w[At(i, bs, c)] = (v[At(i, bs, c)] * Factor(cs, i)) % Mod
  BY <1>2, <1>4, <1>6, ScaledVector
<1> HIDE DEF w
<1>8. ASSUME NEW i \in Below(n), NEW c \in Below(bs) PROVE w[At(i, bs, c)] = x[At(i, bs, c)]
  <2>1. x[At(i, bs, c)] \in Scalars BY IndexFacts DEF Vectors
  <2> QED BY <1>1, <1>4, <1>7, <2>1, ScaledBack
<1>9. w = x BY <1>7, <1>8, SameVector
<1> QED BY <1>5, <1>9 DEF w, u, cs

-----------------------------------------------------------------------------
(***************************************************************************)
(* The products of the matrices before and after.                          *)
(***************************************************************************)
Spans(R, a, k) == R = a .. a + k - 1

\* h takes the positions R, from a on, to S, from b on, as p does with 1 .. k.
ShiftedBy(h, R, S, a, b, p, k) ==
  /\ h \in [R -> S]
  /\ \A x, y \in R : h[x] = h[y] => x = y
  /\ \A z \in S : \E x \in R : h[x] = z
  /\ \A x \in R : /\ x - a + 1 \in 1 .. k /\ p[x - a + 1] \in 1 .. k
                  /\ h[x] - b + 1 = p[x - a + 1]

LEMMA ShiftedPermutation ==
  ASSUME NEW a \in Nat, NEW b \in Nat, NEW k \in Nat, NEW p, IsPermutation(p, 1 .. k),
         NEW R, Spans(R, a, k), NEW S, Spans(S, b, k)
  PROVE  \E h : ShiftedBy(h, R, S, a, b, p, k)
<1> USE DEF Spans
<1> DEFINE h == [x \in R |-> b + p[x - a + 1] - 1]
<1>1. \A x \in R : x - a + 1 \in 1 .. k /\ x = a + (x - a + 1) - 1 OBVIOUS
<1>2. \A q \in 1 .. k : p[q] \in 1 .. k BY DEF IsPermutation
<1>3. \A x \in R : /\ h[x] = b + p[x - a + 1] - 1 /\ h[x] \in S
                   /\ h[x] - b + 1 = p[x - a + 1]
  <2> TAKE x \in R
  <2> DEFINE z == p[x - a + 1]
  <2>1. z \in 1 .. k BY <1>1, <1>2
  <2>2. h[x] = b + z - 1 OBVIOUS
  <2> HIDE DEF z, h
  <2>3. h[x] \in S /\ h[x] - b + 1 = z BY <2>1, <2>2
  <2> QED BY <2>2, <2>3 DEF z
<1>4. h \in [R -> S] BY <1>3
<1> HIDE DEF h
<1>5. ASSUME NEW x \in R, NEW y \in R, h[x] = h[y] PROVE x = y
  <2>1. p[x - a + 1] = p[y - a + 1] BY <1>3, <1>5
  <2>2. x - a + 1 = y - a + 1 BY <1>1, <2>1 DEF IsPermutation
  <2> QED BY <2>2
<1>6. ASSUME NEW z \in S PROVE \E x \in R : h[x] = z
  <2>1. z - b + 1 \in 1 .. k OBVIOUS
  <2>2. PICK q \in 1 .. k : p[q] = z - b + 1 BY <2>1 DEF IsPermutation
  <2>3. a + q - 1 \in R /\ (a + q - 1) - a + 1 = q OBVIOUS
  <2>4. h[a + q - 1] = b + p[q] - 1
    <3> DEFINE x == a + q - 1
    <3>1. x \in R /\ x - a + 1 = q BY <2>3
    <3> HIDE DEF x
    <3> QED BY <1>3, <3>1 DEF x
  <2> QED BY <2>2, <2>3, <2>4
<1>7. \A x \in R : /\ x - a + 1 \in 1 .. k /\ p[x - a + 1] \in 1 .. k
                   /\ h[x] - b + 1 = p[x - a + 1]
  BY <1>1, <1>2, <1>3
<1>8. ShiftedBy(h, R, S, a, b, p, k) BY <1>4, <1>5, <1>6, <1>7, Zenon DEF ShiftedBy
<1> QED BY <1>8

LEMMA IdentityPermutes == ASSUME NEW D PROVE IsPermutation([q \in D |-> q], D)
BY DEF IsPermutation

\* Row i of what is reordered is row rp[i], its columns renamed.
LEMMA RowFollows ==
  ASSUME NEW s, Stored(s), NEW o, OrdersRows(o, s.nbrows), NEW i \in Rows(s)
  PROVE  LET new == RowList(OrderedForward(s, o))[i]
             row == RowList(s)[Old(o.rp, i)]
         IN /\ Old(o.rp, i) \in Rows(s) /\ Len(new) = Len(row)
            /\ \E p : /\ IsPermutation(p, 1 .. Len(row))
                      /\ \A q \in 1 .. Len(row) : /\ new[q].col = New(o.cp, row[p[q]].col)
                                                  /\ new[q].val = row[p[q]].val
<1> DEFINE n == s.nbrows
           new == RowList(OrderedForward(s, o))[i]
           row == RowList(s)[Old(o.rp, i)]
           V == [Places(s) -> Scalars]
<1>1. n \in Nat /\ Rows(s) = Below(n) BY DEF Stored, IsMatrix, Rows
<1>2. Permutes(o.rp, n) /\ Permutes(o.cp, n) BY DEF Permutes, OrdersRows
<1>3. Old(o.rp, i) \in Rows(s)
  <2> HIDE DEF n, new, row, V
  <2> DEFINE r == o.rp
  <2>1. Permutes(r, n) BY <1>2
  <2> HIDE DEF r
  <2>2. \A k \in Below(n) : Old(r, k) \in Below(n) BY <2>1, OldNew
  <2> QED BY <1>1, <2>2 DEF r
<1>4. ForwardRow(s, o, i) = row BY DEF ForwardRow, Old
<1>5. row \in Seq(EntriesOf(n, V)) BY <1>1, <1>3, RowListFacts DEF Lists, Entries
<1>6. new = IF o.cp = None THEN row ELSE Renamed(row, o.icp) BY <1>4, ForwardFacts
<1> HIDE DEF new, row
<1>7. CASE o.cp = None
  <2> DEFINE p == [q \in 1 .. Len(row) |-> q]
  <2>1. IsPermutation(p, 1 .. Len(row)) BY IdentityPermutes
  <2>2. \A q \in 1 .. Len(row) : p[q] = q OBVIOUS
  <2>3. new = row BY <1>6, <1>7
  <2>4. \A j : New(o.cp, j) = j BY <1>7 DEF New
  <2> HIDE DEF p
  <2>5. \A q \in 1 .. Len(row) : new[q].col = New(o.cp, row[p[q]].col) /\ new[q].val = row[p[q]].val
    BY <2>2, <2>3, <2>4
  <2> QED BY <1>3, <2>1, <2>3, <2>5 DEF new, row
<1>8. CASE o.cp # None
  <2>1. /\ IsPermutation(o.cp, Below(n)) /\ o.icp \in [Below(n) -> Below(n)]
        /\ \A v \in Below(n) : o.cp[o.icp[v]] = v
    BY <1>8 DEF OrdersRows
  <2>2. \A v \in Below(n) : New(o.cp, v) \in Below(n) /\ Old(o.cp, New(o.cp, v)) = v
    BY <1>2, OldNew
  <2>3. \A v \in Below(n) : o.icp[v] = New(o.cp, v)
    <3> TAKE v \in Below(n)
    <3>1. o.icp[v] \in Below(n) /\ New(o.cp, v) \in Below(n) BY <2>1, <2>2
    <3>2. o.cp[o.icp[v]] = o.cp[New(o.cp, v)] BY <1>8, <2>1, <2>2 DEF Old
    <3> QED BY <2>1, <3>1, <3>2 DEF IsPermutation
  <2>4. IsPermutation(o.icp, Below(n)) BY <2>1, InverseIsPermutation
  <2>5. Len(new) = Len(row) /\ RenamedBy(new, row, o.icp)
    BY <1>1, <1>5, <1>6, <1>8, <2>4, RenamedFacts
  <2>6. PICK p : /\ IsPermutation(p, 1 .. Len(row))
                 /\ \A q \in 1 .. Len(row) : new[q].col = o.icp[row[p[q]].col]
                                             /\ new[q].val = row[p[q]].val
    BY <2>5 DEF RenamedBy
  <2>7. \A q \in 1 .. Len(row) : row[q].col \in Below(n)
    <3> DEFINE E == EntriesOf(n, V)
    <3>1. row \in Seq(E) BY <1>5
    <3> HIDE DEF E
    <3>2. \A q \in 1 .. Len(row) : row[q] \in E BY <3>1
    <3> QED BY <3>2 DEF E, EntriesOf
  <2>8. \A q \in 1 .. Len(row) : new[q].col = New(o.cp, row[p[q]].col)
    BY <2>3, <2>6, <2>7 DEF IsPermutation
  <2> QED BY <1>3, <2>5, <2>6, <2>8 DEF new, row
<1> QED BY <1>7, <1>8

\* Entry by entry: h takes those of row i of F to those of the row of m that it was.
Values(F, jj, m, h, a, scale) ==
  \A k \in Places(m) : F.vals[jj][k] = (m.vals[h][k] * a * Factor(scale, m.bcolind[h])) % Mod

EntriesMatch(h, F, m, o, i) ==
  LET old == Old(o.rp, i)
  IN /\ h \in [Row(F, i) -> Row(m, old)]
     /\ \A x, y \in Row(F, i) : h[x] = h[y] => x = y
     /\ \A z \in Row(m, old) : \E x \in Row(F, i) : h[x] = z
     /\ \A jj \in Row(F, i) :
          /\ F.bcolind[jj] = New(o.cp, m.bcolind[h[jj]])
          /\ Values(F, jj, m, h[jj], Factor(o.rowscale, old), o.colscale)

LEMMA EntriesFollow ==
  ASSUME Field, NEW m, Stored(m), NEW o, OrdersRows(o, m.nbrows)
  PROVE  LET F == ReorderScaleForward(m, o)
         IN /\ Stored(F) /\ SameFrame(F, m)
            /\ \A i \in Rows(m) : Old(o.rp, i) \in Rows(m) /\ \E h : EntriesMatch(h, F, m, o, i)
<1> DEFINE s == ScaledBy(m, o.rowscale, o.colscale)
           F == OrderedForward(s, o)
<1>1. Scales(o.rowscale, m.nbrows) /\ Scales(o.colscale, m.nbrows)
  BY DEF OrdersRows, Scales, Units
<1>2. /\ Stored(s) /\ SameFrame(s, m) /\ s.browptr = m.browptr /\ s.bcolind = m.bcolind
      /\ \A d \in Rows(m) : \A jj \in Row(m, d) : \A q \in Places(m) :
           s.vals[jj][q] = (m.vals[jj][q] * Factor(o.rowscale, d)
                            * Factor(o.colscale, m.bcolind[jj])) % Mod
  <2> DEFINE rs == o.rowscale
             cs == o.colscale
  <2>1. Scales(rs, m.nbrows) /\ Scales(cs, m.nbrows) BY <1>1
  <2> HIDE DEF rs, cs
  <2> DEFINE z == ScaledBy(m, rs, cs)
  <2>2. /\ Stored(z) /\ SameFrame(z, m) /\ z.browptr = m.browptr /\ z.bcolind = m.bcolind
        /\ \A d \in Rows(m) : \A jj \in Row(m, d) : \A q \in Places(m) :
             z.vals[jj][q] = (m.vals[jj][q] * Factor(rs, d) * Factor(cs, m.bcolind[jj])) % Mod
    BY <2>1, ScaledFacts
  <2> QED BY <2>2 DEF rs, cs
<1>3. ReorderScaleForward(m, o) = F BY DEF ReorderScaleForward
<1> HIDE DEF s
<1>4. OrdersRows(o, s.nbrows) BY <1>2, SameFrameFacts
<1>5. Stored(F) /\ SameFrame(F, s) BY <1>2, <1>4, ForwardFacts
<1> HIDE DEF F
<1>6. SameFrame(F, m) BY <1>2, <1>5 DEF SameFrame
<1>7. ASSUME NEW i \in Rows(m)
      PROVE  Old(o.rp, i) \in Rows(m) /\ \E h : EntriesMatch(h, F, m, o, i)
  <2> DEFINE old == Old(o.rp, i)
             new == RowList(F)[i]
             row == RowList(s)[old]
             k == Len(row)
             a == F.browptr[i]
             b == s.browptr[old]
  <2>0. i \in Rows(s) BY <1>2, <1>7, SameFrameFacts
  <2>1. old \in Rows(s) /\ Len(new) = k
        /\ \E p : /\ IsPermutation(p, 1 .. k)
                  /\ \A q \in 1 .. k : new[q].col = New(o.cp, row[p[q]].col) /\ new[q].val = row[p[q]].val
    BY <1>2, <1>4, <2>0, RowFollows DEF F
  <2>2. i \in Rows(F) /\ old \in Rows(m) BY <1>2, <1>5, <2>0, <2>1, SameFrameFacts
  <2> HIDE DEF old
  <2>3. /\ a \in Nat /\ F.browptr[i + 1] \in Nat /\ k = F.browptr[i + 1] - a /\ Row(F, i) = a .. a + k - 1
    <3>1. a \in Nat /\ F.browptr[i + 1] \in Nat BY <1>5, <2>2, RowFacts
    <3>2. Len(new) = F.browptr[i + 1] - a BY <1>5, <2>2, RowListFacts
    <3>3. k = F.browptr[i + 1] - a BY <2>1, <3>2
    <3>4. F.browptr[i + 1] = a + k
      <4> HIDE DEF a, k
      <4> QED BY <3>1, <3>3
    <3> QED BY <3>1, <3>3, <3>4 DEF Row
  <2>4. b \in Nat /\ k \in Nat /\ Row(m, old) = b .. b + k - 1
    <3>1. b \in Nat /\ s.browptr[old + 1] \in Nat /\ s.browptr[old + 1] - b \in Nat
      BY <1>2, <2>1, RowFacts
    <3>2. k = s.browptr[old + 1] - b BY <1>2, <2>1, RowListFacts
    <3>3. s.browptr[old + 1] = b + k
      <4> HIDE DEF b, k
      <4> QED BY <3>1, <3>2
    <3>4. Row(m, old) = b .. s.browptr[old + 1] - 1 BY <1>2 DEF Row
    <3> QED BY <3>1, <3>2, <3>3, <3>4
  <2>5. PICK p : /\ IsPermutation(p, 1 .. k)
                  /\ \A q \in 1 .. k : /\ new[q].col = New(o.cp, row[p[q]].col)
                                       /\ new[q].val = row[p[q]].val
    BY <2>1
  <2>6. PICK h : ShiftedBy(h, Row(F, i), Row(m, old), a, b, p, k)
    <3>1. Spans(Row(F, i), a, k) /\ Spans(Row(m, old), b, k) BY <2>3, <2>4 DEF Spans
    <3> HIDE DEF a, b, k
    <3> QED BY <2>3, <2>4, <2>5, <3>1, ShiftedPermutation
  <2>7. ASSUME NEW jj \in Row(F, i)
         PROVE  /\ F.bcolind[jj] = New(o.cp, m.bcolind[h[jj]])
                /\ F.vals[jj] = s.vals[h[jj]]
    <3> DEFINE x == jj - a + 1
               z == h[jj]
    <3>1. x \in 1 .. k /\ p[x] \in 1 .. k /\ z - b + 1 = p[x] BY <2>6 DEF ShiftedBy
    <3>2. new[x] = [col |-> F.bcolind[jj], val |-> F.vals[jj]]
      BY <1>5, <2>2, RowListFacts
    <3>3. z \in Row(m, old) BY <2>6 DEF ShiftedBy
    <3>4. z \in Row(s, old) BY <1>2, <3>3 DEF Row
    <3>5. row[z - b + 1] = [col |-> s.bcolind[z], val |-> s.vals[z]]
      BY <1>2, <2>1, <3>4, RowListFacts
    <3>6. new[x].col = New(o.cp, row[p[x]].col) /\ new[x].val = row[p[x]].val
      BY <2>5, <3>1
    <3> HIDE DEF x, z, new, row, a, b
    <3>7. row[p[x]].col = s.bcolind[z] /\ row[p[x]].val = s.vals[z] BY <3>1, <3>5
    <3>8. new[x].col = F.bcolind[jj] /\ new[x].val = F.vals[jj] BY <3>2
    <3> QED BY <1>2, <3>6, <3>7, <3>8 DEF z
  <2>8. \A jj \in Row(F, i) : Values(F, jj, m, h[jj], Factor(o.rowscale, old), o.colscale)
    BY <1>2, <2>2, <2>6, <2>7 DEF ShiftedBy, Values
  <2>9. EntriesMatch(h, F, m, o, i)
    BY <2>6, <2>7, <2>8, Zenon DEF EntriesMatch, ShiftedBy, old
  <2> QED BY <2>2, <2>9 DEF old
<1> QED BY <1>3, <1>5, <1>6, <1>7 DEF F

\* The terms of the products with a vector, and their sums.
Products(m, x, jj, c) ==
  [d \in Below(m.bs) |-> m.vals[jj][Place(m, c, d)] * x[m.bcolind[jj] * m.bs + d]]
TermOf(m, x, jj, c) == SumFunctionOnSet(Products(m, x, jj, c), Below(m.bs))
Terms(m, x, i, c) == [jj \in Row(m, i) |-> TermOf(m, x, jj, c)]

LEMMA PlaceFacts ==
  ASSUME NEW m, m.bs \in Nat \ {0}
  PROVE  \A c, d \in Below(m.bs) : Place(m, c, d) \in Places(m)
<1> DEFINE b == m.bs
<1>1. b \in Nat \ {0} /\ b \in Nat OBVIOUS
<1> HIDE DEF b
<1>2. \A c, d \in Below(b) : At(c, b, d) \in Below(b * b) BY <1>1, IndexFacts
<1>3. \A c, d \in Below(m.bs) : Place(m, c, d) = At(c, b, d) \/ Place(m, c, d) = At(d, b, c)
  BY DEF Place, At, b
<1> QED BY <1>2, <1>3 DEF b, Places

LEMMA RowFinite ==
  ASSUME NEW m, Stored(m), NEW i \in Rows(m)
  PROVE  IsFiniteSet(Row(m, i))
<1>1. m.browptr[i] \in Nat /\ m.browptr[i + 1] \in Nat BY RowFacts
<1> DEFINE a == m.browptr[i]
           b == m.browptr[i + 1]
<1> HIDE DEF a, b
<1>2. a \in Int /\ b - 1 \in Int BY <1>1 DEF a, b
<1>3. IsFiniteSet(a .. b - 1) BY <1>2, FS_Interval
<1> QED BY <1>3 DEF Row, a, b

LEMMA TermFacts ==
  ASSUME Field, NEW m, Stored(m), NEW x \in Vectors(m.nbrows, m.bs, Scalars),
         NEW i \in Rows(m), NEW jj \in Row(m, i), NEW c \in Below(m.bs)
  PROVE  /\ m.bcolind[jj] \in Below(m.nbrows)
         /\ \A d \in Below(m.bs) :
              /\ Place(m, c, d) \in Places(m) /\ m.vals[jj][Place(m, c, d)] \in Nat
              /\ x[At(m.bcolind[jj], m.bs, d)] \in Nat
              /\ Products(m, x, jj, c)[d] =
                   m.vals[jj][Place(m, c, d)] * x[At(m.bcolind[jj], m.bs, d)]
              /\ Products(m, x, jj, c)[d] \in Nat
         /\ TermOf(m, x, jj, c) \in Nat
<1> DEFINE n == m.nbrows
           b == m.bs
           j == m.bcolind[jj]
           P == Products(m, x, jj, c)
<1>1. n \in Nat /\ b \in Nat \ {0} /\ b \in Nat BY DEF Stored, IsMatrix
<1>2. jj \in Below(Nnzb(m)) BY RowFacts
<1>3. j \in Below(n) /\ m.vals[jj] \in [Places(m) -> Scalars]
  BY <1>2 DEF Stored, Rows
<1>4. Scalars \subseteq Nat BY DEF Scalars, Below, Field
<1>5. ASSUME NEW d \in Below(b)
      PROVE  /\ Place(m, c, d) \in Places(m) /\ m.vals[jj][Place(m, c, d)] \in Nat
             /\ x[At(j, b, d)] \in Nat /\ P[d] = m.vals[jj][Place(m, c, d)] * x[At(j, b, d)]
             /\ P[d] \in Nat
  <2>1. Place(m, c, d) \in Places(m) BY <1>1, PlaceFacts
  <2>2. m.vals[jj][Place(m, c, d)] \in Nat BY <1>3, <1>4, <2>1
  <2>3. At(j, b, d) \in Below(n * b)
    <3> HIDE DEF j, b, n
    <3> QED BY <1>1, <1>3, IndexFacts
  <2>4. x[At(j, b, d)] \in Nat BY <1>4, <2>3 DEF Vectors
  <2>5. P[d] = m.vals[jj][Place(m, c, d)] * x[At(j, b, d)] BY DEF Products, At
  <2>6. \A y, z \in Nat : y * z \in Nat OBVIOUS
  <2> HIDE DEF P
  <2> QED BY <2>1, <2>2, <2>4, <2>5, <2>6
<1> HIDE DEF P
<1>6. TermOf(m, x, jj, c) \in Nat
  <2>1. IsFiniteSet(Below(b)) BY <1>1, BelowFacts
  <2>2. SumFunctionOnSet(P, Below(b)) \in Nat
    <3> HIDE DEF b
    <3> QED BY <1>5, <2>1, SumOfNaturals
  <2> QED BY <2>2 DEF TermOf, P
<1> QED BY <1>3, <1>5, <1>6 DEF P

LEMMA ApplyFacts ==
  ASSUME Field, NEW m, Stored(m), NEW x \in Vectors(m.nbrows, m.bs, Scalars)
  PROVE  /\ Apply(m, x) \in Vectors(m.nbrows, m.bs, Scalars)
         /\ \A i \in Rows(m), c \in Below(m.bs) :
              /\ SumFunctionOnSet(Terms(m, x, i, c), Row(m, i)) \in Nat
              /\ Apply(m, x)[At(i, m.bs, c)] =
                   SumFunctionOnSet(Terms(m, x, i, c), Row(m, i)) % Mod
<1> DEFINE n == m.nbrows
           b == m.bs
           D == Below(n * b)
           S(i, c) == SumFunctionOnSet(Terms(m, x, i, c), Row(m, i))
<1>1. n \in Nat /\ b \in Nat \ {0} /\ Rows(m) = Below(n)
  BY DEF Stored, IsMatrix, Rows
<1>2. Apply(m, x) = [s \in D |-> (0 * x[s] + 1 * S(s \div b, s % b)) % Mod]
  BY DEF Apply, Gemv3, Dim, SumFunction, Terms, TermOf, Products
<1>3. ASSUME NEW i \in Rows(m), NEW c \in Below(b) PROVE S(i, c) \in Nat
  <2> DEFINE f == Terms(m, x, i, c)
  <2>1. \A jj \in Row(m, i) : f[jj] = TermOf(m, x, jj, c) BY DEF Terms
  <2>2. \A jj \in Row(m, i) : f[jj] \in Nat BY <2>1, TermFacts
  <2> HIDE DEF f
  <2>3. SumFunctionOnSet(f, Row(m, i)) \in Nat BY <2>2, RowFinite, SumOfNaturals
  <2> QED BY <2>3 DEF f
<1> HIDE DEF S, D, n, b
<1>4. \A s \in D : s \div b \in Below(n) /\ s % b \in Below(b)
  BY <1>1, IndexFacts DEF D
<1>5. \A i \in Below(n), c \in Below(b) :
        At(i, b, c) \in D /\ At(i, b, c) \div b = i /\ At(i, b, c) % b = c
  BY <1>1, IndexFacts DEF D
<1>6. \A s \in D : 0 * x[s] + 1 * S(s \div b, s % b) = S(s \div b, s % b)
  <2> TAKE s \in D
  <2>1. S(s \div b, s % b) \in Nat BY <1>1, <1>3, <1>4
  <2>2. x[s] \in Nat
    <3>1. x[s] \in Scalars BY DEF Vectors, D, n, b
    <3> QED BY <3>1 DEF Scalars, Below, Field
  <2>3. \A y, z \in Nat : 0 * y + 1 * z = z OBVIOUS
  <2> QED BY <2>1, <2>2, <2>3
<1>7. \A s \in D : Apply(m, x)[s] = S(s \div b, s % b) % Mod BY <1>2, <1>6
<1>8. \A s \in D : S(s \div b, s % b) % Mod \in Scalars
  <2> TAKE s \in D
  <2> DEFINE v == S(s \div b, s % b)
  <2>1. v \in Nat BY <1>1, <1>3, <1>4
  <2> HIDE DEF v
  <2>2. v % Mod \in 0 .. Mod - 1 BY <2>1, SameRules DEF Field
  <2> QED BY <2>2 DEF v, Scalars, Below
<1>9. Apply(m, x) \in [D -> Scalars] BY <1>2, <1>7, <1>8
<1>10. \A i \in Below(n), c \in Below(b) : Apply(m, x)[At(i, b, c)] = S(i, c) % Mod
  BY <1>5, <1>7
<1> QED BY <1>1, <1>3, <1>9, <1>10 DEF S, D, n, b, Vectors

\* Scalars multiplied by their factors, the columns' factors cancelled.
LEMMA FactorsCancel ==
  ASSUME Field, NEW v \in Nat, NEW a \in Nat, NEW b \in Nat, NEW e \in Nat, NEW x \in Nat,
         Same(Mod, b * e, 1)
  PROVE  Same(Mod, ((v * a * b) % Mod) * ((x * e) % Mod), a * (v * x))
<1>1. Mod \in Nat \ {0} BY DEF Field
<1> DEFINE p == v * a * b
           q == x * e
<1>2. p \in Nat /\ q \in Nat /\ v * x \in Nat /\ b * e \in Nat /\ a * (v * x) \in Nat
  BY DEF p, q
<1>3. p * q = (a * (v * x)) * (b * e) BY DEF p, q
<1> HIDE DEF p, q
<1>4. Same(Mod, p % Mod, p) /\ p % Mod \in Nat /\ Same(Mod, q % Mod, q) /\ q % Mod \in Nat
  <2>1. \A z \in Nat : z % Mod \in Nat BY <1>1
  <2>2. \A z \in Nat : Same(Mod, z % Mod, z) BY <1>1, SameRules
  <2> QED BY <1>2, <2>1, <2>2
<1>5. Same(Mod, (p % Mod) * (q % Mod), p * q) BY <1>1, <1>2, <1>4, SameProducts
<1> DEFINE r == a * (v * x)
           f == b * e
<1>6. r \in Nat /\ f \in Nat /\ p * q = r * f /\ Same(Mod, f, 1) BY <1>2, <1>3
<1> HIDE DEF r, f
<1>7. Same(Mod, r * f, r * 1)
  <2>1. Same(Mod, r, r) /\ 1 \in Nat BY DEF Same
  <2> QED BY <1>1, <1>6, <2>1, SameProducts
<1>8. r * 1 = r BY <1>6
<1>9. Same(Mod, (p % Mod) * (q % Mod), r) BY <1>1, <1>5, <1>6, <1>7, <1>8, SameRules
<1> QED BY <1>9 DEF p, q, r

Cancel(cs, is, n) ==
  \A j \in Below(n) : /\ Factor(cs, j) \in Nat /\ Factor(is, j) \in Nat
                      /\ Same(Mod, Factor(cs, j) * Factor(is, j), 1)

VectorMatches(y, F, jj, x, m, h, is) ==
  \A d \in Below(m.bs) :
    y[At(F.bcolind[jj], m.bs, d)] = (x[At(m.bcolind[h], m.bs, d)] * Factor(is, m.bcolind[h])) % Mod

LEMMA RowTermsFollow ==
  ASSUME Field, NEW m, Stored(m), NEW F, Stored(F), SameFrame(F, m),
         NEW x \in Vectors(m.nbrows, m.bs, Scalars), NEW y \in Vectors(m.nbrows, m.bs, Scalars),
         NEW i \in Rows(m), NEW old \in Rows(m), NEW c \in Below(m.bs),
         NEW a \in Nat, NEW cs, NEW is,
         Cancel(cs, is, m.nbrows), NEW jj \in Row(F, i), NEW h \in Row(m, old),
         Values(F, jj, m, h, a, cs), VectorMatches(y, F, jj, x, m, h, is)
  PROVE  Same(Mod, TermOf(F, y, jj, c), a * TermOf(m, x, h, c))
<1> DEFINE b == m.bs
           j == m.bcolind[h]
           P == Products(F, y, jj, c)
           Q == Products(m, x, h, c)
           R == [d \in Below(b) |-> a * Q[d]]
<1>1. F.bs = b /\ F.nbrows = m.nbrows /\ Rows(F) = Rows(m) /\ F.stor = m.stor
  BY SameFrameFacts
<1>2. \A d \in Below(b) : Place(F, c, d) = Place(m, c, d) BY <1>1 DEF Place
<1>3. /\ j \in Below(m.nbrows)
      /\ \A d \in Below(b) :
           /\ Place(m, c, d) \in Places(m) /\ m.vals[h][Place(m, c, d)] \in Nat
           /\ x[At(j, b, d)] \in Nat
           /\ Q[d] = m.vals[h][Place(m, c, d)] * x[At(j, b, d)]
           /\ Q[d] \in Nat
      /\ TermOf(m, x, h, c) \in Nat
  BY TermFacts
<1>4. \A d \in Below(b) :
        /\ P[d] = F.vals[jj][Place(F, c, d)] * y[At(F.bcolind[jj], b, d)]
        /\ P[d] \in Nat
  <2>1. /\ y \in Vectors(F.nbrows, F.bs, Scalars) /\ i \in Rows(F) /\ c \in Below(F.bs)
    BY <1>1
  <2>2. \A d \in Below(F.bs) :
          /\ P[d] = F.vals[jj][Place(F, c, d)] * y[At(F.bcolind[jj], F.bs, d)]
          /\ P[d] \in Nat
    BY <2>1, TermFacts
  <2> HIDE DEF P
  <2> QED BY <1>1, <2>2
<1>5. Factor(cs, j) \in Nat /\ Factor(is, j) \in Nat /\ Same(Mod, Factor(cs, j) * Factor(is, j), 1)
  BY <1>3 DEF Cancel
<1> HIDE DEF P, Q
<1>6. ASSUME NEW d \in Below(b) PROVE R[d] \in Nat /\ R[d] = a * Q[d] /\ Same(Mod, P[d], R[d])
  <2> DEFINE v == m.vals[h][Place(m, c, d)]
             w == x[At(j, b, d)]
             e == Factor(cs, j)
             f == Factor(is, j)
  <2>1. P[d] = ((v * a * e) % Mod) * ((w * f) % Mod)
    BY <1>2, <1>3, <1>4 DEF Values, VectorMatches
  <2>2. R[d] = a * Q[d] /\ Q[d] = v * w BY <1>3
  <2>3. v \in Nat /\ w \in Nat /\ e \in Nat /\ f \in Nat /\ Same(Mod, e * f, 1)
    BY <1>3, <1>5
  <2> HIDE DEF v, w, e, f
  <2>4. Same(Mod, ((v * a * e) % Mod) * ((w * f) % Mod), a * (v * w))
    BY <2>3, FactorsCancel
  <2>5. \A g, k \in Nat : g * k \in Nat OBVIOUS
  <2>6. R[d] \in Nat BY <1>3, <2>2, <2>5
  <2> QED BY <2>1, <2>2, <2>4, <2>6
<1> HIDE DEF R
<1>7. m.bs \in Nat /\ IsFiniteSet(Below(b)) BY BelowFacts DEF Stored, IsMatrix
<1>8. Mod \in Nat \ {0} BY DEF Field
<1> DEFINE D == Below(b)
<1>9. IsFiniteSet(D) /\ \A d \in D : P[d] \in Nat /\ R[d] \in Nat /\ Same(Mod, P[d], R[d])
  BY <1>4, <1>6, <1>7
<1>10. \A d \in D : Q[d] \in Int /\ R[d] = a * Q[d] BY <1>3, <1>6
<1> HIDE DEF D
<1>11. Same(Mod, SumFunctionOnSet(P, D), SumFunctionOnSet(R, D))
  BY <1>8, <1>9, SumModulo
<1>12. SumFunctionOnSet(R, D) = a * SumFunctionOnSet(Q, D)
  <2>1. a \in Int OBVIOUS
  <2> QED BY <1>9, <1>10, <2>1, SumMultiplied
<1>13. TermOf(F, y, jj, c) = SumFunctionOnSet(P, D) /\ TermOf(m, x, h, c) = SumFunctionOnSet(Q, D)
  BY <1>1 DEF TermOf, P, Q, D
<1> QED BY <1>11, <1>12, <1>13

(***************************************************************************)
(* B y is what becomes of A x: with B the matrix after reorderScale and y  *)
(* what becomes of x by columns.                                           *)
(***************************************************************************)
THEOREM ProductsFollow ==
  ASSUME Field, NEW m, Stored(m), NEW o, OrdersRows(o, m.nbrows),
         NEW x \in Vectors(m.nbrows, m.bs, Scalars)
  PROVE  Apply(ReorderScaleForward(m, o), Moved(x, o, m.bs)) =
           OrderVectorForward(ScaleVector(Apply(m, x), o.rowscale, m.bs), o.rp, m.bs)
<1> DEFINE n == m.nbrows
           b == m.bs
           F == ReorderScaleForward(m, o)
           y == Moved(x, o, b)
           is == Inverses(o.colscale)
           xs == ScaleVector(x, is, b)
           r == Apply(m, x)
           u == ScaleVector(r, o.rowscale, b)
           w == OrderVectorForward(u, o.rp, b)
<1>1. n \in Nat /\ b \in Nat \ {0} /\ Rows(m) = Below(n) /\ Mod \in Nat \ {0}
  BY DEF Stored, IsMatrix, Rows, Field
<1>2. /\ \A j \in Below(n) : Factor(o.colscale, j) \in Nat /\ Factor(is, j) \in Nat
      /\ \A j \in Below(n) : Same(Mod, Factor(o.colscale, j) * Factor(is, j), 1)
      /\ is # None => is \in [Below(n) -> Scalars]
  BY InversesFacts DEF OrdersRows
<1>3. /\ Permutes(o.rp, n) /\ Permutes(o.cp, n) /\ Scales(o.rowscale, n) /\ Scales(is, n)
  BY <1>2 DEF OrdersRows, Permutes, Scales, Units
<1>4. \A j \in Below(n) : Factor(o.rowscale, j) \in Nat
  BY <1>1, <1>3 DEF Scales, Factor, Scalars, Below
<1> HIDE DEF is
<1>5. xs \in Vectors(n, b, Scalars)
      /\ \A j \in Below(n), d \in Below(b) :
           xs[At(j, b, d)] = (x[At(j, b, d)] * Factor(is, j)) % Mod
  BY <1>1, <1>3, ScaledVector
<1>6. y = OrderVectorForward(xs, o.cp, b) BY DEF Moved, is
<1> HIDE DEF xs, y
<1>7. y \in Vectors(n, b, Scalars)
      /\ \A j \in Below(n), d \in Below(b) : y[At(j, b, d)] = xs[At(Old(o.cp, j), b, d)]
  BY <1>1, <1>3, <1>5, <1>6, OrderedVector
<1>8. Stored(F) /\ SameFrame(F, m) BY EntriesFollow
<1> HIDE DEF F
<1>9. F.nbrows = n /\ F.bs = b /\ Rows(F) = Rows(m) BY <1>8, SameFrameFacts
<1>10. Apply(F, y) \in Vectors(n, b, Scalars)
       /\ \A i \in Below(n), c \in Below(b) :
            /\ SumFunctionOnSet(Terms(F, y, i, c), Row(F, i)) \in Nat
            /\ Apply(F, y)[At(i, b, c)] = SumFunctionOnSet(Terms(F, y, i, c), Row(F, i)) % Mod
  <2>1. y \in Vectors(F.nbrows, F.bs, Scalars) BY <1>7, <1>9
  <2>2. Apply(F, y) \in Vectors(F.nbrows, F.bs, Scalars)
        /\ \A i \in Rows(F), c \in Below(F.bs) :
            /\ SumFunctionOnSet(Terms(F, y, i, c), Row(F, i)) \in Nat
            /\ Apply(F, y)[At(i, F.bs, c)] = SumFunctionOnSet(Terms(F, y, i, c), Row(F, i)) % Mod
    BY <1>8, <2>1, ApplyFacts
  <2> QED BY <1>1, <1>9, <2>2
<1>11. r \in Vectors(n, b, Scalars)
       /\ \A i \in Below(n), c \in Below(b) :
            /\ SumFunctionOnSet(Terms(m, x, i, c), Row(m, i)) \in Nat
            /\ r[At(i, b, c)] = SumFunctionOnSet(Terms(m, x, i, c), Row(m, i)) % Mod
  BY <1>1, ApplyFacts
<1> HIDE DEF r
<1>12. u \in Vectors(n, b, Scalars)
       /\ \A i \in Below(n), c \in Below(b) :
            u[At(i, b, c)] = (r[At(i, b, c)] * Factor(o.rowscale, i)) % Mod
  BY <1>1, <1>3, <1>11, ScaledVector
<1> HIDE DEF u
<1>13. w \in Vectors(n, b, Scalars)
       /\ \A i \in Below(n), c \in Below(b) : w[At(i, b, c)] = u[At(Old(o.rp, i), b, c)]
  BY <1>1, <1>3, <1>12, OrderedVector
<1> HIDE DEF w
<1>14. ASSUME NEW i \in Below(n), NEW c \in Below(b)
       PROVE  Apply(F, y)[At(i, b, c)] = w[At(i, b, c)]
  <2> DEFINE old == Old(o.rp, i)
             a == Factor(o.rowscale, old)
             f == Terms(F, y, i, c)
             g == Terms(m, x, old, c)
             R == Row(F, i)
             S == Row(m, old)
  <2>1. i \in Rows(m) /\ i \in Rows(F) BY <1>1, <1>9
  <2>2. PICK h : EntriesMatch(h, F, m, o, i) BY <2>1, EntriesFollow DEF F
  <2>3. /\ h \in [R -> S]
        /\ \A p, q \in R : h[p] = h[q] => p = q
        /\ \A z \in S : \E p \in R : h[p] = z
        /\ \A jj \in R : /\ F.bcolind[jj] = New(o.cp, m.bcolind[h[jj]])
                        /\ Values(F, jj, m, h[jj], a, o.colscale)
    BY <2>2 DEF EntriesMatch
  <2>4. old \in Below(n) /\ a \in Nat BY <1>3, <1>4, OldNew
  <2> HIDE DEF old, a
  <2>5. ASSUME NEW jj \in R PROVE Same(Mod, TermOf(F, y, jj, c), a * TermOf(m, x, h[jj], c))
    <3> DEFINE k == h[jj]
               j == m.bcolind[k]
    <3>1. k \in Row(m, old) BY <2>3
    <3>2. j \in Below(n)
      <4>1. k \in Below(Nnzb(m)) BY <1>1, <2>4, <3>1, RowFacts
      <4> QED BY <1>1, <4>1 DEF Stored
    <3>3. F.bcolind[jj] \in Below(n) /\ Old(o.cp, F.bcolind[jj]) = j
      BY <1>3, <2>3, <3>2, OldNew
    <3>4. VectorMatches(y, F, jj, x, m, k, is)
      BY <1>5, <1>7, <3>2, <3>3 DEF VectorMatches
    <3>5. Values(F, jj, m, k, a, o.colscale) BY <2>3
    <3>6. Cancel(o.colscale, is, m.nbrows) BY <1>2 DEF Cancel
    <3> HIDE DEF k
    <3>7. Same(Mod, TermOf(F, y, jj, c), a * TermOf(m, x, k, c))
      BY <1>1, <1>7, <1>8, <2>1, <2>4, <3>1, <3>4, <3>5, <3>6, RowTermsFollow
    <3> QED BY <3>7 DEF k
  <2>6. IsFiniteSet(R) /\ IsFiniteSet(S) BY <1>1, <1>8, <2>1, <2>4, RowFinite
  <2>7. \A jj \in R : f[jj] = TermOf(F, y, jj, c) /\ f[jj] \in Nat
    <3>1. y \in Vectors(F.nbrows, F.bs, Scalars) /\ c \in Below(F.bs) BY <1>7, <1>9
    <3>2. \A jj \in R : TermOf(F, y, jj, c) \in Nat BY <1>8, <2>1, <3>1, TermFacts
    <3> QED BY <3>2 DEF Terms
  <2>8. \A k \in S : g[k] = TermOf(m, x, k, c) /\ g[k] \in Nat
    <3>1. \A k \in S : TermOf(m, x, k, c) \in Nat BY <1>1, <2>4, TermFacts
    <3> QED BY <3>1 DEF Terms
  <2> HIDE DEF f, g, R, S
  <2> DEFINE e == [jj \in R |-> g[h[jj]]]
             ae == [jj \in R |-> a * g[h[jj]]]
  <2>9. \A jj \in R : e[jj] = g[h[jj]] /\ e[jj] \in Nat BY <2>3, <2>8
  <2>10. \A jj \in R : ae[jj] = a * e[jj] /\ ae[jj] \in Nat
    <3>1. \A p, q \in Nat : p * q \in Nat OBVIOUS
    <3>2. \A jj \in R : ae[jj] = a * g[h[jj]] OBVIOUS
    <3> HIDE DEF ae, e
    <3> QED BY <2>4, <2>9, <3>1, <3>2
  <2> HIDE DEF e, ae
  <2>11. SumFunctionOnSet(g, S) = SumFunctionOnSet(e, R)
    <3>1. \A k \in S : g[k] \in Int BY <2>8
    <3> QED BY <2>3, <2>6, <2>9, <3>1, SumRenamed
  <2>12. SumFunctionOnSet(ae, R) = a * SumFunctionOnSet(e, R)
    <3>1. a \in Int /\ \A jj \in R : e[jj] \in Int BY <2>4, <2>9
    <3> QED BY <2>6, <2>10, <3>1, SumMultiplied
  <2>13. \A jj \in R : Same(Mod, f[jj], ae[jj])
    <3> TAKE jj \in R
    <3>1. h[jj] \in S BY <2>3
    <3> QED BY <2>5, <2>7, <2>8, <2>9, <2>10, <3>1
  <2>14. Same(Mod, SumFunctionOnSet(f, R), SumFunctionOnSet(ae, R))
    BY <1>1, <2>6, <2>7, <2>10, <2>13, SumModulo
  <2> DEFINE s == SumFunctionOnSet(f, R)
             t == SumFunctionOnSet(g, S)
  <2>15. s \in Nat /\ t \in Nat BY <2>6, <2>7, <2>8, SumOfNaturals
  <2>16. Apply(F, y)[At(i, b, c)] = s % Mod BY <1>10 DEF f, R
  <2>17. w[At(i, b, c)] = ((t % Mod) * a) % Mod
    BY <1>1, <1>11, <1>12, <1>13, <2>4 DEF g, S, old, a
  <2>18. Same(Mod, s, a * t) BY <2>11, <2>12, <2>14
  <2> HIDE DEF s, t
  <2>19. ((t % Mod) * a) % Mod = (t * a) % Mod BY <1>1, <2>4, <2>15, Modulo
  <2>20. t * a = a * t BY <2>4, <2>15
  <2> QED BY <2>16, <2>17, <2>18, <2>19, <2>20 DEF Same
<1>15. Apply(F, y) = w BY <1>1, <1>10, <1>13, <1>14, SameVector
<1> QED BY <1>15 DEF F, y, w, u, r

-----------------------------------------------------------------------------
(***************************************************************************)
(* The elements of a finite set by their rank in an order B, a set of      *)
(* pairs, and numbers from the smallest on.                                *)
(***************************************************************************)
Earlier(S, B, x) == {y \in S : <<y, x>> \in B}

Orders(B, S) ==
  /\ \A x \in S : <<x, x>> \notin B
  /\ \A x, y \in S : x = y \/ <<x, y>> \in B \/ <<y, x>> \in B
  /\ \A x, y, z \in S : <<x, y>> \in B /\ <<y, z>> \in B => <<x, z>> \in B

LEMMA RankFacts ==
  ASSUME NEW S, IsFiniteSet(S), NEW B, Orders(B, S)
  PROVE  /\ \A x \in S : Cardinality(Earlier(S, B, x)) \in 0 .. Cardinality(S) - 1
         /\ \A x, y \in S : <<x, y>> \in B => Cardinality(Earlier(S, B, x)) < Cardinality(Earlier(S, B, y))
         /\ \A k \in 0 .. Cardinality(S) - 1 : \E x \in S : Cardinality(Earlier(S, B, x)) = k
<1> DEFINE n == Cardinality(S)
           rank == [x \in S |-> Cardinality(Earlier(S, B, x))]
<1>1. n \in Nat BY FiniteFacts
<1>2. \A x \in S : Earlier(S, B, x) \in SUBSET (S \ {x}) BY DEF Earlier, Orders
<1>3. \A x \in S : /\ IsFiniteSet(Earlier(S, B, x)) /\ rank[x] = Cardinality(Earlier(S, B, x))
                   /\ rank[x] \in 0 .. n - 1
  <2> TAKE x \in S
  <2>1. IsFiniteSet(S \ {x}) /\ Cardinality(S \ {x}) = n - 1 BY FiniteFacts
  <2>2. IsFiniteSet(Earlier(S, B, x)) /\ Cardinality(Earlier(S, B, x)) <= n - 1
        /\ Cardinality(Earlier(S, B, x)) \in Nat
    BY <1>2, <2>1, FiniteFacts
  <2> QED BY <1>1, <2>2
<1>4. ASSUME NEW x \in S, NEW y \in S, <<x, y>> \in B PROVE rank[x] < rank[y]
  <2>1. Earlier(S, B, x) \in SUBSET (Earlier(S, B, y) \ {x}) /\ x \in Earlier(S, B, y)
    BY <1>4 DEF Earlier, Orders
  <2>2. /\ IsFiniteSet(Earlier(S, B, y) \ {x})
        /\ Cardinality(Earlier(S, B, y) \ {x}) = rank[y] - 1
    BY <1>3, <2>1, FiniteFacts
  <2>3. Cardinality(Earlier(S, B, x)) <= Cardinality(Earlier(S, B, y) \ {x})
    BY <2>1, <2>2, FiniteFacts
  <2> QED BY <1>3, <2>2, <2>3
<1> DEFINE R == 0 .. n - 1
<1>5. IsFiniteSet(R) /\ Cardinality(R) = n
  <2>1. 0 \in Int /\ n - 1 \in Int /\ (0 > n - 1 => n = 0) /\ (n - 1) - 0 + 1 = n BY <1>1
  <2> DEFINE m == n - 1
  <2>2. m \in Int BY <2>1
  <2> HIDE DEF m
  <2>3. IsFiniteSet(0 .. m) /\ Cardinality(0 .. m) = IF 0 > m THEN 0 ELSE m - 0 + 1
    BY <2>2, FS_Interval
  <2> QED BY <2>1, <2>3 DEF m
<1>6. rank \in [S -> R] BY <1>3
<1>7. \A x, y \in S : rank[x] = rank[y] => x = y
  <2> TAKE x, y \in S
  <2>1. rank[x] \in Int /\ rank[y] \in Int BY <1>3
  <2> HIDE DEF rank
  <2>2. <<x, y>> \in B => rank[x] < rank[y] BY <1>4
  <2>3. <<y, x>> \in B => rank[y] < rank[x] BY <1>4
  <2> QED BY <2>1, <2>2, <2>3 DEF Orders
<1> HIDE DEF rank, R
<1>8. rank \in Injection(S, R) BY <1>6, <1>7 DEF Injection, IsInjective
<1>9. rank \in Surjection(S, R)
  <2>1. Cardinality(S) = Cardinality(R) BY <1>5 DEF n
  <2> QED BY <1>5, <1>8, <2>1, FS_Injection
<1>10. \A k \in R : \E x \in S : rank[x] = k BY <1>9 DEF Surjection
<1> HIDE DEF n
<1> QED BY <1>3, <1>4, <1>10 DEF n, R

Enumerates(h, S) ==
  /\ \A k \in 1 .. Cardinality(S) : h[k] \in S
  /\ \A k, l \in 1 .. Cardinality(S) : k < l => h[k] < h[l]
  /\ \A x \in S : \E k \in 1 .. Cardinality(S) : h[k] = x

LEMMA OrderedFacts ==
  ASSUME NEW S, IsFiniteSet(S), S \subseteq Int
  PROVE  /\ Cardinality(S) \in Nat /\ Enumerates(Ordered(S), S)
         /\ \A k \in 1 .. Cardinality(S) : Ordered(S)[k] = Nth(S, k)
         /\ Ordered(S) \in Seq(S) /\ Len(Ordered(S)) = Cardinality(S)
<1> DEFINE n == Cardinality(S)
           B == {p \in S \X S : p[1] < p[2]}
           h == Ordered(S)
<1>1. Orders(B, S) BY DEF Orders
<1>2. \A x \in S : Earlier(S, B, x) = {y \in S : y < x} BY DEF Earlier
<1>3. \A x, y \in S : <<x, y>> \in B <=> x < y OBVIOUS
<1> HIDE DEF B
<1>4. n \in Nat BY FiniteFacts
<1>5. /\ \A x \in S : Cardinality(Earlier(S, B, x)) \in 0 .. Cardinality(S) - 1
      /\ \A x, y \in S : <<x, y>> \in B => Cardinality(Earlier(S, B, x)) < Cardinality(Earlier(S, B, y))
      /\ \A k \in 0 .. Cardinality(S) - 1 : \E x \in S : Cardinality(Earlier(S, B, x)) = k
  BY <1>1, RankFacts
<1> DEFINE R(x) == Cardinality({y \in S : y < x})
<1>6. \A x \in S : Cardinality(Earlier(S, B, x)) = R(x) BY <1>2
<1>7. \A x \in S : R(x) \in 0 .. n - 1 BY <1>5, <1>6
<1>8. \A x, y \in S : x < y => R(x) < R(y) BY <1>3, <1>5, <1>6, ZenonT(60)
<1>9. \A k \in 0 .. n - 1 : \E x \in S : R(x) = k BY <1>5, <1>6
<1>10. \A k : Nth(S, k) = CHOOSE x \in S : R(x) = k - 1 BY DEF Nth
<1>11. \A k \in 1 .. n : h[k] = Nth(S, k) BY DEF Ordered
<1>12. h = [k \in 1 .. n |-> h[k]] BY DEF Ordered
<1> HIDE DEF R, h, n
<1>13. \A k \in 1 .. n : h[k] \in S /\ R(h[k]) = k - 1
  <2> TAKE k \in 1 .. n
  <2>1. k - 1 \in 0 .. n - 1 BY <1>4
  <2>2. \E x \in S : R(x) = k - 1 BY <1>9, <2>1
  <2> QED BY <1>10, <1>11, <2>2
<1>14. \A k, l \in 1 .. n : k < l => h[k] < h[l]
  <2> TAKE k, l \in 1 .. n
  <2>1. h[k] \in Int /\ h[l] \in Int BY <1>13
  <2>2. h[l] < h[k] => l - 1 < k - 1 BY <1>8, <1>13
  <2>3. h[l] = h[k] => l - 1 = k - 1 BY <1>13
  <2> QED BY <1>4, <2>1, <2>2, <2>3
<1>15. \A x \in S : \E k \in 1 .. n : h[k] = x
  <2> TAKE x \in S
  <2> DEFINE k == R(x) + 1
  <2>1. k \in 1 .. n /\ R(x) = k - 1 BY <1>4, <1>7
  <2> HIDE DEF k
  <2>2. h[k] \in S /\ R(h[k]) = R(x) BY <1>13, <2>1
  <2>3. ~(h[k] < x) /\ ~(x < h[k])
    <3>1. R(x) \in Int BY <1>7
    <3>2. ~(R(x) < R(x)) BY <3>1
    <3>3. h[k] < x => R(h[k]) < R(x) BY <1>8, <2>2
    <3>4. x < h[k] => R(x) < R(h[k]) BY <1>8, <2>2
    <3> QED BY <2>2, <3>2, <3>3, <3>4
  <2>4. h[k] = x
    <3>1. h[k] \in Int /\ x \in Int BY <2>2
    <3> QED BY <2>3, <3>1
  <2> QED BY <2>1, <2>4
<1>16. h \in Seq(S) /\ Len(h) = n BY <1>4, <1>12, <1>13
<1> QED BY <1>4, <1>11, <1>13, <1>14, <1>15, <1>16 DEF Enumerates, n, h

\* Sequences in a row.
Flattens(h, seqs, n) ==
  /\ FlattenSeq(seqs) = h[n]
  /\ \A i \in 1 .. n : h[i] = IF i = 1 THEN seqs[i] ELSE h[i - 1] \o seqs[i]

LEMMA FlattenRule ==
  ASSUME NEW E, NEW n \in Nat \ {0}, NEW seqs \in [1 .. n -> Seq(E)]
  PROVE  \E h : Flattens(h, seqs, n)
<1> DEFINE D == 1 .. n
           V == Seq(E)
           next == [S \in SUBSET D |-> Max(S)]
           op == [x \in D \X V |-> x[2] \o seqs[x[1]]]
           F(h) == [i \in D |-> IF i = 1 THEN seqs[i] ELSE h[i - 1] \o seqs[i]]
           iter == CHOOSE h : h = F(h)
<1>1. Len(seqs) = n /\ seqs \in Seq(V)
  <2>1. seqs \in Seq(V) OBVIOUS
  <2> QED BY <2>1
<1>2. \A S \in SUBSET D : next[S] = Max(S) /\ (S # {} => Max(S) \in S) BY MaxFacts
<1>3. \A i \in D : seqs[i] \in V OBVIOUS
<1>4. \A a, b \in V : a \o b \in V OBVIOUS
<1>5. <<>> \in V OBVIOUS
<1>6. IsFiniteSet(D) BY FS_Interval
<1>7. n # 0 OBVIOUS
<1>8. FlattenSeq(seqs) = iter[n] BY <1>1, <1>7 DEF FlattenSeq
<1> HIDE DEF V
<1>9. op \in [D \X V -> V] /\ \A k \in D, s \in V : op[<<k, s>>] = s \o seqs[k]
  BY <1>3, <1>4
<1> HIDE DEF op, next
<1>10. Chooses(D, next) BY <1>2 DEF Chooses
<1>11. \E g \in [SUBSET D -> V] : FoldRule(g, D, next, <<>>, op)
  <2> HIDE DEF D
  <2> QED BY <1>5, <1>6, <1>9, <1>10, FoldExists, Zenon
<1>12. PICK g \in [SUBSET D -> V] : FoldRule(g, D, next, <<>>, op) BY <1>11
<1> DEFINE f == [i \in D |-> g[1 .. i]]
<1>13. \A i \in D : /\ Max(1 .. i) = i /\ 1 .. i \in SUBSET D /\ 1 .. i # {}
                   /\ (1 .. i) \ {i} = 1 .. (i - 1) /\ 1 .. (i - 1) \in SUBSET D
  <2> TAKE i \in D
  <2>1. 1 .. i \in SUBSET D /\ i \in 1 .. i OBVIOUS
  <2>2. Max(1 .. i) \in 1 .. i /\ \A x \in 1 .. i : x <= Max(1 .. i)
    BY <2>1, MaxFacts
  <2>3. Max(1 .. i) = i BY <2>1, <2>2
  <2>4. (1 .. i) \ {i} = 1 .. (i - 1) OBVIOUS
  <2>5. 1 .. (i - 1) \in SUBSET D OBVIOUS
  <2> HIDE DEF D
  <2> QED BY <2>1, <2>3, <2>4, <2>5
<1>14. \A i \in D : g[1 .. i] = g[1 .. (i - 1)] \o seqs[i] /\ g[1 .. (i - 1)] \in V
  <2> TAKE i \in D
  <2> DEFINE s == 1 .. i
  <2>1. s \in SUBSET D /\ s # {} /\ next[s] = i /\ s \ {i} = 1 .. (i - 1)
    BY <1>2, <1>13
  <2>2. 1 .. (i - 1) \in SUBSET D BY <1>13
  <2> HIDE DEF s
  <2>3. g[s] = op[<<next[s], g[s \ {next[s]}]>>] BY <1>12, <2>1 DEF FoldRule
  <2>4. g[1 .. (i - 1)] \in V BY <1>12, <2>2
  <2> HIDE DEF D
  <2> QED BY <1>9, <2>1, <2>3, <2>4 DEF s
<1>15. g[1 .. 0] = <<>>
  <2>1. 1 .. 0 = {} OBVIOUS
  <2> QED BY <1>12, <2>1 DEF FoldRule
<1>16. \A i \in D : f[i] = IF i = 1 THEN seqs[i] ELSE f[i - 1] \o seqs[i]
  <2> TAKE i \in D
  <2>1. f[i] = g[1 .. i] OBVIOUS
  <2>2. CASE i = 1
    <3>0. 1 .. (i - 1) = 1 .. 0 BY <2>2
    <3>1. f[i] = <<>> \o seqs[i] BY <1>14, <1>15, <2>1, <3>0
    <3>2. seqs[i] \in Seq(E) BY <1>3 DEF V
    <3> QED BY <2>2, <3>1, <3>2, ConcatEmptySeq
  <2>3. CASE i # 1
    <3>1. i - 1 \in D BY <2>3
    <3>2. f[i - 1] = g[1 .. (i - 1)] BY <3>1
    <3> HIDE DEF f, D
    <3> QED BY <1>14, <2>1, <2>3, <3>2
  <2> QED BY <2>2, <2>3
<1>17. f = F(f)
  <2>1. f = [i \in D |-> f[i]] OBVIOUS
  <2> HIDE DEF f
  <2> QED BY <1>16, <2>1
<1>18. iter = F(iter) BY <1>17
<1> HIDE DEF iter
<1>19. \A i \in D : iter[i] = IF i = 1 THEN seqs[i] ELSE iter[i - 1] \o seqs[i]
  BY <1>18
<1> QED BY <1>8, <1>19 DEF Flattens

LEMMA FlattenTyped ==
  ASSUME NEW E, NEW n \in Nat, NEW seqs \in [1 .. n -> Seq(E)]
  PROVE  FlattenSeq(seqs) \in Seq(E)
<1>1. CASE n = 0
  <2>1. seqs \in Seq(Seq(E)) /\ Len(seqs) = 0 BY <1>1
  <2>2. FlattenSeq(seqs) = seqs BY <2>1 DEF FlattenSeq
  <2>3. seqs = <<>> BY <2>1, EmptySeq
  <2> QED BY <2>2, <2>3
<1>2. CASE n # 0
  <2> DEFINE V == Seq(E)
  <2>1. \A i \in 1 .. n : seqs[i] \in V OBVIOUS
  <2>2. \A a, b \in V : a \o b \in V OBVIOUS
  <2>3. PICK h : Flattens(h, seqs, n) BY <1>2, FlattenRule
  <2> HIDE DEF V
  <2> DEFINE T == {k \in Nat : k + 1 \in 1 .. n => h[k + 1] \in V}
  <2>4. \A i \in 1 .. n : h[i] = IF i = 1 THEN seqs[i] ELSE h[i - 1] \o seqs[i]
    BY <2>3 DEF Flattens
  <2>5. 0 \in T BY <2>1, <2>4
  <2>6. ASSUME NEW k \in Nat, k \in T PROVE k + 1 \in T
    <3> SUFFICES ASSUME (k + 1) + 1 \in 1 .. n PROVE h[(k + 1) + 1] \in V OBVIOUS
    <3>1. k + 1 \in 1 .. n /\ (k + 1) + 1 # 1 /\ ((k + 1) + 1) - 1 = k + 1 OBVIOUS
    <3>2. h[k + 1] \in V BY <2>6, <3>1
    <3> QED BY <2>1, <2>2, <2>4, <3>1, <3>2
  <2> HIDE DEF T
  <2>7. Nat \subseteq T BY <2>5, <2>6, NumbersInduction
  <2>8. n - 1 \in T /\ (n - 1) + 1 = n /\ n \in 1 .. n BY <1>2, <2>7
  <2>9. FlattenSeq(seqs) = h[n] BY <2>3 DEF Flattens
  <2> QED BY <2>8, <2>9 DEF T, V
<1> QED BY <1>1, <1>2

-----------------------------------------------------------------------------
(***************************************************************************)
(* The structure of a matrix: what is restored has that of the matrix      *)
(* before, whatever has become of the values.                              *)
(***************************************************************************)
SameStructure(k, m) == SameFrame(k, m) /\ k.browptr = m.browptr /\ k.bcolind = m.bcolind
SameColumns(s, t) == Len(s) = Len(t) /\ \A q \in 1 .. Len(s) : s[q].col = t[q].col

LEMMA StructureOfRows ==
  ASSUME NEW m, Stored(m), NEW k, Stored(k), SameStructure(k, m)
  PROVE  Rows(k) = Rows(m) /\ \A i \in Rows(m) : SameColumns(RowList(k)[i], RowList(m)[i])
<1>1. Rows(k) = Rows(m) BY SameFrameFacts DEF SameStructure
<1>2. ASSUME NEW i \in Rows(m) PROVE SameColumns(RowList(k)[i], RowList(m)[i])
  <2> DEFINE s == RowList(k)[i]  t == RowList(m)[i]  a == m.browptr[i]
  <2>1. Len(s) = Len(t) BY <1>1, RowListFacts DEF SameStructure
  <2>2. \A q \in 1 .. Len(s) : s[q] = [col |-> k.bcolind[k.browptr[i] + q - 1],
                                       val |-> k.vals[k.browptr[i] + q - 1]]
    BY <1>1, RowListFacts
  <2>3. \A q \in 1 .. Len(t) : t[q] = [col |-> m.bcolind[a + q - 1], val |-> m.vals[a + q - 1]]
    BY RowListFacts
  <2>4. k.browptr[i] = a /\ k.bcolind = m.bcolind BY DEF SameStructure
  <2> HIDE DEF s, t, a
  <2>5. ASSUME NEW q \in 1 .. Len(s) PROVE s[q].col = t[q].col
    <3> DEFINE e == k.browptr[i] + q - 1
    <3>1. s[q] = [col |-> k.bcolind[e], val |-> k.vals[e]] BY <2>2
    <3>2. t[q] = [col |-> m.bcolind[e], val |-> m.vals[e]] BY <2>1, <2>3, <2>4
    <3> HIDE DEF e
    <3>3. s[q].col = k.bcolind[e] /\ t[q].col = m.bcolind[e] BY <3>1, <3>2
    <3> QED BY <2>4, <3>3
  <2> QED BY <2>1, <2>5 DEF SameColumns, s, t
<1> QED BY <1>1, <1>2

LEMMA RowsOfStructure ==
  ASSUME NEW m, Stored(m), NEW k, Stored(k), m.nbrows = k.nbrows,
         \A i \in Rows(m) : SameColumns(RowList(k)[i], RowList(m)[i])
  PROVE  k.browptr = m.browptr /\ k.bcolind = m.bcolind
<1> DEFINE n == m.nbrows
           p == m.browptr
           r == k.browptr
<1>1. n \in Nat /\ Rows(m) = Below(n) /\ Rows(k) = Below(n)
  BY DEF Stored, IsMatrix, Rows
<1>2. p \in [0 .. n -> Nat] /\ r \in [0 .. n -> Nat] /\ p[0] = 0 /\ r[0] = 0
  BY DEF Stored, Pointers
<1>3. ASSUME NEW i \in Below(n), p[i] = r[i] PROVE p[i + 1] = r[i + 1]
  <2>1. p[i + 1] - p[i] = r[i + 1] - r[i] BY <1>1, RowListFacts DEF SameColumns
  <2>2. i \in 0 .. n /\ i + 1 \in 0 .. n BY <1>1 DEF Below
  <2>3. p[i] \in Nat /\ p[i + 1] \in Nat /\ r[i] \in Nat /\ r[i + 1] \in Nat
    BY <1>2, <2>2
  <2> HIDE DEF p, r
  <2> QED BY <1>3, <2>1, <2>3
<1> DEFINE T == {i \in Nat : i <= n => p[i] = r[i]}
<1>4. 0 \in T BY <1>2
<1>5. ASSUME NEW i \in Nat, i \in T PROVE i + 1 \in T
  <2> SUFFICES ASSUME i + 1 <= n PROVE p[i + 1] = r[i + 1] OBVIOUS
  <2>1. i \in Below(n) /\ p[i] = r[i] BY <1>1, <1>5 DEF Below
  <2> QED BY <1>3, <2>1
<1> HIDE DEF T
<1>6. Nat \subseteq T BY <1>4, <1>5, NumbersInduction
<1>7. \A i \in 0 .. n : p[i] = r[i] BY <1>1, <1>6 DEF T
<1> HIDE DEF p, r, n
<1>8. p = r
  <2>1. p = [i \in 0 .. n |-> p[i]] /\ r = [i \in 0 .. n |-> r[i]] BY <1>2
  <2> QED BY <1>7, <2>1
<1>9. Nnzb(m) = Nnzb(k) BY <1>8 DEF Nnzb, p, r
<1>10. ASSUME NEW jj \in Below(Nnzb(m)) PROVE m.bcolind[jj] = k.bcolind[jj]
  <2>1. PICK i \in Rows(m) : jj \in Row(m, i) BY RowFacts
  <2>2. i \in Rows(k) /\ jj \in Row(k, i) BY <1>1, <1>8, <2>1 DEF Row, p, r
  <2> DEFINE q == jj - p[i] + 1
  <2>3. /\ RowList(m)[i][q] = [col |-> m.bcolind[jj], val |-> m.vals[jj]]
        /\ q \in 1 .. Len(RowList(m)[i])
    BY <2>1, RowListFacts DEF p
  <2>4. RowList(k)[i][q] = [col |-> k.bcolind[jj], val |-> k.vals[jj]]
    BY <1>8, <2>2, RowListFacts DEF p, r
  <2> HIDE DEF q
  <2>5. RowList(k)[i][q].col = RowList(m)[i][q].col BY <2>1, <2>3 DEF SameColumns
  <2> QED BY <2>3, <2>4, <2>5
<1>11. m.bcolind = k.bcolind
  <2>1. m.bcolind \in [Below(Nnzb(m)) -> Rows(m)] /\ k.bcolind \in [Below(Nnzb(m)) -> Rows(k)]
    BY <1>9 DEF Stored
  <2> QED BY <1>10, <2>1
<1> QED BY <1>8, <1>11 DEF p, r

\* As RenamedBack, for the columns alone.
ColumnsRenamedBy(s, row, names) ==
  \E p : /\ IsPermutation(p, 1 .. Len(row))
         /\ \A q \in 1 .. Len(row) : s[q].col = names[row[p[q]].col]

LEMMA ColumnsRenamedBack ==
  ASSUME NEW n \in Nat, NEW V, NEW f, IsPermutation(f, Below(n)), NEW g, IsPermutation(g, Below(n)),
         \A v \in Below(n) : g[f[v]] = v,
         NEW row \in Seq(EntriesOf(n, V)), Ascending(row),
         NEW s \in Seq(EntriesOf(n, V)), Len(s) = Len(row), ColumnsRenamedBy(s, row, f)
  PROVE  SameColumns(Renamed(s, g), row)
<1> DEFINE E == EntriesOf(n, V)
           k == Len(row)
           D == 1 .. k
           t == Renamed(s, g)
<1>2. t \in Seq(E) /\ Len(t) = k /\ RenamedBy(t, s, g)
      /\ \A b \in 1 .. k : \A a \in 1 .. b : t[a].col <= t[b].col
  BY RenamedFacts
<1> HIDE DEF t
<1>3. PICK p : /\ IsPermutation(p, D)
               /\ \A q \in D : s[q].col = f[row[p[q]].col]
  BY DEF ColumnsRenamedBy
<1>4. PICK r : /\ IsPermutation(r, D)
               /\ \A q \in D : t[q].col = g[s[r[q]].col]
  BY <1>2 DEF RenamedBy
<1> DEFINE c == [q \in D |-> p[r[q]]]
<1>5. k \in Nat /\ \A q \in D : row[q] \in E /\ t[q] \in E
  <2> HIDE DEF E
  <2>1. row \in Seq(E) BY DEF E
  <2> QED BY <1>2, <2>1
<1>6. \A q \in D : p[q] \in D /\ r[q] \in D BY <1>3, <1>4 DEF IsPermutation
<1>7. c \in [D -> D] /\ \A q \in D : c[q] = p[r[q]] BY <1>6
<1> HIDE DEF D, c
<1>8. IsPermutation(c, D) BY <1>3, <1>4, <1>7, PermutationsCompose
<1>9. ASSUME NEW q \in D PROVE t[q].col = row[c[q]].col
  <2>1. r[q] \in D /\ c[q] = p[r[q]] /\ c[q] \in D BY <1>6, <1>7
  <2>2. row[c[q]].col \in Below(n) BY <1>5, <2>1 DEF EntriesOf
  <2> QED BY <1>3, <1>4, <2>1, <2>2
<1>10. ASSUME NEW a \in D, NEW b \in D, a < b PROVE c[a] < c[b]
  <2>1. c[a] \in D /\ c[b] \in D /\ c[a] # c[b]
    <3>1. a # b BY <1>10 DEF D
    <3> QED BY <1>7, <1>8, <3>1 DEF IsPermutation
  <2>2. t[a].col <= t[b].col BY <1>2, <1>10 DEF D
  <2>3. t[a].col = row[c[a]].col /\ t[b].col = row[c[b]].col BY <1>9
  <2>4. row[c[a]].col \in Int /\ row[c[b]].col \in Int
    BY <1>5, <2>1 DEF Below, EntriesOf
  <2>5. ~(c[b] < c[a])
    <3>1. c[b] < c[a] => row[c[b]].col < row[c[a]].col BY <2>1 DEF Ascending, D
    <3> QED BY <2>2, <2>3, <2>4, <3>1
  <2> QED BY <2>1, <2>5 DEF D
<1>11. \A a \in D : c[a] = a BY <1>5, <1>7, <1>10, AscendingIsIdentity DEF D
<1>12. \A q \in D : t[q].col = row[q].col BY <1>9, <1>11
<1> QED BY <1>2, <1>12 DEF SameColumns, D, t

LEMMA StructureUndone ==
  ASSUME NEW s, Stored(s), NEW o, OrdersRows(o, s.nbrows),
         \A i \in Rows(s) : Ascending(RowList(s)[i]),
         NEW m, Stored(m), SameStructure(m, OrderedForward(s, o))
  PROVE  Stored(OrderedInverse(m, o)) /\ SameStructure(OrderedInverse(m, o), s)
<1> DEFINE n == s.nbrows
           F == OrderedForward(s, o)
           I == OrderedInverse(m, o)
           V == [Places(s) -> Scalars]
<1>1. n \in Nat /\ Rows(s) = Below(n) BY DEF Stored, IsMatrix, Rows
<1>2. Stored(F) /\ SameFrame(F, s) BY ForwardFacts
<1>3. \A i \in Below(n) : RowList(F)[i] =
           IF o.cp = None THEN ForwardRow(s, o, i) ELSE Renamed(ForwardRow(s, o, i), o.icp)
  BY <1>1, ForwardFacts
<1> HIDE DEF F
<1>4. /\ SameFrame(m, s) /\ m.nbrows = n /\ Rows(m) = Below(n) /\ OrdersRows(o, m.nbrows)
      /\ Places(m) = Places(s) /\ Rows(F) = Below(n)
      /\ \A i \in Below(n) : SameColumns(RowList(m)[i], RowList(F)[i])
  <2>1. SameFrame(m, F) BY DEF SameStructure, F
  <2>2. SameFrame(m, s) BY <1>2, <2>1 DEF SameFrame
  <2>3. Rows(m) = Rows(F) /\ \A i \in Rows(F) : SameColumns(RowList(m)[i], RowList(F)[i])
    BY <1>2, StructureOfRows DEF F
  <2> QED BY <1>1, <1>2, <2>2, <2>3, SameFrameFacts
<1>5. /\ Stored(I) /\ SameFrame(I, m)
      /\ o.rp # None => \A d \in Below(n) : /\ Placed(o, n, d) \in Below(n)
                                            /\ o.rp[Placed(o, n, d)] = d
      /\ \A d \in Below(n) :
           LET old == IF o.rp = None THEN RowList(m)[d] ELSE RowList(m)[Placed(o, n, d)]
           IN RowList(I)[d] = IF o.cp = None THEN old ELSE Renamed(old, o.cp)
  BY <1>4, InverseFacts
<1> HIDE DEF I
<1>6. \A d \in Below(n) : SameColumns(RowList(I)[d], RowList(s)[d])
  <2> TAKE d \in Below(n)
  <2> DEFINE at == IF o.rp = None THEN d ELSE Placed(o, n, d)
             old == RowList(m)[at]
             row == RowList(s)[d]
  <2>1. RowList(I)[d] = IF o.cp = None THEN old ELSE Renamed(old, o.cp) BY <1>5
  <2>2. at \in Below(n) BY <1>5
  <2>3. RowList(F)[at] = IF o.cp = None THEN row ELSE Renamed(row, o.icp)
    <3>1. CASE o.rp = None BY <1>3, <3>1 DEF ForwardRow
    <3>2. CASE o.rp # None BY <1>3, <1>5, <3>2 DEF ForwardRow
    <3> QED BY <3>1, <3>2
  <2>4. SameColumns(old, RowList(F)[at]) BY <1>4, <2>2
  <2>5. row \in Seq(EntriesOf(n, V)) /\ Ascending(row)
    BY <1>1, RowListFacts DEF Lists, Entries
  <2>6. old \in Seq(EntriesOf(n, V)) BY <1>4, <2>2, RowListFacts, ZenonT(60) DEF Lists, Entries
  <2> HIDE DEF old, row, at, V
  <2>7. CASE o.cp = None BY <2>1, <2>3, <2>4, <2>7 DEF row
  <2>8. CASE o.cp # None
    <3>1. /\ IsPermutation(o.cp, Below(n)) /\ o.icp \in [Below(n) -> Below(n)]
          /\ \A v \in Below(n) : o.cp[o.icp[v]] = v
      BY <2>8 DEF OrdersRows
    <3>2. IsPermutation(o.icp, Below(n)) BY <3>1, InverseIsPermutation
    <3>3. Len(Renamed(row, o.icp)) = Len(row) /\ RenamedBy(Renamed(row, o.icp), row, o.icp)
      BY <1>1, <2>5, <3>2, RenamedFacts
    <3>4. Len(old) = Len(row) BY <2>3, <2>4, <2>8, <3>3 DEF SameColumns
    <3>5. ColumnsRenamedBy(old, row, o.icp)
      <4>1. PICK p : /\ IsPermutation(p, 1 .. Len(row))
                     /\ \A q \in 1 .. Len(row) : Renamed(row, o.icp)[q].col = o.icp[row[p[q]].col]
        BY <3>3 DEF RenamedBy
      <4>2. \A q \in 1 .. Len(row) : old[q].col = Renamed(row, o.icp)[q].col
        BY <2>3, <2>4, <2>8, <3>4 DEF SameColumns
      <4>3. \A q \in 1 .. Len(row) : old[q].col = o.icp[row[p[q]].col] BY <4>1, <4>2
      <4> QED BY <4>1, <4>3 DEF ColumnsRenamedBy
    <3>6. SameColumns(Renamed(old, o.cp), row)
      BY <1>1, <2>5, <2>6, <3>1, <3>2, <3>4, <3>5, ColumnsRenamedBack
    <3> QED BY <2>1, <2>8, <3>6 DEF row
  <2> QED BY <2>7, <2>8
<1>7. SameFrame(I, s) BY <1>4, <1>5 DEF SameFrame
<1>8. I.browptr = s.browptr /\ I.bcolind = s.bcolind
  <2>1. s.nbrows = I.nbrows BY <1>7 DEF SameFrame
  <2> QED BY <1>1, <1>5, <1>6, <2>1, RowsOfStructure
<1> QED BY <1>5, <1>7, <1>8 DEF SameStructure, I

(***************************************************************************)
(* With the scalings: whatever the values have become in between, the      *)
(* structure that ReorderScaleInverse gives back is the one before.        *)
(***************************************************************************)
THEOREM RestoredStructure ==
  ASSUME Field, NEW m, Stored(m), SortedRows(m), NEW o, OrdersRows(o, m.nbrows),
         NEW k, Stored(k), SameStructure(k, ReorderScaleForward(m, o))
  PROVE  Stored(ReorderScaleInverse(k, o)) /\ SameStructure(ReorderScaleInverse(k, o), m)
<1> DEFINE s == ScaledBy(m, o.rowscale, o.colscale)
           I == OrderedInverse(k, o)
           U == Unscaled(I, o)
<1>1. Scales(o.rowscale, m.nbrows) /\ Scales(o.colscale, m.nbrows)
  BY DEF OrdersRows, Scales, Units
<1>2. Stored(s) /\ SameFrame(s, m) /\ s.browptr = m.browptr /\ s.bcolind = m.bcolind
  BY <1>1, ScaledFacts
<1>3. SameStructure(k, OrderedForward(s, o)) BY DEF ReorderScaleForward
<1> HIDE DEF s
<1>4. s.nbrows = m.nbrows /\ \A i \in Rows(s) : Ascending(RowList(s)[i])
  BY <1>2, ScalingKeepsOrder, SameFrameFacts, AscendingRows
<1>5. Stored(I) /\ SameStructure(I, s) BY <1>2, <1>3, <1>4, StructureUndone
<1> HIDE DEF I
<1>6. I.nbrows = m.nbrows BY <1>4, <1>5, SameFrameFacts DEF SameStructure
<1> DEFINE r == Inverses(o.rowscale)
           c == Inverses(o.colscale)
<1>7. Scales(r, I.nbrows) /\ Scales(c, I.nbrows)
  BY <1>6, InversesFacts DEF OrdersRows, Scales
<1>8. U = ScaledBy(I, r, c) BY DEF Unscaled
<1> HIDE DEF r, c, U
<1>9. Stored(U) /\ SameFrame(U, I) /\ U.browptr = I.browptr /\ U.bcolind = I.bcolind
  BY <1>5, <1>7, <1>8, ScaledFacts
<1>10. SameStructure(U, m) BY <1>2, <1>5, <1>9 DEF SameStructure, SameFrame
<1> QED BY <1>9, <1>10 DEF ReorderScaleInverse, U, I
-----------------------------------------------------------------------------
(***************************************************************************)
(* Matrices as the code keeps them: in no row a column is stored twice,    *)
(* and the diagonal blocks that are stored are where diagind says.         *)
(***************************************************************************)
Distinct(m) ==
  \A i \in Rows(m) : \A jj, kk \in Row(m, i) : m.bcolind[jj] = m.bcolind[kk] => jj = kk

Found(m) ==
  \A i \in Rows(m) :
    (\E jj \in Row(m, i) : m.bcolind[jj] = i)
      => m.diagind[i] \in Row(m, i) /\ m.bcolind[m.diagind[i]] = i

Sound(m) == Stored(m) /\ m.nbrows # 0 /\ Distinct(m) /\ Found(m)

\* Both are a matter of the structure.
LEMMA SoundStructure ==
  ASSUME NEW m, Sound(m), NEW k, Stored(k), SameStructure(k, m)
  PROVE  Sound(k)
<1>1. /\ Rows(k) = Rows(m) /\ k.diagind = m.diagind /\ k.nbrows = m.nbrows
      /\ k.bcolind = m.bcolind /\ \A i \in Rows(m) : Row(k, i) = Row(m, i)
  BY SameFrameFacts DEF SameStructure, Row
<1>2. Distinct(k) BY <1>1 DEF Sound, Distinct
<1>3. Found(k) BY <1>1 DEF Sound, Found
<1> QED BY <1>1, <1>2, <1>3 DEF Sound

LEMMA MinFacts ==
  ASSUME NEW S \in SUBSET Nat, S # {}
  PROVE  Min(S) \in S /\ \A x \in S : Min(S) <= x
<1> DEFINE T == {k \in Nat : (\E x \in S : x <= k) => \E x \in S : \A y \in S : x <= y}
<1>1. 0 \in T
  <2>1. \A x \in S : x <= 0 => \A y \in S : x <= y OBVIOUS
  <2> QED BY <2>1
<1>2. ASSUME NEW k \in Nat, k \in T PROVE k + 1 \in T
  <2>1. CASE \E x \in S : x <= k BY <1>2, <2>1
  <2>2. CASE ~\E x \in S : x <= k
    <3>1. \A x \in S : x <= k + 1 => \A y \in S : x <= y BY <2>2
    <3> QED BY <3>1
  <2> QED BY <2>1, <2>2
<1> HIDE DEF T
<1>3. Nat \subseteq T BY <1>1, <1>2, NumbersInduction
<1>4. \E x \in S : \A y \in S : x <= y
  <2>1. PICK x \in S : TRUE OBVIOUS
  <2>2. x \in T /\ x <= x BY <1>3, <2>1
  <2> QED BY <2>1, <2>2 DEF T
<1> QED BY <1>4 DEF Min

(***************************************************************************)
(* setStructure.                                                           *)
(***************************************************************************)
IsStructure(s) ==
  /\ s.nbrows \in Nat \ {0} /\ s.bs \in Nat \ {0}
  /\ s.browptr \in [0 .. s.nbrows -> Nat] /\ s.browptr[0] = 0
  /\ \A i \in Below(s.nbrows) : s.browptr[i] <= s.browptr[i + 1]
  /\ s.bcolind \in [Below(s.browptr[s.nbrows]) -> Below(s.nbrows)]
  /\ \A i \in Below(s.nbrows) : \A jj, kk \in s.browptr[i] .. s.browptr[i + 1] - 1 :
       s.bcolind[jj] = s.bcolind[kk] => jj = kk

LEMMA StructuredSound ==
  ASSUME Field, NEW s, IsStructure(s), NEW garbage \in {1, 2}
  PROVE  Sound(Structured(s, s.bs, garbage))
<1> DEFINE n == s.nbrows  bs == s.bs  ptr == s.browptr  col == s.bcolind
           N == ptr[n]
           vals == [jj \in Below(N) |-> [k \in Below(bs * bs) |-> (garbage + 2 * jj + k) % Mod]]
           D(i) == {jj \in ptr[i] .. ptr[i + 1] - 1 : col[jj] = i}
           diag == [i \in Below(n) |-> Min(D(i))]
           m == [nbrows |-> n, bs |-> bs, stor |-> "rowmajor", browptr |-> ptr, bcolind |-> col,
                 vals |-> vals, diagind |-> diag]
<1>1. /\ n \in Nat \ {0} /\ bs \in Nat \ {0} /\ Pointers(ptr, n)
      /\ col \in [Below(N) -> Below(n)]
      /\ \A i \in Below(n) : \A jj, kk \in ptr[i] .. ptr[i + 1] - 1 : col[jj] = col[kk] => jj = kk
  BY DEF IsStructure, Pointers
<1>2. Structured(s, s.bs, garbage) = m BY <1>1 DEF Structured
<1>3. /\ m.nbrows = n /\ m.bs = bs /\ m.browptr = ptr /\ m.bcolind = col /\ m.vals = vals
      /\ m.diagind = diag /\ m.stor = "rowmajor"
  OBVIOUS
<1>4. vals \in [Below(N) -> [Below(bs * bs) -> Scalars]]
  <2>1. Mod \in Nat \ {0} BY DEF Field
  <2>2. N \in Nat /\ bs * bs \in Nat BY <1>1 DEF Pointers
  <2>3. \A x \in Nat : x % Mod \in Scalars BY <2>1 DEF Scalars, Below
  <2>4. ASSUME NEW jj \in Below(N), NEW k \in Below(bs * bs)
        PROVE  (garbage + 2 * jj + k) % Mod \in Scalars
    <3>1. garbage + 2 * jj + k \in Nat BY <2>2 DEF Below
    <3> QED BY <2>3, <3>1
  <2> QED BY <2>4
<1>5. \A i \in Below(n) : diag[i] = Min(D(i))
  <2> HIDE DEF D
  <2> QED OBVIOUS
<1>6. m = [nbrows |-> m.nbrows, bs |-> m.bs, stor |-> m.stor, browptr |-> m.browptr,
           bcolind |-> m.bcolind, vals |-> m.vals, diagind |-> m.diagind]
  OBVIOUS
<1> HIDE DEF m, vals, diag, n, bs, ptr, col, D
<1>7. Stored(m)
  <2>1. IsMatrix(m) BY <1>1, <1>3, <1>6 DEF IsMatrix
  <2>2. Nnzb(m) = N /\ Rows(m) = Below(n) /\ Places(m) = Below(bs * bs)
    BY <1>3 DEF Nnzb, Rows, Places
  <2> QED BY <1>1, <1>3, <1>4, <2>1, <2>2 DEF Stored
<1>8. Rows(m) = Below(n) /\ \A i \in Below(n) : Row(m, i) = ptr[i] .. ptr[i + 1] - 1
  BY <1>3 DEF Rows, Row
<1>9. Distinct(m)
  <2> SUFFICES ASSUME NEW i \in Rows(m), NEW jj \in Row(m, i), NEW kk \in Row(m, i),
                      m.bcolind[jj] = m.bcolind[kk]
               PROVE  jj = kk
    BY DEF Distinct
  <2>1. i \in Below(n) /\ jj \in ptr[i] .. ptr[i + 1] - 1 /\ kk \in ptr[i] .. ptr[i + 1] - 1
    BY <1>8
  <2> QED BY <1>1, <1>3, <2>1
<1>10. Found(m)
  <2> SUFFICES ASSUME NEW i \in Rows(m), NEW kk \in Row(m, i), m.bcolind[kk] = i
               PROVE  m.diagind[i] \in Row(m, i) /\ m.bcolind[m.diagind[i]] = i
    BY DEF Found
  <2> DEFINE S == D(i)
  <2>1. S = {jj \in Row(m, i) : m.bcolind[jj] = i} BY <1>3, <1>8 DEF D
  <2>2. kk \in S BY <2>1
  <2>3. S \in SUBSET Nat
    <3>1. Row(m, i) \subseteq Nat
      <4>1. m.browptr[i] \in Nat /\ m.browptr[i + 1] \in Nat BY <1>7, RowFacts
      <4> QED BY <4>1 DEF Row
    <3> QED BY <2>1, <3>1
  <2>4. m.diagind[i] = Min(S) BY <1>3, <1>5, <1>8
  <2> HIDE DEF S
  <2>5. Min(S) \in S BY <2>2, <2>3, MinFacts
  <2> QED BY <2>1, <2>4, <2>5
<1> QED BY <1>1, <1>2, <1>3, <1>7, <1>9, <1>10 DEF Sound

-----------------------------------------------------------------------------
(***************************************************************************)
(* The scalars that a matrix represents: p is a row and a column, its      *)
(* scalar the one at place k of block jj.                                  *)
(***************************************************************************)
SquareOf(m) == Below(Dim(m)) \X Below(Dim(m))
Corner(m, i, r, j, c) == <<At(i, m.bs, r), At(j, m.bs, c)>>

Holds(m, jj, k, p) ==
  /\ jj \in Row(m, p[1] \div m.bs) /\ m.bcolind[jj] = p[2] \div m.bs
  /\ k = Place(m, p[1] % m.bs, p[2] % m.bs)

LEMMA CornerFacts ==
  ASSUME NEW m, m.nbrows \in Nat, m.bs \in Nat \ {0}
  PROVE  /\ \A p \in SquareOf(m) :
              /\ p[1] \div m.bs \in Rows(m) /\ p[2] \div m.bs \in Rows(m)
              /\ p[1] % m.bs \in Below(m.bs) /\ p[2] % m.bs \in Below(m.bs)
              /\ p = Corner(m, p[1] \div m.bs, p[1] % m.bs, p[2] \div m.bs, p[2] % m.bs)
         /\ \A i, j \in Rows(m), r, c \in Below(m.bs) :
              LET p == Corner(m, i, r, j, c)
              IN /\ p \in SquareOf(m) /\ p[1] \div m.bs = i /\ p[1] % m.bs = r
                 /\ p[2] \div m.bs = j /\ p[2] % m.bs = c
<1>1. Rows(m) = Below(m.nbrows) /\ Dim(m) = m.nbrows * m.bs BY DEF Rows, Dim
<1> DEFINE b == m.bs  n == m.nbrows
<1>2. /\ \A i \in Below(n), c \in Below(b) :
            /\ At(i, b, c) \in Below(n * b)
            /\ At(i, b, c) \div b = i /\ At(i, b, c) % b = c
      /\ \A p \in Below(n * b) :
            /\ p \div b \in Below(n) /\ p % b \in Below(b)
            /\ p = At(p \div b, b, p % b)
  BY IndexFacts
<1>3. ASSUME NEW p \in SquareOf(m)
      PROVE  /\ p[1] \div b \in Rows(m) /\ p[2] \div b \in Rows(m)
             /\ p[1] % b \in Below(b) /\ p[2] % b \in Below(b)
             /\ p = Corner(m, p[1] \div b, p[1] % b, p[2] \div b, p[2] % b)
  <2>1. p = <<p[1], p[2]>> /\ p[1] \in Below(n * b) /\ p[2] \in Below(n * b)
    BY <1>1 DEF SquareOf
  <2>2. /\ p[1] \div b \in Below(n) /\ p[1] % b \in Below(b)
        /\ p[1] = At(p[1] \div b, b, p[1] % b)
        /\ p[2] \div b \in Below(n) /\ p[2] % b \in Below(b)
        /\ p[2] = At(p[2] \div b, b, p[2] % b)
    BY <1>2, <2>1
  <2>3. Corner(m, p[1] \div b, p[1] % b, p[2] \div b, p[2] % b) = <<p[1], p[2]>>
    BY <2>2, Zenon DEF Corner
  <2> QED BY <1>1, <2>1, <2>2, <2>3, Zenon
<1>4. ASSUME NEW i \in Rows(m), NEW j \in Rows(m), NEW r \in Below(b), NEW c \in Below(b)
      PROVE  LET p == Corner(m, i, r, j, c)
             IN /\ p \in SquareOf(m) /\ p[1] \div b = i /\ p[1] % b = r
                /\ p[2] \div b = j /\ p[2] % b = c
  <2> DEFINE p == Corner(m, i, r, j, c)
  <2>1. p = <<At(i, b, r), At(j, b, c)>> BY DEF Corner
  <2>2. p[1] = At(i, b, r) /\ p[2] = At(j, b, c) BY <2>1
  <2>3. At(i, b, r) \in Below(Dim(m)) /\ At(j, b, c) \in Below(Dim(m)) BY <1>1, <1>2, Zenon
  <2>4. p \in SquareOf(m) BY <2>1, <2>3 DEF SquareOf
  <2>5. /\ At(i, b, r) \div b = i /\ At(i, b, r) % b = r
        /\ At(j, b, c) \div b = j /\ At(j, b, c) % b = c
    BY <1>1, <1>2, Zenon
  <2>6. /\ p \in SquareOf(m) /\ p[1] \div b = i /\ p[1] % b = r
        /\ p[2] \div b = j /\ p[2] % b = c
    <3> HIDE DEF p
    <3> QED BY <2>2, <2>4, <2>5
  <2> QED BY <2>6
<1> QED BY <1>3, <1>4, Zenon

LEMMA PlaceOnce ==
  ASSUME NEW m, m.bs \in Nat \ {0}
  PROVE  /\ \A r, c \in Below(m.bs) : Place(m, r, c) \in Places(m)
         /\ \A r, c, s, d \in Below(m.bs) : Place(m, r, c) = Place(m, s, d) => r = s /\ c = d
         /\ \A k \in Places(m) : \E r, c \in Below(m.bs) : k = Place(m, r, c)
<1> DEFINE b == m.bs
<1>1. b \in Nat /\ b \in Nat \ {0} /\ Places(m) = Below(b * b) BY DEF Places
<1>2. \A r, c : Place(m, r, c) = IF m.stor = "rowmajor" THEN At(r, b, c) ELSE At(c, b, r)
  BY DEF Place, At
<1> HIDE DEF b
<1>3. /\ \A i \in Below(b), c \in Below(b) :
              /\ At(i, b, c) \in Below(b * b)
              /\ At(i, b, c) \div b = i /\ At(i, b, c) % b = c
      /\ \A p \in Below(b * b) :
              /\ p \div b \in Below(b) /\ p % b \in Below(b)
              /\ p = At(p \div b, b, p % b)
  BY <1>1, IndexFacts
<1>4. \A r, c, s, d \in Below(b) : Place(m, r, c) = Place(m, s, d) => r = s /\ c = d
  <2> SUFFICES ASSUME NEW r \in Below(b), NEW c \in Below(b), NEW s \in Below(b), NEW d \in Below(b),
                      Place(m, r, c) = Place(m, s, d)
               PROVE  r = s /\ c = d
    BY Zenon
  <2>1. CASE m.stor = "rowmajor"
    <3>1. At(r, b, c) = At(s, b, d) BY <1>2, <2>1
    <3>2. /\ At(r, b, c) \div b = r /\ At(r, b, c) % b = c
          /\ At(s, b, d) \div b = s /\ At(s, b, d) % b = d
      BY <1>3
    <3> QED BY <3>1, <3>2, Zenon
  <2>2. CASE m.stor # "rowmajor"
    <3>1. At(c, b, r) = At(d, b, s) BY <1>2, <2>2
    <3>2. /\ At(c, b, r) \div b = c /\ At(c, b, r) % b = r
          /\ At(d, b, s) \div b = d /\ At(d, b, s) % b = s
      BY <1>3
    <3> QED BY <3>1, <3>2, Zenon
  <2> QED BY <2>1, <2>2
<1>5. ASSUME NEW r \in Below(b), NEW c \in Below(b) PROVE Place(m, r, c) \in Places(m)
  <2>1. At(r, b, c) \in Below(b * b) /\ At(c, b, r) \in Below(b * b) BY <1>3
  <2> QED BY <1>1, <1>2, <2>1
<1>6. \A k \in Places(m) : \E r, c \in Below(b) : k = Place(m, r, c)
  <2> TAKE k \in Places(m)
  <2>1. k \div b \in Below(b) /\ k % b \in Below(b) /\ k = At(k \div b, b, k % b)
    BY <1>1, <1>3
  <2>2. CASE m.stor = "rowmajor"
    <3>1. k = Place(m, k \div b, k % b) BY <1>2, <2>1, <2>2
    <3> QED BY <2>1, <3>1, Zenon
  <2>3. CASE m.stor # "rowmajor"
    <3>1. k = Place(m, k % b, k \div b) BY <1>2, <2>1, <2>3
    <3> QED BY <2>1, <3>1, Zenon
  <2> QED BY <2>2, <2>3
<1> QED BY <1>4, <1>5, <1>6 DEF b

LEMMA StoredBounds ==
  ASSUME NEW m, Stored(m)
  PROVE  m.nbrows \in Nat /\ m.bs \in Nat \ {0}
BY DEF Stored, IsMatrix

LEMMA HoldsInside ==
  ASSUME NEW m, Stored(m), NEW p \in SquareOf(m), NEW jj, NEW k, Holds(m, jj, k, p)
  PROVE  jj \in Below(Nnzb(m)) /\ k \in Places(m)
<1>1. m.nbrows \in Nat /\ m.bs \in Nat \ {0} BY StoredBounds
<1>2. /\ p[1] \div m.bs \in Rows(m)
      /\ p[1] % m.bs \in Below(m.bs) /\ p[2] % m.bs \in Below(m.bs)
  BY <1>1, CornerFacts
<1>3. jj \in Row(m, p[1] \div m.bs) /\ k = Place(m, p[1] % m.bs, p[2] % m.bs) BY DEF Holds
<1>4. jj \in Below(Nnzb(m)) BY <1>2, <1>3, RowFacts
<1>5. k \in Places(m) BY <1>1, <1>2, <1>3, PlaceOnce
<1> QED BY <1>4, <1>5

\* A place holds one scalar, and a scalar has one place.
LEMMA HoldsOnce ==
  ASSUME NEW m, Stored(m), Distinct(m)
  PROVE  /\ \A p \in SquareOf(m) : \A jj, k, ll, l :
              Holds(m, jj, k, p) /\ Holds(m, ll, l, p) => jj = ll /\ k = l
         /\ \A p, q \in SquareOf(m) : \A jj, k :
              Holds(m, jj, k, p) /\ Holds(m, jj, k, q) => p = q
         /\ \A jj \in Below(Nnzb(m)), k \in Places(m) : \E p \in SquareOf(m) : Holds(m, jj, k, p)
<1>1. m.nbrows \in Nat /\ m.bs \in Nat \ {0} BY StoredBounds
<1>2. ASSUME NEW p \in SquareOf(m), NEW jj, NEW k, NEW ll, NEW l,
             Holds(m, jj, k, p), Holds(m, ll, l, p)
      PROVE  jj = ll /\ k = l
  <2>1. p[1] \div m.bs \in Rows(m) BY <1>1, CornerFacts
  <2>2. /\ jj \in Row(m, p[1] \div m.bs) /\ ll \in Row(m, p[1] \div m.bs)
        /\ m.bcolind[jj] = m.bcolind[ll] /\ k = l
    BY <1>2 DEF Holds
  <2> QED BY <2>1, <2>2 DEF Distinct
<1>3. ASSUME NEW p \in SquareOf(m), NEW q \in SquareOf(m), NEW jj, NEW k,
             Holds(m, jj, k, p), Holds(m, jj, k, q)
      PROVE  p = q
  <2>1. /\ p[1] \div m.bs \in Rows(m) /\ q[1] \div m.bs \in Rows(m)
        /\ p[1] % m.bs \in Below(m.bs) /\ p[2] % m.bs \in Below(m.bs)
        /\ q[1] % m.bs \in Below(m.bs) /\ q[2] % m.bs \in Below(m.bs)
        /\ p = Corner(m, p[1] \div m.bs, p[1] % m.bs, p[2] \div m.bs, p[2] % m.bs)
        /\ q = Corner(m, q[1] \div m.bs, q[1] % m.bs, q[2] \div m.bs, q[2] % m.bs)
    BY <1>1, CornerFacts
  <2>2. /\ jj \in Row(m, p[1] \div m.bs) /\ jj \in Row(m, q[1] \div m.bs)
        /\ p[2] \div m.bs = q[2] \div m.bs
        /\ Place(m, p[1] % m.bs, p[2] % m.bs) = Place(m, q[1] % m.bs, q[2] % m.bs)
    BY <1>3 DEF Holds
  <2>3. p[1] \div m.bs = q[1] \div m.bs BY <2>1, <2>2, RowFacts
  <2>4. p[1] % m.bs = q[1] % m.bs /\ p[2] % m.bs = q[2] % m.bs
    BY <1>1, <2>1, <2>2, PlaceOnce
  <2> QED BY <2>1, <2>2, <2>3, <2>4
<1>4. ASSUME NEW jj \in Below(Nnzb(m)), NEW k \in Places(m)
      PROVE  \E p \in SquareOf(m) : Holds(m, jj, k, p)
  <2>1. PICK i \in Rows(m) : jj \in Row(m, i) BY RowFacts
  <2>2. PICK r \in Below(m.bs), c \in Below(m.bs) : k = Place(m, r, c) BY <1>1, PlaceOnce
  <2>3. m.bcolind[jj] \in Rows(m) BY DEF Stored
  <2> DEFINE p == Corner(m, i, r, m.bcolind[jj], c)
  <2>4. /\ p \in SquareOf(m) /\ p[1] \div m.bs = i /\ p[1] % m.bs = r
        /\ p[2] \div m.bs = m.bcolind[jj] /\ p[2] % m.bs = c
    BY <1>1, <2>1, <2>2, <2>3, CornerFacts
  <2> HIDE DEF p
  <2>5. Holds(m, jj, k, p) BY <2>1, <2>2, <2>4 DEF Holds
  <2> QED BY <2>4, <2>5
<1> QED BY <1>2, <1>3, <1>4, Zenon

LEMMA DenseFacts ==
  ASSUME Field, NEW m, Stored(m), Distinct(m)
  PROVE  /\ Dense(m) \in [SquareOf(m) -> Scalars]
         /\ \A p \in SquareOf(m) : \A jj, k : Holds(m, jj, k, p) => Dense(m)[p] = m.vals[jj][k]
         /\ \A p \in SquareOf(m) : (\A jj, k : ~Holds(m, jj, k, p)) => Dense(m)[p] = 0
<1> DEFINE here(p) == {jj \in Row(m, p[1] \div m.bs) : m.bcolind[jj] = p[2] \div m.bs}
           place(p) == Place(m, p[1] % m.bs, p[2] % m.bs)
           value(p) == IF here(p) = {} THEN 0 ELSE m.vals[CHOOSE jj \in here(p) : TRUE][place(p)]
<1>1. Dense(m) = [p \in SquareOf(m) |-> value(p)] BY DEF Dense, SquareOf
<1>2. \A p, jj, k : Holds(m, jj, k, p) <=> jj \in here(p) /\ k = place(p) BY DEF Holds
<1> HIDE DEF here, place
<1>3. ASSUME NEW p \in SquareOf(m), NEW jj, NEW k, Holds(m, jj, k, p)
      PROVE  value(p) = m.vals[jj][k]
  <2>1. jj \in here(p) /\ k = place(p) BY <1>2, <1>3
  <2> DEFINE ll == CHOOSE x \in here(p) : TRUE
  <2>2. ll \in here(p) BY <2>1
  <2> HIDE DEF ll
  <2>3. Holds(m, ll, k, p) BY <1>2, <2>1, <2>2
  <2>4. ll = jj BY <1>3, <2>3, HoldsOnce
  <2>5. value(p) = m.vals[ll][place(p)] BY <2>1 DEF ll
  <2> QED BY <2>1, <2>4, <2>5
<1>4. ASSUME NEW p \in SquareOf(m), \A jj, k : ~Holds(m, jj, k, p)
      PROVE  value(p) = 0
  <2>1. \A jj : jj \notin here(p) BY <1>2, <1>4
  <2>2. here(p) = {} BY <2>1
  <2> QED BY <2>2
<1> HIDE DEF value
<1>5. ASSUME NEW p \in SquareOf(m) PROVE value(p) \in Scalars
  <2>1. CASE \E jj, k : Holds(m, jj, k, p)
    <3>1. PICK jj, k : Holds(m, jj, k, p) BY <2>1
    <3>2. jj \in Below(Nnzb(m)) /\ k \in Places(m) BY <3>1, HoldsInside
    <3>3. m.vals[jj][k] \in Scalars BY <3>2 DEF Stored
    <3> QED BY <1>3, <3>1, <3>3
  <2>2. CASE \A jj, k : ~Holds(m, jj, k, p)
    <3>1. 0 \in Scalars BY DEF Field, Scalars, Below
    <3> QED BY <1>4, <2>2, <3>1
  <2> QED BY <2>1, <2>2
<1>6. \A p \in SquareOf(m) : Dense(m)[p] = value(p) BY <1>1
<1>7. Dense(m) \in [SquareOf(m) -> Scalars] BY <1>1, <1>5
<1>8. \A p \in SquareOf(m) : \A jj, k : Holds(m, jj, k, p) => Dense(m)[p] = m.vals[jj][k]
  BY <1>3, <1>6
<1>9. \A p \in SquareOf(m) : (\A jj, k : ~Holds(m, jj, k, p)) => Dense(m)[p] = 0
  BY <1>4, <1>6
<1> QED BY <1>7, <1>8, <1>9

LEMMA SameHolds ==
  ASSUME NEW m, NEW k, SameStructure(k, m)
  PROVE  /\ SquareOf(k) = SquareOf(m)
         /\ \A jj, l, p : Holds(k, jj, l, p) <=> Holds(m, jj, l, p)
         /\ Distinct(m) => Distinct(k)
<1>1. k.nbrows = m.nbrows /\ k.bs = m.bs /\ k.stor = m.stor /\ k.browptr = m.browptr
      /\ k.bcolind = m.bcolind
  BY DEF SameStructure, SameFrame
<1> QED BY <1>1 DEF SquareOf, Dim, Holds, Row, Place, Distinct, Rows

(***************************************************************************)
(* A call that changes each value by its row and column alone: f says what *)
(* becomes of it.                                                          *)
(***************************************************************************)
Becoming(k, m, f) ==
  /\ \A p \in SquareOf(m) : \A jj, l :
       Holds(m, jj, l, p) => k.vals[jj][l] = f[<<p, m.vals[jj][l]>>]
  /\ \A p \in SquareOf(m) : (\A jj, l : ~Holds(m, jj, l, p)) => f[<<p, 0>>] = 0

LEMMA DenseChanged ==
  ASSUME Field, NEW m, Stored(m), Distinct(m), NEW k, Stored(k), SameStructure(k, m), NEW f,
         Becoming(k, m, f)
  PROVE  Dense(k) = [p \in SquareOf(m) |-> f[<<p, Dense(m)[p]>>]]
<1>1. /\ SquareOf(k) = SquareOf(m)
      /\ \A jj, l, p : Holds(k, jj, l, p) <=> Holds(m, jj, l, p)
      /\ Distinct(k)
  BY SameHolds
<1>2. ASSUME NEW p \in SquareOf(m) PROVE Dense(k)[p] = f[<<p, Dense(m)[p]>>]
  <2>1. CASE \E jj, l : Holds(m, jj, l, p)
    <3>1. PICK jj, l : Holds(m, jj, l, p) BY <2>1
    <3>2. Dense(m)[p] = m.vals[jj][l] BY <3>1, DenseFacts
    <3>3. Dense(k)[p] = k.vals[jj][l] BY <1>1, <3>1, DenseFacts
    <3>4. k.vals[jj][l] = f[<<p, m.vals[jj][l]>>] BY <3>1 DEF Becoming
    <3> QED BY <3>2, <3>3, <3>4
  <2>2. CASE \A jj, l : ~Holds(m, jj, l, p)
    <3>1. Dense(m)[p] = 0 BY <2>2, DenseFacts
    <3>2. Dense(k)[p] = 0 BY <1>1, <2>2, DenseFacts
    <3> QED BY <2>2, <3>1, <3>2 DEF Becoming
  <2> QED BY <2>1, <2>2
<1>3. Dense(k) \in [SquareOf(m) -> Scalars] BY <1>1, DenseFacts
<1> QED BY <1>2, <1>3

LEMMA CornerHolds ==
  ASSUME NEW m, Stored(m), NEW i \in Rows(m), NEW jj \in Row(m, i),
         NEW r \in Below(m.bs), NEW c \in Below(m.bs), NEW j, j = m.bcolind[jj]
  PROVE  Corner(m, i, r, j, c) \in SquareOf(m) /\ Holds(m, jj, Place(m, r, c), Corner(m, i, r, j, c))
<1> DEFINE p == Corner(m, i, r, j, c)
<1>1. m.nbrows \in Nat /\ m.bs \in Nat \ {0} BY StoredBounds
<1>2. j \in Rows(m)
  <2>1. jj \in Below(Nnzb(m)) BY RowFacts
  <2> QED BY <2>1 DEF Stored
<1>3. /\ p \in SquareOf(m) /\ p[1] \div m.bs = i /\ p[1] % m.bs = r
      /\ p[2] \div m.bs = j /\ p[2] % m.bs = c
  BY <1>1, <1>2, CornerFacts
<1> HIDE DEF p
<1>4. Holds(m, jj, Place(m, r, c), p) BY <1>3 DEF Holds
<1> QED BY <1>3, <1>4 DEF p

LEMMA ScalarHolds ==
  ASSUME NEW m, Stored(m), m.bs = 1, NEW i \in Rows(m), NEW jj \in Row(m, i), NEW p,
         p = <<i, m.bcolind[jj]>>
  PROVE  p \in SquareOf(m) /\ Holds(m, jj, 0, p)
<1> DEFINE j == m.bcolind[jj]
<1>1. m.nbrows \in Nat BY StoredBounds
<1>2. i \in Nat BY <1>1 DEF Rows, Below
<1>3. j \in Nat
  <2>1. jj \in Below(Nnzb(m)) BY RowFacts
  <2>2. j \in Rows(m) BY <2>1 DEF Stored
  <2> QED BY <1>1, <2>2 DEF Rows, Below
<1> HIDE DEF j
<1>4. At(i, m.bs, 0) = i /\ At(j, m.bs, 0) = j BY <1>2, <1>3 DEF At
<1>5. Corner(m, i, 0, j, 0) = <<i, j>> BY <1>4, Zenon DEF Corner
<1>6. 0 \in Below(m.bs) BY DEF Below
<1>7. Place(m, 0, 0) = 0 BY DEF Place
<1>8. Corner(m, i, 0, j, 0) \in SquareOf(m) /\ Holds(m, jj, Place(m, 0, 0), Corner(m, i, 0, j, 0))
  BY <1>6, CornerHolds DEF j
<1> QED BY <1>5, <1>7, <1>8 DEF j

-----------------------------------------------------------------------------

(***************************************************************************)
(* The calls that change values leave the structure as it is.              *)
(***************************************************************************)
LEMMA RevaluedFacts ==
  ASSUME NEW m, Stored(m), NEW v \in [Below(Nnzb(m)) -> [Places(m) -> Scalars]],
         NEW k, k = [m EXCEPT !.vals = v]
  PROVE  Stored(k) /\ SameStructure(k, m) /\ k.vals = v
<1>1. m = [nbrows |-> m.nbrows, bs |-> m.bs, stor |-> m.stor, browptr |-> m.browptr,
           bcolind |-> m.bcolind, vals |-> m.vals, diagind |-> m.diagind]
  BY DEF Stored, IsMatrix
<1>2. k = [nbrows |-> m.nbrows, bs |-> m.bs, stor |-> m.stor, browptr |-> m.browptr,
           bcolind |-> m.bcolind, vals |-> v, diagind |-> m.diagind]
  BY <1>1
<1>3. /\ k.nbrows = m.nbrows /\ k.bs = m.bs /\ k.stor = m.stor /\ k.browptr = m.browptr
      /\ k.bcolind = m.bcolind /\ k.vals = v /\ k.diagind = m.diagind
  BY <1>2
<1>4. SameStructure(k, m) BY <1>3 DEF SameStructure, SameFrame
<1>5. IsMatrix(k) BY <1>2, <1>3 DEF Stored, IsMatrix
<1>6. Nnzb(k) = Nnzb(m) /\ Places(k) = Places(m) /\ Rows(k) = Rows(m)
  BY <1>3 DEF Nnzb, Places, Rows
<1>7. Stored(k) BY <1>3, <1>5, <1>6 DEF Stored
<1> QED BY <1>3, <1>4, <1>7

LEMMA StoredValues ==
  ASSUME NEW m, Stored(m)
  PROVE  /\ DOMAIN m.vals = Below(Nnzb(m))
         /\ \A jj \in Below(Nnzb(m)) : m.vals[jj] \in [Places(m) -> Scalars]
BY DEF Stored

LEMMA ZeroFacts ==
  ASSUME Field, NEW m, Stored(m)
  PROVE  /\ Stored(AllZero(m)) /\ SameStructure(AllZero(m), m)
         /\ Stored(DiagZero(m)) /\ SameStructure(DiagZero(m), m)
<1>1. 0 \in Scalars BY DEF Field, Scalars, Below
<1>2. /\ DOMAIN m.vals = Below(Nnzb(m))
      /\ \A jj \in Below(Nnzb(m)) : m.vals[jj] \in [Places(m) -> Scalars]
  BY StoredValues
<1> DEFINE z == [jj \in Below(Nnzb(m)) |-> [k \in Places(m) |-> 0]]
           Diag(jj) == \E i \in Rows(m) : m.diagind[i] = jj
           d == [jj \in Below(Nnzb(m)) |-> [k \in Places(m) |->
                   IF Diag(jj) THEN 0 ELSE m.vals[jj][k]]]
<1>3. z \in [Below(Nnzb(m)) -> [Places(m) -> Scalars]] BY <1>1
<1>4. AllZero(m) = [m EXCEPT !.vals = z]
  <2>1. [jj \in DOMAIN m.vals |-> [k \in DOMAIN m.vals[jj] |-> 0]] = z BY <1>2
  <2> HIDE DEF z
  <2> QED BY <2>1 DEF AllZero, Valued
<1>5. d \in [Below(Nnzb(m)) -> [Places(m) -> Scalars]]
  <2> HIDE DEF Diag
  <2> QED BY <1>1, <1>2
<1>6. DiagZero(m) = [m EXCEPT !.vals = d]
  <2>1. [jj \in DOMAIN m.vals |-> [k \in DOMAIN m.vals[jj] |->
           IF Diag(jj) THEN 0 ELSE m.vals[jj][k]]] = d
    <3> HIDE DEF Diag
    <3> QED BY <1>2
  <2> HIDE DEF d
  <2> QED BY <2>1 DEF DiagZero, Valued
<1> HIDE DEF z, d
<1> QED BY <1>3, <1>4, <1>5, <1>6, RevaluedFacts

LEMMA ScaleFacts ==
  ASSUME Field, NEW m, Stored(m), NEW factor \in Nat
  PROVE  Stored(Scaled(m, factor)) /\ SameStructure(Scaled(m, factor), m)
<1>1. /\ DOMAIN m.vals = Below(Nnzb(m))
      /\ \A jj \in Below(Nnzb(m)) : m.vals[jj] \in [Places(m) -> Scalars]
  BY StoredValues
<1> DEFINE v == [jj \in Below(Nnzb(m)) |-> [k \in Places(m) |-> (factor * m.vals[jj][k]) % Mod]]
<1>2. ASSUME NEW x \in Scalars PROVE (factor * x) % Mod \in Scalars
  <2>1. Mod \in Nat \ {0} /\ x \in Nat BY DEF Field, Scalars, Below
  <2>2. factor * x \in Nat BY <2>1
  <2> QED BY <2>1, <2>2, SameRules DEF Scalars, Below
<1>3. v \in [Below(Nnzb(m)) -> [Places(m) -> Scalars]] BY <1>1, <1>2
<1>4. Scaled(m, factor) = [m EXCEPT !.vals = v]
  <2>1. [jj \in DOMAIN m.vals |-> [k \in DOMAIN m.vals[jj] |-> (factor * m.vals[jj][k]) % Mod]] = v
    BY <1>1
  <2> HIDE DEF v
  <2> QED BY <2>1 DEF Scaled, Valued
<1> HIDE DEF v
<1> QED BY <1>3, <1>4, RevaluedFacts

(***************************************************************************)
(* Where the scalars of a b x b block go.                                  *)
(***************************************************************************)
PlacesOf(m, b) == [jj : Below(Nnzb(m)), k : Places(m), from : Below(b * b)]

LEMMA SubmittedFacts ==
  ASSUME NEW m, Stored(m), NEW b \in Nat \ {0}, NEW places \in Seq(PlacesOf(m, b)),
         NEW buffer \in [1 .. b * b -> Scalars]
  PROVE  Stored(Submitted(m, places, buffer)) /\ SameStructure(Submitted(m, places, buffer), m)
<1> DEFINE N == Len(places)
           Here(jj, k) == {q \in DOMAIN places : places[q].jj = jj /\ places[q].k = k}
           new(jj, k) == IF Here(jj, k) = {} THEN m.vals[jj][k]
                         ELSE buffer[places[Max(Here(jj, k))].from + 1]
           v == [jj \in Below(Nnzb(m)) |-> [k \in Places(m) |-> new(jj, k)]]
<1>1. /\ DOMAIN m.vals = Below(Nnzb(m))
      /\ \A jj \in Below(Nnzb(m)) : m.vals[jj] \in [Places(m) -> Scalars]
  BY StoredValues
<1>2. /\ N \in Nat /\ DOMAIN places = 1 .. N
      /\ \A q \in 1 .. N : places[q].from + 1 \in 1 .. b * b
  <2> DEFINE E == PlacesOf(m, b)
  <2>1. places \in Seq(E) OBVIOUS
  <2> HIDE DEF E
  <2>2. N \in Nat /\ DOMAIN places = 1 .. N /\ \A q \in 1 .. N : places[q] \in E
    BY <2>1
  <2>3. \A e \in E : e.from \in Below(b * b) BY DEF E, PlacesOf
  <2>4. b * b \in Nat OBVIOUS
  <2>5. \A x \in Below(b * b) : x + 1 \in 1 .. b * b BY <2>4 DEF Below
  <2> QED BY <2>2, <2>3, <2>5
<1>3. ASSUME NEW jj \in Below(Nnzb(m)), NEW k \in Places(m) PROVE new(jj, k) \in Scalars
  <2> DEFINE here == Here(jj, k)
  <2>1. CASE here = {} BY <1>1, <2>1
  <2>2. CASE here # {}
    <3>1. here \in SUBSET (1 .. N) BY <1>2
    <3>2. new(jj, k) = buffer[places[Max(here)].from + 1] BY <2>2
    <3> HIDE DEF here, new
    <3>3. Max(here) \in 1 .. N BY <1>2, <2>2, <3>1, MaxFacts
    <3> QED BY <1>2, <3>2, <3>3
  <2> QED BY <2>1, <2>2
<1>4. Submitted(m, places, buffer) =
        [m EXCEPT !.vals = [jj \in DOMAIN m.vals |-> [k \in DOMAIN m.vals[jj] |-> new(jj, k)]]]
  BY DEF Submitted
<1> HIDE DEF new
<1>5. v \in [Below(Nnzb(m)) -> [Places(m) -> Scalars]] BY <1>3
<1>6. [jj \in DOMAIN m.vals |-> [k \in DOMAIN m.vals[jj] |-> new(jj, k)]] = v
  BY <1>1
<1> HIDE DEF v
<1> QED BY <1>4, <1>5, <1>6, RevaluedFacts

LEMMA AddedFacts ==
  ASSUME Field, NEW m, Stored(m), NEW jj \in Below(Nnzb(m)), NEW k \in Places(m),
         NEW amount \in Scalars
  PROVE  LET M == [m EXCEPT !.vals[jj][k] = (@ + amount) % Mod]
         IN Stored(M) /\ SameStructure(M, m)
<1> DEFINE x == (m.vals[jj][k] + amount) % Mod
           v == [m.vals EXCEPT ![jj][k] = x]
           M == [m EXCEPT !.vals[jj][k] = (@ + amount) % Mod]
<1>1. /\ DOMAIN m.vals = Below(Nnzb(m)) /\ m.vals \in [Below(Nnzb(m)) -> [Places(m) -> Scalars]]
      /\ \A e \in Below(Nnzb(m)) : m.vals[e] \in [Places(m) -> Scalars]
  BY StoredValues DEF Stored
<1>2. x \in Scalars
  <2>1. Mod \in Nat \ {0} /\ m.vals[jj][k] \in Nat /\ amount \in Nat
    BY <1>1 DEF Field, Scalars, Below
  <2> DEFINE y == m.vals[jj][k] + amount
  <2>2. y \in Nat BY <2>1
  <2> HIDE DEF y
  <2>3. y % Mod \in 0 .. Mod - 1 BY <2>1, <2>2, SameRules
  <2> QED BY <2>3 DEF y, Scalars, Below
<1>3. M = [m EXCEPT !.vals = v] OBVIOUS
<1> HIDE DEF x, M
<1>4. v \in [Below(Nnzb(m)) -> [Places(m) -> Scalars]]
  <2> DEFINE w == [m.vals[jj] EXCEPT ![k] = x]
  <2>1. w \in [Places(m) -> Scalars] BY <1>1, <1>2
  <2>2. v = [m.vals EXCEPT ![jj] = w] OBVIOUS
  <2> HIDE DEF w, v
  <2> QED BY <1>1, <2>1, <2>2
<1> HIDE DEF v
<1> QED BY <1>3, <1>4, RevaluedFacts DEF M

LEMMA StructuresAlike ==
  ASSUME NEW k, NEW m, NEW l
  PROVE  /\ SameStructure(m, m)
         /\ SameStructure(k, m) /\ SameStructure(m, l) => SameStructure(k, l)
         /\ SameStructure(k, m) => /\ Nnzb(k) = Nnzb(m) /\ Places(k) = Places(m)
                                   /\ k.nbrows = m.nbrows
<1>1. SameStructure(m, m) BY DEF SameStructure, SameFrame
<1>2. SameStructure(k, m) /\ SameStructure(m, l) => SameStructure(k, l)
  BY DEF SameStructure, SameFrame
<1>3. SameStructure(k, m) => Nnzb(k) = Nnzb(m) /\ Places(k) = Places(m) /\ k.nbrows = m.nbrows
  BY DEF SameStructure, SameFrame, Nnzb, Places
<1> QED BY <1>1, <1>2, <1>3
-----------------------------------------------------------------------------
(***************************************************************************)
(* Columns.  Block columns list, column by column and from the top, every  *)
(* entry of the matrix once, with the row that it is in; so to add up the  *)
(* terms of a row over the columns is to add them up over the row.         *)
(***************************************************************************)
\* What the first i sequences are, one behind the other.
JoinedUpTo(s, seqs, ptr, i) ==
  /\ Len(s) = ptr[i]
  /\ \A c \in Below(i) : \A k \in 1 .. Len(seqs[c + 1]) : s[ptr[c] + k] = seqs[c + 1][k]

LEMMA OneMoreJoined ==
  ASSUME NEW E, NEW n \in Nat, NEW seqs \in [1 .. n -> Seq(E)],
         NEW ptr, Pointers(ptr, n), \A c \in Below(n) : ptr[c + 1] = ptr[c] + Len(seqs[c + 1]),
         NEW i \in Below(n), NEW s \in Seq(E), JoinedUpTo(s, seqs, ptr, i)
  PROVE  JoinedUpTo(s \o seqs[i + 1], seqs, ptr, i + 1)
<1> DEFINE new == seqs[i + 1]  t == s \o new
<1>1. i \in Nat /\ i + 1 \in 1 .. n /\ i \in 0 .. n BY DEF Below
<1>2. new \in Seq(E) /\ Len(new) \in Nat BY <1>1
<1>3. ptr[i + 1] = ptr[i] + Len(new) BY DEF new
<1>4. \A c \in 0 .. n : ptr[c] \in Nat BY DEF Pointers
<1>5. ptr[i] \in Nat /\ Len(s) = ptr[i] BY <1>1, <1>4 DEF JoinedUpTo
<1> HIDE DEF new
<1>6. Len(t) = ptr[i + 1]
  <2>1. Len(s \o new) = Len(s) + Len(new) BY <1>2
  <2> QED BY <1>3, <1>5, <2>1
<1>7. \A q \in 1 .. Len(s) : t[q] = s[q] BY <1>2
<1>8. \A k \in 1 .. Len(new) : t[Len(s) + k] = new[k] BY <1>2, <1>5
<1> HIDE DEF t
<1>9. ASSUME NEW c \in Below(i + 1), NEW k \in 1 .. Len(seqs[c + 1])
      PROVE  t[ptr[c] + k] = seqs[c + 1][k]
  <2>1. CASE c = i BY <1>5, <1>8, <2>1, <1>9 DEF new
  <2>2. CASE c # i
    <3>1. c \in Below(i) /\ c \in Below(n) /\ c \in 0 .. n /\ c + 1 \in 0 .. n /\ c + 1 <= i
      BY <1>1, <2>2 DEF Below
    <3>2. ptr[c + 1] <= ptr[i] BY <1>1, <3>1, PointersAscend
    <3>3. ptr[c + 1] = ptr[c] + Len(seqs[c + 1]) BY <3>1
    <3>4. ptr[c] \in Nat /\ ptr[c + 1] \in Nat BY <1>4, <3>1
    <3>5. seqs[c + 1] \in Seq(E)
      <4>1. c + 1 \in 1 .. n BY <1>1, <3>1 DEF Below
      <4> QED BY <4>1
    <3>6. Len(seqs[c + 1]) \in Nat BY <3>5
    <3>7. ptr[c] + k \in 1 .. Len(s) BY <1>5, <3>2, <3>3, <3>4, <3>6, SMTT(60)
    <3> QED BY <1>7, <3>1, <3>7 DEF JoinedUpTo
  <2> QED BY <2>1, <2>2
<1>10. t = s \o seqs[i + 1] BY DEF t, new
<1> QED BY <1>6, <1>9, <1>10 DEF JoinedUpTo

LEMMA JoinedFacts ==
  ASSUME NEW E, NEW n \in Nat \ {0}, NEW seqs \in [1 .. n -> Seq(E)],
         NEW ptr, Pointers(ptr, n), \A c \in Below(n) : ptr[c + 1] = ptr[c] + Len(seqs[c + 1])
  PROVE  FlattenSeq(seqs) \in Seq(E) /\ JoinedUpTo(FlattenSeq(seqs), seqs, ptr, n)
<1>1. FlattenSeq(seqs) \in Seq(E) BY FlattenTyped
<1>2. PICK h : Flattens(h, seqs, n) BY FlattenRule
<1> DEFINE P(i) == h[i] \in Seq(E) /\ JoinedUpTo(h[i], seqs, ptr, i)
           T == {i \in Nat : i + 1 \in 1 .. n => P(i + 1)}
<1>3. \A c \in 0 .. n : ptr[c] \in Nat BY DEF Pointers
<1>4. JoinedUpTo(<<>>, seqs, ptr, 0)
  <2>1. ptr[0] = 0 /\ Below(0) = {} BY DEF Pointers, Below
  <2> QED BY <2>1 DEF JoinedUpTo
<1>5. P(1)
  <2>1. 0 \in Below(n) /\ 1 \in 1 .. n BY DEF Below
  <2>2. <<>> \in Seq(E) /\ seqs[1] \in Seq(E) BY <2>1
  <2>3. JoinedUpTo(<<>> \o seqs[0 + 1], seqs, ptr, 0 + 1) BY <1>4, <2>1, <2>2, OneMoreJoined
  <2>4. <<>> \o seqs[1] = seqs[1] BY <2>2, ConcatEmptySeq
  <2>5. h[1] = seqs[1] BY <1>2, <2>1 DEF Flattens
  <2> QED BY <2>2, <2>3, <2>4, <2>5
<1>6. ASSUME NEW i \in Nat, i \in T PROVE i + 1 \in T
  <2> DEFINE k == i + 1
  <2> SUFFICES ASSUME k + 1 \in 1 .. n PROVE P(k + 1) OBVIOUS
  <2>1. k \in 1 .. n /\ k \in Below(n) /\ k \in Nat BY DEF Below
  <2>2. P(k) BY <1>6, <2>1
  <2> HIDE DEF k
  <2>3. h[k + 1] = h[k] \o seqs[k + 1]
    <3> DEFINE l == k + 1
    <3>1. l # 1 /\ l - 1 = k /\ l \in 1 .. n BY <2>1 DEF k
    <3> HIDE DEF l
    <3>2. h[l] = h[l - 1] \o seqs[l] BY <1>2, <3>1 DEF Flattens
    <3> QED BY <3>1, <3>2 DEF l
  <2>4. JoinedUpTo(h[k] \o seqs[k + 1], seqs, ptr, k + 1) BY <2>1, <2>2, OneMoreJoined
  <2>5. h[k] \o seqs[k + 1] \in Seq(E) BY <2>2
  <2> QED BY <2>3, <2>4, <2>5
<1>7. 0 \in T BY <1>5
<1> HIDE DEF T
<1>8. Nat \subseteq T BY <1>6, <1>7, NumbersInduction
<1>9. P(n)
  <2>1. n - 1 \in Nat /\ (n - 1) + 1 = n /\ n \in 1 .. n OBVIOUS
  <2>2. n - 1 \in T BY <1>8, <2>1
  <2> QED BY <2>1, <2>2 DEF T
<1>10. FlattenSeq(seqs) = h[n] BY <1>2 DEF Flattens
<1> QED BY <1>1, <1>9, <1>10

\* In cols the entries of a column are listed from ptr[c] on, from the top.
ListsColumns(m, ptr, cols) ==
  /\ Pointers(ptr, m.nbrows) /\ ptr[m.nbrows] = Nnzb(m)
  /\ cols \in Seq(Below(Nnzb(m))) /\ Len(cols) = Nnzb(m)
  /\ \A c \in Rows(m) : \A q \in Span(ptr, c) : m.bcolind[cols[q + 1]] = c
  /\ \A c \in Rows(m) : \A q, r \in Span(ptr, c) : q < r => cols[q + 1] < cols[r + 1]
  /\ \A jj \in Below(Nnzb(m)) : \E q \in Span(ptr, m.bcolind[jj]) : cols[q + 1] = jj

LEMMA InColumnFacts ==
  ASSUME NEW m, Stored(m), NEW c \in Rows(m)
  PROVE  /\ InColumn(m, c) \in Seq(Below(Nnzb(m))) /\ Len(InColumn(m, c)) \in Nat
         /\ \A k \in 1 .. Len(InColumn(m, c)) : m.bcolind[InColumn(m, c)[k]] = c
         /\ \A k, l \in 1 .. Len(InColumn(m, c)) : k < l => InColumn(m, c)[k] < InColumn(m, c)[l]
         /\ \A jj \in Below(Nnzb(m)) : m.bcolind[jj] = c =>
              \E k \in 1 .. Len(InColumn(m, c)) : InColumn(m, c)[k] = jj
<1> DEFINE S == {jj \in Below(Nnzb(m)) : m.bcolind[jj] = c}  h == Ordered(S)
<1>1. Nnzb(m) \in Nat BY DEF Stored, IsMatrix, Pointers, Nnzb
<1>2. IsFiniteSet(Below(Nnzb(m))) /\ Below(Nnzb(m)) \subseteq Int BY <1>1, BelowFacts DEF Below
<1>3. S \subseteq Below(Nnzb(m)) OBVIOUS
<1>4. IsFiniteSet(S) /\ S \subseteq Int BY <1>2, <1>3, FS_Subset
<1>5. InColumn(m, c) = h BY DEF InColumn
<1>6. \A jj \in S : jj \in Below(Nnzb(m)) /\ m.bcolind[jj] = c OBVIOUS
<1>7. \A jj \in Below(Nnzb(m)) : m.bcolind[jj] = c => jj \in S OBVIOUS
<1> HIDE DEF S
<1>8. /\ Cardinality(S) \in Nat /\ Enumerates(h, S) /\ h \in Seq(S) /\ Len(h) = Cardinality(S)
  BY <1>4, OrderedFacts
<1> HIDE DEF h
<1>9. h \in Seq(Below(Nnzb(m))) BY <1>3, <1>8
<1> QED BY <1>5, <1>6, <1>7, <1>8, <1>9 DEF Enumerates

LEMMA ColumnsListed ==
  ASSUME NEW m, Stored(m), m.nbrows # 0
  PROVE  ListsColumns(m, ColumnPointers(m), Columns(m))
<1> DEFINE n == m.nbrows  N == Nnzb(m)
           col(c) == InColumn(m, c)
           seqs == [c \in 1 .. n |-> col(c - 1)]
           count == [c \in Rows(m) |-> Len(col(c))]
           ptr == ColumnPointers(m)
           cols == Columns(m)
<1>1. n \in Nat \ {0} /\ Rows(m) = Below(n) BY DEF Stored, IsMatrix, Rows
<1>2. N \in Nat /\ m.bcolind \in [Below(N) -> Below(n)]
  BY <1>1 DEF Stored, IsMatrix, Pointers, Nnzb
<1>3. \A c \in Below(n) : /\ col(c) \in Seq(Below(N)) /\ Len(col(c)) \in Nat
                          /\ \A k \in 1 .. Len(col(c)) : m.bcolind[col(c)[k]] = c
                          /\ \A k, l \in 1 .. Len(col(c)) : k < l => col(c)[k] < col(c)[l]
                          /\ \A jj \in Below(N) : m.bcolind[jj] = c =>
                               \E k \in 1 .. Len(col(c)) : col(c)[k] = jj
  BY <1>1, InColumnFacts
<1>4. ptr = Scan(n, count) /\ cols = FlattenSeq(seqs) BY DEF ColumnPointers, Columns
<1> HIDE DEF n, N, col, ptr, cols
<1>5. \A c \in Below(n) : count[c] = Len(col(c)) /\ count[c] \in Nat BY <1>1, <1>3
<1> HIDE DEF count
<1>6. /\ ptr \in [0 .. n -> Nat] /\ ptr[0] = 0
      /\ \A c \in Below(n) : ptr[c + 1] = ptr[c] + Len(col(c))
  <2>1. n \in Nat BY <1>1
  <2>2. /\ Scan(n, count) \in [0 .. n -> Nat] /\ Scan(n, count)[0] = 0
        /\ \A c \in Below(n) : Scan(n, count)[c + 1] = Scan(n, count)[c] + count[c]
    BY <1>5, <2>1, ScanRule
  <2> QED BY <1>4, <1>5, <2>2
<1>7. Pointers(ptr, n)
  <2>1. \A c \in Below(n) : ptr[c] \in Nat BY <1>1, <1>6 DEF Below
  <2> QED BY <1>3, <1>6, <2>1 DEF Pointers
<1>8. \A c \in Below(n) : c + 1 \in 1 .. n /\ c + 1 - 1 = c BY <1>1 DEF Below
<1>9. \A c \in Below(n) : seqs[c + 1] = col(c)
  <2> TAKE c \in Below(n)
  <2> DEFINE d == c + 1
  <2>1. d \in 1 .. n /\ d - 1 = c BY <1>1 DEF Below
  <2> HIDE DEF d
  <2>2. seqs[d] = col(d - 1) BY <2>1
  <2> QED BY <2>1, <2>2 DEF d
<1>10. seqs \in [1 .. n -> Seq(Below(N))]
  <2>1. \A c \in 1 .. n : c - 1 \in Below(n) BY <1>1 DEF Below
  <2> QED BY <1>3, <2>1
<1> HIDE DEF seqs
<1>11. cols \in Seq(Below(N)) /\ JoinedUpTo(cols, seqs, ptr, n)
  <2>1. \A c \in Below(n) : ptr[c + 1] = ptr[c] + Len(seqs[c + 1]) BY <1>6, <1>9
  <2> QED BY <1>1, <1>4, <1>7, <1>10, <2>1, JoinedFacts
<1>12. Len(cols) = ptr[n] BY <1>11 DEF JoinedUpTo
<1>13. \A c \in Below(n) : ptr[c] \in Nat /\ ptr[c + 1] \in Nat BY <1>1, <1>6 DEF Below
<1>14. \A c \in Below(n) : \A q \in Span(ptr, c) :
         q - ptr[c] + 1 \in 1 .. Len(col(c)) /\ cols[q + 1] = col(c)[q - ptr[c] + 1]
  <2> TAKE c \in Below(n)
  <2> TAKE q \in Span(ptr, c)
  <2> DEFINE k == q - ptr[c] + 1
  <2>1. ptr[c] \in Nat /\ ptr[c + 1] = ptr[c] + Len(col(c)) /\ Len(col(c)) \in Nat
    BY <1>3, <1>6, <1>13
  <2>2. k \in 1 .. Len(col(c)) /\ q + 1 = ptr[c] + k BY <2>1 DEF Span
  <2> HIDE DEF k
  <2>3. cols[ptr[c] + k] = col(c)[k] BY <1>9, <1>11, <2>2 DEF JoinedUpTo
  <2> QED BY <2>2, <2>3 DEF k
<1>15. \A c \in Below(n) : \A q \in Span(ptr, c) : m.bcolind[cols[q + 1]] = c BY <1>3, <1>14
<1>16. \A c \in Below(n) : \A q, r \in Span(ptr, c) : q < r => cols[q + 1] < cols[r + 1]
  <2> TAKE c \in Below(n)
  <2> TAKE q, r \in Span(ptr, c)
  <2>1. ptr[c] \in Nat /\ ptr[c + 1] \in Nat BY <1>13
  <2>2. q < r => q - ptr[c] + 1 < r - ptr[c] + 1 BY <2>1 DEF Span
  <2> QED BY <1>3, <1>14, <2>2
<1>17. \A jj \in Below(N) : \E q \in Span(ptr, m.bcolind[jj]) : cols[q + 1] = jj
  <2> TAKE jj \in Below(N)
  <2> DEFINE c == m.bcolind[jj]
  <2>1. c \in Below(n) BY <1>2
  <2> HIDE DEF c
  <2>2. PICK k \in 1 .. Len(col(c)) : col(c)[k] = jj BY <1>3, <2>1 DEF c
  <2> DEFINE q == ptr[c] + k - 1
  <2>3. q \in Span(ptr, c) /\ q - ptr[c] + 1 = k
    <3>1. ptr[c] \in Nat /\ ptr[c + 1] = ptr[c] + Len(col(c)) /\ Len(col(c)) \in Nat
      BY <1>3, <1>6, <1>13, <2>1
    <3> QED BY <3>1 DEF Span
  <2> HIDE DEF q
  <2>4. cols[q + 1] = jj BY <1>14, <2>1, <2>2, <2>3
  <2> QED BY <2>3, <2>4 DEF c
<1>18. ptr[n] = N
  <2> DEFINE M == ptr[n]
  <2>1. M \in Nat BY <1>1, <1>6
  <2>2. /\ \A jj \in Below(M) : \E i \in Below(n) : jj \in Span(ptr, i)
        /\ \A i \in Below(n) : Span(ptr, i) \subseteq Below(M)
    BY <1>1, <1>7, PointersCover
  <2>3. Len(cols) = M BY <1>12
  <2> HIDE DEF M
  <2> DEFINE f == [q \in Below(M) |-> cols[q + 1]]
  <2>4. \A q \in Below(M) : q \in Nat /\ q + 1 \in 1 .. M BY <2>1 DEF Below
  <2>5. \A q \in Below(M) : f[q] = cols[q + 1] /\ f[q] \in Below(N)
    BY <1>11, <2>3, <2>4
  <2>6. f \in [Below(M) -> Below(N)] BY <2>5
  <2> HIDE DEF f
  <2>7. ASSUME NEW q \in Below(M), NEW r \in Below(M), f[q] = f[r] PROVE q = r
    <3>1. PICK c \in Below(n) : q \in Span(ptr, c) BY <2>2
    <3>2. PICK d \in Below(n) : r \in Span(ptr, d) BY <2>2
    <3>3. c = d BY <1>15, <2>5, <2>7, <3>1, <3>2
    <3>4. ~(q < r) /\ ~(r < q)
      <4>1. f[q] \in Int BY <1>2, <2>5 DEF Below
      <4>2. q < r => f[q] < f[r] BY <1>16, <2>5, <3>1, <3>2, <3>3
      <4>3. r < q => f[r] < f[q] BY <1>16, <2>5, <3>1, <3>2, <3>3
      <4> QED BY <2>7, <4>1, <4>2, <4>3
    <3>5. q \in Nat /\ r \in Nat BY <2>4
    <3> QED BY <3>4, <3>5
  <2>8. \A jj \in Below(N) : \E q \in Below(M) : f[q] = jj
    <3> TAKE jj \in Below(N)
    <3>1. m.bcolind[jj] \in Below(n) BY <1>2
    <3>2. PICK q \in Span(ptr, m.bcolind[jj]) : cols[q + 1] = jj BY <1>17
    <3>3. q \in Below(M) BY <2>2, <3>1, <3>2
    <3> QED BY <2>5, <3>2, <3>3
  <2>9. f \in Bijection(Below(M), Below(N))
    BY <2>6, <2>7, <2>8 DEF Bijection, Injection, Surjection, IsInjective
  <2>10. IsFiniteSet(Below(M)) /\ Cardinality(Below(M)) = M /\ Cardinality(Below(N)) = N
    BY <1>2, <2>1, BelowFacts
  <2>11. ExistsBijection(Below(M), Below(N)) BY <2>9 DEF ExistsBijection
  <2>12. Cardinality(Below(M)) = Cardinality(Below(N)) BY <2>10, <2>11, FS_Bijection
  <2> QED BY <2>10, <2>12 DEF M
<1> QED BY <1>1, <1>7, <1>11, <1>12, <1>15, <1>16, <1>17, <1>18 DEF ListsColumns, n, N, ptr, cols

LEMMA RowOfFacts ==
  ASSUME NEW m, Stored(m)
  PROVE  /\ \A jj \in Below(Nnzb(m)) : RowOf(m, jj) \in Rows(m) /\ jj \in Row(m, RowOf(m, jj))
         /\ \A i \in Rows(m) : \A jj \in Row(m, i) : jj \in Below(Nnzb(m)) /\ RowOf(m, jj) = i
         /\ \A jj, kk \in Below(Nnzb(m)) : jj < kk => RowOf(m, jj) <= RowOf(m, kk)
<1> DEFINE R(jj) == RowOf(m, jj)
<1>1. /\ \A i \in Rows(m) : Row(m, i) = Span(m.browptr, i) /\ Row(m, i) \subseteq Below(Nnzb(m))
      /\ \A jj \in Below(Nnzb(m)) : \E i \in Rows(m) : jj \in Row(m, i)
      /\ \A i, j \in Rows(m) : \A jj \in Row(m, i) : jj \in Row(m, j) => i = j
  BY RowFacts
<1>2. \A jj \in Below(Nnzb(m)) : R(jj) \in Rows(m) /\ jj \in Row(m, R(jj)) BY <1>1 DEF RowOf
<1>3. \A i \in Rows(m) : \A jj \in Row(m, i) : jj \in Below(Nnzb(m)) /\ R(jj) = i
  BY <1>1, <1>2
<1> HIDE DEF R
<1>4. ASSUME NEW jj \in Below(Nnzb(m)), NEW kk \in Below(Nnzb(m)), jj < kk PROVE R(jj) <= R(kk)
  <2> DEFINE i == R(jj)  k == R(kk)  n == m.nbrows  ptr == m.browptr
  <2>1. n \in Nat /\ Rows(m) = Below(n) /\ Pointers(ptr, n) BY DEF Stored, IsMatrix, Rows
  <2>2. i \in Below(n) /\ k \in Below(n) /\ jj \in Span(ptr, i) /\ kk \in Span(ptr, k)
    BY <1>1, <1>2, <2>1
  <2> HIDE DEF i, k, n, ptr
  <2>3. i \in 0 .. n /\ k \in 0 .. n /\ k + 1 \in 0 .. n /\ i \in Int /\ k \in Int
    BY <2>1, <2>2 DEF Below
  <2>4. ptr[i] \in Nat /\ ptr[k + 1] \in Nat BY <2>1, <2>3 DEF Pointers
  <2>5. k < i => ptr[k + 1] <= ptr[i]
    <3>1. k < i => k + 1 <= i BY <2>3
    <3> QED BY <2>1, <2>3, <3>1, PointersAscend
  <2>6. ptr[i] <= jj /\ kk < ptr[k + 1] /\ jj \in Int /\ kk \in Int
    <3>1. ptr[k] \in Nat /\ ptr[i + 1] \in Nat BY <2>1, <2>2, <2>3 DEF Pointers, Below
    <3> QED BY <2>2, <2>4, <3>1 DEF Span
  <2>7. ~(k < i) BY <1>4, <2>4, <2>5, <2>6
  <2>8. i <= k BY <2>3, <2>7
  <2> QED BY <2>8 DEF i, k
<1> QED BY <1>2, <1>3, <1>4 DEF R

\* The rows of the entries that cols lists.
RowsListed(m, cols) == [q \in Below(Nnzb(m)) |-> RowOf(m, cols[q + 1])]

LEMMA ListedFacts ==
  ASSUME NEW m, Sound(m), NEW ptr, NEW cols, ListsColumns(m, ptr, cols)
  PROVE  LET row == RowsListed(m, cols)
         IN /\ \A c \in Rows(m) : \A q \in Span(ptr, c) :
                 /\ q \in Below(Nnzb(m)) /\ cols[q + 1] \in Below(Nnzb(m))
                 /\ m.bcolind[cols[q + 1]] = c
                 /\ row[q] \in Rows(m) /\ row[q] = RowOf(m, cols[q + 1])
                 /\ cols[q + 1] \in Row(m, row[q])
            /\ \A c \in Rows(m) : \A q, r \in Span(ptr, c) : q < r => row[q] < row[r]
            /\ \A c, d \in Rows(m) : \A q \in Span(ptr, c), r \in Span(ptr, d) :
                 cols[q + 1] = cols[r + 1] => c = d /\ q = r
            /\ \A i \in Rows(m) : \A jj \in Row(m, i) :
                 /\ m.bcolind[jj] \in Rows(m)
                 /\ \E q \in Span(ptr, m.bcolind[jj]) : cols[q + 1] = jj /\ row[q] = i
<1> DEFINE n == m.nbrows  N == Nnzb(m)  row == RowsListed(m, cols)
<1>1. n \in Nat /\ Rows(m) = Below(n) /\ Stored(m) BY DEF Sound, Stored, IsMatrix, Rows
<1>2. N \in Nat /\ m.bcolind \in [Below(N) -> Below(n)]
  BY <1>1 DEF Stored, IsMatrix, Pointers, Nnzb
<1>3. /\ \A jj \in Below(N) : RowOf(m, jj) \in Below(n) /\ jj \in Row(m, RowOf(m, jj))
      /\ \A i \in Below(n) : \A jj \in Row(m, i) : jj \in Below(N) /\ RowOf(m, jj) = i
      /\ \A jj, kk \in Below(N) : jj < kk => RowOf(m, jj) <= RowOf(m, kk)
  BY <1>1, RowOfFacts
<1>4. /\ Pointers(ptr, n) /\ ptr[n] = N
      /\ cols \in Seq(Below(N)) /\ Len(cols) = N
      /\ \A c \in Below(n) : \A q \in Span(ptr, c) : m.bcolind[cols[q + 1]] = c
      /\ \A c \in Below(n) : \A q, r \in Span(ptr, c) : q < r => cols[q + 1] < cols[r + 1]
      /\ \A jj \in Below(N) : \E q \in Span(ptr, m.bcolind[jj]) : cols[q + 1] = jj
  BY <1>1 DEF ListsColumns
<1>5. \A i \in Below(n) : \A jj, kk \in Row(m, i) : m.bcolind[jj] = m.bcolind[kk] => jj = kk
  BY <1>1 DEF Sound, Distinct
<1>6. \A q \in Below(N) : row[q] = RowOf(m, cols[q + 1]) BY DEF RowsListed
<1>7. \A c \in Below(n) : Span(ptr, c) \subseteq Below(N) BY <1>1, <1>4, PointersCover
<1>8. \A q \in Below(N) : q \in Int /\ cols[q + 1] \in Below(N) /\ cols[q + 1] \in Int
  <2> TAKE q \in Below(N)
  <2>1. q \in Int /\ q + 1 \in 1 .. N BY <1>2 DEF Below
  <2>2. cols[q + 1] \in Below(N) BY <1>4, <2>1
  <2> QED BY <1>2, <2>1, <2>2 DEF Below
<1> HIDE DEF n, N, row
<1>9. ASSUME NEW c \in Below(n), NEW q \in Span(ptr, c)
      PROVE  /\ q \in Below(N) /\ cols[q + 1] \in Below(N) /\ m.bcolind[cols[q + 1]] = c
             /\ row[q] \in Below(n) /\ row[q] = RowOf(m, cols[q + 1])
             /\ cols[q + 1] \in Row(m, row[q])
  BY <1>3, <1>4, <1>6, <1>7, <1>8
<1>10. ASSUME NEW c \in Below(n), NEW q \in Span(ptr, c), NEW r \in Span(ptr, c), q < r
       PROVE  row[q] < row[r]
  <2>1. cols[q + 1] < cols[r + 1] BY <1>4, <1>10
  <2>2. row[q] <= row[r] BY <1>3, <1>9, <2>1
  <2>3. cols[q + 1] \in Int BY <1>8, <1>9
  <2>4. cols[q + 1] # cols[r + 1] BY <2>1, <2>3
  <2>5. row[q] # row[r] BY <1>5, <1>9, <2>4
  <2>6. row[q] \in Int /\ row[r] \in Int BY <1>1, <1>9 DEF Below
  <2> QED BY <2>2, <2>5, <2>6
<1>11. ASSUME NEW c \in Below(n), NEW d \in Below(n), NEW q \in Span(ptr, c),
              NEW r \in Span(ptr, d), cols[q + 1] = cols[r + 1]
       PROVE  c = d /\ q = r
  <2>1. c = d BY <1>9, <1>11
  <2>2. cols[q + 1] \in Int /\ q \in Int /\ r \in Int BY <1>8, <1>9
  <2>3. q < r => cols[q + 1] < cols[r + 1] BY <1>4, <2>1
  <2>4. r < q => cols[r + 1] < cols[q + 1] BY <1>4, <2>1
  <2>5. ~(cols[q + 1] < cols[q + 1]) BY <2>2
  <2>6. ~(q < r) /\ ~(r < q) BY <1>11, <2>3, <2>4, <2>5
  <2> QED BY <2>1, <2>2, <2>6
<1>12. ASSUME NEW i \in Below(n), NEW jj \in Row(m, i)
       PROVE  /\ m.bcolind[jj] \in Below(n)
              /\ \E q \in Span(ptr, m.bcolind[jj]) : cols[q + 1] = jj /\ row[q] = i
  <2>1. jj \in Below(N) /\ RowOf(m, jj) = i BY <1>3
  <2>2. m.bcolind[jj] \in Below(n) BY <1>2, <2>1 DEF N, n
  <2>3. PICK q \in Span(ptr, m.bcolind[jj]) : cols[q + 1] = jj BY <1>4, <2>1
  <2>4. row[q] = i BY <1>9, <2>1, <2>2, <2>3
  <2> QED BY <2>2, <2>3, <2>4
<1> QED BY <1>1, <1>9, <1>10, <1>11, <1>12 DEF n, N, row

\* The conversion, its parts named.
ColumnsOfEntries(s, m, ptr, cols, row) ==
  /\ s.nbcols = m.nbrows /\ s.bs = m.bs /\ s.stor = m.stor /\ s.bcolptr = ptr
  /\ s.browind = row /\ DOMAIN row = Below(Nnzb(m))
  /\ \A q \in Below(Nnzb(m)) : s.vals[q] = m.vals[cols[q + 1]]

LEMMA BSCFacts ==
  ASSUME NEW m, Sound(m)
  PROVE  LET ptr == ColumnPointers(m)
             row == RowsListed(m, Columns(m))
             s == ConvertBSRToBSC(m)
         IN /\ ColumnsOfEntries(s, m, ptr, Columns(m), row)
            /\ \A c \in Rows(m) :
                 IF c \in ColumnsOf(m, c)
                 THEN s.diagind[c] \in Span(ptr, c) /\ row[s.diagind[c]] = c
                 ELSE s.diagind[c] = -1
<1> DEFINE ptr == ColumnPointers(m)
           row == RowsListed(m, Columns(m))
           s == ConvertBSRToBSC(m)
           OnDiagonal(c) == {q \in Span(ptr, c) : row[q] = c}
<1>1. ColumnsOfEntries(s, m, ptr, Columns(m), row)
  BY DEF ColumnsOfEntries, ConvertBSRToBSC, RowsListed
<1>2. s.diagind = [c \in Rows(m) |-> IF OnDiagonal(c) = {} THEN -1 ELSE Max(OnDiagonal(c))]
  BY DEF ConvertBSRToBSC, RowsListed, Span
<1>3. ListsColumns(m, ptr, Columns(m)) BY ColumnsListed DEF Sound
<1> HIDE DEF s, ptr
<1>4. /\ \A c \in Rows(m) : \A q \in Span(ptr, c) : /\ q \in Below(Nnzb(m)) /\ row[q] \in Rows(m)
                                                    /\ Columns(m)[q + 1] \in Row(m, row[q])
                                                    /\ m.bcolind[Columns(m)[q + 1]] = c
      /\ \A c \in Rows(m) : \A q, r \in Span(ptr, c) : q < r => row[q] < row[r]
      /\ \A i \in Rows(m) : \A jj \in Row(m, i) :
           \E q \in Span(ptr, m.bcolind[jj]) : Columns(m)[q + 1] = jj /\ row[q] = i
  BY <1>3, ListedFacts
<1> HIDE DEF row
<1>5. Rows(m) \subseteq Int /\ Below(Nnzb(m)) \subseteq Int
  <2>1. m.nbrows \in Nat /\ Nnzb(m) \in Nat BY DEF Sound, Stored, IsMatrix, Pointers, Nnzb
  <2> QED BY <2>1 DEF Rows, Below
<1>6. ASSUME NEW c \in Rows(m)
      PROVE  IF c \in ColumnsOf(m, c)
             THEN s.diagind[c] \in Span(ptr, c) /\ row[s.diagind[c]] = c
             ELSE s.diagind[c] = -1
  <2>1. s.diagind[c] = IF OnDiagonal(c) = {} THEN -1 ELSE Max(OnDiagonal(c)) BY <1>2
  <2>2. c \in ColumnsOf(m, c) <=> OnDiagonal(c) # {}
    <3>1. ASSUME c \in ColumnsOf(m, c) PROVE OnDiagonal(c) # {}
      <4>1. PICK jj \in Row(m, c) : m.bcolind[jj] = c BY <3>1 DEF ColumnsOf
      <4> QED BY <1>4, <4>1
    <3>2. ASSUME NEW q \in OnDiagonal(c) PROVE c \in ColumnsOf(m, c)
      <4>1. Columns(m)[q + 1] \in Row(m, c) /\ m.bcolind[Columns(m)[q + 1]] = c BY <1>4
      <4> QED BY <4>1 DEF ColumnsOf
    <3> QED BY <3>1, <3>2
  <2>3. ASSUME NEW q \in OnDiagonal(c) PROVE Max(OnDiagonal(c)) \in OnDiagonal(c)
    <3>1. \A r \in OnDiagonal(c) : r = q
      <4> TAKE r \in OnDiagonal(c)
      <4>1. q \in Int /\ r \in Int /\ c \in Int BY <1>4, <1>5
      <4>2. (q < r => row[q] < row[r]) /\ (r < q => row[r] < row[q]) BY <1>4
      <4>3. row[q] = c /\ row[r] = c OBVIOUS
      <4> QED BY <4>1, <4>2, <4>3
    <3>2. q \in Int BY <1>4, <1>5
    <3> DEFINE S == OnDiagonal(c)
    <3>3. q \in S /\ \A r \in S : r = q BY <3>1
    <3> HIDE DEF S
    <3>4. \E x \in S : \A y \in S : x >= y BY <3>2, <3>3
    <3>5. Max(S) \in S BY <3>4 DEF Max
    <3> QED BY <3>5 DEF S
  <2>4. \A q \in OnDiagonal(c) : q \in Span(ptr, c) /\ row[q] = c OBVIOUS
  <2> HIDE DEF OnDiagonal
  <2>5. CASE OnDiagonal(c) = {} BY <2>1, <2>2, <2>5
  <2>6. CASE OnDiagonal(c) # {} BY <2>1, <2>2, <2>3, <2>4, <2>6
  <2> QED BY <2>5, <2>6
<1> QED BY <1>1, <1>6 DEF s, ptr, row

LEMMA OneBasedFacts ==
  ASSUME NEW m, Sound(m), NEW c \in Rows(m), c \in ColumnsOf(m, c)
  PROVE  LET one == ConvertBSRToBSC1Based(m)
         IN one.browind[one.diagind[c] - 1] = c + 1
<1> DEFINE one == ConvertBSRToBSC1Based(m)  s == ConvertBSRToBSC(m)
           ptr == ColumnPointers(m)  row == RowsListed(m, Columns(m))
<1>1. s.diagind[c] \in Span(ptr, c) /\ row[s.diagind[c]] = c /\ s.browind = row BY BSCFacts DEF ColumnsOfEntries
<1>2. DOMAIN s.diagind = Rows(m) BY DEF ConvertBSRToBSC
<1>3. Span(ptr, c) \subseteq Below(Nnzb(m))
  <2>1. ListsColumns(m, ptr, Columns(m)) BY ColumnsListed DEF Sound
  <2>2. m.nbrows \in Nat BY DEF Sound, Stored, IsMatrix
  <2> HIDE DEF ptr
  <2> QED BY <2>1, <2>2, PointersCover DEF ListsColumns, Rows
<1>4. DOMAIN row = Below(Nnzb(m)) BY DEF RowsListed
<1>5. /\ one.browind = [q \in DOMAIN s.browind |-> s.browind[q] + 1]
      /\ one.diagind = [q \in DOMAIN s.diagind |-> s.diagind[q] + 1]
  BY DEF ConvertBSRToBSC1Based, ConvertBSRToBSC
<1> HIDE DEF one, s, ptr, row
<1>6. one.diagind[c] = s.diagind[c] + 1 BY <1>2, <1>5
<1>7. s.diagind[c] \in Int /\ s.diagind[c] \in Below(Nnzb(m))
  <2>1. Nnzb(m) \in Nat BY DEF Sound, Stored, IsMatrix, Pointers, Nnzb
  <2> QED BY <1>1, <1>3, <2>1 DEF Below
<1>8. one.diagind[c] - 1 = s.diagind[c] BY <1>6, <1>7
<1>9. one.browind[s.diagind[c]] = row[s.diagind[c]] + 1 BY <1>1, <1>4, <1>5, <1>7
<1> QED BY <1>1, <1>8, <1>9 DEF one

LEMMA AdjacencyFacts ==
  ASSUME NEW m, Sound(m), NEW c \in Rows(m)
  PROVE  LET adj == ColumnAdjacency(m)
         IN {<<adj.col_rows[q], adj.rows_loc[q]>> : q \in Span(adj.ptrs, c)} =
              {e \in Rows(m) \X Below(Nnzb(m)) : e[2] \in Row(m, e[1]) /\ m.bcolind[e[2]] = c}
<1> DEFINE adj == ColumnAdjacency(m)  ptr == ColumnPointers(m)  cols == Columns(m)
           row == RowsListed(m, cols)
           S == {e \in Rows(m) \X Below(Nnzb(m)) : e[2] \in Row(m, e[1]) /\ m.bcolind[e[2]] = c}
<1>1. ListsColumns(m, ptr, cols) BY ColumnsListed DEF Sound
<1>2. /\ adj.ptrs = ptr /\ adj.col_rows = row
      /\ adj.rows_loc = [q \in Below(Len(cols)) |-> cols[q + 1]]
  BY DEF ColumnAdjacency, RowsListed, Positioned
<1> HIDE DEF ptr, cols, adj
<1>3. Len(cols) = Nnzb(m) BY <1>1 DEF ListsColumns
<1>4. \A q \in Span(ptr, c) :
           /\ q \in Below(Nnzb(m)) /\ cols[q + 1] \in Below(Nnzb(m)) /\ m.bcolind[cols[q + 1]] = c
           /\ row[q] \in Rows(m) /\ cols[q + 1] \in Row(m, row[q])
  BY <1>1, ListedFacts
<1>5. \A i \in Rows(m) : \A jj \in Row(m, i) :
           \E q \in Span(ptr, m.bcolind[jj]) : cols[q + 1] = jj /\ row[q] = i
  BY <1>1, ListedFacts
<1> HIDE DEF row
<1>6. \A q \in Span(ptr, c) : adj.col_rows[q] = row[q] /\ adj.rows_loc[q] = cols[q + 1]
  BY <1>2, <1>3, <1>4
<1> DEFINE T == {<<adj.col_rows[q], adj.rows_loc[q]>> : q \in Span(adj.ptrs, c)}
<1>7. ASSUME NEW t \in T PROVE t \in S
  <2>1. PICK q \in Span(adj.ptrs, c) : t = <<adj.col_rows[q], adj.rows_loc[q]>> OBVIOUS
  <2>2. q \in Span(ptr, c) BY <1>2
  <2>3. t = <<row[q], cols[q + 1]>> BY <1>6, <2>1, <2>2
  <2>4. <<row[q], cols[q + 1]>> \in Rows(m) \X Below(Nnzb(m)) BY <1>4, <2>2
  <2> QED BY <1>4, <2>2, <2>3, <2>4
<1>8. ASSUME NEW e \in S PROVE e \in T
  <2> DEFINE i == e[1]  jj == e[2]
  <2>1. e = <<i, jj>> /\ i \in Rows(m) OBVIOUS
  <2>2. jj \in Row(m, i) /\ m.bcolind[jj] = c OBVIOUS
  <2> HIDE DEF i, jj
  <2>3. PICK q \in Span(ptr, c) : cols[q + 1] = jj /\ row[q] = i BY <1>5, <2>1, <2>2
  <2>4. e = <<adj.col_rows[q], adj.rows_loc[q]>> BY <1>6, <2>1, <2>3
  <2>5. q \in Span(adj.ptrs, c) BY <1>2
  <2> QED BY <2>4, <2>5
<1> QED BY <1>7, <1>8 DEF adj

\* The blocks of a row in block columns, and the term of one.
InRowOf(s, i) ==
  {e \in Below(s.nbcols) \X DOMAIN s.browind :
     e[2] \in s.bcolptr[e[1]] .. s.bcolptr[e[1] + 1] - 1 /\ s.browind[e[2]] = i}
ColumnTerm(s, x, e, r) ==
  SumFunction([d \in Below(s.bs) |-> s.vals[e[2]][Place(s, r, d)] * x[e[1] * s.bs + d]])
ColumnTerms(s, x, i, r) == [e \in InRowOf(s, i) |-> ColumnTerm(s, x, e, r)]

LEMMA RowThroughColumns ==
  ASSUME Field, NEW m, Sound(m), NEW x \in Vectors(m.nbrows, m.bs, Scalars),
         NEW i \in Rows(m), NEW r \in Below(m.bs)
  PROVE  LET s == ConvertBSRToBSC(m)
         IN SumFunction(ColumnTerms(s, x, i, r)) = SumFunctionOnSet(Terms(m, x, i, r), Row(m, i))
<1> DEFINE s == ConvertBSRToBSC(m)  ptr == ColumnPointers(m)  cols == Columns(m)
           row == RowsListed(m, cols)
           R == InRowOf(s, i)  S == Row(m, i)
           f == Terms(m, x, i, r)  g == ColumnTerms(s, x, i, r)
           h == [e \in R |-> cols[e[2] + 1]]
<1>1. ListsColumns(m, ptr, cols) BY ColumnsListed DEF Sound
<1>2. ColumnsOfEntries(s, m, ptr, cols, row) BY BSCFacts
<1>3. m.nbrows \in Nat /\ Nnzb(m) \in Nat /\ Rows(m) = Below(m.nbrows) /\ Stored(m)
  BY DEF Sound, Stored, IsMatrix, Pointers, Nnzb, Rows
<1> HIDE DEF s, ptr, cols
<1>4. /\ \A c \in Rows(m) : \A q \in Span(ptr, c) :
           /\ q \in Below(Nnzb(m)) /\ cols[q + 1] \in Below(Nnzb(m))
           /\ m.bcolind[cols[q + 1]] = c
           /\ row[q] \in Rows(m) /\ cols[q + 1] \in Row(m, row[q])
      /\ \A c, d \in Rows(m) : \A q \in Span(ptr, c), k \in Span(ptr, d) :
           cols[q + 1] = cols[k + 1] => c = d /\ q = k
      /\ \A j \in Rows(m) : \A jj \in Row(m, j) :
           /\ m.bcolind[jj] \in Rows(m)
           /\ \E q \in Span(ptr, m.bcolind[jj]) : cols[q + 1] = jj /\ row[q] = j
  BY <1>1, ListedFacts
<1> HIDE DEF row
<1>5. R = {e \in Rows(m) \X Below(Nnzb(m)) : e[2] \in Span(ptr, e[1]) /\ row[e[2]] = i}
  BY <1>2, <1>3 DEF InRowOf, ColumnsOfEntries, Span
<1>6. IsFiniteSet(R)
  <2>1. IsFiniteSet(Rows(m)) /\ IsFiniteSet(Below(Nnzb(m))) BY <1>3, BelowFacts
  <2>2. IsFiniteSet(Rows(m) \X Below(Nnzb(m))) BY <2>1, FS_Product
  <2> QED BY <1>5, <2>2, FS_Subset
<1>7. \A e \in R : /\ e = <<e[1], e[2]>> /\ e[1] \in Rows(m) /\ e[2] \in Span(ptr, e[1])
                   /\ e[2] \in Below(Nnzb(m)) /\ row[e[2]] = i
  BY <1>5
<1>8. \A c \in Rows(m) : \A q \in Span(ptr, c) : row[q] = i => <<c, q>> \in R
  BY <1>4, <1>5
<1>9. g = [e \in R |-> ColumnTerm(s, x, e, r)] BY DEF ColumnTerms
<1> HIDE DEF R, g
<1>10. \A e \in R : h[e] = cols[e[2] + 1] /\ h[e] \in S /\ m.bcolind[h[e]] = e[1]
  BY <1>4, <1>7
<1>11. h \in [R -> S] BY <1>10
<1> HIDE DEF h
<1>12. \A a, b \in R : h[a] = h[b] => a = b
  <2> TAKE a, b \in R
  <2>1. h[a] = h[b] => a[1] = b[1] /\ a[2] = b[2] BY <1>4, <1>7, <1>10
  <2>2. a = <<a[1], a[2]>> /\ b = <<b[1], b[2]>> BY <1>7
  <2> QED BY <2>1, <2>2
<1>13. \A jj \in S : \E a \in R : h[a] = jj
  <2> TAKE jj \in S
  <2> DEFINE c == m.bcolind[jj]
  <2>1. c \in Rows(m) BY <1>4
  <2>2. PICK q \in Span(ptr, c) : cols[q + 1] = jj /\ row[q] = i BY <1>4
  <2> HIDE DEF c
  <2>3. <<c, q>> \in R BY <1>8, <2>1, <2>2
  <2>4. h[<<c, q>>] = jj BY <1>10, <2>2, <2>3
  <2> QED BY <2>3, <2>4
<1>14. \A jj \in S : f[jj] = TermOf(m, x, jj, r) /\ f[jj] \in Int
  <2> TAKE jj \in S
  <2>1. f[jj] = TermOf(m, x, jj, r) BY DEF Terms
  <2>2. TermOf(m, x, jj, r) \in Nat BY <1>3, TermFacts
  <2> QED BY <2>1, <2>2
<1>15. ASSUME NEW e \in R PROVE g[e] = f[h[e]]
  <2>1. g[e] = ColumnTerm(s, x, e, r) BY <1>9
  <2>2. f[h[e]] = TermOf(m, x, h[e], r) BY <1>10, <1>14
  <2>3. s.bs = m.bs /\ s.stor = m.stor /\ s.vals[e[2]] = m.vals[h[e]]
    BY <1>2, <1>7, <1>10 DEF ColumnsOfEntries
  <2>4. \A d \in Below(m.bs) : Place(s, r, d) = Place(m, r, d) BY <2>3 DEF Place
  <2>5. [d \in Below(s.bs) |-> s.vals[e[2]][Place(s, r, d)] * x[e[1] * s.bs + d]] =
          Products(m, x, h[e], r)
    BY <1>10, <2>3, <2>4 DEF Products
  <2>6. ColumnTerm(s, x, e, r) = SumFunction(Products(m, x, h[e], r))
    BY <2>5 DEF ColumnTerm
  <2>7. DOMAIN Products(m, x, h[e], r) = Below(m.bs) BY DEF Products
  <2>8. SumFunction(Products(m, x, h[e], r)) = SumFunctionOnSet(Products(m, x, h[e], r), Below(m.bs))
    BY <2>7 DEF SumFunction
  <2> QED BY <2>1, <2>2, <2>6, <2>8 DEF TermOf
<1>16. IsFiniteSet(S) BY <1>3, RowFinite
<1> HIDE DEF f, S
<1>17. SumFunctionOnSet(f, S) = SumFunctionOnSet(g, R)
  <2>1. /\ IsFiniteSet(R) /\ IsFiniteSet(S) /\ \A jj \in S : f[jj] \in Int
        /\ h \in [R -> S] /\ \A a, b \in R : h[a] = h[b] => a = b
        /\ \A jj \in S : \E a \in R : h[a] = jj
        /\ \A a \in R : g[a] = f[h[a]]
    BY <1>6, <1>11, <1>12, <1>13, <1>14, <1>15, <1>16
  <2> QED BY <2>1, SumRenamed
<1>18. DOMAIN g = R BY <1>9
<1>19. SumFunction(g) = SumFunctionOnSet(g, R) BY <1>18 DEF SumFunction
<1> QED BY <1>17, <1>19 DEF f, S, g, s

(***************************************************************************)
(* bcsc_gemv3 computes what gemv3 computes, for any vectors and factors.   *)
(***************************************************************************)
THEOREM ProductThroughColumns ==
  ASSUME Field, NEW m, Sound(m), NEW x \in Vectors(m.nbrows, m.bs, Scalars),
         NEW a, NEW b, NEW y
  PROVE  ColumnGemv3(ConvertBSRToBSC(m), a, x, b, y) = Gemv3(m, a, x, b, y)
<1> DEFINE s == ConvertBSRToBSC(m)  D == Below(m.nbrows * m.bs)
           C(p) == SumFunction(ColumnTerms(s, x, p \div m.bs, p % m.bs))
           G(p) == SumFunction(Terms(m, x, p \div m.bs, p % m.bs))
<1>1. s.nbcols = m.nbrows /\ s.bs = m.bs BY BSCFacts DEF ColumnsOfEntries
<1>2. ColumnGemv3(s, a, x, b, y) =
        [p \in Below(s.nbcols * s.bs) |->
           (b * y[p] + a * SumFunction(ColumnTerms(s, x, p \div s.bs, p % s.bs))) % Mod]
  BY DEF ColumnGemv3, ColumnTerms, ColumnTerm, InRowOf
<1> HIDE DEF s
<1>3. ColumnGemv3(s, a, x, b, y) = [p \in D |-> (b * y[p] + a * C(p)) % Mod]
  BY <1>1, <1>2
<1>4. Gemv3(m, a, x, b, y) = [p \in D |-> (b * y[p] + a * G(p)) % Mod]
  BY DEF Gemv3, Dim, SumFunction, Terms, TermOf, Products
<1>5. ASSUME NEW p \in D PROVE C(p) = G(p)
  <2> DEFINE i == p \div m.bs  r == p % m.bs
  <2>1. i \in Rows(m) /\ r \in Below(m.bs)
    <3>1. m.nbrows \in Nat /\ m.bs \in Nat \ {0} BY DEF Sound, Stored, IsMatrix
    <3> QED BY <3>1, IndexFacts DEF Rows
  <2> HIDE DEF i, r
  <2>2. SumFunction(ColumnTerms(s, x, i, r)) = SumFunctionOnSet(Terms(m, x, i, r), Row(m, i))
    BY <2>1, RowThroughColumns DEF s
  <2>3. DOMAIN Terms(m, x, i, r) = Row(m, i) BY DEF Terms
  <2>4. SumFunction(Terms(m, x, i, r)) = SumFunctionOnSet(Terms(m, x, i, r), Row(m, i))
    BY <2>3 DEF SumFunction
  <2> QED BY <2>2, <2>4 DEF i, r
<1> HIDE DEF C, G, D
<1>6. [p \in D |-> (b * y[p] + a * C(p)) % Mod] = [p \in D |-> (b * y[p] + a * G(p)) % Mod]
  BY <1>5
<1> QED BY <1>3, <1>4, <1>6 DEF s
-----------------------------------------------------------------------------
(***************************************************************************)
(* Approximate inverses.  The pattern of row i names, for each of its      *)
(* blocks, the entries of the matrix that the equations ask for; gathering *)
(* puts each of them where its equation and unknown are, and scattering    *)
(* puts the unknowns where the product with the matrix meets them.         *)
(***************************************************************************)
\* What the equations of the rows are: columns, none twice, the row itself.
AreEquations(eqs, m) ==
  /\ eqs \in [Rows(m) -> Seq(Rows(m))]
  /\ \A i \in Rows(m) : \A q, r \in 1 .. Len(eqs[i]) : eqs[i][q] = eqs[i][r] => q = r
  /\ \A i \in Rows(m) : \E q \in 1 .. Len(eqs[i]) : eqs[i][q] = i

EquationAt(eqs, i, c) == CHOOSE q \in DOMAIN eqs[i] : eqs[i][q] = c

\* The coefficients of an unknown, and how they are entered.
Coefficients(m, eqs, jj) == Positions(m, m.bcolind[jj], ToSet(eqs[RowOf(m, jj)]))
Entered(m, eqs, jj) ==
  [q \in 1 .. Len(Coefficients(m, eqs, jj)) |->
     [pos |-> Coefficients(m, eqs, jj)[q],
      row |-> EquationAt(eqs, RowOf(m, jj), m.bcolind[Coefficients(m, eqs, jj)[q]]) - 1]]

\* s, of a block of row i, names the blocks that row k has in the equations.
NamesBlocks(s, m, eqs, i, k) ==
  /\ \A p \in 1 .. Len(s) :
       /\ s[p].pos \in Row(m, k)
       /\ \E q \in 1 .. Len(eqs[i]) : s[p].row = q - 1 /\ eqs[i][q] = m.bcolind[s[p].pos]
  /\ \A kk \in Row(m, k) : \A q \in 1 .. Len(eqs[i]) :
       m.bcolind[kk] = eqs[i][q] => \E p \in 1 .. Len(s) : s[p].pos = kk

LEMMA EnteredFacts ==
  ASSUME NEW m, Sound(m), NEW eqs, AreEquations(eqs, m), NEW i \in Rows(m), NEW jj \in Row(m, i)
  PROVE  LET k == m.bcolind[jj]  s == Entered(m, eqs, jj)
         IN /\ k \in Rows(m)
            /\ s \in Seq([pos : Below(Nnzb(m)), row : Int])
            /\ Len(s) = Len(Coefficients(m, eqs, jj)) /\ Len(s) \in Nat
            /\ NamesBlocks(s, m, eqs, i, k)
<1> DEFINE k == m.bcolind[jj]  s == Entered(m, eqs, jj)
           S == {kk \in Row(m, k) : m.bcolind[kk] \in ToSet(eqs[i])}
           h == Ordered(S)
<1>1. Stored(m) /\ Nnzb(m) \in Nat /\ m.bcolind \in [Below(Nnzb(m)) -> Rows(m)]
  BY DEF Sound, Stored, IsMatrix, Pointers, Nnzb
<1>2. jj \in Below(Nnzb(m)) /\ RowOf(m, jj) = i BY <1>1, RowOfFacts
<1>3. k \in Rows(m) BY <1>1, <1>2
<1>4. eqs[i] \in Seq(Rows(m)) BY DEF AreEquations
<1>5. ToSet(eqs[i]) = {eqs[i][q] : q \in 1 .. Len(eqs[i])} /\ DOMAIN eqs[i] = 1 .. Len(eqs[i])
  BY <1>4 DEF ToSet
<1> HIDE DEF k
<1>6. Row(m, k) \subseteq Below(Nnzb(m)) /\ IsFiniteSet(Row(m, k)) BY <1>1, <1>3, RowFacts, RowFinite
<1>7. S \subseteq Row(m, k) OBVIOUS
<1>8. IsFiniteSet(S) /\ S \subseteq Int
  <2>1. Below(Nnzb(m)) \subseteq Int BY <1>1 DEF Below
  <2> QED BY <1>6, <1>7, <2>1, FS_Subset
<1>9. \A kk \in S : kk \in Row(m, k) /\ \E q \in 1 .. Len(eqs[i]) : eqs[i][q] = m.bcolind[kk]
  BY <1>5
<1>10. \A kk \in Row(m, k) : \A q \in 1 .. Len(eqs[i]) : m.bcolind[kk] = eqs[i][q] => kk \in S
  BY <1>5
<1>11. Coefficients(m, eqs, jj) = h BY <1>2 DEF Coefficients, Positions, k
<1>12. s = [q \in 1 .. Len(h) |-> [pos |-> h[q], row |-> EquationAt(eqs, i, m.bcolind[h[q]]) - 1]]
  BY <1>2, <1>11 DEF Entered
<1> HIDE DEF S
<1>13. Cardinality(S) \in Nat /\ Enumerates(h, S) /\ Len(h) = Cardinality(S)
  BY <1>8, OrderedFacts
<1> HIDE DEF h, s
<1>14. Len(h) \in Nat /\ \A p \in 1 .. Len(h) : h[p] \in S BY <1>13 DEF Enumerates
<1>15. \A kk \in S : \E p \in 1 .. Len(h) : h[p] = kk BY <1>13 DEF Enumerates
<1>16. ASSUME NEW kk \in S
       PROVE  LET q == EquationAt(eqs, i, m.bcolind[kk])
              IN q \in 1 .. Len(eqs[i]) /\ eqs[i][q] = m.bcolind[kk]
  <2>1. \E q \in 1 .. Len(eqs[i]) : eqs[i][q] = m.bcolind[kk] BY <1>9
  <2> QED BY <1>5, <2>1 DEF EquationAt
<1>17. Len(s) = Len(h) BY <1>12, <1>14
<1>18. \A p \in 1 .. Len(h) : /\ s[p] = [pos |-> s[p].pos, row |-> s[p].row] /\ s[p].pos = h[p]
                              /\ s[p].row = EquationAt(eqs, i, m.bcolind[h[p]]) - 1
  BY <1>12
<1>19. Len(eqs[i]) \in Nat BY <1>4
<1>20. \A p \in 1 .. Len(h) : s[p] \in [pos : Below(Nnzb(m)), row : Int]
  <2> TAKE p \in 1 .. Len(h)
  <2>1. s[p].pos \in Below(Nnzb(m)) BY <1>6, <1>7, <1>14, <1>18
  <2> DEFINE q == EquationAt(eqs, i, m.bcolind[h[p]])
  <2>2. q \in 1 .. Len(eqs[i]) BY <1>14, <1>16
  <2>3. s[p].row = q - 1 BY <1>18
  <2> HIDE DEF q
  <2>4. s[p].row \in Int BY <1>19, <2>2, <2>3
  <2> DEFINE a == s[p].pos  b == s[p].row
  <2>5. s[p] = [pos |-> a, row |-> b] BY <1>18
  <2> HIDE DEF a, b
  <2>6. [pos |-> a, row |-> b] \in [pos : Below(Nnzb(m)), row : Int] BY <2>1, <2>4 DEF a, b
  <2> QED BY <2>5, <2>6
<1>21. s \in Seq([pos : Below(Nnzb(m)), row : Int])
  <2> DEFINE E == [pos : Below(Nnzb(m)), row : Int]
  <2>1. \A p \in 1 .. Len(h) : s[p] \in E BY <1>20
  <2>2. s = [p \in 1 .. Len(h) |-> s[p]] BY <1>12
  <2> HIDE DEF E
  <2>3. s \in [1 .. Len(h) -> E] BY <2>1, <2>2
  <2>4. s \in Seq(E) BY <1>14, <2>3
  <2> QED BY <2>4 DEF E
<1>22. \A p \in 1 .. Len(s) :
         /\ s[p].pos \in Row(m, k)
         /\ \E q \in 1 .. Len(eqs[i]) : s[p].row = q - 1 /\ eqs[i][q] = m.bcolind[s[p].pos]
  <2> TAKE p \in 1 .. Len(s)
  <2>1. h[p] \in S /\ s[p].pos = h[p] /\ s[p].row = EquationAt(eqs, i, m.bcolind[h[p]]) - 1
    BY <1>14, <1>17, <1>18
  <2> QED BY <1>7, <1>16, <2>1
<1>23. \A kk \in Row(m, k) : \A q \in 1 .. Len(eqs[i]) :
         m.bcolind[kk] = eqs[i][q] => \E p \in 1 .. Len(s) : s[p].pos = kk
  <2> TAKE kk \in Row(m, k)
  <2> TAKE q \in 1 .. Len(eqs[i])
  <2> HAVE m.bcolind[kk] = eqs[i][q]
  <2>1. kk \in S BY <1>10
  <2>2. PICK p \in 1 .. Len(h) : h[p] = kk BY <1>15, <2>1
  <2>3. s[p].pos = kk BY <1>18, <2>2
  <2> QED BY <1>17, <2>2, <2>3
<1> QED BY <1>3, <1>11, <1>14, <1>17, <1>21, <1>22, <1>23 DEF k, s, NamesBlocks

\* Lengths of rows, summed up again.
LEMMA ScannedDifferences ==
  ASSUME NEW n \in Nat, NEW ptr, Pointers(ptr, n), NEW d,
         \A i \in Below(n) : d[i] = ptr[i + 1] - ptr[i]
  PROVE  \A i \in 0 .. n : Scan(n, d)[i] = ptr[i]
<1> DEFINE s == Scan(n, d)  T == {i \in Nat : i \in 0 .. n => s[i] = ptr[i]}
<1>1. \A i \in 0 .. n : ptr[i] \in Nat BY DEF Pointers
<1>2. \A i \in Below(n) : ptr[i] \in Nat /\ ptr[i + 1] \in Nat /\ ptr[i] <= ptr[i + 1]
  BY <1>1 DEF Pointers, Below
<1>3. \A i \in Below(n) : d[i] \in Nat BY <1>2
<1>4. s[0] = 0 /\ \A i \in Below(n) : s[i + 1] = s[i] + d[i] BY <1>3, ScanRule
<1> HIDE DEF s
<1>5. 0 \in T BY <1>4 DEF Pointers
<1>6. ASSUME NEW i \in Nat, i \in T PROVE i + 1 \in T
  <2> SUFFICES ASSUME i + 1 \in 0 .. n PROVE s[i + 1] = ptr[i + 1] OBVIOUS
  <2>1. i \in Below(n) /\ i \in 0 .. n BY DEF Below
  <2>2. s[i] = ptr[i] BY <1>6, <2>1
  <2> QED BY <1>2, <1>4, <2>1, <2>2
<1> HIDE DEF T
<1>7. Nat \subseteq T BY <1>5, <1>6, NumbersInduction
<1> QED BY <1>7 DEF T, s

AllEntered(m, eqs) == FlattenSeq([u \in 1 .. Nnzb(m) |-> Entered(m, eqs, u - 1)])

HasShape(sp, m, eqs) ==
  /\ sp.nVars = [i \in Rows(m) |-> m.browptr[i + 1] - m.browptr[i]]
  /\ sp.nEqns = [i \in Rows(m) |-> Len(eqs[i])]
  /\ sp.sairowptr = Scan(m.nbrows, sp.nVars)
  /\ sp.bcolptr = Scan(Nnzb(m), [u \in Below(Nnzb(m)) |-> Len(Coefficients(m, eqs, u))])
  /\ sp.bpos = [z \in Below(Len(AllEntered(m, eqs))) |-> AllEntered(m, eqs)[z + 1].pos]
  /\ sp.browind = [z \in Below(Len(AllEntered(m, eqs))) |-> AllEntered(m, eqs)[z + 1].row]
  /\ sp.localCentralRow = [i \in Rows(m) |-> EquationAt(eqs, i, i) - 1]

LEMMA PatternShape ==
  ASSUME NEW m, NEW eqs
  PROVE  HasShape(SaiPattern(m, eqs), m, eqs)
BY DEF HasShape, SaiPattern, AllEntered, Entered, Coefficients, EquationAt

\* In the pattern sp, row i has its unknowns from its first entry on, with
\* all blocks that they have in the equations and each of them in its own.
GathersRow(sp, m, eqs, i) ==
  /\ sp.nVars[i] = m.browptr[i + 1] - m.browptr[i] /\ sp.nEqns[i] = Len(eqs[i])
  /\ sp.sairowptr[i] = m.browptr[i]
  /\ eqs[i][sp.localCentralRow[i] + 1] = i
  /\ \A jj \in Row(m, i) : \A z \in Span(sp.bcolptr, jj) :
       /\ sp.bpos[z] \in Row(m, m.bcolind[jj])
       /\ \E q \in 1 .. Len(eqs[i]) : sp.browind[z] = q - 1 /\ eqs[i][q] = m.bcolind[sp.bpos[z]]
  /\ \A jj \in Row(m, i) : \A kk \in Row(m, m.bcolind[jj]) : \A q \in 1 .. Len(eqs[i]) :
       m.bcolind[kk] = eqs[i][q] => \E z \in Span(sp.bcolptr, jj) : sp.bpos[z] = kk

LEMMA PatternGathers ==
  ASSUME NEW m, Sound(m), NEW eqs, AreEquations(eqs, m), NEW i \in Rows(m)
  PROVE  GathersRow(SaiPattern(m, eqs), m, eqs, i)
<1> DEFINE sp == SaiPattern(m, eqs)  N == Nnzb(m)
           seqs == [u \in 1 .. N |-> Entered(m, eqs, u - 1)]
           count == [u \in Below(N) |-> Len(Coefficients(m, eqs, u))]
           all == AllEntered(m, eqs)
           E == [pos : Below(N), row : Int]
           W(u) == Entered(m, eqs, u)
<1>1. /\ m.nbrows \in Nat /\ Rows(m) = Below(m.nbrows) /\ Stored(m) /\ N \in Nat
      /\ Pointers(m.browptr, m.nbrows)
  BY DEF Sound, Stored, IsMatrix, Pointers, Nnzb, Rows
<1>0. HasShape(sp, m, eqs) BY PatternShape
<1> HIDE DEF sp
<1>2. /\ sp.nVars = [j \in Rows(m) |-> m.browptr[j + 1] - m.browptr[j]]
      /\ sp.nEqns = [j \in Rows(m) |-> Len(eqs[j])]
      /\ sp.sairowptr = Scan(m.nbrows, sp.nVars)
      /\ sp.bcolptr = Scan(N, count)
      /\ sp.bpos = [z \in Below(Len(all)) |-> all[z + 1].pos]
      /\ sp.browind = [z \in Below(Len(all)) |-> all[z + 1].row]
      /\ sp.localCentralRow = [j \in Rows(m) |-> EquationAt(eqs, j, j) - 1]
  BY <1>0 DEF HasShape
<1>3. sp.nVars[i] = m.browptr[i + 1] - m.browptr[i] /\ sp.nEqns[i] = Len(eqs[i]) BY <1>2
<1>4. sp.sairowptr[i] = m.browptr[i]
  <2> DEFINE d == sp.nVars
  <2>1. \A j \in Below(m.nbrows) : d[j] = m.browptr[j + 1] - m.browptr[j] BY <1>1, <1>2
  <2> HIDE DEF d
  <2>2. i \in 0 .. m.nbrows BY <1>1 DEF Below
  <2>3. Scan(m.nbrows, d)[i] = m.browptr[i] BY <1>1, <2>1, <2>2, ScannedDifferences
  <2> QED BY <1>2, <2>3 DEF d
<1>5. eqs[i][sp.localCentralRow[i] + 1] = i
  <2> DEFINE q == EquationAt(eqs, i, i)
  <2>1. eqs[i] \in Seq(Rows(m)) /\ \E r \in 1 .. Len(eqs[i]) : eqs[i][r] = i BY DEF AreEquations
  <2>2. q \in 1 .. Len(eqs[i]) /\ eqs[i][q] = i BY <2>1 DEF EquationAt
  <2>3. sp.localCentralRow[i] = q - 1 BY <1>2
  <2>4. q \in Int BY <2>1, <2>2
  <2> HIDE DEF q
  <2>5. sp.localCentralRow[i] + 1 = q BY <2>3, <2>4
  <2> QED BY <2>2, <2>5
<1>6. ASSUME NEW u \in Below(N)
      PROVE  W(u) \in Seq(E) /\ Len(W(u)) \in Nat /\ count[u] = Len(W(u))
  <2>1. PICK j \in Rows(m) : u \in Row(m, j) BY <1>1, RowFacts
  <2>2. W(u) \in Seq(E) /\ Len(W(u)) = Len(Coefficients(m, eqs, u)) /\ Len(W(u)) \in Nat
    BY <2>1, EnteredFacts
  <2>3. count[u] = Len(Coefficients(m, eqs, u)) OBVIOUS
  <2> QED BY <2>2, <2>3
<1> HIDE DEF W, count
<1>7. ASSUME NEW jj \in Row(m, i), NEW z \in Span(sp.bcolptr, jj)
      PROVE  /\ z - sp.bcolptr[jj] + 1 \in 1 .. Len(W(jj))
             /\ sp.bpos[z] = W(jj)[z - sp.bcolptr[jj] + 1].pos
             /\ sp.browind[z] = W(jj)[z - sp.bcolptr[jj] + 1].row
  <2> DEFINE ptr == sp.bcolptr  p == z - ptr[jj] + 1
  <2>1. jj \in Below(N) BY <1>1, RowFacts
  <2>2. N # 0 BY <1>1, <2>1 DEF Below
  <2>3. \A u \in Below(N) : u + 1 \in 1 .. N /\ (u + 1) - 1 = u BY <1>1 DEF Below
  <2>4. \A u \in Below(N) : seqs[u + 1] = W(u)
    <3> TAKE u \in Below(N)
    <3> DEFINE v == u + 1
    <3>1. v \in 1 .. N /\ v - 1 = u BY <2>3
    <3> HIDE DEF v
    <3>2. seqs[v] = Entered(m, eqs, v - 1) BY <3>1
    <3> QED BY <3>1, <3>2 DEF v, W
  <2>5. seqs \in [1 .. N -> Seq(E)]
    <3>1. \A u \in 1 .. N : u - 1 \in Below(N) BY <1>1 DEF Below
    <3>2. \A u \in 1 .. N : Entered(m, eqs, u - 1) \in Seq(E) BY <1>6, <3>1 DEF W
    <3> HIDE DEF E
    <3> QED BY <3>2
  <2>6. all = FlattenSeq(seqs) BY DEF AllEntered
  <2> HIDE DEF seqs, all, E
  <2>7. /\ ptr \in [0 .. N -> Nat] /\ ptr[0] = 0
        /\ \A u \in Below(N) : ptr[u + 1] = ptr[u] + Len(W(u))
    <3>1. \A u \in Below(N) : count[u] \in Nat BY <1>6
    <3>2. /\ Scan(N, count) \in [0 .. N -> Nat] /\ Scan(N, count)[0] = 0
          /\ \A u \in Below(N) : Scan(N, count)[u + 1] = Scan(N, count)[u] + count[u]
      BY <1>1, <3>1, ScanRule
    <3> QED BY <1>2, <1>6, <3>2
  <2> HIDE DEF ptr
  <2>8. \A u \in Below(N) : ptr[u] \in Nat /\ ptr[u + 1] \in Nat BY <1>1, <2>7 DEF Below
  <2>9. Pointers(ptr, N)
    <3>1. \A u \in Below(N) : ptr[u] <= ptr[u + 1] BY <1>6, <2>7, <2>8
    <3> QED BY <2>7, <3>1 DEF Pointers
  <2>10. JoinedUpTo(all, seqs, ptr, N)
    <3>1. \A u \in Below(N) : ptr[u + 1] = ptr[u] + Len(seqs[u + 1]) BY <2>4, <2>7
    <3> QED BY <1>1, <2>2, <2>5, <2>6, <2>9, <3>1, JoinedFacts
  <2>11. p \in 1 .. Len(W(jj)) /\ z + 1 = ptr[jj] + p
    <3>1. ptr[jj] \in Nat /\ ptr[jj + 1] = ptr[jj] + Len(W(jj)) /\ Len(W(jj)) \in Nat
      BY <1>6, <2>1, <2>7, <2>8
    <3>2. z \in ptr[jj] .. ptr[jj + 1] - 1 BY DEF Span, ptr
    <3> QED BY <3>1, <3>2
  <2>12. z \in Below(Len(all))
    <3>1. Span(ptr, jj) \subseteq Below(ptr[N]) BY <1>1, <2>1, <2>9, PointersCover
    <3>2. Len(all) = ptr[N] BY <2>10 DEF JoinedUpTo
    <3> QED BY <3>1, <3>2 DEF ptr
  <2>13. sp.bpos[z] = all[z + 1].pos /\ sp.browind[z] = all[z + 1].row BY <1>2, <2>12
  <2> HIDE DEF p
  <2>14. all[ptr[jj] + p] = W(jj)[p] BY <2>1, <2>4, <2>10, <2>11 DEF JoinedUpTo
  <2>15. all[z + 1] = W(jj)[p] BY <2>11, <2>14
  <2> QED BY <2>11, <2>13, <2>15 DEF p, ptr
<1>8. ASSUME NEW jj \in Row(m, i), NEW p \in 1 .. Len(W(jj))
      PROVE  \E z \in Span(sp.bcolptr, jj) : sp.bpos[z] = W(jj)[p].pos
  <2> DEFINE ptr == sp.bcolptr  z == ptr[jj] + p - 1
  <2>1. jj \in Below(N) BY <1>1, RowFacts
  <2>2. /\ ptr \in [0 .. N -> Nat]
        /\ \A u \in Below(N) : ptr[u + 1] = ptr[u] + Len(W(u))
    <3>1. \A u \in Below(N) : count[u] \in Nat BY <1>6
    <3>2. /\ Scan(N, count) \in [0 .. N -> Nat]
          /\ \A u \in Below(N) : Scan(N, count)[u + 1] = Scan(N, count)[u] + count[u]
      BY <1>1, <3>1, ScanRule
    <3> QED BY <1>2, <1>6, <3>2
  <2> HIDE DEF ptr
  <2>3. ptr[jj] \in Nat /\ ptr[jj + 1] = ptr[jj] + Len(W(jj)) /\ Len(W(jj)) \in Nat
    <3>1. jj \in 0 .. N BY <1>1, <2>1 DEF Below
    <3>2. ptr[jj] \in Nat BY <2>2, <3>1
    <3> QED BY <1>6, <2>1, <2>2, <3>2
  <2>4. z \in Span(ptr, jj) /\ z - ptr[jj] + 1 = p BY <2>3 DEF Span
  <2> HIDE DEF z
  <2>5. sp.bpos[z] = W(jj)[p].pos BY <1>7, <2>4 DEF ptr
  <2> QED BY <2>4, <2>5 DEF ptr
<1>9. \A jj \in Row(m, i) : \A z \in Span(sp.bcolptr, jj) :
        /\ sp.bpos[z] \in Row(m, m.bcolind[jj])
        /\ \E q \in 1 .. Len(eqs[i]) : sp.browind[z] = q - 1 /\ eqs[i][q] = m.bcolind[sp.bpos[z]]
  <2> TAKE jj \in Row(m, i)
  <2> TAKE z \in Span(sp.bcolptr, jj)
  <2> DEFINE p == z - sp.bcolptr[jj] + 1
  <2>1. /\ p \in 1 .. Len(W(jj)) /\ sp.bpos[z] = W(jj)[p].pos /\ sp.browind[z] = W(jj)[p].row
    BY <1>7
  <2> HIDE DEF p
  <2>2. /\ W(jj)[p].pos \in Row(m, m.bcolind[jj])
        /\ \E q \in 1 .. Len(eqs[i]) : W(jj)[p].row = q - 1 /\ eqs[i][q] = m.bcolind[W(jj)[p].pos]
    <3>1. NamesBlocks(Entered(m, eqs, jj), m, eqs, i, m.bcolind[jj]) BY EnteredFacts
    <3> QED BY <2>1, <3>1 DEF W, NamesBlocks
  <2> QED BY <2>1, <2>2
<1>10. \A jj \in Row(m, i) : \A kk \in Row(m, m.bcolind[jj]) : \A q \in 1 .. Len(eqs[i]) :
         m.bcolind[kk] = eqs[i][q] => \E z \in Span(sp.bcolptr, jj) : sp.bpos[z] = kk
  <2> TAKE jj \in Row(m, i)
  <2> TAKE kk \in Row(m, m.bcolind[jj])
  <2> TAKE q \in 1 .. Len(eqs[i])
  <2> HAVE m.bcolind[kk] = eqs[i][q]
  <2>1. PICK p \in 1 .. Len(W(jj)) : W(jj)[p].pos = kk
    <3>1. NamesBlocks(Entered(m, eqs, jj), m, eqs, i, m.bcolind[jj]) BY EnteredFacts
    <3> QED BY <3>1 DEF W, NamesBlocks
  <2> QED BY <1>8, <2>1
<1> QED BY <1>3, <1>4, <1>5, <1>9, <1>10 DEF GathersRow, sp

\* The columns that are the equations of row i.
EquationColumns(eqs, i) == {eqs[i][q] : q \in 1 .. Len(eqs[i])}

\* The unknown jj has a block in every equation if its row has all columns.
LEMMA CoefficientCount ==
  ASSUME NEW m, Sound(m), NEW eqs, AreEquations(eqs, m), NEW i \in Rows(m), NEW jj \in Row(m, i)
  PROVE  Len(Coefficients(m, eqs, jj)) = Len(eqs[i])
           <=> EquationColumns(eqs, i) \subseteq ColumnsOf(m, m.bcolind[jj])
<1> DEFINE k == m.bcolind[jj]  Q == EquationColumns(eqs, i)  L == Len(eqs[i])  e == eqs[i]
           S == {kk \in Row(m, k) : m.bcolind[kk] \in Q}
           f == [kk \in S |-> m.bcolind[kk]]
<1>1. Stored(m) /\ Nnzb(m) \in Nat /\ m.bcolind \in [Below(Nnzb(m)) -> Rows(m)]
  BY DEF Sound, Stored, IsMatrix, Pointers, Nnzb
<1>2. jj \in Below(Nnzb(m)) /\ RowOf(m, jj) = i BY <1>1, RowOfFacts
<1>3. k \in Rows(m) BY <1>1, <1>2
<1>4. e \in Seq(Rows(m)) /\ \A q, r \in 1 .. Len(e) : e[q] = e[r] => q = r BY DEF AreEquations
<1>5. L \in Nat /\ DOMAIN e = 1 .. L /\ ToSet(e) = Q BY <1>4 DEF ToSet, EquationColumns
<1>6. Row(m, k) \subseteq Below(Nnzb(m)) /\ IsFiniteSet(Row(m, k)) BY <1>1, <1>3, RowFacts, RowFinite
<1>7. IsFiniteSet(S) /\ S \subseteq Int
  <2>1. Below(Nnzb(m)) \subseteq Int BY <1>1 DEF Below
  <2>2. S \subseteq Row(m, k) OBVIOUS
  <2> QED BY <1>6, <2>1, <2>2, FS_Subset
<1>8. Coefficients(m, eqs, jj) = Ordered(S) BY <1>2, <1>5 DEF Coefficients, Positions
<1>9. Len(Coefficients(m, eqs, jj)) = Cardinality(S)
  <2> HIDE DEF S
  <2> QED BY <1>7, <1>8, OrderedFacts
<1>10. IsFiniteSet(Q) /\ Cardinality(Q) = L
  <2>1. Q = {e[q] : q \in 1 .. L} BY DEF EquationColumns
  <2> HIDE DEF Q
  <2>2. e \in [1 .. L -> Q]
    <3>1. e = [q \in 1 .. L |-> e[q]] BY <1>4, <1>5
    <3> HIDE DEF e, L
    <3> QED BY <2>1, <3>1
  <2>3. e \in Surjection(1 .. L, Q) BY <2>1, <2>2 DEF Surjection
  <2>4. e \in Injection(1 .. L, Q) BY <1>4, <2>2 DEF Injection, IsInjective
  <2>5. IsFiniteSet(1 .. L) /\ Cardinality(1 .. L) = L
    <3> HIDE DEF L
    <3> QED BY <1>5, FS_Interval
  <2> HIDE DEF L, e
  <2> QED BY <2>3, <2>4, <2>5, FS_Surjection
<1>11. f \in Injection(S, Q)
  <2>1. \A ll, kk \in Row(m, k) : m.bcolind[ll] = m.bcolind[kk] => ll = kk
    BY <1>3 DEF Sound, Distinct
  <2> HIDE DEF Q, k
  <2> QED BY <2>1 DEF Injection, IsInjective
<1>12. Cardinality(S) = L <=> f \in Surjection(S, Q)
  <2> HIDE DEF S, f, Q, L
  <2> QED BY <1>10, <1>11, FS_Injection
<1>13. f \in Surjection(S, Q) <=> \A c \in Q : \E kk \in S : m.bcolind[kk] = c
  <2> HIDE DEF Q, k
  <2> QED BY DEF Surjection
<1>14. (\A c \in Q : \E kk \in S : m.bcolind[kk] = c) <=> Q \subseteq ColumnsOf(m, k)
  <2> HIDE DEF Q, k
  <2> QED BY DEF ColumnsOf
<1> QED BY <1>9, <1>12, <1>13, <1>14

(***************************************************************************)
(* When a build with assertions gathers the problem of row i, and when it  *)
(* ends there (gather_lhs_matrix, src/sai.cpp:352): it goes on if and only *)
(* if every row that the row has a block for has blocks in all columns     *)
(* that are equations.  In the full pattern these are the columns of all   *)
(* such rows together, so that each of them has to have the same columns.  *)
(***************************************************************************)
THEOREM WhenAssertionHolds ==
  ASSUME NEW m, Sound(m), NEW eqs, AreEquations(eqs, m), NEW i \in Rows(m)
  PROVE  ColumnsFull(SaiPattern(m, eqs), i)
           <=> \A jj \in Row(m, i) :
                 EquationColumns(eqs, i) \subseteq ColumnsOf(m, m.bcolind[jj])
<1> DEFINE sp == SaiPattern(m, eqs)  N == Nnzb(m)  x == m.browptr[i]
           count == [u \in Below(N) |-> Len(Coefficients(m, eqs, u))]
           W(u) == Len(Coefficients(m, eqs, u))
<1>1. Stored(m) /\ N \in Nat BY DEF Sound, Stored, IsMatrix, Pointers, Nnzb
<1>2. x \in Nat /\ m.browptr[i + 1] \in Nat /\ Row(m, i) = x .. m.browptr[i + 1] - 1
  BY <1>1, RowFacts DEF Row
<1>3. \A u \in Below(N) : W(u) \in Nat
  <2> TAKE u \in Below(N)
  <2>1. PICK j \in Rows(m) : u \in Row(m, j) BY <1>1, RowFacts
  <2>2. W(u) = Len(Entered(m, eqs, u)) /\ Len(Entered(m, eqs, u)) \in Nat BY <2>1, EnteredFacts
  <2> QED BY <2>2
<1>4. \A u \in Below(N) : sp.bcolptr[u + 1] - sp.bcolptr[u] = W(u)
  <2>0. HasShape(sp, m, eqs) BY PatternShape
  <2> HIDE DEF sp
  <2>1. sp.bcolptr = Scan(N, count) BY <2>0 DEF HasShape
  <2>2. \A u \in Below(N) : count[u] = W(u) OBVIOUS
  <2> HIDE DEF count, W
  <2>3. \A u \in Below(N) : count[u] \in Nat BY <1>3, <2>2
  <2> DEFINE t == Scan(N, count)
  <2>4. t \in [0 .. N -> Nat] /\ \A u \in Below(N) : t[u + 1] = t[u] + count[u]
    BY <1>1, <2>3, ScanRule
  <2> HIDE DEF t
  <2> TAKE u \in Below(N)
  <2>5. u \in 0 .. N BY <1>1 DEF Below
  <2>6. t[u] \in Nat /\ t[u + 1] = t[u] + W(u) /\ W(u) \in Nat BY <1>3, <2>2, <2>4, <2>5
  <2>7. t[u + 1] - t[u] = W(u) BY <2>6
  <2> QED BY <2>1, <2>7 DEF t
<1>5. /\ sp.nVars[i] = m.browptr[i + 1] - x /\ sp.nEqns[i] = Len(eqs[i]) /\ sp.sairowptr[i] = x
  BY PatternGathers DEF GathersRow
<1>6. Row(m, i) \subseteq Below(N) BY <1>1, RowFacts
<1>7. \A jj \in Row(m, i) :
        W(jj) = Len(eqs[i]) <=> EquationColumns(eqs, i) \subseteq ColumnsOf(m, m.bcolind[jj])
  BY CoefficientCount
<1> HIDE DEF sp, W, x, N
<1>8. \A j \in Below(sp.nVars[i]) : x + j \in Row(m, i) /\ (x + j) + 1 = x + j + 1
  BY <1>2, <1>5 DEF Below
<1>9. \A jj \in Row(m, i) : jj - x \in Below(sp.nVars[i]) /\ x + (jj - x) = jj
  BY <1>2, <1>5 DEF Below
<1>10. ColumnsFull(sp, i) <=> \A j \in Below(sp.nVars[i]) : W(x + j) = Len(eqs[i])
  <2>1. \A j \in Below(sp.nVars[i]) : sp.bcolptr[x + j + 1] - sp.bcolptr[x + j] = W(x + j)
    BY <1>4, <1>6, <1>8
  <2> QED BY <1>5, <2>1 DEF ColumnsFull
<1>11. (\A j \in Below(sp.nVars[i]) : W(x + j) = Len(eqs[i]))
         <=> \A jj \in Row(m, i) : W(jj) = Len(eqs[i])
  BY <1>8, <1>9
<1> QED BY <1>7, <1>10, <1>11 DEF sp

\* The problem of row i has in row <<q, e>> and column <<jj, d>> the entry of
\* the matrix in row d of block row m.bcolind[jj], column e of block column
\* eqs[i][q].
Gathered(m, sp, eqs, i) ==
  \A q \in 1 .. Len(eqs[i]), jj \in Row(m, i), e, d \in Below(m.bs) :
    GatherLhs(m, sp, i)[<<At(q - 1, m.bs, e), At(jj - m.browptr[i], m.bs, d)>>] =
      Dense(m)[Corner(m, m.bcolind[jj], d, eqs[i][q], e)]

LEMMA GatheredEntry ==
  ASSUME NEW m, Sound(m), NEW eqs, AreEquations(eqs, m), NEW i \in Rows(m),
         NEW sp, GathersRow(sp, m, eqs, i), RunsThrough(sp, i)
  PROVE  Gathered(m, sp, eqs, i)
<1> SUFFICES ASSUME NEW q \in 1 .. Len(eqs[i]), NEW jj \in Row(m, i),
                    NEW e \in Below(m.bs), NEW d \in Below(m.bs)
             PROVE  GatherLhs(m, sp, i)[<<At(q - 1, m.bs, e), At(jj - m.browptr[i], m.bs, d)>>] =
                      Dense(m)[Corner(m, m.bcolind[jj], d, eqs[i][q], e)]
  BY DEF Gathered
<1> DEFINE b == m.bs  L == Len(eqs[i])  V == m.browptr[i + 1] - m.browptr[i]
           j == jj - m.browptr[i]  k == m.bcolind[jj]  c == eqs[i][q]
           P == <<At(q - 1, b, e), At(j, b, d)>>
           here == {z \in Span(sp.bcolptr, jj) : sp.browind[z] = q - 1}
           there == {kk \in Row(m, k) : m.bcolind[kk] = c}
           p == Corner(m, k, d, c, e)
<1>1. /\ Stored(m) /\ b \in Nat \ {0} /\ m.nbrows \in Nat
      /\ \A r, s \in 1 .. Len(eqs[i]) : eqs[i][r] = eqs[i][s] => r = s
      /\ eqs[i] \in Seq(Rows(m)) /\ L \in Nat
  <2>1. Stored(m) /\ b \in Nat \ {0} /\ m.nbrows \in Nat BY DEF Sound, Stored, IsMatrix
  <2>2. eqs[i] \in Seq(Rows(m)) BY DEF AreEquations
  <2>3. \A r, s \in 1 .. Len(eqs[i]) : eqs[i][r] = eqs[i][s] => r = s BY DEF AreEquations
  <2> QED BY <2>1, <2>2, <2>3
<1>2. /\ m.browptr[i] \in Nat /\ V \in Nat /\ Row(m, i) = m.browptr[i] .. m.browptr[i + 1] - 1
      /\ m.browptr[i + 1] \in Nat /\ Row(m, i) \subseteq Below(Nnzb(m))
  BY <1>1, RowFacts DEF Row
<1>3. /\ sp.nVars[i] = V /\ sp.nEqns[i] = L /\ sp.sairowptr[i] = m.browptr[i]
      /\ \A z \in Span(sp.bcolptr, jj) :
           /\ sp.bpos[z] \in Row(m, k)
           /\ \E r \in 1 .. L : sp.browind[z] = r - 1 /\ eqs[i][r] = m.bcolind[sp.bpos[z]]
      /\ \A kk \in Row(m, k) : \A r \in 1 .. L :
           m.bcolind[kk] = eqs[i][r] => \E z \in Span(sp.bcolptr, jj) : sp.bpos[z] = kk
  BY DEF GathersRow
<1>4. j \in Below(V) /\ m.browptr[i] + j = jj /\ m.browptr[i] + j + 1 = jj + 1
  <2>1. jj \in m.browptr[i] .. m.browptr[i + 1] - 1 BY <1>2
  <2> DEFINE x == m.browptr[i]  y == m.browptr[i + 1]
  <2>2. x \in Nat /\ y \in Nat /\ jj \in x .. y - 1 BY <1>2, <2>1
  <2> HIDE DEF x, y
  <2>3. jj - x \in 0 .. y - x - 1 /\ x + (jj - x) = jj /\ x + (jj - x) + 1 = jj + 1 BY <2>2
  <2> QED BY <2>3 DEF Below, x, y
<1>5. q - 1 \in Below(L) /\ q \in Int /\ c \in Rows(m)
  BY <1>1 DEF Below
<1>6. k \in Rows(m) BY <1>1, <1>2 DEF Stored
<1> HIDE DEF b, V, j, k, c, L
<1>7. /\ At(q - 1, b, e) \in Below(L * b) /\ At(q - 1, b, e) \div b = q - 1
      /\ At(q - 1, b, e) % b = e
  BY <1>1, <1>5, IndexFacts DEF b
<1>8. /\ At(j, b, d) \in Below(V * b) /\ At(j, b, d) \div b = j /\ At(j, b, d) % b = d
  <2>1. V \in Nat /\ j \in Below(V) /\ b \in Nat \ {0} /\ d \in Below(b)
    BY <1>1, <1>2, <1>4 DEF b
  <2> HIDE DEF P, here, there, p
  <2>2. IsIndex(At(j, b, d), V, b, j, d) BY <2>1, IndexAt
  <2> QED BY <2>2 DEF IsIndex
<1>9. GatherLhs(m, sp, i)[P] =
        IF here = {} THEN 0
        ELSE m.vals[sp.bpos[CHOOSE z \in here : TRUE]][Place(m, d, e)]
  <2> DEFINE G(r) == {z \in sp.bcolptr[sp.sairowptr[i] + (r[2] \div m.bs)]
                              .. sp.bcolptr[sp.sairowptr[i] + (r[2] \div m.bs) + 1] - 1 :
                        sp.browind[z] = r[1] \div m.bs}
  <2>1. GatherLhs(m, sp, i) =
          [r \in Below(sp.nEqns[i] * m.bs) \X Below(sp.nVars[i] * m.bs) |->
             IF G(r) = {} THEN 0
             ELSE m.vals[sp.bpos[CHOOSE z \in G(r) : TRUE]][Place(m, r[2] % m.bs, r[1] % m.bs)]]
    BY DEF GatherLhs, OfUnknown
  <2>2. P \in Below(sp.nEqns[i] * m.bs) \X Below(sp.nVars[i] * m.bs)
    BY <1>3, <1>7, <1>8 DEF b
  <2>3. P[1] \div m.bs = q - 1 /\ P[2] \div m.bs = j /\ P[1] % m.bs = e /\ P[2] % m.bs = d
    BY <1>7, <1>8 DEF b
  <2> HIDE DEF P
  <2>4. G(P) = here BY <1>3, <1>4, <2>3 DEF Span
  <2> HIDE DEF G, here
  <2> QED BY <2>1, <2>2, <2>3, <2>4
<1>10. /\ p \in SquareOf(m) /\ p[1] \div m.bs = k /\ p[1] % m.bs = d
       /\ p[2] \div m.bs = c /\ p[2] % m.bs = e
  BY <1>1, <1>5, <1>6, CornerFacts DEF b
<1>11. Dense(m)[p] = IF there = {} THEN 0 ELSE m.vals[CHOOSE kk \in there : TRUE][Place(m, d, e)]
  <2> DEFINE D(r) == {kk \in Row(m, r[1] \div m.bs) : m.bcolind[kk] = r[2] \div m.bs}
  <2>1. Dense(m) = [r \in SquareOf(m) |->
                      IF D(r) = {} THEN 0
                      ELSE m.vals[CHOOSE kk \in D(r) : TRUE][Place(m, r[1] % m.bs, r[2] % m.bs)]]
    BY DEF Dense, SquareOf
  <2> HIDE DEF p
  <2>2. D(p) = there BY <1>10
  <2> HIDE DEF D, there
  <2> QED BY <1>10, <2>1, <2>2
<1>12. \A z \in here : sp.bpos[z] \in there
  <2> TAKE z \in here
  <2>1. PICK r \in 1 .. L : sp.browind[z] = r - 1 /\ eqs[i][r] = m.bcolind[sp.bpos[z]] BY <1>3
  <2>2. r = q
    <3>1. r - 1 = q - 1 BY <2>1
    <3> QED BY <1>1, <1>5, <3>1
  <2> QED BY <1>3, <2>1, <2>2 DEF c
<1>13. \A kk \in there : \E z \in here : TRUE
  <2> TAKE kk \in there
  <2>1. PICK z \in Span(sp.bcolptr, jj) : sp.bpos[z] = kk BY <1>3 DEF c, L
  <2>2. PICK r \in 1 .. L : sp.browind[z] = r - 1 /\ eqs[i][r] = m.bcolind[kk] BY <1>3, <2>1
  <2>3. r = q BY <1>1, <2>2 DEF c, L
  <2> QED BY <2>1, <2>2, <2>3
<1>14. \A kk, ll \in there : kk = ll BY <1>6 DEF Sound, Distinct
<1> HIDE DEF here, there
<1>15. CASE here = {} BY <1>9, <1>11, <1>13, <1>15 DEF P, p, b, j, k, c
<1>16. CASE here # {}
  <2>1. (CHOOSE z \in here : TRUE) \in here BY <1>16
  <2>2. sp.bpos[CHOOSE z \in here : TRUE] \in there BY <1>12, <2>1
  <2>3. there # {} /\ (CHOOSE kk \in there : TRUE) \in there BY <2>2
  <2>4. sp.bpos[CHOOSE z \in here : TRUE] = CHOOSE kk \in there : TRUE BY <1>14, <2>2, <2>3
  <2>5. GatherLhs(m, sp, i)[P] = Dense(m)[p] BY <1>9, <1>11, <1>16, <2>3, <2>4
  <2> QED BY <2>5 DEF P, p, b, j, k, c
<1> QED BY <1>15, <1>16

LEMMA ZeroValues ==
  ASSUME Field, NEW m, Stored(m), NEW jj \in Below(Nnzb(m)), NEW k \in Places(m)
  PROVE  AllZero(m).vals[jj][k] = 0
<1>1. 0 \in Scalars BY DEF Field, Scalars, Below
<1>2. /\ DOMAIN m.vals = Below(Nnzb(m))
      /\ \A ll \in Below(Nnzb(m)) : m.vals[ll] \in [Places(m) -> Scalars]
  BY StoredValues
<1> DEFINE z == [ll \in Below(Nnzb(m)) |-> [l \in Places(m) |-> 0]]
<1>3. z \in [Below(Nnzb(m)) -> [Places(m) -> Scalars]] BY <1>1
<1>4. AllZero(m) = [m EXCEPT !.vals = z]
  <2>1. [ll \in DOMAIN m.vals |-> [l \in DOMAIN m.vals[ll] |-> 0]] = z BY <1>2
  <2> HIDE DEF z
  <2> QED BY <2>1 DEF AllZero, Valued
<1>5. z[jj][k] = 0 OBVIOUS
<1> HIDE DEF z
<1>6. AllZero(m).vals = z BY <1>3, <1>4, RevaluedFacts
<1> QED BY <1>5, <1>6

\* The numbers of a solution for V blocks.
IsSolution(sol, V, b) == \A u \in Below(V * b), a \in Below(b) : sol[<<u, a>>] \in Scalars

LEMMA ScatterFacts ==
  ASSUME Field, NEW m, Sound(m), NEW i \in Rows(m), NEW sol,
         IsSolution(sol, m.browptr[i + 1] - m.browptr[i], m.bs)
  PROVE  LET K == ScatterSolution(sol, i, AllZero(m))
         IN /\ Stored(K) /\ SameStructure(K, m)
            /\ \A jj \in Row(m, i) : \A a, d \in Below(m.bs) :
                 K.vals[jj][Place(m, a, d)] = sol[<<At(jj - m.browptr[i], m.bs, d), a>>]
<1> DEFINE Z == AllZero(m)  K == ScatterSolution(sol, i, Z)  N == Nnzb(m)
           rc(k) == CHOOSE p \in Below(m.bs) \X Below(m.bs) : Place(m, p[1], p[2]) = k
           F(jj, k) == IF jj \notin Row(m, i) THEN 0
                       ELSE sol[<<(jj - m.browptr[i]) * m.bs + rc(k)[2], rc(k)[1]>>]
           v == [jj \in Below(N) |-> [k \in Places(m) |-> F(jj, k)]]
           V == m.browptr[i + 1] - m.browptr[i]
<1>1. Stored(m) /\ m.bs \in Nat \ {0} BY DEF Sound, Stored, IsMatrix
<1>2. Stored(Z) /\ SameStructure(Z, m) BY <1>1, ZeroFacts
<1>3. \A jj \in Below(N), k \in Places(m) : Z.vals[jj][k] = 0 BY <1>1, ZeroValues
<1> HIDE DEF Z
<1>4. /\ Z.bs = m.bs /\ Z.stor = m.stor /\ Z.browptr = m.browptr /\ Nnzb(Z) = N
      /\ Places(Z) = Places(m)
  BY <1>2, StructuresAlike DEF SameStructure, SameFrame
<1>5. Row(Z, i) = Row(m, i) /\ \A a, d : Place(Z, a, d) = Place(m, a, d)
  BY <1>4 DEF Row, Place
<1>6. /\ DOMAIN Z.vals = Below(N)
      /\ \A jj \in Below(N) : Z.vals[jj] \in [Places(m) -> Scalars]
  BY <1>2, <1>4, StoredValues
<1>7. /\ m.browptr[i] \in Nat /\ m.browptr[i + 1] \in Nat /\ V \in Nat
      /\ Row(m, i) = m.browptr[i] .. m.browptr[i + 1] - 1 /\ Row(m, i) \subseteq Below(N)
  BY <1>1, RowFacts DEF Row
<1>8. \A jj \in Row(m, i) : jj - m.browptr[i] \in Below(V)
  <2> TAKE jj \in Row(m, i)
  <2> DEFINE x == m.browptr[i]  y == m.browptr[i + 1]
  <2>1. x \in Nat /\ y \in Nat /\ jj \in x .. y - 1 BY <1>7
  <2> HIDE DEF x, y
  <2>2. jj - x \in 0 .. y - x - 1 BY <2>1
  <2> QED BY <2>2 DEF Below, x, y
<1>9. \A a, d \in Below(m.bs) : Place(m, a, d) \in Places(m) /\ rc(Place(m, a, d)) = <<a, d>>
  <2> TAKE a, d \in Below(m.bs)
  <2> DEFINE k == Place(m, a, d)  R == Below(m.bs) \X Below(m.bs)
  <2>1. k \in Places(m) BY <1>1, PlaceOnce
  <2>2. <<a, d>> \in R /\ Place(m, <<a, d>>[1], <<a, d>>[2]) = k OBVIOUS
  <2>3. \A p \in R : Place(m, p[1], p[2]) = k => p = <<a, d>>
    <3> TAKE p \in R
    <3>1. p = <<p[1], p[2]>> /\ p[1] \in Below(m.bs) /\ p[2] \in Below(m.bs) OBVIOUS
    <3>2. Place(m, p[1], p[2]) = k => p[1] = a /\ p[2] = d BY <1>1, <3>1, PlaceOnce
    <3> QED BY <3>1, <3>2
  <2>4. rc(k) = CHOOSE p \in R : Place(m, p[1], p[2]) = k OBVIOUS
  <2> HIDE DEF k, R, rc
  <2>5. rc(k) = <<a, d>> BY <2>2, <2>3, <2>4
  <2> QED BY <2>1, <2>5 DEF k
<1>10. \A k \in Places(m) : \E a, d \in Below(m.bs) : k = Place(m, a, d) BY <1>1, PlaceOnce
<1> HIDE DEF rc
<1>11. ASSUME NEW jj \in Row(m, i), NEW a \in Below(m.bs), NEW d \in Below(m.bs)
       PROVE  /\ F(jj, Place(m, a, d)) = sol[<<At(jj - m.browptr[i], m.bs, d), a>>]
              /\ F(jj, Place(m, a, d)) \in Scalars
  <2>1. rc(Place(m, a, d)) = <<a, d>> BY <1>9
  <2>2. F(jj, Place(m, a, d)) = sol[<<At(jj - m.browptr[i], m.bs, d), a>>] BY <2>1 DEF At
  <2>3. At(jj - m.browptr[i], m.bs, d) \in Below(V * m.bs)
    <3> DEFINE j == jj - m.browptr[i]
    <3>1. j \in Below(V) BY <1>8
    <3> HIDE DEF j, V
    <3>2. At(j, m.bs, d) \in Below(V * m.bs) BY <1>1, <1>7, <3>1, IndexFacts
    <3> QED BY <3>2 DEF j
  <2> QED BY <2>2, <2>3 DEF IsSolution
<1>12. \A jj \in Below(N), k \in Places(m) : F(jj, k) \in Scalars
  <2> TAKE jj \in Below(N), k \in Places(m)
  <2>1. CASE jj \notin Row(m, i) BY <2>1 DEF Field, Scalars, Below
  <2>2. CASE jj \in Row(m, i) BY <1>10, <1>11, <2>2
  <2> QED BY <2>1, <2>2
<1>13. K = [Z EXCEPT !.vals = v]
  <2> DEFINE w == [jj \in DOMAIN Z.vals |-> [k \in DOMAIN Z.vals[jj] |->
                     IF jj \notin Row(Z, i) THEN Z.vals[jj][k]
                     ELSE LET p == CHOOSE p \in Below(Z.bs) \X Below(Z.bs) : Place(Z, p[1], p[2]) = k
                          IN sol[<<(jj - Z.browptr[i]) * Z.bs + p[2], p[1]>>]]]
  <2>1. K = [Z EXCEPT !.vals = w] BY DEF ScatterSolution, Valued
  <2>2. \A jj \in Below(N), k \in Places(m) :
          (IF jj \notin Row(Z, i) THEN Z.vals[jj][k]
           ELSE LET p == CHOOSE p \in Below(Z.bs) \X Below(Z.bs) : Place(Z, p[1], p[2]) = k
                IN sol[<<(jj - Z.browptr[i]) * Z.bs + p[2], p[1]>>]) = F(jj, k)
    <3> TAKE jj \in Below(N), k \in Places(m)
    <3> DEFINE A == {p \in Below(Z.bs) \X Below(Z.bs) : Place(Z, p[1], p[2]) = k}
               B == {p \in Below(m.bs) \X Below(m.bs) : Place(m, p[1], p[2]) = k}
               r == CHOOSE p \in Below(Z.bs) \X Below(Z.bs) : Place(Z, p[1], p[2]) = k
    <3>1. r = rc(k)
      <4>1. \A p : p \in Below(Z.bs) \X Below(Z.bs) /\ Place(Z, p[1], p[2]) = k
                <=> p \in Below(m.bs) \X Below(m.bs) /\ Place(m, p[1], p[2]) = k
        BY <1>4, <1>5
      <4> QED BY <4>1, Zenon DEF rc
    <3>2. (jj \in Row(Z, i)) = (jj \in Row(m, i)) /\ Z.vals[jj][k] = 0
          /\ Z.bs = m.bs /\ Z.browptr = m.browptr
      BY <1>3, <1>4, <1>5
    <3> HIDE DEF r
    <3>3. (IF jj \notin Row(Z, i) THEN Z.vals[jj][k]
           ELSE sol[<<(jj - Z.browptr[i]) * Z.bs + r[2], r[1]>>]) = F(jj, k)
      BY <3>1, <3>2
    <3> QED BY <3>3 DEF r
  <2>3. w = v
    <3> HIDE DEF F
    <3> QED BY <1>6, <2>2
  <2> QED BY <2>1, <2>3
<1> HIDE DEF F, K
<1>14. v \in [Below(N) -> [Places(m) -> Scalars]] BY <1>12
<1>15. \A jj \in Below(N), k \in Places(m) : v[jj][k] = F(jj, k) OBVIOUS
<1> HIDE DEF v
<1>16. Stored(K) /\ SameStructure(K, Z) /\ K.vals = v
  BY <1>2, <1>4, <1>13, <1>14, RevaluedFacts
<1>17. SameStructure(K, m) BY <1>2, <1>16, StructuresAlike
<1>18. \A jj \in Row(m, i) : \A a, d \in Below(m.bs) :
         K.vals[jj][Place(m, a, d)] = sol[<<At(jj - m.browptr[i], m.bs, d), a>>]
  BY <1>7, <1>9, <1>11, <1>15, <1>16
<1> QED BY <1>16, <1>17, <1>18 DEF K, Z

\* S has the numbers of sol in the blocks of row i, and zeros beside them.
Scattered(S, m, i, sol) ==
  /\ S \in [SquareOf(m) -> Scalars]
  /\ \A a, d \in Below(m.bs) : \A jj \in Row(m, i) :
       S[Corner(m, i, a, m.bcolind[jj], d)] = sol[<<At(jj - m.browptr[i], m.bs, d), a>>]
  /\ \A a, d \in Below(m.bs) : \A k \in Rows(m) :
       (\A jj \in Row(m, i) : m.bcolind[jj] # k) => S[Corner(m, i, a, k, d)] = 0

LEMMA ScatteredEntry ==
  ASSUME Field, NEW m, Sound(m), NEW i \in Rows(m), NEW sol,
         IsSolution(sol, m.browptr[i + 1] - m.browptr[i], m.bs)
  PROVE  Scattered(Dense(ScatterSolution(sol, i, AllZero(m))), m, i, sol)
<1> DEFINE K == ScatterSolution(sol, i, AllZero(m))  S == Dense(K)
<1>1. Stored(m) /\ m.bs \in Nat \ {0} /\ m.nbrows \in Nat BY DEF Sound, Stored, IsMatrix
<1>2. /\ Stored(K) /\ SameStructure(K, m)
      /\ \A jj \in Row(m, i) : \A a, d \in Below(m.bs) :
           K.vals[jj][Place(m, a, d)] = sol[<<At(jj - m.browptr[i], m.bs, d), a>>]
  BY ScatterFacts
<1> HIDE DEF K
<1>3. /\ SquareOf(K) = SquareOf(m) /\ Distinct(K)
      /\ \A jj, l, p : Holds(K, jj, l, p) <=> Holds(m, jj, l, p)
  BY <1>2, SameHolds DEF Sound
<1>4. /\ S \in [SquareOf(m) -> Scalars]
      /\ \A p \in SquareOf(m) : \A jj, k : Holds(m, jj, k, p) => S[p] = K.vals[jj][k]
      /\ \A p \in SquareOf(m) : (\A jj, k : ~Holds(m, jj, k, p)) => S[p] = 0
  BY <1>2, <1>3, DenseFacts
<1> HIDE DEF S
<1>5. \A k \in Rows(m), a, d \in Below(m.bs) :
        LET p == Corner(m, i, a, k, d)
        IN /\ p \in SquareOf(m) /\ p[1] \div m.bs = i /\ p[1] % m.bs = a
           /\ p[2] \div m.bs = k /\ p[2] % m.bs = d
  BY <1>1, CornerFacts
<1>6. ASSUME NEW a \in Below(m.bs), NEW d \in Below(m.bs), NEW jj \in Row(m, i)
      PROVE  S[Corner(m, i, a, m.bcolind[jj], d)] = sol[<<At(jj - m.browptr[i], m.bs, d), a>>]
  <2> DEFINE k == m.bcolind[jj]  p == Corner(m, i, a, k, d)
  <2>1. k \in Rows(m)
    <3>1. jj \in Below(Nnzb(m)) BY <1>1, RowFacts
    <3> QED BY <1>1, <3>1 DEF Stored
  <2> HIDE DEF k
  <2>2. /\ p \in SquareOf(m) /\ p[1] \div m.bs = i /\ p[1] % m.bs = a
        /\ p[2] \div m.bs = k /\ p[2] % m.bs = d
    BY <1>5, <2>1
  <2> HIDE DEF p
  <2>3. Holds(m, jj, Place(m, a, d), p) BY <2>2 DEF Holds, k
  <2>4. S[p] = K.vals[jj][Place(m, a, d)] BY <1>4, <2>2, <2>3
  <2> QED BY <1>2, <2>4 DEF p, k
<1>7. ASSUME NEW a \in Below(m.bs), NEW d \in Below(m.bs), NEW k \in Rows(m),
             \A jj \in Row(m, i) : m.bcolind[jj] # k
      PROVE  S[Corner(m, i, a, k, d)] = 0
  <2> DEFINE p == Corner(m, i, a, k, d)
  <2>1. p \in SquareOf(m) /\ p[1] \div m.bs = i /\ p[2] \div m.bs = k BY <1>5
  <2> HIDE DEF p
  <2>2. \A jj, l : ~Holds(m, jj, l, p) BY <1>7, <2>1 DEF Holds
  <2>3. S[p] = 0 BY <1>4, <2>1, <2>2
  <2> QED BY <2>3 DEF p
<1>8. Scattered(S, m, i, sol) BY <1>4, <1>6, <1>7 DEF Scattered
<1> QED BY <1>8 DEF S, K

\* Zeros may be left out of a sum.
LEMMA SumOverSupport ==
  ASSUME NEW S, IsFiniteSet(S), NEW f, \A x \in S : f[x] \in Int,
         NEW T \in SUBSET S, \A x \in S \ T : f[x] = 0
  PROVE  SumFunctionOnSet(f, S) = SumFunctionOnSet(f, T)
<1>1. /\ \A s \in SUBSET S : SumFunctionOnSet(f, s) \in Int
      /\ \A s \in SUBSET S : \A x \in S \ s :
           SumFunctionOnSet(f, s \cup {x}) = f[x] + SumFunctionOnSet(f, s)
  <2>1. \A x \in S : f[x] \in Int OBVIOUS
  <2>2. ASSUME NEW s \in SUBSET S PROVE SumFunctionOnSet(f, s) \in Int BY <2>1, SumFacts
  <2>3. ASSUME NEW s \in SUBSET S, NEW x \in S \ s
        PROVE  SumFunctionOnSet(f, s \cup {x}) = f[x] + SumFunctionOnSet(f, s)
    BY <2>1, SumFacts
  <2> QED BY <2>2, <2>3
<1> DEFINE R == S \ T
           Q == {u \in SUBSET R : SumFunctionOnSet(f, T \cup u) = SumFunctionOnSet(f, T)}
<1>2. IsFiniteSet(R) BY FS_Subset
<1>3. {} \in Q
  <2>1. T \cup {} = T OBVIOUS
  <2> QED BY <2>1
<1>4. ASSUME NEW u \in SUBSET R, NEW x \in R \ u, u \in Q PROVE u \cup {x} \in Q
  <2>1. T \cup u \in SUBSET S /\ x \in S \ (T \cup u) /\ T \cup (u \cup {x}) = (T \cup u) \cup {x}
    OBVIOUS
  <2>2. SumFunctionOnSet(f, T \cup u) = SumFunctionOnSet(f, T) BY <1>4
  <2>3. f[x] = 0 OBVIOUS
  <2>4. SumFunctionOnSet(f, (T \cup u) \cup {x}) = f[x] + SumFunctionOnSet(f, T \cup u)
    BY <1>1, <2>1
  <2>5. SumFunctionOnSet(f, T) \in Int BY <1>1
  <2>6. SumFunctionOnSet(f, T \cup (u \cup {x})) = SumFunctionOnSet(f, T)
    <3> DEFINE y == SumFunctionOnSet(f, T \cup (u \cup {x}))  z == SumFunctionOnSet(f, T)
    <3>1. y = f[x] + SumFunctionOnSet(f, T \cup u)
      <4> DEFINE w == T \cup u
      <4>1. SumFunctionOnSet(f, w \cup {x}) = f[x] + SumFunctionOnSet(f, w) BY <2>4
      <4>2. T \cup (u \cup {x}) = w \cup {x} BY <2>1
      <4> HIDE DEF w
      <4>3. SumFunctionOnSet(f, T \cup (u \cup {x})) = SumFunctionOnSet(f, w \cup {x}) BY <4>2
      <4> QED BY <4>1, <4>3 DEF w
    <3>2. z \in Int BY <2>5
    <3>3. y = 0 + z BY <2>2, <2>3, <3>1
    <3> HIDE DEF y, z
    <3>4. y = z BY <3>2, <3>3
    <3> QED BY <3>4 DEF y, z
  <2> QED BY <2>6
<1> HIDE DEF Q
<1>5. SUBSET R \subseteq Q
  <2>1. \A u \in SUBSET R : \A x \in R \ u : u \in Q => u \cup {x} \in Q BY <1>4
  <2> HIDE DEF R
  <2> QED BY <1>2, <1>3, <2>1, SubsetsInduction
<1>6. R \in SUBSET R /\ T \cup R = S OBVIOUS
<1>7. R \in Q BY <1>5, <1>6
<1> QED BY <1>6, <1>7 DEF Q

\* The terms of row l of a problem, for column a of its solution, and of
\* entry <<k, l>> of the product of the approximate inverse and the matrix.
ProblemTerms(m, sp, i, sol, l, a) ==
  [u \in Below(sp.nVars[i] * m.bs) |-> GatherLhs(m, sp, i)[<<l, u>>] * sol[<<u, a>>]]
ProductTerms(m, i, sol, k, l) ==
  [p \in Below(Dim(m)) |->
     Dense(ScatterSolution(sol, i, AllZero(m)))[<<k, p>>] * Dense(m)[<<p, l>>]]

\* With the equations own, what the problem of row i says of sol is what the
\* product says.
Answers(m, sp, own, i, sol) ==
  \A q \in DOMAIN own, e \in Below(m.bs), a \in Below(m.bs) :
    SumFunction(ProblemTerms(m, sp, i, sol, At(q - 1, m.bs, e), a)) =
      SumFunction(ProductTerms(m, i, sol, At(i, m.bs, a), At(own[q], m.bs, e)))

(***************************************************************************)
(* Whatever the solution and the equations: if the program goes on to      *)
(* gather for row i - always in a build without assertions, and in one     *)
(* with them as WhenAssertionHolds says - what is gathered and asked of    *)
(* the solution is what the rows of the matrix that its blocks meet say    *)
(* once the solution is scattered (src/sai.cpp).                           *)
(***************************************************************************)
THEOREM EquationIsProduct ==
  ASSUME Field, NEW m, Sound(m), NEW eqs, AreEquations(eqs, m), NEW i \in Rows(m),
         NEW sp, GathersRow(sp, m, eqs, i), RunsThrough(sp, i),
         NEW sol, IsSolution(sol, m.browptr[i + 1] - m.browptr[i], m.bs)
  PROVE  Answers(m, sp, eqs[i], i, sol)
<1>0. DOMAIN eqs[i] = 1 .. Len(eqs[i])
  <2>1. eqs[i] \in Seq(Rows(m)) BY DEF AreEquations
  <2> QED BY <2>1
<1> SUFFICES ASSUME NEW q \in 1 .. Len(eqs[i]), NEW e \in Below(m.bs), NEW a \in Below(m.bs)
             PROVE  SumFunction(ProblemTerms(m, sp, i, sol, At(q - 1, m.bs, e), a)) =
                      SumFunction(ProductTerms(m, i, sol, At(i, m.bs, a), At(eqs[i][q], m.bs, e)))
  BY <1>0 DEF Answers
<1> DEFINE b == m.bs  x == m.browptr[i]  V == m.browptr[i + 1] - m.browptr[i]
           c == eqs[i][q]  A == Dense(m)  S == Dense(ScatterSolution(sol, i, AllZero(m)))
           R == Below(V * b)  D == Below(Dim(m))
           T == {p \in D : \E jj \in Row(m, i) : m.bcolind[jj] = p \div b}
           h == [u \in R |-> At(m.bcolind[x + (u \div b)], b, u % b)]
           f == ProblemTerms(m, sp, i, sol, At(q - 1, b, e), a)
           g == ProductTerms(m, i, sol, At(i, b, a), At(c, b, e))
<1>1. /\ Stored(m) /\ Distinct(m) /\ b \in Nat \ {0} /\ m.nbrows \in Nat
      /\ Rows(m) = Below(m.nbrows)
  BY DEF Sound, Stored, IsMatrix, Rows
<1>2. /\ x \in Nat /\ V \in Nat /\ Row(m, i) = x .. m.browptr[i + 1] - 1
      /\ m.browptr[i + 1] \in Nat /\ Row(m, i) \subseteq Below(Nnzb(m))
  BY <1>1, RowFacts DEF Row
<1>3. sp.nVars[i] = V BY DEF GathersRow
<1>4. \A jj \in Row(m, i) : m.bcolind[jj] \in Rows(m) BY <1>1, <1>2 DEF Stored
<1>5. c \in Rows(m)
  <2>1. eqs[i] \in Seq(Rows(m)) BY DEF AreEquations
  <2> QED BY <2>1
<1>6. Dim(m) = m.nbrows * b BY DEF Dim
<1>7. A \in [SquareOf(m) -> Scalars] BY <1>1, DenseFacts
<1>8. Scattered(S, m, i, sol)
  <2> HIDE DEF h, T, R, D, A, f, g, c, V, x
  <2> QED BY ScatteredEntry
<1>9. Gathered(m, sp, eqs, i)
  <2> HIDE DEF h, T, R, D, A, f, g, c, V, x
  <2> QED BY GatheredEntry
<1>10. f = [u \in R |-> GatherLhs(m, sp, i)[<<At(q - 1, b, e), u>>] * sol[<<u, a>>]]
  BY <1>3 DEF ProblemTerms
<1>11. g = [p \in D |-> S[<<At(i, b, a), p>>] * A[<<p, At(c, b, e)>>]]
  BY DEF ProductTerms
<1>12. Scalars \subseteq Nat BY DEF Field, Scalars, Below
<1> HIDE DEF f, g, A, S, c
<1>13. /\ \A k \in Rows(m), d \in Below(b) : At(k, b, d) \in D /\ At(k, b, d) \div b = k /\ At(k, b, d) % b = d
       /\ \A p \in D : p \div b \in Rows(m) /\ p % b \in Below(b) /\ p = At(p \div b, b, p % b)
  BY <1>1, <1>6, IndexFacts
<1>14. /\ \A j \in Below(V), d \in Below(b) : At(j, b, d) \in R /\ At(j, b, d) \div b = j /\ At(j, b, d) % b = d
       /\ \A u \in R : u \div b \in Below(V) /\ u % b \in Below(b) /\ u = At(u \div b, b, u % b)
  <2>1. V \in Nat /\ b \in Nat \ {0} BY <1>1, <1>2
  <2> HIDE DEF V, b, h, T, f, g, A, S, c, x
  <2>2. ASSUME NEW j \in Below(V), NEW d \in Below(b)
        PROVE  At(j, b, d) \in R /\ At(j, b, d) \div b = j /\ At(j, b, d) % b = d
    BY <2>1, IndexFacts
  <2>3. ASSUME NEW u \in R
        PROVE  u \div b \in Below(V) /\ u % b \in Below(b) /\ u = At(u \div b, b, u % b)
    BY <2>1, IndexFacts
  <2> QED BY <2>2, <2>3
<1>15. \A p, r \in D : <<p, r>> \in SquareOf(m) BY DEF SquareOf
<1> HIDE DEF D
<1>16. \A p \in D : g[p] \in Int
  <2> TAKE p \in D
  <2>1. At(i, b, a) \in D /\ At(c, b, e) \in D BY <1>5, <1>13
  <2>2. S[<<At(i, b, a), p>>] \in Scalars /\ A[<<p, At(c, b, e)>>] \in Scalars
    BY <1>7, <1>8, <1>15, <2>1 DEF Scattered
  <2> DEFINE y == S[<<At(i, b, a), p>>]  z == A[<<p, At(c, b, e)>>]
  <2>3. y \in Nat /\ z \in Nat BY <1>12, <2>2
  <2>4. g[p] = y * z BY <1>11
  <2> HIDE DEF y, z
  <2> QED BY <2>3, <2>4
<1>17. \A p \in D \ T : g[p] = 0
  <2> TAKE p \in D \ T
  <2> DEFINE k == p \div b  d == p % b  z == A[<<p, At(c, b, e)>>]
  <2>1. k \in Rows(m) /\ d \in Below(b) /\ p = At(k, b, d) BY <1>13
  <2>2. \A jj \in Row(m, i) : m.bcolind[jj] # k OBVIOUS
  <2> HIDE DEF k, d, T
  <2>3. S[<<At(i, b, a), p>>] = 0 BY <1>8, <2>1, <2>2 DEF Scattered, Corner
  <2>4. z \in Nat
    <3>1. At(c, b, e) \in D BY <1>5, <1>13
    <3> QED BY <1>7, <1>12, <1>15, <3>1
  <2>5. g[p] = S[<<At(i, b, a), p>>] * z BY <1>11
  <2> HIDE DEF z
  <2> QED BY <2>3, <2>4, <2>5
<1>18. ASSUME NEW u \in R
       PROVE  /\ x + (u \div b) \in Row(m, i) /\ (x + (u \div b)) - x = u \div b
              /\ h[u] = At(m.bcolind[x + (u \div b)], b, u % b)
              /\ h[u] \div b = m.bcolind[x + (u \div b)] /\ h[u] % b = u % b
              /\ h[u] \in T
  <2> DEFINE j == u \div b  d == u % b
  <2>1. j \in Below(V) /\ d \in Below(b) BY <1>14
  <2>2. h[u] = At(m.bcolind[x + j], b, d) OBVIOUS
  <2>3. x + j \in Row(m, i) /\ (x + j) - x = j
    <3> DEFINE y == m.browptr[i + 1]
    <3>1. x \in Nat /\ y \in Nat /\ j \in 0 .. y - x - 1 BY <1>2, <2>1 DEF Below
    <3> HIDE DEF x, y, j
    <3>2. x + j \in x .. y - 1 /\ (x + j) - x = j BY <3>1
    <3> QED BY <1>2, <3>2 DEF y
  <2> HIDE DEF x, j, d, h
  <2>4. m.bcolind[x + j] \in Rows(m) BY <1>4, <2>3
  <2>5. h[u] \in D /\ h[u] \div b = m.bcolind[x + j] /\ h[u] % b = d BY <1>13, <2>1, <2>2, <2>4
  <2>6. h[u] \in T BY <2>3, <2>5
  <2> QED BY <2>2, <2>3, <2>5, <2>6 DEF j, d
<1> HIDE DEF T
<1>19. T \in SUBSET D /\ \A p \in T : \E jj \in Row(m, i) : m.bcolind[jj] = p \div b BY DEF T
<1>20. h \in [R -> T] BY <1>18
<1> HIDE DEF h
<1>21. \A u, v \in R : h[u] = h[v] => u = v
  <2> TAKE u, v \in R
  <2> HAVE h[u] = h[v]
  <2>1. m.bcolind[x + (u \div b)] = m.bcolind[x + (v \div b)] /\ u % b = v % b BY <1>18
  <2>2. x + (u \div b) = x + (v \div b) BY <1>1, <1>18, <2>1 DEF Distinct
  <2>3. u \div b = v \div b BY <1>18, <2>2
  <2> QED BY <1>14, <2>1, <2>3
<1>22. \A p \in T : \E u \in R : h[u] = p
  <2> TAKE p \in T
  <2>1. PICK jj \in Row(m, i) : m.bcolind[jj] = p \div b BY <1>19
  <2> DEFINE j == jj - x  d == p % b  u == At(j, b, d)
  <2>2. j \in Below(V) /\ x + j = jj
    <3> DEFINE y == m.browptr[i + 1]
    <3>1. x \in Nat /\ y \in Nat /\ jj \in x .. y - 1 BY <1>2
    <3> HIDE DEF x, y
    <3>2. jj - x \in 0 .. y - x - 1 /\ x + (jj - x) = jj BY <3>1
    <3> QED BY <3>2 DEF Below, x, y
  <2> HIDE DEF j
  <2>3. p \in D /\ d \in Below(b) /\ p = At(p \div b, b, d) BY <1>13, <1>19
  <2> HIDE DEF d
  <2>4. u \in R /\ u \div b = j /\ u % b = d BY <1>14, <2>2, <2>3
  <2> HIDE DEF u
  <2>5. h[u] = At(m.bcolind[jj], b, d) BY <1>18, <2>2, <2>4
  <2> QED BY <2>1, <2>3, <2>4, <2>5
<1>23. \A u \in R : f[u] = g[h[u]]
  <2> TAKE u \in R
  <2> DEFINE j == u \div b  d == u % b  jj == x + j  k == m.bcolind[jj]
  <2>1. /\ jj \in Row(m, i) /\ jj - x = j /\ h[u] = At(k, b, d) /\ h[u] \in D
    BY <1>18, <1>19
  <2>2. d \in Below(b) /\ u = At(j, b, d) /\ k \in Rows(m) BY <1>4, <1>14, <2>1
  <2> HIDE DEF j, d, jj, k
  <2>3. GatherLhs(m, sp, i)[<<At(q - 1, b, e), u>>] = A[<<At(k, b, d), At(c, b, e)>>]
    BY <1>9, <2>1, <2>2 DEF Gathered, Corner, k, A, c
  <2>4. sol[<<u, a>>] = S[<<At(i, b, a), At(k, b, d)>>] BY <1>8, <2>1, <2>2 DEF Scattered, Corner, k
  <2> DEFINE y == S[<<At(i, b, a), At(k, b, d)>>]  z == A[<<At(k, b, d), At(c, b, e)>>]
  <2>5. y \in Nat /\ z \in Nat
    <3>1. At(i, b, a) \in D /\ At(c, b, e) \in D /\ At(k, b, d) \in D BY <1>5, <1>13, <2>2
    <3> QED BY <1>7, <1>8, <1>12, <1>15, <3>1 DEF Scattered
  <2>6. f[u] = z * y BY <1>10, <2>3, <2>4
  <2>7. g[h[u]] = y * z BY <1>11, <2>1
  <2> HIDE DEF y, z
  <2> QED BY <2>5, <2>6, <2>7
<1>24. IsFiniteSet(R) /\ IsFiniteSet(D) /\ IsFiniteSet(T)
  <2>1. V * b \in Nat /\ Dim(m) \in Nat
    <3> HIDE DEF V, b
    <3> QED BY <1>1, <1>2, <1>6
  <2>2. IsFiniteSet(R) /\ IsFiniteSet(D)
    <3> HIDE DEF V, b
    <3> QED BY <2>1, BelowFacts DEF D
  <2> QED BY <1>19, <2>2, FS_Subset
<1>25. DOMAIN f = R /\ DOMAIN g = D BY <1>10, <1>11
<1> HIDE DEF R, V, x, b
<1>26. SumFunctionOnSet(g, D) = SumFunctionOnSet(g, T)
  BY <1>16, <1>17, <1>19, <1>24, SumOverSupport
<1>27. SumFunctionOnSet(g, T) = SumFunctionOnSet(f, R)
  <2>1. /\ IsFiniteSet(R) /\ IsFiniteSet(T) /\ \A p \in T : g[p] \in Int
        /\ h \in [R -> T] /\ \A u, v \in R : h[u] = h[v] => u = v
        /\ \A p \in T : \E u \in R : h[u] = p
        /\ \A u \in R : f[u] = g[h[u]]
    BY <1>16, <1>19, <1>20, <1>21, <1>22, <1>23, <1>24
  <2> QED BY <2>1, SumRenamed
<1>28. SumFunction(f) = SumFunction(g) BY <1>25, <1>26, <1>27 DEF SumFunction
<1> QED BY <1>28 DEF f, g, c, b

LEMMA FullAreEquations ==
  ASSUME NEW m, Sound(m), StoresDiagonals(m)
  PROVE  AreEquations([i \in Rows(m) |-> FullEquations(m, i)], m)
<1> DEFINE eqs == [i \in Rows(m) |-> FullEquations(m, i)]
<1>1. Stored(m) /\ m.nbrows \in Nat /\ Rows(m) = Below(m.nbrows)
  BY DEF Sound, Stored, IsMatrix, Rows
<1>2. Rows(m) \subseteq Int /\ IsFiniteSet(Rows(m))
  <2>1. Rows(m) \subseteq Int BY <1>1 DEF Below
  <2> QED BY <1>1, <2>1, BelowFacts
<1>3. \A i \in Rows(m) : ColumnsOf(m, i) \subseteq Rows(m) /\ i \in ColumnsOf(m, i)
  <2> TAKE i \in Rows(m)
  <2>1. Row(m, i) \subseteq Below(Nnzb(m)) BY <1>1, RowFacts
  <2>2. \A jj \in Row(m, i) : m.bcolind[jj] \in Rows(m) BY <1>1, <2>1 DEF Stored
  <2>3. \E jj \in Row(m, i) : m.bcolind[jj] = i BY DEF StoresDiagonals
  <2> QED BY <2>2, <2>3 DEF ColumnsOf
<1>4. ASSUME NEW i \in Rows(m)
      PROVE  /\ eqs[i] \in Seq(Rows(m))
             /\ \A q, r \in 1 .. Len(eqs[i]) : eqs[i][q] = eqs[i][r] => q = r
             /\ \E q \in 1 .. Len(eqs[i]) : eqs[i][q] = i
  <2> DEFINE U == UNION {ColumnsOf(m, c) : c \in ColumnsOf(m, i)}  h == Ordered(U)
             n == Cardinality(U)
  <2>1. U \subseteq Rows(m) /\ i \in U BY <1>3
  <2>2. eqs[i] = h BY DEF FullEquations
  <2> HIDE DEF U, eqs
  <2>3. IsFiniteSet(U) /\ U \subseteq Int BY <1>2, <2>1, FS_Subset
  <2>4. n \in Nat /\ Enumerates(h, U) /\ h \in Seq(U) /\ Len(h) = n BY <2>3, OrderedFacts
  <2> HIDE DEF h, n
  <2>5. h \in Seq(Rows(m)) BY <2>1, <2>4
  <2>6. \A q \in 1 .. n : h[q] \in Int BY <1>2, <2>4, <2>5
  <2>7. \A q, r \in 1 .. n : q < r => h[q] < h[r] BY <2>4 DEF Enumerates, n
  <2>8. \A q, r \in 1 .. n : h[q] = h[r] => q = r
    <3> TAKE q, r \in 1 .. n
    <3>1. q < r \/ r < q \/ q = r BY <2>4
    <3> QED BY <2>6, <2>7, <3>1
  <2>9. \E q \in 1 .. n : h[q] = i BY <2>1, <2>4 DEF Enumerates, n
  <2> QED BY <2>2, <2>4, <2>5, <2>8, <2>9
<1>5. eqs \in [Rows(m) -> Seq(Rows(m))]
  <2>1. eqs = [i \in Rows(m) |-> eqs[i]] OBVIOUS
  <2> HIDE DEF eqs
  <2> QED BY <1>4, <2>1
<1> HIDE DEF eqs
<1>6. AreEquations(eqs, m) BY <1>4, <1>5 DEF AreEquations
<1> QED BY <1>6 DEF eqs

LEMMA IncompleteAreEquations ==
  ASSUME NEW m, Sound(m), StoresDiagonals(m)
  PROVE  AreEquations([i \in Rows(m) |-> IncompleteEquations(m, i)], m)
<1> DEFINE eqs == [i \in Rows(m) |-> IncompleteEquations(m, i)]
<1>1. Stored(m) /\ Distinct(m) BY DEF Sound
<1>2. ASSUME NEW i \in Rows(m)
      PROVE  /\ eqs[i] \in Seq(Rows(m))
             /\ \A q, r \in 1 .. Len(eqs[i]) : eqs[i][q] = eqs[i][r] => q = r
             /\ \E q \in 1 .. Len(eqs[i]) : eqs[i][q] = i
  <2> DEFINE x == m.browptr[i]  y == m.browptr[i + 1]  L == y - x
             s == [q \in 1 .. L |-> m.bcolind[x + q - 1]]
  <2>1. /\ x \in Nat /\ y \in Nat /\ L \in Nat /\ Row(m, i) = x .. y - 1
        /\ Row(m, i) \subseteq Below(Nnzb(m))
    BY <1>1, RowFacts DEF Row
  <2>2. eqs[i] = s BY DEF IncompleteEquations
  <2>3. \A jj \in Row(m, i) : m.bcolind[jj] \in Rows(m) BY <1>1, <2>1 DEF Stored
  <2>4. \A jj, kk \in Row(m, i) : m.bcolind[jj] = m.bcolind[kk] => jj = kk
    BY <1>1 DEF Distinct
  <2>5. PICK jj \in Row(m, i) : m.bcolind[jj] = i BY DEF StoresDiagonals
  <2> HIDE DEF x, y, eqs
  <2>6. \A q \in 1 .. L : x + q - 1 \in x .. y - 1 BY <2>1
  <2>7. \A q \in 1 .. L : s[q] = m.bcolind[x + q - 1] OBVIOUS
  <2>8. s \in [1 .. L -> Rows(m)] BY <2>1, <2>3, <2>6
  <2>9. s \in Seq(Rows(m)) /\ Len(s) = L
    <3> HIDE DEF s, L
    <3> QED BY <2>1, <2>8
  <2> HIDE DEF s
  <2>10. \A q, r \in 1 .. L : s[q] = s[r] => q = r
    <3> TAKE q, r \in 1 .. L
    <3> HAVE s[q] = s[r]
    <3>1. x + q - 1 = x + r - 1 BY <2>1, <2>4, <2>6, <2>7
    <3> QED BY <2>1, <3>1
  <2>11. \E q \in 1 .. L : s[q] = i
    <3> DEFINE q == jj - x + 1
    <3>1. jj \in x .. y - 1 BY <2>1, <2>5
    <3>2. q \in 1 .. L /\ x + q - 1 = jj BY <2>1, <3>1
    <3> HIDE DEF q
    <3>3. s[q] = i BY <2>5, <2>7, <3>2
    <3> QED BY <3>2, <3>3
  <2> QED BY <2>2, <2>9, <2>10, <2>11
<1>3. eqs \in [Rows(m) -> Seq(Rows(m))]
  <2>1. eqs = [i \in Rows(m) |-> eqs[i]] OBVIOUS
  <2> HIDE DEF eqs
  <2> QED BY <1>2, <2>1
<1> HIDE DEF eqs
<1>4. AreEquations(eqs, m) BY <1>2, <1>3 DEF AreEquations
<1> QED BY <1>4 DEF eqs

\* The solution that the problems are asked about.
Some(sp, m, i) ==
  [p \in Below(sp.nVars[i] * m.bs) \X Below(m.bs) |-> (3 * p[1] + p[2] + 1) % Mod]

Solves(m, sp, own, i) ==
  /\ own[sp.localCentralRow[i] + 1] = i
  /\ RunsThrough(sp, i) => Answers(m, sp, own, i, Some(sp, m, i))

LEMMA PatternSolves ==
  ASSUME Field, NEW m, Sound(m), NEW eqs, AreEquations(eqs, m), NEW i \in Rows(m),
         NEW sp, sp = SaiPattern(m, eqs)
  PROVE  Solves(m, sp, eqs[i], i)
<1> DEFINE sol == Some(sp, m, i)
<1>1. GathersRow(sp, m, eqs, i) BY PatternGathers
<1>2. IsSolution(sol, m.browptr[i + 1] - m.browptr[i], m.bs)
  <2>1. sp.nVars[i] = m.browptr[i + 1] - m.browptr[i] BY <1>1 DEF GathersRow
  <2>2. Stored(m) /\ m.bs \in Nat \ {0} BY DEF Sound, Stored, IsMatrix
  <2> DEFINE V == m.browptr[i + 1] - m.browptr[i]
  <2>3. V \in Nat BY <2>2, RowFacts
  <2>4. sol = [p \in Below(V * m.bs) \X Below(m.bs) |-> (3 * p[1] + p[2] + 1) % Mod]
    BY <2>1 DEF Some
  <2> HIDE DEF V, sol
  <2>5. ASSUME NEW u \in Below(V * m.bs), NEW a \in Below(m.bs) PROVE sol[<<u, a>>] \in Scalars
    <3>1. u \in Nat /\ a \in Nat BY <2>2, <2>3 DEF Below
    <3> DEFINE k == 3 * u + a + 1
    <3>2. k \in Nat BY <3>1
    <3>3. sol[<<u, a>>] = k % Mod BY <2>4
    <3> DEFINE r == k % Mod
    <3>4. Mod \in Nat \ {0} BY DEF Field
    <3> HIDE DEF k
    <3>5. r \in 0 .. Mod - 1 BY <3>2, <3>4, DivisionFacts
    <3> HIDE DEF r
    <3>6. r \in Scalars BY <3>5 DEF Scalars, Below
    <3> QED BY <3>3, <3>6 DEF r
  <2> QED BY <2>5 DEF IsSolution, V
<1>3. eqs[i][sp.localCentralRow[i] + 1] = i BY <1>1 DEF GathersRow
<1> HIDE DEF sol
<1>4. RunsThrough(sp, i) => Answers(m, sp, eqs[i], i, sol) BY <1>1, <1>2, EquationIsProduct
<1> QED BY <1>3, <1>4 DEF Solves, sol
=============================================================================
