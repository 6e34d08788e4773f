------------------------ MODULE ContractLedgerProofs ------------------------
(***************************************************************************)
(* Theorems about ContractLedger: every contract, every calendar, every    *)
(* set of amounts and dates.                                               *)
(*                                                                         *)
(* The proofs come in five parts: sums and dates; the FIFO allocation of   *)
(* one payment; the replay of a history, event by event; what each         *)
(* operation does to the rows of a contract; the invariants.  The first    *)
(* four are about the operators of BillingRules, RefundRules and           *)
(* ContractLedger and speak of no behaviour.  ContractReplayProofs goes on *)
(* from here to what compares two replays.                                 *)
(***************************************************************************)
EXTENDS ContractLedger, SequenceTheorems, FiniteSetTheorems, WellFoundedInduction, TLAPS

-----------------------------------------------------------------------------
(* Induction.  The library's induction theorems take an operator; these say *)
(* the same of a set.                                                       *)

\* A set of naturals has a least element.
LEMMA Least ==
  ASSUME NEW T, T \subseteq Nat, T # {}
  PROVE  \E n \in T : \A m \in T : n <= m
<1>1. \E R : IsWellFoundedOn(R, Nat) /\ \A x, y \in Nat : x < y => <<x, y>> \in R
  <2>1. \A x, y \in Nat : x < y => <<x, y>> \in OpToRel(<, Nat)
    BY DEF OpToRel
  <2> QED
    BY <2>1, NatLessThanWellFounded, Zenon
<1>2. PICK R : IsWellFoundedOn(R, Nat) /\ \A x, y \in Nat : x < y => <<x, y>> \in R
  BY <1>1
<1>3. \E x \in T : \A y \in T : ~ (<<y, x>> \in R)
  <2>1. IsWellFoundedOn(R, Nat)
    BY <1>2
  <2> QED
    BY <2>1, WFMin, Zenon
<1>4. PICK x \in T : \A y \in T : ~ (<<y, x>> \in R)
  BY <1>3
<1>5. \A y \in T : ~(y < x)
  BY <1>2, <1>4, Zenon
<1> QED
  BY <1>5

\* What holds of a subset of S whenever it holds of the subset without any one of
\* its elements holds of every subset of S.
LEMMA SubsetInduction ==
  ASSUME NEW S, IsFiniteSet(S), NEW P,
         \A T \in SUBSET S : (\A x \in T : T \ {x} \in P) => T \in P
  PROVE  \A T \in SUBSET S : T \in P
<1> SUFFICES ASSUME NEW U \in SUBSET S, U \notin P PROVE FALSE
  OBVIOUS
<1> DEFINE Bad == {T \in SUBSET S : T \notin P}
           Sizes == {Cardinality(T) : T \in Bad}
<1>1. \A T \in SUBSET S : IsFiniteSet(T) /\ Cardinality(T) \in Nat
  BY FS_Subset, FS_CardinalityType
<1>2. Sizes \subseteq Nat /\ Sizes # {}
  BY <1>1
<1>3. PICK T \in Bad : \A V \in Bad : Cardinality(T) <= Cardinality(V)
  <2>1. PICK n \in Sizes : \A m \in Sizes : n <= m
    <3> HIDE DEF Sizes
    <3> QED
      BY <1>2, Least
  <2> QED
    BY <2>1
<1>4. PICK x \in T : T \ {x} \notin P
  OBVIOUS
<1>5. Cardinality(T \ {x}) = Cardinality(T) - 1
  BY <1>1, FS_RemoveElement
<1>6. T \ {x} \in Bad
  BY <1>4
<1> QED
  BY <1>1, <1>3, <1>5, <1>6

\* So does what holds of every subset of fewer than n + 1 elements once it does of
\* those of fewer than n: the form a recursive function needs.
LEMMA NatInduction2 ==
  ASSUME NEW T, T \subseteq Nat, 0 \in T, \A n \in T : n + 1 \in T
  PROVE  T = Nat
<1> SUFFICES ASSUME Nat \ T # {} PROVE FALSE
  OBVIOUS
<1>1. PICK n \in Nat \ T : \A m \in Nat \ T : n <= m
  BY Least
<1>2. n # 0 /\ n - 1 \in Nat /\ n - 1 \notin Nat \ T
  BY <1>1
<1> QED
  BY <1>2

-----------------------------------------------------------------------------
(* Sums *)

SumStep(g, f, s) ==
    IF s = {} THEN 0 ELSE f[CHOOSE x \in s : TRUE] + g[s \ {CHOOSE x \in s : TRUE}]

\* The recursion of a sum has a solution: what solves it for the subsets of at most n
\* elements, stepped once, solves it for those of n + 1.
LEMMA SumExists ==
  ASSUME NEW f, NEW S, IsFiniteSet(S)
  PROVE  \E g : g = [s \in SUBSET S |-> SumStep(g, f, s)]
<1> DEFINE Good(n, g) == \A s \in SUBSET S : Cardinality(s) <= n => g[s] = SumStep(g, f, s)
           T == {n \in Nat : \E g : g = [s \in SUBSET S |-> g[s]] /\ Good(n, g)}
<1>0. \A s \in SUBSET S : IsFiniteSet(s) /\ Cardinality(s) \in Nat
  BY FS_Subset, FS_CardinalityType
<1>1. 0 \in T
  <2> DEFINE g == [s \in SUBSET S |-> 0]
  <2>1. \A s \in SUBSET S : Cardinality(s) <= 0 => s = {}
    BY <1>0, FS_EmptySet
  <2>2. Good(0, g)
    BY <2>1 DEF SumStep
  <2>3. g = [s \in SUBSET S |-> g[s]]
    OBVIOUS
  <2> QED BY <2>2, <2>3
<1>2. ASSUME NEW n \in T PROVE n + 1 \in T
  <2>1. PICK g : g = [s \in SUBSET S |-> g[s]] /\ Good(n, g)
    OBVIOUS
  <2> DEFINE h == [s \in SUBSET S |-> SumStep(g, f, s)]
  <2>2. ASSUME NEW s \in SUBSET S, Cardinality(s) <= n + 1 PROVE h[s] = SumStep(h, f, s)
    <3>1. CASE s = {}
      BY <3>1 DEF SumStep
    <3>2. CASE s # {}
      <4> DEFINE x == CHOOSE x \in s : TRUE
      <4>1. x \in s
        BY <3>2
      <4> HIDE DEF x
      <4>2. Cardinality(s \ {x}) <= n /\ s \ {x} \in SUBSET S
        BY <1>0, <2>2, <4>1, FS_RemoveElement
      <4>3. g[s \ {x}] = SumStep(g, f, s \ {x})
        BY <2>1, <4>2
      <4>4. h[s \ {x}] = g[s \ {x}]
        BY <4>2, <4>3
      <4> QED BY <3>2, <4>4 DEF SumStep, x
    <3> QED BY <3>1, <3>2
  <2>3. Good(n + 1, h)
    BY <2>2
  <2>4. h = [s \in SUBSET S |-> h[s]]
    OBVIOUS
  <2> HIDE DEF Good, h
  <2> QED BY <2>3, <2>4
<1>3. T = Nat
  <2> HIDE DEF T
  <2>1. T \subseteq Nat BY DEF T
  <2> QED BY <1>1, <1>2, <2>1, NatInduction2
<1>4. PICK g : g = [s \in SUBSET S |-> g[s]] /\ Good(Cardinality(S), g)
  BY <1>0, <1>3
<1>5. \A s \in SUBSET S : Cardinality(s) <= Cardinality(S)
  BY FS_Subset
<1>6. \A s \in SUBSET S : g[s] = SumStep(g, f, s)
  BY <1>4, <1>5
<1>7. g = [s \in SUBSET S |-> SumStep(g, f, s)]
  BY <1>4, <1>6
<1> QED BY <1>7

\* SumOver is such a solution at the set it is asked for.
LEMMA SumSolves ==
  ASSUME NEW f, NEW S, IsFiniteSet(S)
  PROVE  \E g : /\ \A s \in SUBSET S : g[s] = SumStep(g, f, s)
                /\ g[S] = SumOver(f, S)
<1>1. \E g : g = [s \in SUBSET S |-> IF s = {} THEN 0
                    ELSE f[CHOOSE x \in s : TRUE] + g[s \ {CHOOSE x \in s : TRUE}]]
  <2>1. PICK g : g = [s \in SUBSET S |-> SumStep(g, f, s)]
    BY SumExists
  <2>2. g = [s \in SUBSET S |-> IF s = {} THEN 0
                    ELSE f[CHOOSE x \in s : TRUE] + g[s \ {CHOOSE x \in s : TRUE}]]
    BY <2>1, Zenon DEF SumStep
  <2> QED
    BY <2>2, Zenon
<1>2. PICK g : /\ g = [s \in SUBSET S |-> IF s = {} THEN 0
                    ELSE f[CHOOSE x \in s : TRUE] + g[s \ {CHOOSE x \in s : TRUE}]]
               /\ g[S] = SumFunctionOnSet(f, S)
  BY <1>1, Zenon DEF SumFunctionOnSet, FoldFunctionOnSet, MapThenFoldSet
<1>3. \A s \in SUBSET S : g[s] = SumStep(g, f, s)
  BY <1>2 DEF SumStep
<1> QED
  BY <1>2, <1>3 DEF SumOver

\* A sum of no terms is 0.
LEMMA SumEmpty == ASSUME NEW f PROVE SumOver(f, {}) = 0
<1>1. PICK g : /\ \A s \in SUBSET {} : g[s] = SumStep(g, f, s)
               /\ g[{}] = SumOver(f, {})
  BY SumSolves, FS_EmptySet
<1> QED
  BY <1>1 DEF SumStep

\* Any two solutions agree, so that a sum unfolds at the element CHOOSE picks.
LEMMA SumUnfold ==
  ASSUME NEW f, NEW S, IsFiniteSet(S), S # {}
  PROVE  LET x == CHOOSE x \in S : TRUE IN x \in S /\ SumOver(f, S) = f[x] + SumOver(f, S \ {x})
<1> DEFINE x == CHOOSE x \in S : TRUE
           R == S \ {x}
<1>0. x \in S /\ IsFiniteSet(R) /\ R \in SUBSET S
  BY FS_Subset
<1>1. PICK g : /\ \A s \in SUBSET S : g[s] = SumStep(g, f, s)
               /\ g[S] = SumOver(f, S)
  BY SumSolves
<1> HIDE DEF x
<1>2. PICK h : /\ \A s \in SUBSET R : h[s] = SumStep(h, f, s)
               /\ h[R] = SumOver(f, R)
  BY <1>0, SumSolves
<1> DEFINE P == {s \in SUBSET R : g[s] = h[s]}
<1>3. ASSUME NEW s \in SUBSET R, \A y \in s : s \ {y} \in P
      PROVE  s \in P
  <2>1. g[s] = SumStep(g, f, s) /\ h[s] = SumStep(h, f, s)
    BY <1>1, <1>2, <1>0
  <2>2. CASE s = {}
    BY <2>1, <2>2 DEF SumStep
  <2>3. CASE s # {}
    <3>1. PICK y : y = (CHOOSE e \in s : TRUE)
      OBVIOUS
    <3>2. y \in s
      BY <2>3, <3>1
    <3>3. g[s \ {y}] = h[s \ {y}]
      BY <1>3, <3>2
    <3> QED
      BY <2>1, <2>3, <3>1, <3>3 DEF SumStep
  <2> QED
    BY <2>2, <2>3
<1>4. \A s \in SUBSET R : s \in P
  <2> HIDE DEF P
  <2> QED
    BY <1>0, <1>3, SubsetInduction
<1>5. g[R] = h[R]
  BY <1>4
<1>6. g[S] = f[x] + g[R]
  BY <1>1 DEF SumStep, x
<1> QED
  BY <1>0, <1>1, <1>2, <1>5, <1>6 DEF x

\* A sum of integers.
LEMMA SumInt ==
  ASSUME NEW f, NEW S, IsFiniteSet(S), \A x \in S : f[x] \in Int
  PROVE  SumOver(f, S) \in Int
<1> DEFINE P == {T \in SUBSET S : SumOver(f, T) \in Int}
<1>1. ASSUME NEW T \in SUBSET S, \A x \in T : T \ {x} \in P
      PROVE  T \in P
  <2>1. CASE T = {}
    BY <2>1, SumEmpty
  <2>2. CASE T # {}
    <3>1. PICK x \in T : SumOver(f, T) = f[x] + SumOver(f, T \ {x})
      BY <2>2, FS_Subset, SumUnfold, Zenon
    <3> QED
      BY <1>1, <3>1
  <2> QED
    BY <2>1, <2>2
<1> HIDE DEF P
<1>2. \A T \in SUBSET S : T \in P
  BY <1>1, SubsetInduction
<1>3. S \in P
  BY <1>2
<1> QED
  BY <1>3 DEF P

\* A sum without any one of its terms.
LEMMA SumRemove ==
  ASSUME NEW f, NEW S, IsFiniteSet(S), \A x \in S : f[x] \in Int
  PROVE  \A x \in S : SumOver(f, S) = f[x] + SumOver(f, S \ {x})
<1> DEFINE P == {T \in SUBSET S : \A x \in T : SumOver(f, T) = f[x] + SumOver(f, T \ {x})}
<1>1. ASSUME NEW T \in SUBSET S, \A x \in T : T \ {x} \in P
      PROVE  T \in P
  <2> SUFFICES ASSUME NEW x \in T PROVE SumOver(f, T) = f[x] + SumOver(f, T \ {x})
    OBVIOUS
  <2>1. PICK y \in T : SumOver(f, T) = f[y] + SumOver(f, T \ {y})
    BY FS_Subset, SumUnfold, Zenon
  <2>2. CASE x = y
    BY <2>1, <2>2
  <2>3. CASE x # y
    <3>1. SumOver(f, T \ {y}) = f[x] + SumOver(f, (T \ {y}) \ {x})
      BY <1>1, <2>3
    <3>2. SumOver(f, T \ {x}) = f[y] + SumOver(f, (T \ {x}) \ {y})
      BY <1>1, <2>3
    <3>3. (T \ {y}) \ {x} = (T \ {x}) \ {y}
      OBVIOUS
    <3>4. f[x] \in Int /\ f[y] \in Int /\ SumOver(f, (T \ {x}) \ {y}) \in Int
      <4>1. IsFiniteSet((T \ {x}) \ {y})
        BY FS_Subset
      <4>2. \A z \in (T \ {x}) \ {y} : f[z] \in Int
        OBVIOUS
      <4> HIDE DEF P
      <4> QED
        BY <4>1, <4>2, SumInt
    <3>5. SumOver(f, T) = f[y] + (f[x] + SumOver(f, (T \ {x}) \ {y}))
      BY <2>1, <3>1, <3>3
    <3> QED
      BY <3>2, <3>4, <3>5
  <2> QED
    BY <2>2, <2>3
<1> HIDE DEF P
<1>2. \A T \in SUBSET S : T \in P
  BY <1>1, SubsetInduction
<1>3. S \in P
  BY <1>2
<1> QED
  BY <1>3 DEF P

\* Terms that agree give sums that agree.
LEMMA SumEqual ==
  ASSUME NEW f, NEW g, NEW S, IsFiniteSet(S), \A x \in S : f[x] \in Int /\ f[x] = g[x]
  PROVE  SumOver(f, S) = SumOver(g, S)
<1> DEFINE P == {T \in SUBSET S : SumOver(f, T) = SumOver(g, T)}
<1>1. ASSUME NEW T \in SUBSET S, \A x \in T : T \ {x} \in P
      PROVE  T \in P
  <2>1. CASE T = {}
    BY <2>1, SumEmpty
  <2>2. CASE T # {}
    <3>0. IsFiniteSet(T)
      BY FS_Subset
    <3>1. PICK x \in T : TRUE
      BY <2>2
    <3>2. SumOver(f, T) = f[x] + SumOver(f, T \ {x})
      BY <3>0, SumRemove
    <3>3. SumOver(g, T) = g[x] + SumOver(g, T \ {x})
      BY <3>0, SumRemove
    <3> QED
      BY <1>1, <3>2, <3>3
  <2> QED
    BY <2>1, <2>2
<1> HIDE DEF P
<1>2. \A T \in SUBSET S : T \in P
  BY <1>1, SubsetInduction
<1>3. S \in P
  BY <1>2
<1> QED
  BY <1>3 DEF P

\* A sum with one term more.
LEMMA SumAdd ==
  ASSUME NEW f, NEW S, IsFiniteSet(S), NEW x, x \notin S,
         \A y \in S \cup {x} : f[y] \in Int
  PROVE  SumOver(f, S \cup {x}) = SumOver(f, S) + f[x]
<1>1. IsFiniteSet(S \cup {x})
  BY FS_AddElement
<1>2. (S \cup {x}) \ {x} = S
  OBVIOUS
<1>3. SumOver(f, S \cup {x}) = f[x] + SumOver(f, S)
  BY <1>1, <1>2, SumRemove
<1>4. SumOver(f, S) \in Int /\ f[x] \in Int
  BY SumInt
<1> QED
  BY <1>3, <1>4

\* Sums whose terms are no greater are no greater.
LEMMA SumLess ==
  ASSUME NEW f, NEW g, NEW S, IsFiniteSet(S),
         \A x \in S : f[x] \in Int /\ g[x] \in Int /\ f[x] <= g[x]
  PROVE  SumOver(f, S) <= SumOver(g, S)
<1> DEFINE P == {T \in SUBSET S : SumOver(f, T) <= SumOver(g, T)}
<1>1. ASSUME NEW T \in SUBSET S, \A x \in T : T \ {x} \in P
      PROVE  T \in P
  <2>1. CASE T = {}
    BY <2>1, SumEmpty
  <2>2. CASE T # {}
    <3>0. IsFiniteSet(T)
      BY FS_Subset
    <3>1. PICK x \in T : TRUE
      BY <2>2
    <3>2. SumOver(f, T) = f[x] + SumOver(f, T \ {x})
      BY <3>0, SumRemove
    <3>3. SumOver(g, T) = g[x] + SumOver(g, T \ {x})
      BY <3>0, SumRemove
    <3>4. SumOver(f, T \ {x}) \in Int /\ SumOver(g, T \ {x}) \in Int
      BY <3>0, SumInt, FS_Subset
    <3>5. f[x] \in Int /\ g[x] \in Int /\ f[x] <= g[x]
      OBVIOUS
    <3>6. SumOver(f, T \ {x}) <= SumOver(g, T \ {x})
      BY <1>1
    <3> QED
      BY <3>2, <3>3, <3>4, <3>5, <3>6
  <2> QED
    BY <2>1, <2>2
<1> HIDE DEF P
<1>2. \A T \in SUBSET S : T \in P
  BY <1>1, SubsetInduction
<1>3. S \in P
  BY <1>2
<1> QED
  BY <1>3 DEF P

\* A sum of zeros is 0.
LEMMA SumZero ==
  ASSUME NEW f, NEW S, IsFiniteSet(S), \A x \in S : f[x] = 0
  PROVE  SumOver(f, S) = 0
<1> DEFINE P == {T \in SUBSET S : SumOver(f, T) = 0}
<1>1. ASSUME NEW T \in SUBSET S, \A x \in T : T \ {x} \in P
      PROVE  T \in P
  <2>1. CASE T = {}
    BY <2>1, SumEmpty
  <2>2. CASE T # {}
    <3>1. PICK x \in T : TRUE
      BY <2>2
    <3>2. SumOver(f, T) = f[x] + SumOver(f, T \ {x})
      BY FS_Subset, SumRemove
    <3> QED
      BY <1>1, <3>2
  <2> QED
    BY <2>1, <2>2
<1> HIDE DEF P
<1>2. \A T \in SUBSET S : T \in P
  BY <1>1, SubsetInduction
<1>3. S \in P
  BY <1>2
<1> QED
  BY <1>3 DEF P

\* A sum of naturals is one.
LEMMA SumNat ==
  ASSUME NEW f, NEW S, IsFiniteSet(S), \A x \in S : f[x] \in Nat
  PROVE  SumOver(f, S) \in Nat
<1> DEFINE z == [x \in S |-> 0]
<1>1. SumOver(z, S) = 0
  BY SumZero
<1>2. SumOver(z, S) <= SumOver(f, S)
  <2>1. \A x \in S : z[x] \in Int /\ f[x] \in Int /\ z[x] <= f[x]
    OBVIOUS
  <2> HIDE DEF z
  <2> QED
    BY <2>1, SumLess
<1>3. SumOver(f, S) \in Int
  BY SumInt
<1> QED
  BY <1>1, <1>2, <1>3

\* A sum over two disjoint sets.
LEMMA SumUnion ==
  ASSUME NEW f, NEW S, NEW U, IsFiniteSet(S), IsFiniteSet(U), S \cap U = {},
         \A x \in S \cup U : f[x] \in Int
  PROVE  SumOver(f, S \cup U) = SumOver(f, S) + SumOver(f, U)
<1> DEFINE P == {T \in SUBSET U : SumOver(f, S \cup T) = SumOver(f, S) + SumOver(f, T)}
<1>0. SumOver(f, S) \in Int
  BY SumInt
<1>1. ASSUME NEW T \in SUBSET U, \A x \in T : T \ {x} \in P
      PROVE  T \in P
  <2>1. CASE T = {}
    BY <1>0, <2>1, SumEmpty
  <2>2. CASE T # {}
    <3>0. IsFiniteSet(T) /\ IsFiniteSet(S \cup T)
      BY FS_Subset, FS_Union
    <3>1. PICK x \in T : TRUE
      BY <2>2
    <3>2. SumOver(f, T) = f[x] + SumOver(f, T \ {x})
      BY <3>0, SumRemove
    <3>3. SumOver(f, S \cup T) = f[x] + SumOver(f, (S \cup T) \ {x})
      BY <3>0, SumRemove
    <3>4. (S \cup T) \ {x} = S \cup (T \ {x})
      OBVIOUS
    <3>5. SumOver(f, T \ {x}) \in Int /\ f[x] \in Int
      BY <3>0, SumInt, FS_Subset
    <3>6. SumOver(f, S \cup (T \ {x})) = SumOver(f, S) + SumOver(f, T \ {x})
      BY <1>1
    <3>7. SumOver(f, S \cup T) = f[x] + (SumOver(f, S) + SumOver(f, T \ {x}))
      BY <3>3, <3>4, <3>6
    <3> QED
      BY <1>0, <3>2, <3>5, <3>7
  <2> QED
    BY <2>1, <2>2
<1> HIDE DEF P
<1>2. \A T \in SUBSET U : T \in P
  BY <1>1, SubsetInduction
<1>3. U \in P
  BY <1>2
<1> QED
  BY <1>3 DEF P

\* More terms, none of them negative, give no smaller a sum.
LEMMA SumSubset ==
  ASSUME NEW f, NEW S, NEW U \in SUBSET S, IsFiniteSet(S),
         \A x \in S : f[x] \in Int, \A x \in S \ U : f[x] >= 0
  PROVE  SumOver(f, U) <= SumOver(f, S)
<1>1. IsFiniteSet(U) /\ IsFiniteSet(S \ U)
  BY FS_Subset
<1>2. SumOver(f, U \cup (S \ U)) = SumOver(f, U) + SumOver(f, S \ U)
  BY <1>1, SumUnion
<1>3. SumOver(f, S) = SumOver(f, U) + SumOver(f, S \ U)
  <2>1. U \cup (S \ U) = S
    OBVIOUS
  <2> QED
    BY <1>2, <2>1
<1>4. SumOver(f, S \ U) \in Nat
  BY <1>1, SumNat
<1>5. SumOver(f, U) \in Int
  BY <1>1, SumInt
<1> QED
  BY <1>3, <1>4, <1>5

\* Terms that are zero may be left out.
LEMMA SumSupport ==
  ASSUME NEW f, NEW S, NEW U \in SUBSET S, IsFiniteSet(S),
         \A x \in S : f[x] \in Int, \A x \in S \ U : f[x] = 0
  PROVE  SumOver(f, U) = SumOver(f, S)
<1>1. IsFiniteSet(U) /\ IsFiniteSet(S \ U)
  BY FS_Subset
<1>2. SumOver(f, U \cup (S \ U)) = SumOver(f, U) + SumOver(f, S \ U)
  BY <1>1, SumUnion
<1>3. SumOver(f, S) = SumOver(f, U) + SumOver(f, S \ U)
  <2>1. U \cup (S \ U) = S
    OBVIOUS
  <2> QED
    BY <1>2, <2>1
<1>4. SumOver(f, S \ U) = 0
  BY <1>1, SumZero
<1>5. SumOver(f, U) \in Int
  BY <1>1, SumInt
<1> QED
  BY <1>3, <1>4, <1>5

\* The sum of sums.
LEMMA SumPlus ==
  ASSUME NEW f, NEW g, NEW h, NEW S, IsFiniteSet(S),
         \A x \in S : f[x] \in Int /\ g[x] \in Int /\ h[x] = f[x] + g[x]
  PROVE  SumOver(h, S) = SumOver(f, S) + SumOver(g, S)
<1> DEFINE P == {T \in SUBSET S : SumOver(h, T) = SumOver(f, T) + SumOver(g, T)}
<1>1. ASSUME NEW T \in SUBSET S, \A x \in T : T \ {x} \in P
      PROVE  T \in P
  <2>1. CASE T = {}
    BY <2>1, SumEmpty
  <2>2. CASE T # {}
    <3>0. IsFiniteSet(T)
      BY FS_Subset
    <3>1. PICK x \in T : TRUE
      BY <2>2
    <3>2. SumOver(f, T) = f[x] + SumOver(f, T \ {x})
      BY <3>0, SumRemove
    <3>3. SumOver(g, T) = g[x] + SumOver(g, T \ {x})
      BY <3>0, SumRemove
    <3>4. SumOver(h, T) = h[x] + SumOver(h, T \ {x})
      BY <3>0, SumRemove
    <3>5. /\ SumOver(f, T \ {x}) \in Int /\ SumOver(g, T \ {x}) \in Int
          /\ f[x] \in Int /\ g[x] \in Int /\ h[x] = f[x] + g[x]
      BY <3>0, SumInt, FS_Subset
    <3>6. SumOver(h, T \ {x}) = SumOver(f, T \ {x}) + SumOver(g, T \ {x})
      BY <1>1
    <3> QED
      BY <3>2, <3>3, <3>4, <3>5, <3>6
  <2> QED
    BY <2>1, <2>2
<1> HIDE DEF P
<1>2. \A T \in SUBSET S : T \in P
  BY <1>1, SubsetInduction
<1>3. S \in P
  BY <1>2
<1> QED
  BY <1>3 DEF P

\* One term changed.
LEMMA SumChange ==
  ASSUME NEW f, NEW g, NEW S, IsFiniteSet(S), NEW x \in S,
         \A y \in S : f[y] \in Int /\ g[y] \in Int,
         \A y \in S \ {x} : g[y] = f[y]
  PROVE  SumOver(g, S) = SumOver(f, S) - f[x] + g[x]
<1>1. SumOver(f, S) = f[x] + SumOver(f, S \ {x})
  BY SumRemove
<1>2. SumOver(g, S) = g[x] + SumOver(g, S \ {x})
  BY SumRemove
<1>3. SumOver(g, S \ {x}) = SumOver(f, S \ {x})
  BY SumEqual, FS_Subset
<1>4. SumOver(f, S \ {x}) \in Int
  BY SumInt, FS_Subset
<1> QED
  BY <1>1, <1>2, <1>3, <1>4

\* The larger of two integers is one of them and no less than either.
LEMMA MaxOf ==
  ASSUME NEW a \in Int, NEW b \in Int
  PROVE  /\ Max({a, b}) \in Int /\ Max({a, b}) >= a /\ Max({a, b}) >= b
         /\ Max({a, b}) = a \/ Max({a, b}) = b
<1>1. \E x \in {a, b} : \A y \in {a, b} : x >= y
  <2>1. CASE a >= b
    BY <2>1
  <2>2. CASE b >= a
    BY <2>2
  <2> QED
    BY <2>1, <2>2
<1>2. Max({a, b}) \in {a, b} /\ \A y \in {a, b} : Max({a, b}) >= y
  BY <1>1 DEF Max
<1> QED
  BY <1>2

\* The smaller of two integers is one of them and no more than either.
LEMMA MinOf ==
  ASSUME NEW a \in Int, NEW b \in Int
  PROVE  /\ Min({a, b}) \in Int /\ Min({a, b}) <= a /\ Min({a, b}) <= b
         /\ Min({a, b}) = a \/ Min({a, b}) = b
<1>1. \E x \in {a, b} : \A y \in {a, b} : x <= y
  <2>1. CASE a <= b
    BY <2>1
  <2>2. CASE b <= a
    BY <2>2
  <2> QED
    BY <2>1, <2>2
<1>2. Min({a, b}) \in {a, b} /\ \A y \in {a, b} : Min({a, b}) <= y
  BY <1>1 DEF Min
<1> QED
  BY <1>2

\* The minimum of a set of naturals is a member of it, and no member is less.
LEMMA MinOfNats ==
  ASSUME NEW T, T \subseteq Nat, T # {}
  PROVE  Min(T) \in T /\ \A m \in T : Min(T) <= m
<1>1. \E n \in T : \A m \in T : n <= m
  BY Least
<1> QED
  BY <1>1 DEF Min

\* The days of an instant: the Moscow day is not behind the UTC day, neither goes
\* back as time passes, and midnight of a day belongs to that day in Moscow.
LEMMA TimeFacts ==
  ASSUME NEW t \in Nat
  PROVE  /\ UtcDay(t) \in Nat /\ MoscowDay(t) \in Nat /\ UtcDay(t) <= MoscowDay(t)
         /\ MoscowDay(t) <= MoscowDay(t + 1)
         /\ Midnight(t) \in Nat /\ MoscowDay(Midnight(t)) = t
         /\ \A u \in Nat : u <= t => MoscowDay(u) <= MoscowDay(t)
BY DEF UtcDay, MoscowDay, Midnight, SlotsPerDay

\* A day lies in the month MonthOf gives it.
LEMMA MonthFacts ==
  ASSUME NEW d \in Nat
  PROVE  /\ MonthOf(d) \in Nat /\ MonthLen * MonthOf(d) \in Nat
         /\ MonthLen * MonthOf(d) <= d
         /\ d < MonthLen * MonthOf(d) + MonthLen
BY CalendarAssumption DEF MonthOf

\* A product of naturals is a natural.
LEMMA ProductFacts ==
  ASSUME NEW a \in Nat, NEW b \in Nat
  PROVE  a * b \in Nat
OBVIOUS

\* A product grows with its second factor.
LEMMA ProductMonotone ==
  ASSUME NEW a \in Nat, NEW b \in Nat, NEW c \in Nat, b <= c
  PROVE  a * b <= a * c
OBVIOUS

\* The first day of month k is in month k.
LEMMA MonthOfMultiple ==
  ASSUME NEW k \in Nat
  PROVE  MonthOf(MonthLen * k) = k
<1>1. MonthLen * k \in Nat /\ MonthLen \in Nat \ {0}
  BY ProductFacts, CalendarAssumption
<1>2. PICK m \in Nat : m = MonthOf(MonthLen * k)
  BY <1>1, MonthFacts
<1>3. MonthLen * m <= MonthLen * k /\ MonthLen * k < MonthLen * m + MonthLen
  BY <1>1, <1>2, MonthFacts
<1>4. CASE m < k
  <2>1. MonthLen * (m + 1) <= MonthLen * k
    BY <1>1, <1>4, ProductMonotone
  <2>2. MonthLen * (m + 1) = MonthLen * m + MonthLen
    BY <1>1
  <2> QED
    BY <1>1, <1>3, <2>1, <2>2, ProductFacts
<1>5. CASE k < m
  <2>1. MonthLen * (k + 1) <= MonthLen * m
    BY <1>1, <1>5, ProductMonotone
  <2>2. MonthLen * (k + 1) = MonthLen * k + MonthLen
    BY <1>1
  <2> QED
    BY <1>1, <1>3, <2>1, <2>2, ProductFacts
<1> QED
  BY <1>2, <1>4, <1>5

Months == MonthOf(EndDate) - MonthOf(StartDate) + 1
FirstOf(i) == MonthLen * (MonthOf(StartDate) + i - 1)

\* A contract has finitely many accruals, numbered from 1.
LEMMA MonthsFacts ==
  /\ Months \in Nat /\ AccrualIds = 1..Months /\ IsFiniteSet(AccrualIds)
  /\ AccrualIds \subseteq Nat
<1>0. StartDate \in Nat /\ EndDate \in Nat /\ StartDate <= EndDate /\ MonthLen \in Nat \ {0}
  BY CalendarAssumption
<1>1. MonthOf(StartDate) <= MonthOf(EndDate)
  BY <1>0 DEF MonthOf
<1>2. Months \in Nat
  <2>1. MonthOf(StartDate) \in Nat /\ MonthOf(EndDate) \in Nat
    BY <1>0, MonthFacts
  <2> QED
    BY <1>1, <2>1 DEF Months
<1>3. AccrualIds = 1..Months
  BY Zenon DEF AccrualIds, Periods, Months
<1>4. IsFiniteSet(1..Months)
  BY <1>2, FS_Interval
<1> QED
  BY <1>2, <1>3, <1>4

\* A period lies in its month, and in the contract.
LEMMA PeriodFacts ==
  ASSUME NEW i \in AccrualIds
  PROVE  /\ FirstOf(i) \in Nat /\ MonthOf(FirstOf(i)) = MonthOf(StartDate) + i - 1
         /\ Periods[i] = [start |-> Max({StartDate, FirstOf(i)}),
                          end   |-> Min({EndDate, FirstOf(i) + MonthLen - 1})]
         /\ Periods[i].start \in Nat /\ Periods[i].end \in Nat
         /\ Periods[i].start <= Periods[i].end
         /\ FirstOf(i) <= Periods[i].start /\ StartDate <= Periods[i].start
         /\ Periods[i].end < FirstOf(i) + MonthLen
         /\ i > 1 => Periods[i].start = FirstOf(i)
<1>0. /\ StartDate \in Nat /\ EndDate \in Nat /\ StartDate <= EndDate /\ MonthLen \in Nat \ {0}
      /\ i \in Nat /\ i >= 1 /\ i <= MonthOf(EndDate) - MonthOf(StartDate) + 1
  BY CalendarAssumption, MonthsFacts DEF Months
<1>1. MonthOf(StartDate) \in Nat /\ MonthOf(EndDate) \in Nat
  BY <1>0, MonthFacts
<1>2. PICK k \in Nat : k = MonthOf(StartDate) + i - 1
  BY <1>0, <1>1
<1>3. FirstOf(i) = MonthLen * k /\ FirstOf(i) \in Nat /\ MonthOf(FirstOf(i)) = k
  BY <1>0, <1>2, MonthOfMultiple, ProductFacts DEF FirstOf
<1>4. MonthEnd(FirstOf(i)) = FirstOf(i) + MonthLen - 1
  BY <1>3 DEF MonthEnd, MonthStart
<1>5. Periods[i] = [start |-> Max({StartDate, FirstOf(i)}),
                    end   |-> Min({EndDate, FirstOf(i) + MonthLen - 1})]
  <2>1. Periods[i] = LET first == MonthLen * (MonthOf(StartDate) + i - 1)
                     IN  [start |-> Max({StartDate, first}),
                          end   |-> Min({EndDate, MonthEnd(first)})]
    BY MonthsFacts, Zenon DEF Periods, Months
  <2> QED
    BY <1>4, <2>1 DEF FirstOf
<1>6. FirstOf(i) <= EndDate
  <2>1. MonthLen * k <= MonthLen * MonthOf(EndDate)
    BY <1>0, <1>1, <1>2, ProductMonotone
  <2> QED
    BY <1>0, <1>3, <2>1, MonthFacts
<1>7. StartDate < FirstOf(i) + MonthLen
  <2>1. MonthLen * MonthOf(StartDate) <= MonthLen * k
    BY <1>0, <1>1, <1>2, ProductMonotone
  <2>2. StartDate < MonthLen * MonthOf(StartDate) + MonthLen
    BY <1>0, MonthFacts
  <2> QED
    BY <1>0, <1>1, <1>3, <2>1, <2>2, ProductFacts
<1>8. i > 1 => StartDate < FirstOf(i)
  <2> SUFFICES ASSUME i > 1 PROVE StartDate < FirstOf(i)
    OBVIOUS
  <2>1. MonthLen * (MonthOf(StartDate) + 1) <= MonthLen * k
    BY <1>0, <1>1, <1>2, ProductMonotone
  <2>2. MonthLen * (MonthOf(StartDate) + 1) = MonthLen * MonthOf(StartDate) + MonthLen
    BY <1>0, <1>1
  <2>3. StartDate < MonthLen * MonthOf(StartDate) + MonthLen
    BY <1>0, MonthFacts
  <2> QED
    BY <1>0, <1>1, <1>3, <2>1, <2>2, <2>3, ProductFacts
<1>9. PICK first \in Nat, last \in Nat : first = FirstOf(i) /\ last = FirstOf(i) + MonthLen - 1
  BY <1>0, <1>3
<1>10. /\ Max({StartDate, first}) \in Int
       /\ Max({StartDate, first}) >= StartDate /\ Max({StartDate, first}) >= first
       /\ Max({StartDate, first}) = StartDate \/ Max({StartDate, first}) = first
  <2>1. StartDate \in Int /\ first \in Int
    BY <1>0
  <2> QED
    BY <2>1, MaxOf, Zenon
<1>11. PICK start \in Int : /\ start = Max({StartDate, first})
                            /\ start >= StartDate /\ start >= first
                            /\ start = StartDate \/ start = first
  BY <1>10
<1>12. /\ Min({EndDate, last}) \in Int /\ Min({EndDate, last}) <= EndDate
       /\ Min({EndDate, last}) <= last
       /\ Min({EndDate, last}) = EndDate \/ Min({EndDate, last}) = last
  BY <1>0, MinOf
<1>13. PICK end \in Int : /\ end = Min({EndDate, last}) /\ end <= EndDate /\ end <= last
                          /\ end = EndDate \/ end = last
  BY <1>12
<1>14. Periods[i].start = start /\ Periods[i].end = end
  BY <1>5, <1>9, <1>11, <1>13
<1>15. first <= EndDate /\ StartDate < first + MonthLen /\ (i > 1 => StartDate < first)
  BY <1>6, <1>7, <1>8, <1>9
<1>16. /\ start \in Nat /\ end \in Nat /\ start <= end /\ first <= start /\ StartDate <= start
       /\ end < first + MonthLen /\ (i > 1 => start = first)
  BY <1>0, <1>9, <1>11, <1>13, <1>15
<1> QED
  BY <1>2, <1>3, <1>5, <1>9, <1>14, <1>16

\* The charge of a period is a natural number of kopecks.
LEMMA AmountNat ==
  ASSUME NEW days \in Nat, NEW full \in BOOLEAN
  PROVE  AmountFor(days, full) \in Nat
<1>1. DailyRate * days \in Nat /\ MonthlyAmount \in Nat
  BY RateAssumption, ProductFacts
<1>2. Min({DailyRate * days, MonthlyAmount}) \in Nat
  <2>1. PICK n \in Nat : n = DailyRate * days
    BY <1>1
  <2>2. Min({n, MonthlyAmount}) \in {n, MonthlyAmount}
    BY <1>1, MinOf
  <2> QED
    BY <1>1, <2>1, <2>2
<1> QED
  BY <1>1, <1>2 DEF AmountFor

\* What the rows of the table accruals look like.
LEMMA AccrualFacts ==
  ASSUME NEW i \in AccrualIds
  PROVE  /\ Accrual[i].start \in Nat /\ Accrual[i].end \in Nat /\ Accrual[i].charge \in Nat
         /\ Accrual[i].start <= Accrual[i].end
         /\ Accrual[i].penaltyFrom \in Nat
         /\ StartDate <= Accrual[i].start
         /\ Accrual[i].daily \in BOOLEAN /\ Accrual[i].exempt \in BOOLEAN
<1> DEFINE p == Periods[i]
<1>1. /\ p.start \in Nat /\ p.end \in Nat /\ p.start <= p.end /\ StartDate <= p.start
  BY PeriodFacts
<1>2. Accrual[i] =
        [start       |-> p.start,
         end         |-> p.end,
         charge      |-> AmountFor(Days(p), IsFullMonth(p)),
         daily       |-> DailyOnly \/ ~IsFullMonth(p),
         exempt      |-> MatCapital.from <= p.start /\ p.start <= MatCapital.to,
         penaltyFrom |-> MonthLen * (MonthOf(p.start) + 1) + PenaltyDay - 1]
  BY Zenon DEF Accrual, AccrualIds
<1> HIDE DEF p
<1>3. Days(p) \in Nat
  BY <1>1 DEF Days
<1>4. AmountFor(Days(p), IsFullMonth(p)) \in Nat
  BY <1>3, AmountNat DEF IsFullMonth
<1>5. MonthLen * (MonthOf(p.start) + 1) + PenaltyDay - 1 \in Nat
  <2>1. MonthOf(p.start) + 1 \in Nat
    BY <1>1, MonthFacts
  <2>2. MonthLen * (MonthOf(p.start) + 1) \in Nat
    BY <2>1, ProductFacts, CalendarAssumption
  <2> QED
    BY <2>2, CalendarAssumption
<1> QED
  BY <1>1, <1>2, <1>4, <1>5

\* The accruals are numbered by time.
LEMMA AccrualsInOrder ==
  ASSUME NEW i \in AccrualIds, NEW j \in AccrualIds, i < j
  PROVE  Accrual[i].start < Accrual[j].start
<1>0. i \in Nat /\ j \in Nat /\ i >= 1 /\ MonthLen \in Nat \ {0} /\ MonthOf(StartDate) \in Nat
  <2>1. i \in Nat /\ j \in Nat /\ i >= 1
    BY MonthsFacts
  <2>2. MonthOf(StartDate) \in Nat
    BY MonthFacts, CalendarAssumption
  <2> QED
    BY <2>1, <2>2, CalendarAssumption
<1>1. Accrual[i].start = Periods[i].start /\ Accrual[j].start = Periods[j].start
  <2>1. /\ Accrual[i] = LET p == Periods[i] IN
              [start       |-> p.start,
               end         |-> p.end,
               charge      |-> AmountFor(Days(p), IsFullMonth(p)),
               daily       |-> DailyOnly \/ ~IsFullMonth(p),
               exempt      |-> MatCapital.from <= p.start /\ p.start <= MatCapital.to,
               penaltyFrom |-> MonthLen * (MonthOf(p.start) + 1) + PenaltyDay - 1]
        /\ Accrual[j] = LET p == Periods[j] IN
              [start       |-> p.start,
               end         |-> p.end,
               charge      |-> AmountFor(Days(p), IsFullMonth(p)),
               daily       |-> DailyOnly \/ ~IsFullMonth(p),
               exempt      |-> MatCapital.from <= p.start /\ p.start <= MatCapital.to,
               penaltyFrom |-> MonthLen * (MonthOf(p.start) + 1) + PenaltyDay - 1]
    BY Zenon DEF Accrual, AccrualIds
  <2> QED
    BY <2>1
<1>2. Periods[j].start = FirstOf(j)
  <2>1. j > 1
    BY <1>0
  <2> QED
    BY <2>1, PeriodFacts
<1>3. /\ Periods[i].start <= Periods[i].end /\ Periods[i].end < FirstOf(i) + MonthLen
      /\ Periods[i].start \in Nat /\ Periods[i].end \in Nat
      /\ FirstOf(i) \in Nat /\ FirstOf(j) \in Nat
  BY PeriodFacts
<1>4. FirstOf(i) + MonthLen <= FirstOf(j)
  <2>1. PICK a \in Nat, b \in Nat : /\ a = MonthOf(StartDate) + i - 1
                                    /\ b = MonthOf(StartDate) + j - 1
    BY <1>0
  <2>2. MonthLen * (a + 1) <= MonthLen * b
    BY <1>0, <2>1, ProductMonotone
  <2>3. MonthLen * (a + 1) = MonthLen * a + MonthLen
    BY <1>0
  <2> QED
    BY <2>1, <2>2, <2>3 DEF FirstOf
<1> QED
  BY <1>0, <1>1, <1>2, <1>3, <1>4

\* A nonempty finite set of naturals has a largest element.
LEMMA LargestOf ==
  ASSUME NEW S, S \subseteq Nat, IsFiniteSet(S)
  PROVE  \A T \in SUBSET S : T # {} => \E x \in T : \A y \in T : y <= x
<1> DEFINE P == {T \in SUBSET S : T # {} => \E x \in T : \A y \in T : y <= x}
<1>1. ASSUME NEW T \in SUBSET S, \A x \in T : T \ {x} \in P
      PROVE  T \in P
  <2> SUFFICES ASSUME T # {} PROVE \E x \in T : \A y \in T : y <= x
    OBVIOUS
  <2>1. PICK x \in T : TRUE
    OBVIOUS
  <2>2. CASE T \ {x} = {}
    BY <2>2
  <2>3. CASE T \ {x} # {}
    <3>1. PICK z \in T \ {x} : \A y \in T \ {x} : y <= z
      BY <1>1, <2>3
    <3>2. x \in Nat /\ z \in Nat
      OBVIOUS
    <3>3. CASE x <= z
      BY <3>1, <3>3
    <3>4. CASE z <= x
      <4>1. ASSUME NEW y \in T PROVE y <= x
        <5>1. y \in Nat
          OBVIOUS
        <5>2. CASE y = x
          BY <3>2, <5>2
        <5>3. CASE y # x
          BY <3>1, <3>2, <3>4, <5>1, <5>3
        <5> QED
          BY <5>2, <5>3
      <4> QED
        BY <4>1
    <3> QED
      BY <3>2, <3>3, <3>4
  <2> QED
    BY <2>2, <2>3
<1> HIDE DEF P
<1>2. \A T \in SUBSET S : T \in P
  BY <1>1, SubsetInduction
<1> QED
  BY <1>2 DEF P

\* What is left of a sum after the rooms of S have been filled: nothing when the
\* rooms take it all, the difference otherwise, and never more than the sum.
LEMMA LeftFacts ==
  ASSUME NEW room, NEW S, IsFiniteSet(S), \A i \in S : room[i] \in Nat, NEW money \in Int
  PROVE  /\ SumOver(room, S) \in Nat
         /\ Left(room, S, money) \in Nat
         /\ Left(room, S, money) >= money - SumOver(room, S)
         /\ Left(room, S, money) = money - SumOver(room, S) \/ Left(room, S, money) = 0
         /\ money <= 0 => Left(room, S, money) = 0
         /\ money >= 0 => Left(room, S, money) <= money
<1>1. SumOver(room, S) \in Nat
  BY SumNat
<1>2. PICK m \in Int : m = money - SumOver(room, S)
  BY <1>1
<1>3. Left(room, S, money) = Max({m, 0})
  BY <1>2 DEF Left
<1>4. Max({m, 0}) \in Int /\ Max({m, 0}) >= m /\ Max({m, 0}) >= 0 /\ (Max({m, 0}) = m \/ Max({m, 0}) = 0)
  <2>1. 0 \in Int
    OBVIOUS
  <2> QED
    BY <2>1, MaxOf, Zenon
<1> QED
  BY <1>1, <1>2, <1>3, <1>4

Earlier(S, i) == {j \in S : j < i}

\* Each accrual gets no more than its room.
LEMMA PourType ==
  ASSUME NEW room, NEW S, IsFiniteSet(S), S \subseteq Nat, \A i \in S : room[i] \in Nat, NEW money \in Int
  PROVE  \A i \in S :
           /\ Left(room, Earlier(S, i), money) \in Nat
           /\ Pour(room, S, money)[i] \in Nat
           /\ Pour(room, S, money)[i] <= room[i]
           /\ Pour(room, S, money)[i] <= Left(room, Earlier(S, i), money)
           /\ \/ Pour(room, S, money)[i] = room[i]
              \/ Pour(room, S, money)[i] = Left(room, Earlier(S, i), money)
<1> TAKE i \in S
<1> DEFINE before == Earlier(S, i)
<1>1. IsFiniteSet(before) /\ \A j \in before : room[j] \in Nat
  BY FS_Subset DEF Earlier
<1> HIDE DEF before
<1>2. Left(room, before, money) \in Nat
  BY <1>1, LeftFacts
<1>3. PICK l \in Nat : l = Left(room, before, money)
  BY <1>2
<1>4. PICK r \in Nat : r = room[i]
  OBVIOUS
<1>5. Pour(room, S, money)[i] = Min({r, l})
  BY <1>3, <1>4 DEF Pour, before, Earlier
<1>6. r \in Int /\ l \in Int
  OBVIOUS
<1>7. Min({r, l}) \in Int /\ Min({r, l}) <= r /\ Min({r, l}) <= l /\ (Min({r, l}) = r \/ Min({r, l}) = l)
  BY <1>6, MinOf, Zenon
<1>8. Min({r, l}) \in Nat
  BY <1>7
<1> QED
  BY <1>2, <1>3, <1>4, <1>5, <1>7, <1>8 DEF before

\* Nothing is lost: what is poured and what is left make up the money.
LEMMA PourSum ==
  ASSUME NEW room, NEW S, IsFiniteSet(S), S \subseteq Nat, \A i \in S : room[i] \in Nat, NEW money \in Nat
  PROVE  SumOver(Pour(room, S, money), S) + Left(room, S, money) = money
<1>0. money \in Int
  OBVIOUS
<1> DEFINE P == {T \in SUBSET S : SumOver(Pour(room, T, money), T) + Left(room, T, money) = money}
<1>1. ASSUME NEW T \in SUBSET S, \A x \in T : T \ {x} \in P
      PROVE  T \in P
  <2>0. IsFiniteSet(T) /\ T \subseteq Nat /\ \A i \in T : room[i] \in Nat
    BY FS_Subset
  <2>1. CASE T = {}
    <3>1. SumOver(Pour(room, {}, money), {}) = 0 /\ SumOver(room, {}) = 0
      BY SumEmpty
    <3>2. \A i \in {} : room[i] \in Nat
      OBVIOUS
    <3>3. Left(room, {}, money) = money
      <4>1. /\ Left(room, {}, money) \in Nat
            /\ Left(room, {}, money) >= money - SumOver(room, {})
            /\ Left(room, {}, money) = money - SumOver(room, {}) \/ Left(room, {}, money) = 0
        BY <1>0, <3>2, FS_EmptySet, LeftFacts, Zenon
      <4> QED
        BY <3>1, <4>1
    <3> QED
      BY <2>1, <3>1, <3>3
  <2>2. CASE T # {}
    <3>1. PICK x \in T : \A y \in T : y <= x
      BY <2>2, LargestOf
    <3>2. PICK R : R = T \ {x}
      OBVIOUS
    <3>3. IsFiniteSet(R) /\ R \subseteq Nat /\ x \notin R /\ R \cup {x} = T /\ \A i \in R : room[i] \in Nat
      BY <2>0, <3>2, FS_Subset
    <3>4. {j \in T : j < x} = R
      <4>1. ASSUME NEW j \in R PROVE j < x
        <5>1. j \in T /\ j # x /\ j \in Nat /\ x \in Nat /\ j <= x
          BY <2>0, <3>1, <3>2
        <5> QED
          BY <5>1
      <4>2. \A j \in T : j < x => j \in R
        BY <2>0, <3>2
      <4> QED
        BY <3>3, <4>1, <4>2
    <3>5. \A i \in R : {j \in T : j < i} = {j \in R : j < i}
      BY <2>0, <3>1, <3>2
    <3>6. \A i \in R : Pour(room, T, money)[i] = Pour(room, R, money)[i]
      BY <3>2, <3>5 DEF Pour
    <3>7. /\ \A i \in T : Pour(room, T, money)[i] \in Int
          /\ \A i \in R : Pour(room, R, money)[i] \in Int
      <4>1. \A i \in T : Pour(room, T, money)[i] \in Nat
        BY <1>0, <2>0, PourType, Zenon
      <4>2. \A i \in R : Pour(room, R, money)[i] \in Nat
        BY <1>0, <3>3, PourType, Zenon
      <4> QED
        BY <4>1, <4>2
    <3>8. SumOver(Pour(room, T, money), T) = Pour(room, T, money)[x] + SumOver(Pour(room, T, money), R)
      <4>1. \A y \in T : SumOver(Pour(room, T, money), T)
                           = Pour(room, T, money)[y] + SumOver(Pour(room, T, money), T \ {y})
        BY <2>0, <3>7, SumRemove
      <4> QED
        BY <3>2, <4>1
    <3>9. SumOver(Pour(room, T, money), R) = SumOver(Pour(room, R, money), R)
      BY <3>3, <3>6, <3>7, SumEqual
    <3>10. SumOver(room, T) = room[x] + SumOver(room, R)
      <4>1. \A i \in T : room[i] \in Int
        BY <2>0
      <4>2. SumOver(room, T) = room[x] + SumOver(room, R)
        <5>1. \A y \in T : SumOver(room, T) = room[y] + SumOver(room, T \ {y})
          BY <2>0, <4>1, SumRemove
        <5> QED
          BY <3>2, <5>1
      <4> QED
        BY <4>2
    <3>11. SumOver(Pour(room, R, money), R) + Left(room, R, money) = money
      BY <1>1, <3>2
    <3>12. /\ Pour(room, T, money)[x] \in Nat
           /\ Pour(room, T, money)[x] <= room[x] /\ Pour(room, T, money)[x] <= Left(room, R, money)
           /\ \/ Pour(room, T, money)[x] = room[x]
              \/ Pour(room, T, money)[x] = Left(room, R, money)
      <4>1. \A y \in T :
              /\ Pour(room, T, money)[y] \in Nat
              /\ Pour(room, T, money)[y] <= room[y]
              /\ Pour(room, T, money)[y] <= Left(room, Earlier(T, y), money)
              /\ \/ Pour(room, T, money)[y] = room[y]
                 \/ Pour(room, T, money)[y] = Left(room, Earlier(T, y), money)
        BY <1>0, <2>0, PourType
      <4> QED
        BY <3>4, <4>1 DEF Earlier
    <3>13. /\ Left(room, R, money) \in Nat /\ SumOver(room, R) \in Nat
           /\ Left(room, R, money) >= money - SumOver(room, R)
           /\ Left(room, R, money) = money - SumOver(room, R) \/ Left(room, R, money) = 0
      BY <1>0, <3>3, LeftFacts, Zenon
    <3>14. /\ Left(room, T, money) \in Nat
           /\ Left(room, T, money) >= money - SumOver(room, T)
           /\ Left(room, T, money) = money - SumOver(room, T) \/ Left(room, T, money) = 0
      BY <1>0, <2>0, LeftFacts, Zenon
    <3>15. SumOver(Pour(room, R, money), R) \in Int /\ room[x] \in Nat
      BY <2>0, <3>3, <3>7, SumInt
    <3>16. Pour(room, T, money)[x] + Left(room, T, money) = Left(room, R, money)
      BY <3>10, <3>12, <3>13, <3>14, <3>15
    <3>17. SumOver(Pour(room, T, money), T) + Left(room, T, money) = money
      BY <3>8, <3>9, <3>11, <3>12, <3>13, <3>14, <3>15, <3>16
    <3> QED
      BY <3>17
  <2> QED
    BY <2>1, <2>2
<1> HIDE DEF P
<1>2. \A T \in SUBSET S : T \in P
  BY <1>1, SubsetInduction
<1>3. S \in P
  BY <1>2
<1> QED
  BY <1>3 DEF P

\* The money reaches an accrual only when those before it are full.
LEMMA PourInOrder ==
  ASSUME NEW room, NEW S, IsFiniteSet(S), S \subseteq Nat, \A i \in S : room[i] \in Nat, NEW money \in Int
  PROVE  /\ \A i, j \in S : i < j /\ Pour(room, S, money)[j] > 0 => Pour(room, S, money)[i] = room[i]
         /\ Left(room, S, money) > 0 => \A i \in S : Pour(room, S, money)[i] = room[i]
<1>1. ASSUME NEW U \in SUBSET S, Left(room, U, money) > 0, NEW i \in U, {k \in S : k < i} \subseteq U
      PROVE  Pour(room, S, money)[i] = room[i]
  <2> DEFINE before == {k \in S : k < i}
             upto == before \cup {i}
  <2>1. IsFiniteSet(before) /\ IsFiniteSet(upto) /\ upto \in SUBSET U /\ i \notin before /\ IsFiniteSet(U)
    <3>1. before \in SUBSET S /\ upto \in SUBSET U /\ upto \in SUBSET S /\ i \in Nat
      BY <1>1
    <3>2. i \notin before
      BY <3>1
    <3> HIDE DEF before, upto
    <3> QED
      BY <3>1, <3>2, FS_Subset
  <2> HIDE DEF before
  <2>2. SumOver(room, upto) = SumOver(room, before) + room[i]
    <3>1. \A k \in before \cup {i} : room[k] \in Int
      BY DEF before
    <3> QED
      BY <2>1, <3>1, SumAdd
  <2>3. SumOver(room, upto) <= SumOver(room, U)
    <3>1. \A k \in U : room[k] \in Int /\ room[k] >= 0
      OBVIOUS
    <3> HIDE DEF upto
    <3> QED
      BY <2>1, <3>1, SumSubset
  <2>4. /\ Left(room, U, money) = money - SumOver(room, U) /\ SumOver(room, U) \in Nat
    <3>1. \A k \in U : room[k] \in Nat
      OBVIOUS
    <3>2. /\ SumOver(room, U) \in Nat
          /\ Left(room, U, money) = money - SumOver(room, U) \/ Left(room, U, money) = 0
      BY <2>1, <3>1, LeftFacts, Zenon
    <3> QED
      BY <1>1, <3>2
  <2>5. /\ Left(room, before, money) >= money - SumOver(room, before)
        /\ Left(room, before, money) \in Nat /\ SumOver(room, before) \in Nat
    <3>1. \A k \in before : room[k] \in Nat
      BY DEF before
    <3> QED
      BY <2>1, <3>1, LeftFacts
  <2>6. /\ Pour(room, S, money)[i] <= room[i]
        /\ \/ Pour(room, S, money)[i] = room[i]
           \/ Pour(room, S, money)[i] = Left(room, before, money)
        /\ Pour(room, S, money)[i] \in Nat
    <3>1. \A y \in S :
              /\ Pour(room, S, money)[y] \in Nat
              /\ Pour(room, S, money)[y] <= room[y]
              /\ \/ Pour(room, S, money)[y] = room[y]
                 \/ Pour(room, S, money)[y] = Left(room, Earlier(S, y), money)
      BY PourType
    <3> QED
      BY <3>1 DEF before, Earlier
  <2>7. room[i] \in Nat
    BY <1>1
  <2> HIDE DEF upto
  <2>8. money - SumOver(room, before) >= room[i]
    BY <1>1, <2>2, <2>3, <2>4, <2>5, <2>7
  <2> QED
    BY <2>5, <2>6, <2>7, <2>8
<1>2. ASSUME NEW i \in S, NEW j \in S, i < j, Pour(room, S, money)[j] > 0
      PROVE  Pour(room, S, money)[i] = room[i]
  <2> DEFINE U == {k \in S : k < j}
  <2>1. U \in SUBSET S /\ i \in U /\ {k \in S : k < i} \subseteq U
    <3>1. ASSUME NEW k \in S, k < i PROVE k < j
      <4>1. k \in Nat /\ i \in Nat /\ j \in Nat
        OBVIOUS
      <4> QED
        BY <1>2, <3>1, <4>1
    <3> QED
      BY <1>2, <3>1
  <2>2. Left(room, U, money) > 0
    <3>1. /\ Left(room, U, money) \in Nat /\ Pour(room, S, money)[j] \in Nat
          /\ Pour(room, S, money)[j] <= Left(room, U, money)
      <4>1. \A y \in S : /\ Left(room, Earlier(S, y), money) \in Nat /\ Pour(room, S, money)[y] \in Nat
                         /\ Pour(room, S, money)[y] <= Left(room, Earlier(S, y), money)
        BY PourType
      <4> QED
        BY <4>1 DEF Earlier
    <3>2. Pour(room, S, money)[j] > 0
      BY <1>2
    <3> HIDE DEF U
    <3> QED
      BY <3>1, <3>2
  <2> HIDE DEF U
  <2> QED
    BY <1>1, <2>1, <2>2
<1>3. ASSUME Left(room, S, money) > 0, NEW i \in S
      PROVE  Pour(room, S, money)[i] = room[i]
  BY <1>1, <1>3
<1> QED
  BY <1>2, <1>3

\* What the arithmetic relies on in the rows of a contract.
PaymentFits(x) ==
    /\ x.amount \in Nat /\ x.at \in Nat /\ x.penalty \in Nat /\ x.reversed \in BOOLEAN
    /\ x.alloc \in [AccrualIds -> Nat]
    /\ x.reversed => x.alloc = NoAllocation

Fits(c) ==
    /\ IsFiniteSet(DOMAIN c.payments)
    /\ \A p \in DOMAIN c.payments : PaymentFits(c.payments[p])
    /\ \A i \in AccrualIds : Total(c, i) \in Nat /\ c.voided[i] \in BOOLEAN

Within(c) ==
    \A i \in AccrualIds : Allocated(c, i) <= IF c.voided[i] THEN 0 ELSE Total(c, i)

\* The shares of an accrual in the payments are naturals.
LEMMA AllocToType ==
  ASSUME NEW c, Fits(c), NEW i \in AccrualIds
  PROVE  \A p \in DOMAIN c.payments : AllocTo(c, i)[p] \in Nat
BY DEF Fits, PaymentFits, AllocTo

\* What is allocated to an accrual is a natural.
LEMMA AllocatedNat ==
  ASSUME NEW c, Fits(c), NEW i \in AccrualIds
  PROVE  Allocated(c, i) \in Nat
<1>1. \A p \in DOMAIN c.payments : AllocTo(c, i)[p] \in Nat
  BY AllocToType
<1>2. IsFiniteSet(DOMAIN c.payments)
  BY DEF Fits
<1> QED
  BY <1>1, <1>2, SumNat DEF Allocated

\* The room of an accrual is a natural: what its total leaves unpaid, or 0.
LEMMA RoomNat ==
  ASSUME NEW c, Fits(c)
  PROVE  \A i \in AccrualIds :
           /\ RoomOf(c)[i] = Room(c, i) /\ Room(c, i) \in Nat
           /\ Room(c, i) >= Total(c, i) - Allocated(c, i)
           /\ Room(c, i) = Total(c, i) - Allocated(c, i) \/ Room(c, i) = 0
<1> TAKE i \in AccrualIds
<1>1. PICK m \in Int : m = Total(c, i) - Allocated(c, i)
  BY AllocatedNat DEF Fits
<1>2. Room(c, i) = Max({m, 0})
  BY <1>1 DEF Room
<1>3. Max({m, 0}) \in Int /\ Max({m, 0}) >= m /\ Max({m, 0}) >= 0 /\ (Max({m, 0}) = m \/ Max({m, 0}) = 0)
  <2>1. 0 \in Int
    OBVIOUS
  <2> QED
    BY <2>1, MaxOf, Zenon
<1> QED
  BY <1>1, <1>2, <1>3 DEF RoomOf

\* A merge keeps the values of its first function and adds those of the second.
LEMMA MergeFacts ==
  ASSUME NEW f, NEW g
  PROVE  /\ DOMAIN Merged(f, g) = DOMAIN f \cup DOMAIN g
         /\ \A x \in DOMAIN f \cup DOMAIN g : Merged(f, g)[x] = IF x \in DOMAIN f THEN f[x] ELSE g[x]
BY DEF Merged

LaterOn(c, day) == Live(c) \ DueOn(c, day)
DueLeft(c, day, money) == Left(RoomOf(c), DueOn(c, day), money)
PenaltyShare(c, day, money, owed) == Min({DueLeft(c, day, money), Max({owed, 0})})
LaterMoney(c, day, money, owed) == DueLeft(c, day, money) - PenaltyShare(c, day, money, owed)

\* The plan, taken apart.
LEMMA PlanParts ==
  ASSUME NEW c, NEW day, NEW money, NEW owed
  PROVE  /\ FifoPlan(c, day, money, owed).penalty = PenaltyShare(c, day, money, owed)
         /\ FifoPlan(c, day, money, owed).credit
              = Left(RoomOf(c), LaterOn(c, day), LaterMoney(c, day, money, owed))
         /\ FifoPlan(c, day, money, owed).alloc = [i \in AccrualIds |->
               IF i \in DueOn(c, day) THEN Pour(RoomOf(c), DueOn(c, day), money)[i]
               ELSE IF i \in LaterOn(c, day)
               THEN Pour(RoomOf(c), LaterOn(c, day), LaterMoney(c, day, money, owed))[i] ELSE 0]
<1> DEFINE room  == RoomOf(c)
           due   == DueOn(c, day)
           later == LaterOn(c, day)
           pen   == PenaltyShare(c, day, money, owed)
           rest  == LaterMoney(c, day, money, owed)
           first == Pour(room, due, money)
           next  == Pour(room, later, rest)
           plan  == FifoPlan(c, day, money, owed)
<1>1. plan = PlanOf(Merged(first, next), pen, Left(room, later, rest))
  BY DEF FifoPlan, PlanDue, PlanLater, LaterMoney, PenaltyShare, DueLeft, LaterOn
<1>2. DOMAIN first = due /\ DOMAIN next = later
  BY DEF Pour
<1> HIDE DEF room, due, later, pen, rest, first, next, plan
<1>3. /\ DOMAIN Merged(first, next) = due \cup later
      /\ \A i \in due \cup later : Merged(first, next)[i] = IF i \in due THEN first[i] ELSE next[i]
  <2>1. /\ DOMAIN Merged(first, next) = DOMAIN first \cup DOMAIN next
        /\ \A i \in DOMAIN first \cup DOMAIN next :
              Merged(first, next)[i] = IF i \in DOMAIN first THEN first[i] ELSE next[i]
    BY DEF Merged
  <2> QED
    BY <1>2, <2>1
<1>4. PICK rows : rows = Merged(first, next)
  OBVIOUS
<1>5. plan = [alloc   |-> [i \in AccrualIds |-> IF i \in DOMAIN rows THEN rows[i] ELSE 0],
              penalty |-> pen, credit |-> Left(room, later, rest)]
  BY <1>1, <1>4 DEF PlanOf
<1>6. [i \in AccrualIds |-> IF i \in DOMAIN rows THEN rows[i] ELSE 0] = [i \in AccrualIds |->
                   IF i \in due THEN first[i] ELSE IF i \in later THEN next[i] ELSE 0]
  BY <1>3, <1>4
<1>7. /\ plan.penalty = pen
      /\ plan.credit = Left(room, later, rest)
      /\ plan.alloc = [i \in AccrualIds |->
            IF i \in due THEN first[i] ELSE IF i \in later THEN next[i] ELSE 0]
  BY <1>5, <1>6
<1> QED
  BY <1>7 DEF plan, pen, rest, later, due, room, first, next

\* What a plan does with the money: no accrual gets more than it has room for, the
\* penalty no more than is owed, nothing is lost, and the oldest charge comes first.
LEMMA PlanFacts ==
  ASSUME NEW c, Fits(c), NEW day \in Nat, NEW money \in Int, NEW owed \in Int
  PROVE  LET plan == FifoPlan(c, day, money, owed)
         IN  /\ plan.alloc \in [AccrualIds -> Nat]
             /\ \A i \in AccrualIds : plan.alloc[i] <= Room(c, i)
             /\ \A i \in AccrualIds \ Live(c) : plan.alloc[i] = 0
             /\ plan.penalty \in Nat /\ plan.credit \in Nat
             /\ plan.penalty = 0 \/ plan.penalty <= owed
             /\ money >= 0 =>
                  SumOver(plan.alloc, AccrualIds) + plan.penalty + plan.credit = money
             /\ \A i, j \in Live(c) : i < j /\ plan.alloc[j] > 0 => plan.alloc[i] = Room(c, i)
             /\ plan.credit > 0 => \A i \in Live(c) : plan.alloc[i] = Room(c, i)
<1> DEFINE room  == RoomOf(c)
           due   == DueOn(c, day)
           later == LaterOn(c, day)
           left  == DueLeft(c, day, money)
           pen   == PenaltyShare(c, day, money, owed)
           rest  == LaterMoney(c, day, money, owed)
           plan  == FifoPlan(c, day, money, owed)
<1>1. /\ plan.penalty = pen
      /\ plan.credit = Left(room, later, rest)
      /\ plan.alloc = [i \in AccrualIds |->
            IF i \in due THEN Pour(room, due, money)[i]
            ELSE IF i \in later THEN Pour(room, later, rest)[i] ELSE 0]
  BY PlanParts
<1>2. /\ due \subseteq AccrualIds /\ later \subseteq AccrualIds /\ due \cap later = {}
      /\ due \cup later = Live(c) /\ Live(c) \subseteq AccrualIds
  BY DEF DueOn, LaterOn, Live
<1>3. \A i \in due, j \in Live(c) : j \in later => i < j
  <2> SUFFICES ASSUME NEW i \in due, NEW j \in later PROVE i < j
    OBVIOUS
  <2>1. i \in AccrualIds /\ j \in AccrualIds /\ Accrual[i].start <= day /\ ~(Accrual[j].start <= day)
    BY DEF DueOn, LaterOn, Live
  <2>2. i \in Nat /\ j \in Nat /\ Accrual[i].start \in Nat /\ Accrual[j].start \in Nat
    BY <2>1, MonthsFacts, AccrualFacts
  <2>3. ~(j < i) /\ j # i
    BY <2>1, <2>2, AccrualsInOrder
  <2> QED
    BY <2>2, <2>3
<1>4. /\ IsFiniteSet(due) /\ IsFiniteSet(later)
      /\ due \subseteq Nat /\ later \subseteq Nat
      /\ IsFiniteSet(AccrualIds) /\ AccrualIds \subseteq Nat
  BY <1>2, MonthsFacts, FS_Subset
<1> HIDE DEF due, later
<1>5. /\ \A i \in AccrualIds : room[i] = Room(c, i) /\ room[i] \in Nat
      /\ \A i \in due : room[i] \in Nat
      /\ \A i \in later : room[i] \in Nat
  BY <1>2, RoomNat
<1>6. left \in Nat
  BY <1>4, <1>5, LeftFacts DEF DueLeft, due, room
<1> HIDE DEF room, plan, left
<1>7. pen \in Nat /\ pen <= left /\ (pen = 0 \/ pen <= owed)
  <2>1. 0 \in Int /\ left \in Int
    BY <1>6
  <2>2. /\ Max({owed, 0}) \in Int /\ Max({owed, 0}) >= 0
        /\ Max({owed, 0}) = owed \/ Max({owed, 0}) = 0
    BY <2>1, MaxOf, Zenon
  <2>3. PICK m \in Int : m = Max({owed, 0})
    BY <2>2
  <2>4. Min({left, m}) \in Int /\ Min({left, m}) <= left /\ Min({left, m}) <= m
        /\ (Min({left, m}) = left \/ Min({left, m}) = m)
    BY <2>1, MinOf, Zenon
  <2>5. pen = Min({left, m})
    BY <2>3 DEF pen, PenaltyShare, left
  <2> HIDE DEF pen
  <2> QED
    BY <1>6, <2>2, <2>3, <2>4, <2>5
<1>0. rest = left - pen
  BY DEF rest, left, pen, LaterMoney
<1> HIDE DEF rest, pen
<1>8. rest \in Nat /\ rest \in Int
  BY <1>0, <1>6, <1>7
<1>9. \A i \in due : Pour(room, due, money)[i] \in Nat /\ Pour(room, due, money)[i] <= room[i]
  BY <1>4, <1>5, PourType
<1>10. \A i \in later : Pour(room, later, rest)[i] \in Nat /\ Pour(room, later, rest)[i] <= room[i]
  BY <1>4, <1>5, <1>8, PourType
<1>11. /\ plan.alloc \in [AccrualIds -> Nat]
       /\ \A i \in AccrualIds : plan.alloc[i] <= Room(c, i)
       /\ \A i \in AccrualIds \ Live(c) : plan.alloc[i] = 0
  <2>1. ASSUME NEW i \in AccrualIds
        PROVE  /\ plan.alloc[i] \in Nat /\ plan.alloc[i] <= Room(c, i)
               /\ i \notin Live(c) => plan.alloc[i] = 0
    <3>1. CASE i \in due
      BY <1>1, <1>2, <1>5, <1>9, <3>1
    <3>2. CASE i \in later
      BY <1>1, <1>2, <1>5, <1>10, <3>2
    <3>3. CASE i \notin due /\ i \notin later
      <4>1. plan.alloc[i] = 0 /\ Room(c, i) \in Nat
        BY <1>1, <1>5, <3>3
      <4> QED
        BY <4>1
    <3> QED
      BY <3>1, <3>2, <3>3
  <2> QED
    BY <1>1, <2>1
<1>12. /\ plan.credit \in Nat
       /\ Left(room, later, rest) > 0 => rest > 0
  <2>1. IsFiniteSet(later) /\ \A i \in later : room[i] \in Nat
    BY <1>4, <1>5
  <2>2. /\ Left(room, later, rest) \in Nat
        /\ rest <= 0 => Left(room, later, rest) = 0
    BY <1>8, <2>1, LeftFacts
  <2> QED
    BY <1>1, <1>8, <2>2
<1>13. ASSUME money >= 0
       PROVE  SumOver(plan.alloc, AccrualIds) + plan.penalty + plan.credit = money
  <2>1. SumOver(plan.alloc, AccrualIds) = SumOver(plan.alloc, Live(c))
    <3>1. /\ \A i \in AccrualIds : plan.alloc[i] \in Int
          /\ \A i \in AccrualIds \ Live(c) : plan.alloc[i] = 0
      BY <1>11
    <3>2. Live(c) \in SUBSET AccrualIds
      BY <1>2
    <3> QED
      BY <1>4, <3>1, <3>2, SumSupport
  <2>2. SumOver(plan.alloc, Live(c)) = SumOver(plan.alloc, due) + SumOver(plan.alloc, later)
    <3>1. \A i \in due \cup later : plan.alloc[i] \in Int
      BY <1>2, <1>11
    <3>2. SumOver(plan.alloc, due \cup later) = SumOver(plan.alloc, due) + SumOver(plan.alloc, later)
      BY <1>2, <1>4, <3>1, SumUnion
    <3> QED
      BY <1>2, <3>2
  <2>3. SumOver(plan.alloc, due) = SumOver(Pour(room, due, money), due)
    <3>1. \A i \in due : plan.alloc[i] \in Int /\ plan.alloc[i] = Pour(room, due, money)[i]
      BY <1>1, <1>2, <1>11
    <3> QED
      BY <1>4, <3>1, SumEqual
  <2>4. SumOver(plan.alloc, later) = SumOver(Pour(room, later, rest), later)
    <3>1. \A i \in later : plan.alloc[i] \in Int /\ plan.alloc[i] = Pour(room, later, rest)[i]
      BY <1>1, <1>2, <1>11
    <3> QED
      BY <1>4, <3>1, SumEqual
  <2>5. money \in Nat
    BY <1>13
  <2>6. SumOver(Pour(room, due, money), due) + left = money
    BY <1>4, <1>5, <2>5, PourSum DEF left, DueLeft, room, due
  <2>7. SumOver(Pour(room, later, rest), later) + Left(room, later, rest) = rest
    BY <1>4, <1>5, <1>8, PourSum
  <2>8. /\ SumOver(Pour(room, due, money), due) \in Int
        /\ SumOver(Pour(room, later, rest), later) \in Int
    <3>1. /\ \A i \in due : Pour(room, due, money)[i] \in Int
          /\ \A i \in later : Pour(room, later, rest)[i] \in Int
      BY <1>9, <1>10
    <3> QED
      BY <1>4, <3>1, SumInt
  <2> QED
    BY <1>1, <1>6, <1>7, <1>8, <1>12, <2>1, <2>2, <2>3, <2>4, <2>6, <2>7, <2>8, <1>0
<1>14. left > 0 => \A i \in due : Pour(room, due, money)[i] = room[i]
  BY <1>4, <1>5, PourInOrder DEF left, DueLeft, room, due
<1>15. /\ \A i, j \in due : i < j /\ Pour(room, due, money)[j] > 0 => Pour(room, due, money)[i] = room[i]
       /\ \A i, j \in later : i < j /\ Pour(room, later, rest)[j] > 0 => Pour(room, later, rest)[i] = room[i]
       /\ Left(room, later, rest) > 0 => \A i \in later : Pour(room, later, rest)[i] = room[i]
  <2>1. \A i, j \in due : i < j /\ Pour(room, due, money)[j] > 0 => Pour(room, due, money)[i] = room[i]
    BY <1>4, <1>5, PourInOrder
  <2>2. /\ \A i, j \in later : i < j /\ Pour(room, later, rest)[j] > 0 => Pour(room, later, rest)[i] = room[i]
        /\ Left(room, later, rest) > 0 => \A i \in later : Pour(room, later, rest)[i] = room[i]
    BY <1>4, <1>5, <1>8, PourInOrder
  <2> QED
    BY <2>1, <2>2
<1>16. rest > 0 => left > 0
  BY <1>0, <1>6, <1>7
<1>17. \A j \in later : Pour(room, later, rest)[j] > 0 => rest > 0
  <2> SUFFICES ASSUME NEW j \in later, Pour(room, later, rest)[j] > 0 PROVE rest > 0
    OBVIOUS
  <2>1. /\ Left(room, Earlier(later, j), rest) \in Nat
        /\ Pour(room, later, rest)[j] <= Left(room, Earlier(later, j), rest)
        /\ Pour(room, later, rest)[j] \in Nat
    BY <1>4, <1>5, <1>8, PourType
  <2>2. Left(room, Earlier(later, j), rest) <= rest
    <3>1. IsFiniteSet(Earlier(later, j)) /\ \A i \in Earlier(later, j) : room[i] \in Nat
      BY <1>4, <1>5, FS_Subset DEF Earlier
    <3>2. rest >= 0 => Left(room, Earlier(later, j), rest) <= rest
      BY <1>8, <3>1, LeftFacts, Zenon
    <3> QED
      BY <1>8, <3>2
  <2> QED
    BY <1>8, <2>1, <2>2
<1>18. Left(room, later, rest) > 0 => rest > 0
  BY <1>12
<1>19. ASSUME NEW i \in Live(c), NEW j \in Live(c), i < j, plan.alloc[j] > 0
       PROVE  plan.alloc[i] = Room(c, i)
  <2>1. CASE i \in due /\ j \in due
    BY <1>1, <1>2, <1>5, <1>15, <1>19, <2>1
  <2>2. CASE i \in due /\ j \in later
    <3>1. plan.alloc[j] = Pour(room, later, rest)[j]
      BY <1>1, <1>2, <2>2
    <3>2. rest > 0
      BY <1>17, <1>19, <2>2, <3>1
    <3> QED
      BY <1>1, <1>2, <1>5, <1>14, <1>16, <2>2, <3>2
  <2>3. CASE i \in later /\ j \in later
    BY <1>1, <1>2, <1>5, <1>15, <1>19, <2>3
  <2>4. CASE i \in later /\ j \in due
    <3>1. j < i
      BY <1>3, <2>4
    <3>2. i \in Nat /\ j \in Nat
      BY <1>2, <1>4
    <3> QED
      BY <1>19, <3>1, <3>2
  <2> QED
    BY <1>2, <2>1, <2>2, <2>3, <2>4
<1>20. ASSUME plan.credit > 0, NEW i \in Live(c)
       PROVE  plan.alloc[i] = Room(c, i)
  <2>1. CASE i \in due
    BY <1>1, <1>2, <1>5, <1>14, <1>16, <1>18, <1>20, <2>1
  <2>2. CASE i \in later
    BY <1>1, <1>2, <1>5, <1>15, <1>20, <2>2
  <2> QED
    BY <1>2, <2>1, <2>2
<1> QED
  BY <1>1, <1>7, <1>11, <1>12, <1>13, <1>19, <1>20 DEF plan

\* d has the rows of c, and an allocation for the payment p, which had none in c.
Extends(c, d, p) ==
    /\ DOMAIN d.payments = DOMAIN c.payments \cup {p}
    /\ \A q \in DOMAIN c.payments \ {p} : d.payments[q].alloc = c.payments[q].alloc
    /\ p \in DOMAIN c.payments => c.payments[p].alloc = NoAllocation
    /\ d.adj = c.adj /\ d.voided = c.voided

\* One more allocated payment adds its share to each accrual, and nothing else.
LEMMA AllocatedAfter ==
  ASSUME NEW c, NEW d, NEW p, Fits(c), Fits(d), Extends(c, d, p)
  PROVE  \A i \in AccrualIds : Allocated(d, i) = Allocated(c, i) + d.payments[p].alloc[i]
<1> TAKE i \in AccrualIds
<1> DEFINE f == AllocTo(c, i)
           g == AllocTo(d, i)
           C == DOMAIN c.payments
           D == DOMAIN d.payments
<1>1. IsFiniteSet(C) /\ IsFiniteSet(D) /\ D = C \cup {p}
  BY DEF Fits, Extends
<1>2. \A q \in C : f[q] \in Nat
  BY AllocToType
<1>3. \A q \in D : g[q] \in Nat
  BY AllocToType
<1>4. \A q \in C \ {p} : g[q] = f[q]
  BY DEF Extends, AllocTo
<1>5. g[p] = d.payments[p].alloc[i]
  BY <1>1 DEF AllocTo
<1>6. Allocated(c, i) = SumOver(f, C) /\ Allocated(d, i) = SumOver(g, D)
  BY DEF Allocated
<1>7. p \in C => f[p] = 0
  BY DEF Extends, AllocTo, NoAllocation
<1> HIDE DEF f, g, C, D
<1>8. CASE p \in C
  <2>1. D = C
    BY <1>1, <1>8
  <2>2. /\ \A q \in C : f[q] \in Int /\ g[q] \in Int
        /\ \A q \in C \ {p} : g[q] = f[q]
    BY <1>2, <1>3, <1>4, <2>1
  <2>3. SumOver(g, C) = SumOver(f, C) - f[p] + g[p]
    BY <1>1, <1>8, <2>2, SumChange
  <2>4. SumOver(f, C) \in Nat
    BY <1>1, <1>2, SumNat
  <2>5. g[p] \in Int /\ f[p] = 0
    BY <1>7, <1>8, <2>2
  <2>6. SumOver(g, C) = SumOver(f, C) + g[p]
    BY <2>3, <2>4, <2>5
  <2> QED
    BY <1>5, <1>6, <2>1, <2>6
<1>9. CASE p \notin C
  <2>1. \A q \in C \cup {p} : g[q] \in Int
    BY <1>1, <1>3
  <2>2. SumOver(g, C \cup {p}) = SumOver(g, C) + g[p]
    BY <1>1, <1>9, <2>1, SumAdd
  <2>3. \A q \in C : f[q] \in Int /\ f[q] = g[q]
    BY <1>2, <1>4, <1>9
  <2>4. SumOver(f, C) = SumOver(g, C)
    BY <1>1, <2>3, SumEqual
  <2> QED
    BY <1>1, <1>5, <1>6, <2>2, <2>4
<1> QED
  BY <1>8, <1>9

\* The money of the plan is all that the allocations gain.
LEMMA AllocatedTotalAfter ==
  ASSUME NEW c, NEW d, NEW p, Fits(c), Fits(d), Extends(c, d, p)
  PROVE  /\ AllocatedTotal(c) \in Nat
         /\ AllocatedTotal(d) = AllocatedTotal(c) + SumOver(d.payments[p].alloc, AccrualIds)
<1> DEFINE f == [i \in AccrualIds |-> Allocated(c, i)]
           g == d.payments[p].alloc
           h == [i \in AccrualIds |-> Allocated(d, i)]
<1>1. IsFiniteSet(AccrualIds)
  BY MonthsFacts
<1>2. p \in DOMAIN d.payments
  BY DEF Extends
<1>3. \A i \in AccrualIds : f[i] \in Nat /\ g[i] \in Nat /\ h[i] = f[i] + g[i]
  BY <1>2, AllocatedNat, AllocatedAfter DEF Fits, PaymentFits
<1>4. AllocatedTotal(c) = SumOver(f, AccrualIds) /\ AllocatedTotal(d) = SumOver(h, AccrualIds)
  BY DEF AllocatedTotal
<1> HIDE DEF f, g, h
<1>5. \A i \in AccrualIds : f[i] \in Int /\ g[i] \in Int /\ h[i] = f[i] + g[i]
  BY <1>3
<1>6. SumOver(h, AccrualIds) = SumOver(f, AccrualIds) + SumOver(g, AccrualIds)
  BY <1>1, <1>5, SumPlus
<1>7. SumOver(f, AccrualIds) \in Nat
  BY <1>1, <1>3, SumNat
<1> QED
  BY <1>4, <1>6, <1>7 DEF g

\* A paid accrual means that every earlier live one is paid up, a credit that all are.
PaidInOrder(c) ==
    \A i, j \in Live(c) : i < j /\ Allocated(c, j) > 0 => Room(c, i) = 0

PaidUp(c) == \A i \in Live(c) : Room(c, i) = 0

\* Giving a payment the allocation of the waterfall keeps the accounts in order.
LEMMA PlanKeepsOrder ==
  ASSUME NEW c, NEW d, NEW p, Fits(c), Fits(d), Extends(c, d, p), Within(c),
         NEW day \in Nat, NEW money \in Int, NEW owed \in Int,
         d.payments[p].alloc = FifoPlan(c, day, money, owed).alloc
  PROVE  /\ Within(d) /\ (PaidInOrder(c) => PaidInOrder(d))
         /\ FifoPlan(c, day, money, owed).credit > 0 => PaidUp(d)
<1> DEFINE a == FifoPlan(c, day, money, owed).alloc
           credit == FifoPlan(c, day, money, owed).credit
<1>1. /\ a \in [AccrualIds -> Nat]
      /\ \A i \in AccrualIds : a[i] <= Room(c, i)
      /\ \A i \in AccrualIds \ Live(c) : a[i] = 0
      /\ \A i, j \in Live(c) : i < j /\ a[j] > 0 => a[i] = Room(c, i)
      /\ credit > 0 => \A i \in Live(c) : a[i] = Room(c, i)
  BY PlanFacts
<1>2. \A i \in AccrualIds : Allocated(d, i) = Allocated(c, i) + a[i]
  BY AllocatedAfter
<1> HIDE DEF a, credit
<1>3. /\ \A i \in AccrualIds : Total(d, i) = Total(c, i) /\ d.voided[i] = c.voided[i]
      /\ Live(d) = Live(c) /\ Live(c) \subseteq AccrualIds
      /\ \A i \in Live(c) : c.voided[i] = FALSE
  BY DEF Extends, Total, Live, Fits
<1>4. \A i \in AccrualIds : /\ Allocated(c, i) \in Nat /\ Total(c, i) \in Nat
                            /\ c.voided[i] \in BOOLEAN
                            /\ Allocated(c, i) <= IF c.voided[i] THEN 0 ELSE Total(c, i)
  BY AllocatedNat DEF Within, Fits
<1>5. \A i \in AccrualIds : /\ Room(c, i) \in Nat
                            /\ Room(c, i) >= Total(c, i) - Allocated(c, i)
                            /\ Room(c, i) = Total(c, i) - Allocated(c, i) \/ Room(c, i) = 0
  BY RoomNat
<1>6. \A i \in AccrualIds : /\ Room(d, i) \in Nat /\ Allocated(d, i) \in Nat
                            /\ Room(d, i) >= Total(d, i) - Allocated(d, i)
                            /\ Room(d, i) = Total(d, i) - Allocated(d, i) \/ Room(d, i) = 0
  BY RoomNat, AllocatedNat
<1>7. Within(d)
  <2> SUFFICES ASSUME NEW i \in AccrualIds
               PROVE  Allocated(d, i) <= IF d.voided[i] THEN 0 ELSE Total(d, i)
    BY DEF Within
  <2>1. CASE c.voided[i] = TRUE
    <3>1. a[i] = 0
      BY <1>1, <1>3, <2>1
    <3> QED
      BY <1>2, <1>3, <1>4, <2>1, <3>1
  <2>2. CASE c.voided[i] = FALSE
    <3>1. a[i] \in Nat /\ a[i] <= Room(c, i)
      BY <1>1
    <3> QED
      BY <1>2, <1>3, <1>4, <1>5, <2>2, <3>1
  <2> QED
    BY <1>4, <2>1, <2>2
<1>8. ASSUME NEW i \in Live(c), a[i] = Room(c, i) \/ Room(c, i) = 0
      PROVE  Room(d, i) = 0
  <2>0. i \in AccrualIds /\ a[i] \in Nat /\ a[i] <= Room(c, i) /\ c.voided[i] = FALSE
    BY <1>1, <1>3
  <2>1. Allocated(d, i) = Allocated(c, i) + a[i] /\ Total(d, i) = Total(c, i)
    BY <1>2, <1>3, <2>0
  <2>2. Allocated(c, i) <= Total(c, i) /\ Allocated(c, i) \in Nat /\ Total(c, i) \in Nat
    BY <1>4, <2>0
  <2>3. Room(c, i) = Total(c, i) - Allocated(c, i)
    BY <1>5, <2>0, <2>2
  <2>4. a[i] = Room(c, i)
    BY <1>8, <2>0
  <2>5. Total(d, i) - Allocated(d, i) = 0
    BY <2>1, <2>2, <2>3, <2>4
  <2> QED
    BY <1>6, <2>0, <2>5
<1>9. PaidInOrder(c) => PaidInOrder(d)
  <2> SUFFICES ASSUME PaidInOrder(c), NEW i \in Live(c), NEW j \in Live(c), i < j, Allocated(d, j) > 0
               PROVE  Room(d, i) = 0
    BY <1>3 DEF PaidInOrder
  <2>1. CASE a[j] > 0
    BY <1>1, <1>8, <2>1
  <2>2. CASE ~(a[j] > 0)
    <3>1. j \in AccrualIds /\ a[j] \in Nat
      BY <1>1, <1>3
    <3>2. Allocated(c, j) > 0
      BY <1>2, <1>4, <2>2, <3>1
    <3>3. Room(c, i) = 0
      BY <3>2 DEF PaidInOrder
    <3> QED
      BY <1>8, <3>3
  <2> QED
    BY <2>1, <2>2
<1>10. credit > 0 => PaidUp(d)
  BY <1>1, <1>3, <1>8 DEF PaidUp
<1> QED
  BY <1>7, <1>9, <1>10 DEF credit

\* What is unpaid of an accrual on a day is an integer.
LEMMA LeftOnInt ==
  ASSUME NEW c, Fits(c), NEW day \in Int
  PROVE  \A i \in AccrualIds : LeftOn(c, day)[i] \in Int
<1> TAKE i \in AccrualIds
<1>1. IsFiniteSet(PaidBy(c, day)) /\ PaidBy(c, day) \subseteq DOMAIN c.payments
  BY FS_Subset DEF PaidBy, Active, Fits
<1>2. \A p \in PaidBy(c, day) : AllocTo(c, i)[p] \in Int
  BY <1>1, AllocToType
<1>3. SumOver(AllocTo(c, i), PaidBy(c, day)) \in Int
  BY <1>1, <1>2, SumInt
<1>4. Total(c, i) \in Int
  BY DEF Fits
<1> QED
  BY <1>3, <1>4 DEF LeftOn

\* The overdue sum of a day is a natural.
LEMMA OverdueNat ==
  ASSUME NEW c, Fits(c), NEW day \in Int
  PROVE  OverdueSum(c, day) \in Nat
<1> DEFINE left == LeftOn(c, day)
           f == [i \in AccrualIds |-> IF Accrual[i].daily THEN left[i] ELSE Total(c, i)]
           S == {i \in Live(c) : /\ day >= Accrual[i].penaltyFrom
                                 /\ ~(Accrual[i].exempt /\ day <= MatCapital.until)
                                 /\ left[i] > 0}
<1>1. S \subseteq AccrualIds /\ IsFiniteSet(S)
  BY MonthsFacts, FS_Subset DEF Live
<1>2. \A i \in S : f[i] \in Nat
  <2> SUFFICES ASSUME NEW i \in S PROVE f[i] \in Nat
    OBVIOUS
  <2>1. i \in AccrualIds /\ left[i] > 0
    BY <1>1
  <2>2. left[i] \in Int /\ Total(c, i) \in Nat
    BY <2>1, LeftOnInt DEF Fits
  <2> HIDE DEF left
  <2> QED
    BY <2>1, <2>2
<1> HIDE DEF f, S
<1>3. SumOver(f, S) \in Nat
  BY <1>1, <1>2, SumNat
<1> QED
  BY <1>3 DEF OverdueSum, OverdueOf, f, S

\* The penalty of a day is a natural.
LEMMA DailyPenaltyNat ==
  ASSUME NEW base \in Nat
  PROVE  DailyPenalty(base) \in Nat
<1>1. RateNum \in Nat /\ RateDen \in Nat \ {0}
  BY RateAssumption
<1>2. base * RateNum \in Nat
  BY <1>1, ProductFacts
<1>3. PICK n \in Nat : n = 2 * base * RateNum + RateDen
  <2>1. 2 * base \in Nat
    OBVIOUS
  <2>2. 2 * base * RateNum \in Nat
    BY <1>1, <2>1, ProductFacts
  <2> QED
    BY <1>1, <2>2
<1>4. n \div (2 * RateDen) \in Nat
  BY <1>1
<1> QED
  BY <1>3, <1>4 DEF DailyPenalty

\* No debt, no penalty.
LEMMA DailyPenaltyZero == DailyPenalty(0) = 0
<1>1. RateNum \in Nat /\ RateDen \in Nat \ {0}
  BY RateAssumption
<1>2. 2 * 0 * RateNum = 0
  BY <1>1
<1>3. RateDen \div (2 * RateDen) = 0
  BY <1>1
<1> QED
  BY <1>1, <1>2, <1>3 DEF DailyPenalty

\* The penalty starts no later than that of any live accrual, and not at all
\* when no accrual is live.
LEMMA StartFacts ==
  ASSUME NEW c
  PROVE  /\ Live(c) = {} => PenaltyStart(c) = None
         /\ Live(c) # {} => /\ PenaltyStart(c) \in Nat
                            /\ \A i \in Live(c) : PenaltyStart(c) <= Accrual[i].penaltyFrom
<1> DEFINE T == {Accrual[i].penaltyFrom : i \in Live(c)}
<1>1. T \subseteq Nat
  BY AccrualFacts DEF Live
<1>2. ASSUME Live(c) # {}
      PROVE  Min(T) \in Nat /\ \A i \in Live(c) : Min(T) <= Accrual[i].penaltyFrom
  <2>1. T # {}
    BY <1>2
  <2>2. \A i \in Live(c) : Accrual[i].penaltyFrom \in T
    OBVIOUS
  <2> HIDE DEF T
  <2>3. Min(T) \in T /\ \A m \in T : Min(T) <= m
    BY <1>1, <2>1, MinOfNats
  <2> QED
    BY <1>1, <2>2, <2>3
<1> QED
  BY <1>2 DEF PenaltyStart

\* A terminated contract has the day it ended on.
Ends(c) == c.status = "TERMINATED" => c.actualEnd \in Nat

\* The penalty runs no further than today, and no further than the day a
\* terminated contract was left.
LEMMA EndFacts ==
  ASSUME NEW c, Ends(c), NEW today \in Nat
  PROVE  /\ PenaltyEnd(c, today) \in Nat /\ PenaltyEnd(c, today) <= today
         /\ c.status = "TERMINATED" => PenaltyEnd(c, today) <= c.actualEnd
<1>1. CASE c.status # "TERMINATED"
  BY <1>1 DEF PenaltyEnd
<1>2. CASE c.status = "TERMINATED"
  <2>1. PICK e \in Nat : e = c.actualEnd
    BY <1>2 DEF Ends
  <2>2. e \in Int /\ today \in Int /\ e # None
    BY NoneAssumption
  <2>3. Min({e, today}) \in Int /\ Min({e, today}) <= e /\ Min({e, today}) <= today
        /\ (Min({e, today}) = e \/ Min({e, today}) = today)
    BY <2>2, MinOf, Zenon
  <2>4. PenaltyEnd(c, today) = Min({e, today})
    BY <1>2, <2>1, <2>2 DEF PenaltyEnd
  <2>5. Min({e, today}) \in Nat /\ Min({e, today}) <= today /\ Min({e, today}) <= e
    BY <2>2, <2>3
  <2> QED
    BY <2>1, <2>4, <2>5
<1> QED
  BY <1>1, <1>2

\* The days AccruedBefore sums over.
DaysBefore(c, day, today) ==
    PenaltyDays(PenaltyStart(c), Min({day - 1, PenaltyEnd(c, today)}))

\* The days before one are those from the start of the penalty up to its end.
LEMMA DaysFacts ==
  ASSUME NEW c, Ends(c), NEW today \in Nat, NEW day \in Int
  PROVE  /\ IsFiniteSet(DaysBefore(c, day, today)) /\ DaysBefore(c, day, today) \subseteq Nat
         /\ \A d \in Nat : d \in DaysBefore(c, day, today) <=>
               /\ PenaltyStart(c) # None /\ PenaltyStart(c) <= d
               /\ d < day /\ d <= PenaltyEnd(c, today)
<1>1. PICK e \in Nat : e = PenaltyEnd(c, today)
  BY EndFacts
<1>2. PICK y \in Int : y = day - 1
  OBVIOUS
<1>3. e \in Int
  OBVIOUS
<1>4. /\ Min({y, e}) \in Int /\ Min({y, e}) <= y /\ Min({y, e}) <= e
      /\ (Min({y, e}) = y \/ Min({y, e}) = e)
  BY <1>3, MinOf, Zenon
<1>5. PICK m \in Int : /\ m = Min({y, e}) /\ m <= y /\ m <= e /\ (m = y \/ m = e)
  BY <1>4
<1>6. DaysBefore(c, day, today) = IF PenaltyStart(c) = None THEN {} ELSE PenaltyStart(c)..m
  BY <1>1, <1>2, <1>5 DEF DaysBefore, PenaltyDays
<1>7. CASE Live(c) = {}
  <2>1. DaysBefore(c, day, today) = {} /\ PenaltyStart(c) = None
    BY <1>6, <1>7, StartFacts
  <2> QED
    BY <2>1, FS_EmptySet
<1>8. CASE Live(c) # {}
  <2>1. PICK s \in Nat : s = PenaltyStart(c) /\ s # None
    BY <1>8, StartFacts, NoneAssumption
  <2>2. DaysBefore(c, day, today) = s..m
    BY <1>6, <2>1
  <2>3. IsFiniteSet(s..m)
    BY FS_Interval
  <2>4. \A d \in Nat : d \in s..m <=> s <= d /\ d < day /\ d <= e
    BY <1>2, <1>5
  <2>5. s..m \subseteq Nat
    OBVIOUS
  <2> QED
    BY <1>1, <2>1, <2>2, <2>3, <2>4, <2>5
<1> QED
  BY <1>7, <1>8

\* The penalty accrued before a day, written as the sum it is.
LEMMA AccruedDef ==
  ASSUME NEW c, NEW day, NEW today
  PROVE  AccruedBefore(c, day, today)
           = SumOver([d \in DaysBefore(c, day, today) |-> DailyPenalty(OverdueSum(c, d))],
                     DaysBefore(c, day, today))
BY DEF AccruedBefore, DaysBefore

\* Penalties accrue: no day takes any back.
LEMMA AccruedGrows ==
  ASSUME NEW c, Fits(c), Ends(c), NEW today \in Nat, NEW day \in Int, NEW later \in Int, day <= later
  PROVE  /\ AccruedBefore(c, day, today) \in Nat /\ AccruedBefore(c, later, today) \in Nat
         /\ AccruedBefore(c, day, today) <= AccruedBefore(c, later, today)
<1> DEFINE A == DaysBefore(c, day, today)
           B == DaysBefore(c, later, today)
           f == [d \in A |-> DailyPenalty(OverdueSum(c, d))]
           g == [d \in B |-> DailyPenalty(OverdueSum(c, d))]
<1>1. /\ IsFiniteSet(A) /\ A \subseteq Nat /\ IsFiniteSet(B) /\ B \subseteq Nat
  BY DaysFacts
<1>2. A \subseteq B
  <2> SUFFICES ASSUME NEW d \in A PROVE d \in B
    OBVIOUS
  <2>1. /\ d \in Nat /\ PenaltyStart(c) # None /\ PenaltyStart(c) <= d
        /\ d < day /\ d <= PenaltyEnd(c, today)
    BY <1>1, DaysFacts
  <2>2. d < later
    BY <2>1
  <2> QED
    BY <2>1, <2>2, DaysFacts
<1> HIDE DEF A, B
<1>3. \A d \in Nat : DailyPenalty(OverdueSum(c, d)) \in Nat
  BY OverdueNat, DailyPenaltyNat
<1>4. /\ \A d \in A : f[d] \in Nat /\ f[d] = g[d]
      /\ \A d \in B : g[d] \in Nat
  BY <1>1, <1>2, <1>3
<1>5. AccruedBefore(c, day, today) = SumOver(f, A) /\ AccruedBefore(c, later, today) = SumOver(g, B)
  BY AccruedDef DEF A, B
<1> HIDE DEF f, g
<1>6. SumOver(f, A) = SumOver(g, A)
  <2>1. \A d \in A : f[d] \in Int /\ f[d] = g[d]
    BY <1>4
  <2> QED
    BY <1>1, <2>1, SumEqual
<1>7. SumOver(g, A) <= SumOver(g, B)
  <2>1. \A d \in B : g[d] \in Int /\ g[d] >= 0
    BY <1>4
  <2>2. A \in SUBSET B
    BY <1>2
  <2>3. IsFiniteSet(B)
    BY <1>1
  <2> QED
    BY <2>1, <2>2, <2>3, SumSubset
<1>8. SumOver(g, B) \in Nat /\ SumOver(f, A) \in Nat
  <2>1. /\ \A d \in A : f[d] \in Nat
        /\ \A d \in B : g[d] \in Nat
    BY <1>4
  <2>2. IsFiniteSet(A) /\ IsFiniteSet(B)
    BY <1>1
  <2> QED
    BY <2>1, <2>2, SumNat
<1> QED
  BY <1>5, <1>6, <1>7, <1>8

\* c and d tell the days before the day the same story.
SameBefore(c, d, day) ==
    /\ d.adj = c.adj /\ d.voided = c.voided /\ d.status = c.status /\ d.actualEnd = c.actualEnd
    /\ \A x \in Nat : x < day =>
          /\ PaidBy(d, x) = PaidBy(c, x)
          /\ \A p \in PaidBy(c, x) : d.payments[p].alloc = c.payments[p].alloc

\* Contracts that agree on the payments before a day owe the same before it.
LEMMA OverdueSame ==
  ASSUME NEW c, NEW d, Fits(c), Fits(d), NEW day \in Int, SameBefore(c, d, day), NEW x \in Nat, x < day
  PROVE  OverdueSum(d, x) = OverdueSum(c, x)
<1> DEFINE P == PaidBy(c, x)
<1>1. P = PaidBy(d, x) /\ \A p \in P : d.payments[p].alloc = c.payments[p].alloc
  BY DEF SameBefore
<1>2. IsFiniteSet(P) /\ P \subseteq DOMAIN c.payments /\ P \subseteq DOMAIN d.payments
  BY <1>1, FS_Subset DEF PaidBy, Active, Fits
<1>3. \A i \in AccrualIds : Total(d, i) = Total(c, i)
  BY DEF SameBefore, Total
<1>4. Live(d) = Live(c)
  BY DEF SameBefore, Live
<1> HIDE DEF P
<1>5. ASSUME NEW i \in AccrualIds
      PROVE  SumOver(AllocTo(d, i), P) = SumOver(AllocTo(c, i), P)
  <2>1. \A p \in P : AllocTo(d, i)[p] \in Int /\ AllocTo(d, i)[p] = AllocTo(c, i)[p]
    <3>1. \A p \in P : AllocTo(d, i)[p] \in Nat
      BY <1>2, AllocToType
    <3>2. \A p \in P : AllocTo(d, i)[p] = AllocTo(c, i)[p]
      BY <1>1, <1>2 DEF AllocTo
    <3> QED
      BY <3>1, <3>2
  <2> QED
    BY <1>2, <2>1, SumEqual
<1>6. LeftOn(d, x) = LeftOn(c, x)
  BY <1>1, <1>3, <1>5 DEF LeftOn, P
<1>7. [i \in AccrualIds |-> IF Accrual[i].daily THEN LeftOn(d, x)[i] ELSE Total(d, i)]
        = [i \in AccrualIds |-> IF Accrual[i].daily THEN LeftOn(c, x)[i] ELSE Total(c, i)]
  BY <1>3, <1>6
<1> QED
  BY <1>4, <1>6, <1>7 DEF OverdueSum, OverdueOf

\* The start of the penalty depends on which accruals are void, on nothing else.
LEMMA StartSame ==
  ASSUME NEW c, NEW d, d.voided = c.voided
  PROVE  PenaltyStart(d) = PenaltyStart(c) /\ Live(d) = Live(c)
BY DEF PenaltyStart, Live

\* The end of the penalty depends on the status and the actual end of the contract.
LEMMA EndSame ==
  ASSUME NEW c, NEW d, d.status = c.status, d.actualEnd = c.actualEnd
  PROVE  \A today : PenaltyEnd(d, today) = PenaltyEnd(c, today)
BY DEF PenaltyEnd

\* Contracts that agree on the payments before a day have accrued the same penalty.
LEMMA AccruedSame ==
  ASSUME NEW c, NEW d, Fits(c), Fits(d), Ends(c), NEW today \in Nat, NEW day \in Int, SameBefore(c, d, day)
  PROVE  AccruedBefore(d, day, today) = AccruedBefore(c, day, today)
<1>1. PenaltyStart(d) = PenaltyStart(c) /\ PenaltyEnd(d, today) = PenaltyEnd(c, today)
  BY StartSame, EndSame DEF SameBefore
<1>2. DaysBefore(d, day, today) = DaysBefore(c, day, today)
  BY <1>1 DEF DaysBefore
<1>3. \A x \in DaysBefore(c, day, today) : x \in Nat /\ x < day
  BY DaysFacts
<1>4. \A x \in DaysBefore(c, day, today) : OverdueSum(d, x) = OverdueSum(c, x)
  BY <1>3, OverdueSame
<1>5. [x \in DaysBefore(c, day, today) |-> DailyPenalty(OverdueSum(d, x))]
        = [x \in DaysBefore(c, day, today) |-> DailyPenalty(OverdueSum(c, x))]
  BY <1>4
<1>6. /\ AccruedBefore(d, day, today)
           = SumOver([x \in DaysBefore(d, day, today) |-> DailyPenalty(OverdueSum(d, x))],
                     DaysBefore(d, day, today))
      /\ AccruedBefore(c, day, today)
           = SumOver([x \in DaysBefore(c, day, today) |-> DailyPenalty(OverdueSum(c, x))],
                     DaysBefore(c, day, today))
  BY AccruedDef, Zenon
<1> QED
  BY <1>2, <1>5, <1>6, Zenon

\* The days a fresh journal has rows for, and its rows.
JournalDays(c, today) == {x \in DaysBefore(c, today + 1, today) : OverdueSum(c, x) > 0}

\* The journal computed afresh has a row for each of finitely many days, none
\* of them after the end of the penalty.
LEMMA FreshJournalIs ==
  ASSUME NEW c, Fits(c), Ends(c), NEW today \in Nat
  PROVE  /\ FreshJournal(c, today)
              = [x \in JournalDays(c, today) |-> DailyPenalty(OverdueSum(c, x))]
         /\ IsFiniteSet(JournalDays(c, today)) /\ JournalDays(c, today) \subseteq Nat
         /\ \A x \in JournalDays(c, today) :
              /\ x \in Nat /\ DailyPenalty(OverdueSum(c, x)) \in Nat
              /\ x <= PenaltyEnd(c, today) /\ x <= today
<1> DEFINE J == JournalDays(c, today)
<1>0. PenaltyEnd(c, today) \in Nat /\ PenaltyEnd(c, today) <= today
  BY EndFacts
<1>1. IsFiniteSet(J) /\ J \subseteq Nat /\ J \subseteq DaysBefore(c, today + 1, today)
  BY DaysFacts, FS_Subset DEF JournalDays
<1>2. \A x \in J : DailyPenalty(OverdueSum(c, x)) \in Nat
  BY <1>1, OverdueNat, DailyPenaltyNat
<1>3. \A x \in J : x \in Nat /\ x <= PenaltyEnd(c, today) /\ x <= today
  <2> TAKE x \in J
  <2>1. x \in Nat /\ x \in DaysBefore(c, today + 1, today)
    BY <1>1
  <2>2. x <= PenaltyEnd(c, today)
    BY <2>1, DaysFacts
  <2> QED
    BY <1>0, <2>1, <2>2
<1>4. ASSUME NEW from \in Int, NEW to \in Int,
             \A x \in Int : x \in J <=> x \in from..to /\ OverdueSum(c, x) > 0
      PROVE  Rows(c, from, to) = [x \in J |-> DailyPenalty(OverdueSum(c, x))]
  <2>1. {x \in from..to : [d \in from..to |-> OverdueSum(c, d)][x] > 0} = J
    <3> HIDE DEF J
    <3>1. \A x \in from..to : x \in J <=> OverdueSum(c, x) > 0
      BY <1>4
    <3>2. \A x \in J : x \in from..to
      BY <1>4, <1>1
    <3> QED
      BY <3>1, <3>2
  <2>2. \A x \in J : x \in from..to
    BY <2>1
  <2> HIDE DEF J
  <2> QED
    BY <2>1, <2>2 DEF Rows
<1>5. CASE Live(c) = {}
  <2>1. PenaltyStart(c) = None
    BY <1>5, StartFacts
  <2>2. J = {}
    BY <1>1, <2>1, DaysFacts
  <2>3. \A x \in Int : x \in J <=> x \in 1..0 /\ OverdueSum(c, x) > 0
    BY <2>2
  <2> HIDE DEF J
  <2>4. FreshJournal(c, today) = Rows(c, 1, 0)
    BY <1>5 DEF FreshJournal
  <2>5. Rows(c, 1, 0) = [x \in J |-> DailyPenalty(OverdueSum(c, x))]
    BY <1>4, <2>3
  <2> QED
    BY <1>1, <1>2, <1>3, <2>4, <2>5 DEF J
<1>6. CASE Live(c) # {}
  <2>1. PICK s \in Nat : s = PenaltyStart(c) /\ s # None
    BY <1>6, StartFacts, NoneAssumption
  <2>2. PICK e \in Nat : e = PenaltyEnd(c, today) /\ e <= today
    BY <1>0
  <2>3. ASSUME NEW x \in Int PROVE x \in J <=> x \in s..e /\ OverdueSum(c, x) > 0
    <3>1. x \in J <=> x \in Nat /\ x \in DaysBefore(c, today + 1, today) /\ OverdueSum(c, x) > 0
      BY <1>1 DEF JournalDays
    <3>2. x \in Nat => (x \in DaysBefore(c, today + 1, today) <=> s <= x /\ x < today + 1 /\ x <= e)
      BY <2>1, <2>2, DaysFacts
    <3>3. x \in Nat => (x \in DaysBefore(c, today + 1, today) <=> x \in s..e)
      BY <2>2, <3>2
    <3> QED
      BY <3>1, <3>3
  <2> HIDE DEF J
  <2>4. FreshJournal(c, today) = Rows(c, s, e)
    BY <1>6, <2>1, <2>2 DEF FreshJournal
  <2>5. Rows(c, s, e) = [x \in J |-> DailyPenalty(OverdueSum(c, x))]
    BY <1>4, <2>3
  <2> QED
    BY <1>1, <1>2, <1>3, <2>4, <2>5 DEF J
<1> QED
  BY <1>5, <1>6

\* The journal adds up to what has accrued.
LEMMA JournalIsAccrued ==
  ASSUME NEW c, Fits(c), Ends(c), NEW today \in Nat
  PROVE  /\ SumOver(FreshJournal(c, today), DOMAIN FreshJournal(c, today))
              = AccruedBefore(c, today + 1, today)
         /\ AccruedBefore(c, today + 1, today) \in Nat
<1> DEFINE J == JournalDays(c, today)
           D == DaysBefore(c, today + 1, today)
           f == [x \in J |-> DailyPenalty(OverdueSum(c, x))]
           g == [x \in D |-> DailyPenalty(OverdueSum(c, x))]
<1>1. FreshJournal(c, today) = f /\ DOMAIN f = J
  BY FreshJournalIs
<1>2. /\ IsFiniteSet(D) /\ D \subseteq Nat /\ J \in SUBSET D /\ IsFiniteSet(J)
  BY DaysFacts, FreshJournalIs DEF JournalDays
<1>3. \A x \in D : /\ OverdueSum(c, x) \in Nat /\ DailyPenalty(OverdueSum(c, x)) \in Nat
                   /\ x \notin J => OverdueSum(c, x) = 0
  BY <1>2, OverdueNat, DailyPenaltyNat DEF JournalDays
<1>4. AccruedBefore(c, today + 1, today) = SumOver(g, D)
  BY AccruedDef
<1> HIDE DEF J, D
<1>5. /\ \A x \in D : g[x] \in Nat
      /\ \A x \in D \ J : g[x] = 0
      /\ \A x \in J : f[x] \in Nat /\ f[x] = g[x]
  BY <1>2, <1>3, DailyPenaltyZero
<1> HIDE DEF f, g
<1>6. SumOver(f, J) = SumOver(g, J)
  <2>1. \A x \in J : f[x] \in Int /\ f[x] = g[x]
    BY <1>5
  <2> QED
    BY <1>2, <2>1, SumEqual
<1>7. SumOver(g, J) = SumOver(g, D)
  <2>1. /\ \A x \in D : g[x] \in Int
        /\ \A x \in D \ J : g[x] = 0
    BY <1>5
  <2>2. IsFiniteSet(D) /\ J \in SUBSET D
    BY <1>2
  <2> QED
    BY <2>1, <2>2, SumSupport
<1>8. SumOver(g, D) \in Nat
  <2>1. IsFiniteSet(D)
    BY <1>2
  <2> QED
    BY <1>5, <2>1, SumNat
<1> QED
  BY <1>1, <1>4, <1>6, <1>7, <1>8

-----------------------------------------------------------------------------
(* The events of a history *)

\* What the replay relies on in the refunds.
RefundsFit(h) ==
    /\ IsFiniteSet(DOMAIN h.refunds) /\ DOMAIN h.refunds \subseteq Nat
    /\ \A r \in DOMAIN h.refunds : h.refunds[r].amount \in Nat /\ h.refunds[r].day \in Nat

EventDay(h, e) ==
    IF e.kind = "payment" THEN MoscowDay(h.payments[e.id].at) ELSE h.refunds[e.id].day

\* The events of a history are its active payments and its refunds.
LEMMA EventsFacts ==
  ASSUME NEW h, Fits(h), RefundsFit(h), DOMAIN h.payments \subseteq Nat
  PROVE  /\ IsFiniteSet(Events(h))
         /\ \A e \in Events(h) :
              /\ e = [kind |-> e.kind, id |-> e.id]
              /\ e.kind \in {"payment", "refund"} /\ e.id \in Nat /\ EventDay(h, e) \in Nat
              /\ e.kind = "payment" => e.id \in Active(h) /\ h.payments[e.id].at \in Nat
              /\ e.kind = "refund" => e.id \in DOMAIN h.refunds
<1> DEFINE P == [kind : {"payment"}, id : Active(h)]
           R == [kind : {"refund"}, id : DOMAIN h.refunds]
<1>1. IsFiniteSet(Active(h)) /\ Active(h) \subseteq DOMAIN h.payments
  BY FS_Subset DEF Fits, Active
<1>2. IsFiniteSet(P)
  <2> DEFINE f == [p \in Active(h) |-> [kind |-> "payment", id |-> p]]
  <2>1. f \in Surjection(Active(h), P)
    BY DEF Surjection
  <2> QED
    BY <1>1, <2>1, FS_Surjection
<1>3. IsFiniteSet(R)
  <2> DEFINE f == [p \in DOMAIN h.refunds |-> [kind |-> "refund", id |-> p]]
  <2>1. f \in Surjection(DOMAIN h.refunds, R)
    BY DEF Surjection
  <2> QED
    BY <2>1, FS_Surjection DEF RefundsFit
<1>4. IsFiniteSet(Events(h))
  BY <1>2, <1>3, FS_Union DEF Events
<1>5. ASSUME NEW e \in Events(h)
      PROVE  /\ e = [kind |-> e.kind, id |-> e.id]
             /\ e.kind \in {"payment", "refund"} /\ e.id \in Nat /\ EventDay(h, e) \in Nat
             /\ e.kind = "payment" => e.id \in Active(h) /\ h.payments[e.id].at \in Nat
             /\ e.kind = "refund" => e.id \in DOMAIN h.refunds
  <2>1. CASE e \in P
    <3>1. e.kind = "payment" /\ e.id \in Active(h) /\ e = [kind |-> e.kind, id |-> e.id]
      BY <2>1
    <3>2. e.id \in Nat /\ h.payments[e.id].at \in Nat
      BY <1>1, <3>1 DEF Fits, PaymentFits
    <3>3. EventDay(h, e) \in Nat
      BY <3>1, <3>2, TimeFacts DEF EventDay
    <3> QED
      BY <3>1, <3>2, <3>3
  <2>2. CASE e \in R
    <3>1. e.kind = "refund" /\ e.id \in DOMAIN h.refunds /\ e = [kind |-> e.kind, id |-> e.id]
      BY <2>2
    <3> QED
      BY <3>1 DEF EventDay, RefundsFit
  <2> QED
    BY <2>1, <2>2 DEF Events
<1> QED
  BY <1>4, <1>5

Sooner(h, a, b) ==
    \/ h.payments[a.id].at < h.payments[b.id].at
    \/ h.payments[a.id].at = h.payments[b.id].at /\ a.id < b.id

\* The order of the events, without the negation that turns a day's payments round.
LEMMA BeforeIs ==
  ASSUME NEW h, NEW a, NEW b
  PROVE  EventBefore(h, a, b) <=>
           IF EventDay(h, a) # EventDay(h, b) THEN EventDay(h, a) < EventDay(h, b)
           ELSE IF a.kind # b.kind THEN a.kind = "payment"
           ELSE IF a.kind = "refund" THEN a.id < b.id
           ELSE (SameDayReversed /\ ~Sooner(h, a, b)) \/ (~SameDayReversed /\ Sooner(h, a, b))
<1>1. CASE SameDayReversed = TRUE
  <2>1. EventBefore(h, a, b) <=>
           IF EventDay(h, a) # EventDay(h, b) THEN EventDay(h, a) < EventDay(h, b)
           ELSE IF a.kind # b.kind THEN a.kind = "payment"
           ELSE IF a.kind = "refund" THEN a.id < b.id
           ELSE Sooner(h, a, b) # TRUE
    BY <1>1 DEF EventBefore, EventDay, Sooner
  <2> QED
    BY <1>1, <2>1
<1>2. CASE SameDayReversed = FALSE
  <2>1. EventBefore(h, a, b) <=>
           IF EventDay(h, a) # EventDay(h, b) THEN EventDay(h, a) < EventDay(h, b)
           ELSE IF a.kind # b.kind THEN a.kind = "payment"
           ELSE IF a.kind = "refund" THEN a.id < b.id
           ELSE Sooner(h, a, b) # FALSE
    BY <1>2 DEF EventBefore, EventDay, Sooner
  <2>2. (Sooner(h, a, b) # FALSE) <=> Sooner(h, a, b)
    BY DEF Sooner
  <2> QED
    BY <1>2, <2>1, <2>2, Zenon
<1> QED
  BY <1>1, <1>2, OrderAssumption

\* The order among events of one day is a strict total order: of two payments
\* one comes first, and the order is transitive.
LEMMA SoonerOrder ==
  ASSUME NEW h, NEW a, NEW b, NEW d,
         h.payments[a.id].at \in Nat, h.payments[b.id].at \in Nat, h.payments[d.id].at \in Nat,
         a.id \in Nat, b.id \in Nat, d.id \in Nat, a.id # b.id, b.id # d.id, a.id # d.id
  PROVE  /\ Sooner(h, a, b) <=> ~Sooner(h, b, a)
         /\ Sooner(h, a, b) /\ Sooner(h, b, d) => Sooner(h, a, d)
         /\ ~Sooner(h, a, b) /\ ~Sooner(h, b, d) => ~Sooner(h, a, d)
BY DEF Sooner

\* Of two payments of one day exactly one comes first.
LEMMA SoonerTotal ==
  ASSUME NEW h, NEW a, NEW b,
         h.payments[a.id].at \in Nat, h.payments[b.id].at \in Nat,
         a.id \in Nat, b.id \in Nat, a.id # b.id
  PROVE  Sooner(h, a, b) <=> ~Sooner(h, b, a)
BY DEF Sooner

\* The events are in a strict total order, in which the days do not go back.
LEMMA EventOrder ==
  ASSUME NEW h, Fits(h), RefundsFit(h), DOMAIN h.payments \subseteq Nat
  PROVE  /\ \A a, b \in Events(h) : a # b => EventBefore(h, a, b) \/ EventBefore(h, b, a)
         /\ \A a, b, d \in Events(h) :
              a # b /\ b # d /\ a # d /\ EventBefore(h, a, b) /\ EventBefore(h, b, d)
                => EventBefore(h, a, d)
         /\ \A a, b \in Events(h) : EventBefore(h, a, b) => EventDay(h, a) <= EventDay(h, b)
<1>1. ASSUME NEW a \in Events(h), NEW b \in Events(h), a # b
      PROVE  EventBefore(h, a, b) \/ EventBefore(h, b, a)
  <2>1. /\ EventDay(h, a) \in Nat /\ EventDay(h, b) \in Nat /\ a.id \in Nat /\ b.id \in Nat
        /\ a.kind \in {"payment", "refund"} /\ b.kind \in {"payment", "refund"}
        /\ a.kind # b.kind \/ a.id # b.id
    BY <1>1, EventsFacts
  <2>2. CASE EventDay(h, a) # EventDay(h, b) \/ a.kind # b.kind \/ a.kind = "refund"
    BY <2>1, <2>2, BeforeIs
  <2>3. CASE EventDay(h, a) = EventDay(h, b) /\ a.kind = "payment" /\ b.kind = "payment"
    <3>1. h.payments[a.id].at \in Nat /\ h.payments[b.id].at \in Nat /\ a.id # b.id
      BY <2>1, <2>3, EventsFacts
    <3>2. Sooner(h, a, b) <=> ~Sooner(h, b, a)
      BY <2>1, <3>1, SoonerTotal
    <3>3. SameDayReversed = TRUE \/ SameDayReversed = FALSE
      BY OrderAssumption
    <3> QED
      BY <2>3, <3>2, <3>3, BeforeIs
  <2> QED
    BY <2>1, <2>2, <2>3
<1>2. ASSUME NEW a \in Events(h), NEW b \in Events(h), NEW d \in Events(h),
             a # b, b # d, a # d, EventBefore(h, a, b), EventBefore(h, b, d)
      PROVE  EventBefore(h, a, d)
  <2>1. /\ EventDay(h, a) \in Nat /\ EventDay(h, b) \in Nat /\ EventDay(h, d) \in Nat
        /\ a.id \in Nat /\ b.id \in Nat /\ d.id \in Nat
        /\ a.kind \in {"payment", "refund"} /\ b.kind \in {"payment", "refund"}
        /\ d.kind \in {"payment", "refund"}
        /\ a.kind # b.kind \/ a.id # b.id
        /\ b.kind # d.kind \/ b.id # d.id
        /\ a.kind # d.kind \/ a.id # d.id
    BY <1>2, EventsFacts
  <2>2. CASE a.kind = "payment" /\ b.kind = "payment" /\ d.kind = "payment"
    <3>1. /\ h.payments[a.id].at \in Nat /\ h.payments[b.id].at \in Nat /\ h.payments[d.id].at \in Nat
          /\ a.id # b.id /\ b.id # d.id /\ a.id # d.id
      BY <2>1, <2>2, EventsFacts
    <3>2. /\ Sooner(h, a, b) /\ Sooner(h, b, d) => Sooner(h, a, d)
          /\ ~Sooner(h, a, b) /\ ~Sooner(h, b, d) => ~Sooner(h, a, d)
      BY <2>1, <3>1, SoonerOrder
    <3>3. SameDayReversed = TRUE \/ SameDayReversed = FALSE
      BY OrderAssumption
    <3> QED
      BY <1>2, <2>1, <2>2, <3>2, <3>3, BeforeIs
  <2>3. CASE ~(a.kind = "payment" /\ b.kind = "payment" /\ d.kind = "payment")
    BY <1>2, <2>1, <2>3, BeforeIs
  <2> QED
    BY <2>2, <2>3
<1>3. ASSUME NEW a \in Events(h), NEW b \in Events(h), EventBefore(h, a, b)
      PROVE  EventDay(h, a) <= EventDay(h, b)
  <2>1. EventDay(h, a) \in Nat /\ EventDay(h, b) \in Nat
    BY EventsFacts
  <2> QED
    BY <1>3, <2>1, BeforeIs
<1> QED
  BY <1>1, <1>2, <1>3

\* There is a latest event, and no event is of a later day.
LEMMA LatestFacts ==
  ASSUME NEW h, Fits(h), RefundsFit(h), DOMAIN h.payments \subseteq Nat
  PROVE  \A S \in SUBSET Events(h) : S # {} =>
           /\ Latest(h, S) \in S
           /\ \A o \in S : EventDay(h, o) <= EventDay(h, Latest(h, S))
           /\ \A o \in S \ {Latest(h, S)} : EventBefore(h, o, Latest(h, S))
<1> DEFINE Newest(S, e) == \A o \in S \ {e} : EventBefore(h, o, e)
           P == {S \in SUBSET Events(h) : S # {} => \E e \in S : Newest(S, e)}
<1>0. IsFiniteSet(Events(h))
  BY EventsFacts
<1>1. ASSUME NEW S \in SUBSET Events(h), \A x \in S : S \ {x} \in P
      PROVE  S \in P
  <2> SUFFICES ASSUME S # {} PROVE \E e \in S : Newest(S, e)
    OBVIOUS
  <2>1. PICK x \in S : TRUE
    OBVIOUS
  <2>2. CASE S \ {x} = {}
    BY <2>2
  <2>3. CASE S \ {x} # {}
    <3>1. PICK e \in S \ {x} : Newest(S \ {x}, e)
      BY <1>1, <2>3
    <3>2. CASE EventBefore(h, x, e)
      <4>1. ASSUME NEW o \in S \ {e} PROVE EventBefore(h, o, e)
        <5>1. CASE o = x
          BY <3>2, <5>1
        <5>2. CASE o # x
          BY <3>1, <5>2
        <5> QED
          BY <5>1, <5>2
      <4> QED
        BY <4>1
    <3>3. CASE EventBefore(h, e, x)
      <4>1. ASSUME NEW o \in S \ {x} PROVE EventBefore(h, o, x)
        <5>1. CASE o = e
          BY <3>3, <5>1
        <5>2. CASE o # e
          <6>1. EventBefore(h, o, e)
            BY <3>1, <5>2
          <6>2. o \in Events(h) /\ e \in Events(h) /\ x \in Events(h) /\ o # x /\ e # x
            OBVIOUS
          <6> QED
            BY <3>3, <5>2, <6>1, <6>2, EventOrder
        <5> QED
          BY <5>1, <5>2
      <4> QED
        BY <4>1
    <3>4. EventBefore(h, x, e) \/ EventBefore(h, e, x)
      BY EventOrder
    <3> QED
      BY <3>2, <3>3, <3>4
  <2> QED
    BY <2>2, <2>3
<1> HIDE DEF P
<1>2. \A S \in SUBSET Events(h) : S \in P
  BY <1>0, <1>1, SubsetInduction
<1> SUFFICES ASSUME NEW S \in SUBSET Events(h), S # {}
             PROVE  /\ Latest(h, S) \in S
                    /\ \A o \in S : EventDay(h, o) <= EventDay(h, Latest(h, S))
                    /\ \A o \in S \ {Latest(h, S)} : EventBefore(h, o, Latest(h, S))
  OBVIOUS
<1>3. \E e \in S : \A o \in S \ {e} : EventBefore(h, o, e)
  BY <1>2 DEF P
<1>4. Latest(h, S) \in S /\ \A o \in S \ {Latest(h, S)} : EventBefore(h, o, Latest(h, S))
  BY <1>3 DEF Latest
<1>5. PICK e \in S : e = Latest(h, S) /\ \A o \in S \ {e} : EventBefore(h, o, e)
  BY <1>4
<1>6. ASSUME NEW o \in S PROVE EventDay(h, o) <= EventDay(h, e)
  <2>1. o \in Events(h) /\ e \in Events(h) /\ EventDay(h, e) \in Nat
    BY EventsFacts
  <2>2. CASE o = e
    BY <2>1, <2>2
  <2>3. CASE o # e
    <3>1. EventBefore(h, o, e)
      BY <1>5, <2>3
    <3> QED
      BY <2>1, <3>1, EventOrder
  <2> QED
    BY <2>2, <2>3
<1> QED
  BY <1>4, <1>5, <1>6

-----------------------------------------------------------------------------
(* The recursion of the replay *)

Begun(h) == [c |-> h, penaltyPaid |-> 0, credit |-> 0, overdrawn |-> FALSE]

ReplayStep(g, h, today, S) ==
    IF S = {} THEN Begun(h)
    ELSE ReplayEvent(g[S \ {Latest(h, S)}], Latest(h, S), today)

\* The recursion has a solution, as that of a sum has: the replay is the last
\* state of one that takes the events one by one.
LEMMA ReplaySolves ==
  ASSUME NEW h, NEW today, IsFiniteSet(Events(h)),
         \A S \in SUBSET Events(h) : S # {} => Latest(h, S) \in S
  PROVE  \E g : /\ \A S \in SUBSET Events(h) : g[S] = ReplayStep(g, h, today, S)
                /\ g[Events(h)] = ReplayOf(h, today)
<1> DEFINE E == Events(h)
           Good(n, g) == \A s \in SUBSET E : Cardinality(s) <= n => g[s] = ReplayStep(g, h, today, s)
           T == {n \in Nat : \E g : g = [s \in SUBSET E |-> g[s]] /\ Good(n, g)}
<1> HIDE DEF E
<1>0. \A s \in SUBSET E : IsFiniteSet(s) /\ Cardinality(s) \in Nat
  BY FS_Subset, FS_CardinalityType DEF E
<1>1. 0 \in T
  <2> DEFINE g == [s \in SUBSET E |-> Begun(h)]
  <2>1. \A s \in SUBSET E : Cardinality(s) <= 0 => s = {}
    BY <1>0, FS_EmptySet
  <2>2. Good(0, g)
    BY <2>1 DEF ReplayStep
  <2>3. g = [s \in SUBSET E |-> g[s]]
    OBVIOUS
  <2> HIDE DEF g, Good
  <2> QED
    BY <2>2, <2>3
<1>2. ASSUME NEW n \in T PROVE n + 1 \in T
  <2>1. PICK g : g = [s \in SUBSET E |-> g[s]] /\ Good(n, g)
    OBVIOUS
  <2> DEFINE f == [s \in SUBSET E |-> ReplayStep(g, h, today, s)]
  <2>2. ASSUME NEW s \in SUBSET E, Cardinality(s) <= n + 1 PROVE f[s] = ReplayStep(f, h, today, s)
    <3>1. CASE s = {}
      BY <3>1 DEF ReplayStep
    <3>2. CASE s # {}
      <4>1. PICK x \in s : x = Latest(h, s)
        BY <3>2 DEF E
      <4>2. Cardinality(s \ {x}) <= n /\ s \ {x} \in SUBSET E
        BY <1>0, <2>2, FS_RemoveElement
      <4>3. g[s \ {x}] = ReplayStep(g, h, today, s \ {x})
        BY <2>1, <4>2
      <4>4. f[s \ {x}] = g[s \ {x}]
        BY <4>2, <4>3
      <4>5. f[s] = ReplayEvent(g[s \ {x}], x, today)
        BY <3>2, <4>1 DEF ReplayStep
      <4> HIDE DEF f
      <4> QED
        BY <3>2, <4>1, <4>4, <4>5 DEF ReplayStep
    <3> QED
      BY <3>1, <3>2
  <2>3. Good(n + 1, f)
    BY <2>2
  <2>4. f = [s \in SUBSET E |-> f[s]]
    OBVIOUS
  <2> HIDE DEF Good, f
  <2> QED
    BY <2>3, <2>4
<1>3. T = Nat
  <2> HIDE DEF T
  <2>1. T \subseteq Nat
    BY DEF T
  <2> QED
    BY <1>1, <1>2, <2>1, NatInduction2
<1>4. PICK g : g = [s \in SUBSET E |-> g[s]] /\ Good(Cardinality(E), g)
  BY <1>0, <1>3
<1>5. \A s \in SUBSET E : Cardinality(s) <= Cardinality(E)
  BY FS_Subset DEF E
<1>6. \A s \in SUBSET E : g[s] = ReplayStep(g, h, today, s)
  BY <1>4, <1>5
<1>7. g = [s \in SUBSET E |-> ReplayStep(g, h, today, s)]
  BY <1>4, <1>6
<1>8. g = [S \in SUBSET Events(h) |->
            IF S = {}
            THEN [c |-> h, penaltyPaid |-> 0, credit |-> 0, overdrawn |-> FALSE]
            ELSE ReplayEvent(g[S \ {Latest(h, S)}], Latest(h, S), today)]
  BY <1>7, Zenon DEF E, ReplayStep, Begun
<1>9. \E after : after = [S \in SUBSET Events(h) |->
            IF S = {}
            THEN [c |-> h, penaltyPaid |-> 0, credit |-> 0, overdrawn |-> FALSE]
            ELSE ReplayEvent(after[S \ {Latest(h, S)}], Latest(h, S), today)]
  BY <1>8, Zenon
<1>10. PICK after :
          /\ after = [S \in SUBSET Events(h) |->
               IF S = {}
               THEN [c |-> h, penaltyPaid |-> 0, credit |-> 0, overdrawn |-> FALSE]
               ELSE ReplayEvent(after[S \ {Latest(h, S)}], Latest(h, S), today)]
          /\ after[Events(h)] = ReplayOf(h, today)
  BY <1>9, Zenon DEF ReplayOf
<1>11. \A S \in SUBSET Events(h) : after[S] = ReplayStep(after, h, today, S)
  BY <1>10, Zenon DEF ReplayStep, Begun
<1> QED
  BY <1>10, <1>11, Zenon

\* The fields of the rows: what lets a changed record be read field by field.
ContractRow(c) ==
    c = [payments |-> c.payments, refunds |-> c.refunds, adj |-> c.adj, voided |-> c.voided,
         log |-> c.log, credit |-> c.credit, through |-> c.through, pending |-> c.pending,
         status |-> c.status, actualEnd |-> c.actualEnd]

PaymentRow(x) ==
    x = [amount |-> x.amount, at |-> x.at, penalty |-> x.penalty, alloc |-> x.alloc,
         partial |-> x.partial, reversed |-> x.reversed, website |-> x.website,
         synced |-> x.synced]

RowsShaped(c) ==
    /\ ContractRow(c)
    /\ c.payments = [p \in DOMAIN c.payments |-> c.payments[p]]
    /\ \A p \in DOMAIN c.payments : PaymentRow(c.payments[p])

\* The same contract with other allocations and penalties.
Reallocates(h, c) ==
    /\ c.refunds = h.refunds /\ c.adj = h.adj /\ c.voided = h.voided
    /\ c.status = h.status /\ c.actualEnd = h.actualEnd
    /\ DOMAIN c.payments = DOMAIN h.payments
    /\ \A p \in DOMAIN h.payments :
          /\ c.payments[p].amount = h.payments[p].amount
          /\ c.payments[p].at = h.payments[p].at
          /\ c.payments[p].reversed = h.payments[p].reversed

\* Rows that differ in allocation and penalty alone have the same active payments,
\* live accruals, totals and due sums.
LEMMA ReallocatesFacts ==
  ASSUME NEW h, NEW c, Reallocates(h, c)
  PROVE  /\ Active(c) = Active(h) /\ Live(c) = Live(h)
         /\ \A i : Total(c, i) = Total(h, i)
         /\ \A day : DueOn(c, day) = DueOn(h, day)
         /\ \A day : PaidBy(c, day) = PaidBy(h, day)
<1>1. Active(c) = Active(h)
  BY DEF Active, Reallocates
<1>2. Live(c) = Live(h)
  BY DEF Live, Reallocates
<1>3. \A i : Total(c, i) = Total(h, i)
  BY DEF Total, Reallocates
<1>4. \A day : DueOn(c, day) = DueOn(h, day)
  BY <1>2 DEF DueOn
<1>5. \A p \in Active(h) : c.payments[p].at = h.payments[p].at
  BY DEF Active, Reallocates
<1>6. \A day : PaidBy(c, day) = PaidBy(h, day)
  BY <1>1, <1>5 DEF PaidBy
<1> QED
  BY <1>1, <1>2, <1>3, <1>4, <1>6

\* A payment row with a new allocation and penalty, field by field.
LEMMA RowChanged ==
  ASSUME NEW x, PaymentRow(x), NEW a, NEW b, NEW d, NEW y,
         y = [x EXCEPT !.alloc = a, !.partial = b, !.penalty = d]
  PROVE  y = [amount |-> x.amount, at |-> x.at, penalty |-> d, alloc |-> a, partial |-> b,
              reversed |-> x.reversed, website |-> x.website, synced |-> x.synced]
<1>1. DOMAIN x = {"amount", "at", "penalty", "alloc", "partial", "reversed", "website", "synced"}
  BY DEF PaymentRow
<1>2. DOMAIN y = DOMAIN x /\ y = [f \in DOMAIN y |-> y[f]]
  OBVIOUS
<1>3. /\ y.amount = x.amount /\ y.at = x.at /\ y.reversed = x.reversed
      /\ y.website = x.website /\ y.synced = x.synced
      /\ y.alloc = a /\ y.partial = b /\ y.penalty = d
  BY <1>1
<1> QED
  BY <1>1, <1>2, <1>3

StateRow(s) == s = [c |-> s.c, penaltyPaid |-> s.penaltyPaid, credit |-> s.credit,
                    overdrawn |-> s.overdrawn]

\* What the replay of one payment changes.
LEMMA ReplayedIs ==
  ASSUME NEW s, RowsShaped(s.c), NEW p \in DOMAIN s.c.payments, NEW plan,
         NEW t, t = Replayed(s, p, plan)
  PROVE  /\ StateRow(t) /\ RowsShaped(t.c) /\ Reallocates(s.c, t.c)
         /\ t.c.payments[p].alloc = plan.alloc
         /\ t.c.payments[p].partial = PartialRows(s.c, plan.alloc)
         /\ t.c.payments[p].penalty = plan.penalty
         /\ \A q \in DOMAIN s.c.payments \ {p} : t.c.payments[q] = s.c.payments[q]
         /\ t.penaltyPaid = s.penaltyPaid + plan.penalty
         /\ t.credit = plan.credit /\ t.overdrawn = s.overdrawn
<1> DEFINE row == [s.c.payments[p] EXCEPT !.alloc = plan.alloc,
                       !.partial = PartialRows(s.c, plan.alloc), !.penalty = plan.penalty]
           x == s.c.payments[p]
           paid == [s.c.payments EXCEPT ![p] = row]
           c == s.c
<1>1. PaymentRow(x) /\ ContractRow(c)
  BY DEF RowsShaped
<1>2. /\ row = [amount |-> x.amount, at |-> x.at, penalty |-> plan.penalty, alloc |-> plan.alloc,
                partial |-> PartialRows(c, plan.alloc), reversed |-> x.reversed,
                website |-> x.website, synced |-> x.synced]
  BY <1>1, RowChanged, Zenon
<1>3. /\ DOMAIN paid = DOMAIN c.payments /\ paid[p] = row
      /\ \A q \in DOMAIN c.payments \ {p} : paid[q] = c.payments[q]
      /\ paid = [q \in DOMAIN paid |-> paid[q]]
  BY DEF RowsShaped
<1>4. t.c = [s.c EXCEPT !.payments = paid]
  BY Zenon DEF Replayed
<1>5. t = [c |-> t.c, penaltyPaid |-> s.penaltyPaid + plan.penalty, credit |-> plan.credit,
           overdrawn |-> s.overdrawn]
  BY DEF Replayed
<1> HIDE DEF row, paid
<1>6. t.c = [payments |-> paid, refunds |-> c.refunds, adj |-> c.adj, voided |-> c.voided,
             log |-> c.log, credit |-> c.credit, through |-> c.through, pending |-> c.pending,
             status |-> c.status, actualEnd |-> c.actualEnd]
  BY <1>1, <1>4 DEF ContractRow
<1>7. StateRow(t)
  BY <1>5 DEF StateRow
<1>8. \A q \in DOMAIN c.payments : PaymentRow(paid[q])
  <2>1. PaymentRow(row)
    BY <1>2 DEF PaymentRow
  <2>2. \A q \in DOMAIN c.payments : PaymentRow(c.payments[q])
    BY DEF RowsShaped
  <2> QED
    BY <1>3, <2>1, <2>2
<1>9. RowsShaped(t.c)
  BY <1>3, <1>6, <1>8 DEF RowsShaped, ContractRow
<1>10. Reallocates(s.c, t.c)
  BY <1>2, <1>3, <1>6 DEF Reallocates
<1>11. t.c.payments = paid
  BY <1>6
<1> QED
  BY <1>2, <1>3, <1>5, <1>7, <1>9, <1>10, <1>11

\* What replaying a refund does to the state of the replay.
LEMMA RefundedIs ==
  ASSUME NEW s, StateRow(s), NEW r, NEW t, t = ReplayRefund(s, r)
  PROVE  /\ StateRow(t) /\ t.c = s.c /\ t.penaltyPaid = s.penaltyPaid
         /\ t.credit = s.credit - s.c.refunds[r].amount
         /\ t.overdrawn = (s.overdrawn \/ s.credit < s.c.refunds[r].amount)
<1>1. t = [c |-> s.c, penaltyPaid |-> s.penaltyPaid, credit |-> s.credit - s.c.refunds[r].amount,
           overdrawn |-> (s.overdrawn \/ s.credit < s.c.refunds[r].amount)]
  BY DEF StateRow, ReplayRefund
<1> QED
  BY <1>1 DEF StateRow

Done(h, S) == {p \in Active(h) : [kind |-> "payment", id |-> p] \in S}
GivenBack(h, S) == {r \in DOMAIN h.refunds : [kind |-> "refund", id |-> r] \in S}

\* A history no payment of which has been given a place yet.
Blank(h) ==
    /\ Fits(h) /\ RefundsFit(h) /\ Ends(h) /\ RowsShaped(h) /\ DOMAIN h.payments \subseteq Nat
    /\ \A p \in DOMAIN h.payments :
          /\ h.payments[p].alloc = NoAllocation
          /\ h.payments[p].partial = {} /\ h.payments[p].penalty = 0

\* The replay s of the events S of the history h.
Underway(h, S, s) ==
    /\ StateRow(s) /\ RowsShaped(s.c) /\ Reallocates(h, s.c) /\ Fits(s.c)
    /\ \A p \in DOMAIN h.payments \ Done(h, S) : s.c.payments[p] = h.payments[p]
    /\ \A p \in DOMAIN h.payments : s.c.payments[p].partial \subseteq AccrualIds
    /\ Within(s.c) /\ PaidInOrder(s.c)
    /\ s.penaltyPaid = PenaltyPaid(s.c) /\ s.penaltyPaid \in Nat
    /\ s.credit \in Int /\ s.overdrawn \in BOOLEAN

\* Every kopeck is in one place, as long as no refund has been given on credit.
Balanced(h, S, s) ==
    ~s.overdrawn =>
        /\ s.credit \in Nat /\ (s.credit > 0 => PaidUp(s.c))
        /\ SumOver(PaidSums(h), Done(h, S))
             = AllocatedTotal(s.c) + s.penaltyPaid + s.credit
                 + SumOver(RefundSums(h), GivenBack(h, S))

\* No payment of S is dated after the day.
PaidUntil(h, S, day) == \A e \in S : e.kind = "payment" => EventDay(h, e) <= day

\* The penalty paid is accrued before the day of the last payment.
Covered(h, S, s, today) ==
    \A day \in Nat : PaidUntil(h, S, day) => s.penaltyPaid <= AccruedBefore(s.c, day, today)

\* Nothing is allocated and no penalty is paid in a blank history.
LEMMA BlankFacts ==
  ASSUME NEW h, Blank(h)
  PROVE  /\ \A i \in AccrualIds : Allocated(h, i) = 0
         /\ AllocatedTotal(h) = 0 /\ PenaltyPaid(h) = 0
         /\ Within(h) /\ PaidInOrder(h)
<1>1. IsFiniteSet(DOMAIN h.payments) /\ IsFiniteSet(AccrualIds) /\ Fits(h)
  BY MonthsFacts DEF Blank, Fits
<1>2. ASSUME NEW i \in AccrualIds PROVE Allocated(h, i) = 0
  <2>1. \A p \in DOMAIN h.payments : AllocTo(h, i)[p] = 0
    BY DEF Blank, AllocTo, NoAllocation
  <2>2. SumOver(AllocTo(h, i), DOMAIN h.payments) = 0
    BY <1>1, <2>1, SumZero
  <2> QED
    BY <2>2 DEF Allocated
<1>3. AllocatedTotal(h) = 0
  <2> DEFINE f == [i \in AccrualIds |-> Allocated(h, i)]
  <2>1. \A i \in AccrualIds : f[i] = 0
    BY <1>2
  <2> HIDE DEF f
  <2>2. SumOver(f, AccrualIds) = 0
    BY <1>1, <2>1, SumZero
  <2> QED
    BY <2>2 DEF AllocatedTotal, f
<1>4. PenaltyPaid(h) = 0
  <2>1. IsFiniteSet(Active(h))
    BY <1>1, FS_Subset DEF Active
  <2>2. \A p \in Active(h) : Penalties(h)[p] = 0
    BY DEF Blank, Active, Penalties
  <2>3. SumOver(Penalties(h), Active(h)) = 0
    BY <2>1, <2>2, SumZero
  <2> QED
    BY <2>3 DEF PenaltyPaid
<1>5. Within(h)
  <2>1. \A i \in AccrualIds : Total(h, i) \in Nat
    BY <1>1 DEF Fits
  <2> QED
    BY <1>2, <2>1 DEF Within
<1>6. PaidInOrder(h)
  BY <1>2 DEF PaidInOrder, Live
<1> QED
  BY <1>2, <1>3, <1>4, <1>5, <1>6

\* The replay invariants hold before the first event.
LEMMA ReplayBegins ==
  ASSUME NEW h, Blank(h), NEW today \in Nat
  PROVE  /\ Underway(h, {}, Begun(h)) /\ Balanced(h, {}, Begun(h))
         /\ Covered(h, {}, Begun(h), today)
<1> DEFINE s == Begun(h)
<1>1. /\ s.c = h /\ s.penaltyPaid = 0 /\ s.credit = 0 /\ s.overdrawn = FALSE /\ StateRow(s)
  BY DEF Begun, StateRow
<1> HIDE DEF s
<1>2. Reallocates(h, h)
  BY DEF Reallocates
<1>3. Underway(h, {}, s)
  <2>1. /\ Fits(h) /\ RowsShaped(h)
        /\ \A p \in DOMAIN h.payments : h.payments[p].partial \subseteq AccrualIds
    BY DEF Blank
  <2>2. Within(h) /\ PaidInOrder(h) /\ PenaltyPaid(h) = 0
    BY BlankFacts
  <2>3. 0 \in Nat /\ 0 \in Int /\ FALSE \in BOOLEAN
    OBVIOUS
  <2> QED
    BY <1>1, <1>2, <2>1, <2>2, <2>3, Zenon DEF Underway
<1>4. Balanced(h, {}, s)
  <2>1. Done(h, {}) = {} /\ GivenBack(h, {}) = {}
    BY DEF Done, GivenBack
  <2> QED
    BY <1>1, <2>1, BlankFacts, SumEmpty DEF Balanced
<1>5. Covered(h, {}, s, today)
  <2>1. ASSUME NEW day \in Nat PROVE AccruedBefore(h, day, today) \in Nat
    <3>1. Fits(h) /\ Ends(h) /\ day \in Int /\ day <= day
      BY DEF Blank
    <3> QED
      BY <3>1, AccruedGrows
  <2> QED
    BY <1>1, <2>1 DEF Covered
<1> QED
  BY <1>3, <1>4, <1>5 DEF s

\* Replaying a payment adds it to the payments done, and no refund.
LEMMA DoneAfterPayment ==
  ASSUME NEW h, NEW R, NEW p \in Active(h), NEW e, e = [kind |-> "payment", id |-> p]
  PROVE  /\ Done(h, R \cup {e}) = Done(h, R) \cup {p}
         /\ GivenBack(h, R \cup {e}) = GivenBack(h, R)
         /\ e \notin R => p \notin Done(h, R)
<1>1. \A q : [kind |-> "payment", id |-> q] = e => q = p
  OBVIOUS
<1>2. \A r : [kind |-> "refund", id |-> r] # e
  OBVIOUS
<1>3. Done(h, R \cup {e}) = Done(h, R) \cup {p}
  BY <1>1 DEF Done
<1>4. GivenBack(h, R \cup {e}) = GivenBack(h, R)
  BY <1>2 DEF GivenBack
<1> QED
  BY <1>3, <1>4 DEF Done

\* Replaying a refund adds it to the refunds done, and no payment.
LEMMA DoneAfterRefund ==
  ASSUME NEW h, NEW R, NEW r \in DOMAIN h.refunds, NEW e, e = [kind |-> "refund", id |-> r]
  PROVE  /\ GivenBack(h, R \cup {e}) = GivenBack(h, R) \cup {r}
         /\ Done(h, R \cup {e}) = Done(h, R)
         /\ e \notin R => r \notin GivenBack(h, R)
<1>1. \A q : [kind |-> "refund", id |-> q] = e => q = r
  OBVIOUS
<1>2. \A q : [kind |-> "payment", id |-> q] # e
  OBVIOUS
<1>3. GivenBack(h, R \cup {e}) = GivenBack(h, R) \cup {r}
  BY <1>1 DEF GivenBack
<1>4. Done(h, R \cup {e}) = Done(h, R)
  BY <1>2 DEF Done
<1> QED
  BY <1>3, <1>4 DEF GivenBack

\* Two reallocations in a row are one.
LEMMA ReallocatesTwice ==
  ASSUME NEW h, NEW c, NEW d, Reallocates(h, c), Reallocates(c, d)
  PROVE  Reallocates(h, d)
BY DEF Reallocates

\* d is c with a place given to the payment p, which had none.
Placed(c, d, p, day, money, owed) ==
    /\ Reallocates(c, d)
    /\ c.payments[p].alloc = NoAllocation
    /\ c.payments[p].penalty = 0
    /\ d.payments[p].alloc = FifoPlan(c, day, money, owed).alloc
    /\ d.payments[p].penalty = FifoPlan(c, day, money, owed).penalty
    /\ \A q \in DOMAIN c.payments \ {p} : d.payments[q] = c.payments[q]

\* A payment placed by the FIFO rule leaves well-formed rows, and adds its own
\* allocation to what was there.
LEMMA PlacedFits ==
  ASSUME NEW c, NEW d, NEW p \in Active(c), NEW day \in Nat, NEW money \in Int, NEW owed \in Int,
         Fits(c), Placed(c, d, p, day, money, owed)
  PROVE  Fits(d) /\ Extends(c, d, p)
<1> DEFINE plan == FifoPlan(c, day, money, owed)
<1>1. plan.alloc \in [AccrualIds -> Nat] /\ plan.penalty \in Nat /\ plan.credit \in Nat
  BY PlanFacts
<1> HIDE DEF plan
<1>2. /\ Reallocates(c, d)
      /\ d.payments[p].alloc = plan.alloc /\ d.payments[p].penalty = plan.penalty
      /\ \A q \in DOMAIN c.payments \ {p} : d.payments[q] = c.payments[q]
  BY DEF Placed, plan
<1>3. IsFiniteSet(DOMAIN d.payments) /\ DOMAIN d.payments = DOMAIN c.payments
  BY <1>2 DEF Fits, Reallocates
<1>4. \A i \in AccrualIds : Total(d, i) \in Nat /\ d.voided[i] \in BOOLEAN
  BY <1>2 DEF Fits, Reallocates, Total
<1>5. ASSUME NEW q \in DOMAIN d.payments PROVE PaymentFits(d.payments[q])
  <2>1. PaymentFits(c.payments[q]) /\ q \in DOMAIN c.payments
    BY <1>3 DEF Fits
  <2>2. CASE q = p
    <3>1. /\ d.payments[p].amount = c.payments[p].amount
          /\ d.payments[p].at = c.payments[p].at
          /\ d.payments[p].reversed = FALSE
      BY <1>2, <2>1, <2>2 DEF Reallocates, Active, PaymentFits
    <3> QED
      BY <1>1, <1>2, <2>1, <2>2, <3>1 DEF PaymentFits
  <2>3. CASE q # p
    BY <1>2, <2>1, <2>3
  <2> QED
    BY <2>2, <2>3
<1>6. Fits(d)
  BY <1>3, <1>4, <1>5 DEF Fits
<1>7. Extends(c, d, p)
  <2>1. DOMAIN d.payments = DOMAIN c.payments \cup {p} /\ d.adj = c.adj /\ d.voided = c.voided
    BY <1>2, <1>3 DEF Reallocates, Active
  <2> QED
    BY <1>2, <2>1 DEF Extends, Placed
<1> QED
  BY <1>6, <1>7

\* The FIFO rule pays no accrual beyond its total, pays the oldest first, and
\* leaves a credit only when every live accrual is paid up.
LEMMA PlacedInOrder ==
  ASSUME NEW c, NEW d, NEW p \in Active(c), NEW day \in Nat, NEW money \in Int, NEW owed \in Int,
         Fits(c), Within(c), PaidInOrder(c), Placed(c, d, p, day, money, owed)
  PROVE  /\ Within(d) /\ PaidInOrder(d)
         /\ FifoPlan(c, day, money, owed).credit > 0 => PaidUp(d)
<1>1. Fits(d) /\ Extends(c, d, p)
  BY PlacedFits
<1>2. d.payments[p].alloc = FifoPlan(c, day, money, owed).alloc
  BY DEF Placed
<1> QED
  BY <1>1, <1>2, PlanKeepsOrder

\* A placed payment adds the penalty of its plan to the penalty paid.
LEMMA PlacedPenalty ==
  ASSUME NEW c, NEW d, NEW p \in Active(c), NEW day \in Nat, NEW money \in Int, NEW owed \in Int,
         Fits(c), Placed(c, d, p, day, money, owed)
  PROVE  PenaltyPaid(d) = PenaltyPaid(c) + FifoPlan(c, day, money, owed).penalty
<1> DEFINE f == Penalties(c)
           g == Penalties(d)
           A == Active(c)
<1>1. Fits(d) /\ Reallocates(c, d)
  BY PlacedFits DEF Placed
<1>2. Active(d) = A /\ IsFiniteSet(A) /\ A \subseteq DOMAIN c.payments
      /\ DOMAIN d.payments = DOMAIN c.payments
  <2>1. A \subseteq DOMAIN c.payments
    BY DEF Active
  <2>2. IsFiniteSet(A)
    BY <2>1, FS_Subset DEF Fits
  <2> QED
    BY <1>1, <2>1, <2>2, ReallocatesFacts DEF Reallocates
<1>3. \A q \in A : f[q] = c.payments[q].penalty /\ g[q] = d.payments[q].penalty
  BY <1>2 DEF Penalties
<1>4. \A q \in DOMAIN c.payments : c.payments[q].penalty \in Nat /\ d.payments[q].penalty \in Nat
  BY <1>1, <1>2 DEF Fits, PaymentFits
<1>5. \A q \in A : f[q] \in Int /\ g[q] \in Int
  BY <1>2, <1>3, <1>4
<1>6. \A q \in A \ {p} : g[q] = f[q]
  BY <1>2, <1>3 DEF Placed
<1>7. f[p] = 0 /\ g[p] = FifoPlan(c, day, money, owed).penalty
  BY <1>3 DEF Placed
<1>8. PenaltyPaid(c) = SumOver(f, A) /\ PenaltyPaid(d) = SumOver(g, A)
  BY <1>2 DEF PenaltyPaid
<1> HIDE DEF f, g, A
<1>9. SumOver(f, A) \in Int
  BY <1>2, <1>5, SumInt
<1>10. p \in A
  BY DEF A
<1>11. SumOver(g, A) = SumOver(f, A) - f[p] + g[p]
  BY <1>2, <1>5, <1>6, <1>10, SumChange
<1>12. f[p] \in Int /\ g[p] \in Int
  BY <1>5, <1>10
<1>13. SumOver(g, A) = SumOver(f, A) + g[p]
  BY <1>7, <1>9, <1>11, <1>12
<1> QED
  BY <1>7, <1>8, <1>13

MoneyOf(s, p) == s.c.payments[p].amount + s.credit

OwedOn(s, day, today) ==
    IF day > today THEN 0 ELSE AccruedBefore(s.c, day, today) - s.penaltyPaid

PlanFor(s, p, day, today) == FifoPlan(s.c, day, MoneyOf(s, p), OwedOn(s, day, today))

\* Replaying a payment applies the plan the FIFO rule makes for it.
LEMMA ReplayPaymentIs ==
  ASSUME NEW s, NEW p, NEW day, NEW today
  PROVE  ReplayPayment(s, p, day, today) = Replayed(s, p, PlanFor(s, p, day, today))
BY Zenon DEF ReplayPayment, PlanFor, MoneyOf, OwedOn

\* A payment that is not done yet is as it was in the history.
LEMMA NotDone ==
  ASSUME NEW h, Blank(h), NEW R, NEW s, Underway(h, R, s), NEW p \in Active(h), p \notin Done(h, R),
         NEW day \in Nat, NEW today \in Nat
  PROVE  /\ s.c.payments[p] = h.payments[p] /\ p \in Active(s.c) /\ p \in DOMAIN s.c.payments
         /\ s.c.payments[p].alloc = NoAllocation /\ s.c.payments[p].penalty = 0
         /\ MoneyOf(s, p) = h.payments[p].amount + s.credit
         /\ h.payments[p].amount \in Nat /\ MoneyOf(s, p) \in Int
         /\ AccruedBefore(s.c, day, today) \in Nat /\ OwedOn(s, day, today) \in Int
         /\ Fits(s.c) /\ Ends(s.c) /\ s.credit \in Int /\ s.penaltyPaid \in Nat
<1>1. p \in DOMAIN h.payments /\ Reallocates(h, s.c) /\ Fits(s.c)
  BY DEF Active, Underway
<1>2. s.c.payments[p] = h.payments[p]
  BY <1>1 DEF Underway
<1>3. h.payments[p].alloc = NoAllocation /\ h.payments[p].penalty = 0
  BY <1>1 DEF Blank
<1>4. h.payments[p].amount \in Nat
  BY <1>1 DEF Blank, Fits, PaymentFits
<1>5. p \in Active(s.c) /\ p \in DOMAIN s.c.payments
  BY <1>1, ReallocatesFacts DEF Reallocates
<1>6. s.credit \in Int /\ s.penaltyPaid \in Nat
  BY DEF Underway
<1>7. Ends(s.c)
  BY <1>1 DEF Blank, Ends, Reallocates
<1>8. AccruedBefore(s.c, day, today) \in Nat
  <2>1. day \in Int /\ day <= day
    OBVIOUS
  <2> QED
    BY <1>1, <1>7, <2>1, AccruedGrows
<1>9. MoneyOf(s, p) = h.payments[p].amount + s.credit
  BY <1>2 DEF MoneyOf
<1>10. OwedOn(s, day, today) \in Int
  BY <1>6, <1>8 DEF OwedOn
<1> QED
  BY <1>1, <1>2, <1>3, <1>4, <1>5, <1>6, <1>7, <1>8, <1>9, <1>10

\* A replayed payment is placed by the FIFO rule on the state before it.
LEMMA PaymentReplayed ==
  ASSUME NEW h, Blank(h), NEW R, NEW s, Underway(h, R, s), NEW p \in Active(h), p \notin Done(h, R),
         NEW day \in Nat, NEW today \in Nat, NEW t, t = ReplayPayment(s, p, day, today)
  PROVE  /\ Placed(s.c, t.c, p, day, MoneyOf(s, p), OwedOn(s, day, today))
         /\ StateRow(t) /\ RowsShaped(t.c)
         /\ t.c.payments[p].partial = PartialRows(s.c, PlanFor(s, p, day, today).alloc)
         /\ t.penaltyPaid = s.penaltyPaid + PlanFor(s, p, day, today).penalty
         /\ t.credit = PlanFor(s, p, day, today).credit
         /\ t.overdrawn = s.overdrawn
<1> DEFINE plan == PlanFor(s, p, day, today)
<1>1. t = Replayed(s, p, plan)
  BY ReplayPaymentIs
<1>2. RowsShaped(s.c) /\ p \in DOMAIN s.c.payments
  BY NotDone DEF Underway
<1> HIDE DEF plan
<1>3. /\ StateRow(t) /\ RowsShaped(t.c) /\ Reallocates(s.c, t.c)
      /\ t.c.payments[p].alloc = plan.alloc
      /\ t.c.payments[p].partial = PartialRows(s.c, plan.alloc)
      /\ t.c.payments[p].penalty = plan.penalty
      /\ \A q \in DOMAIN s.c.payments \ {p} : t.c.payments[q] = s.c.payments[q]
      /\ t.penaltyPaid = s.penaltyPaid + plan.penalty
      /\ t.credit = plan.credit /\ t.overdrawn = s.overdrawn
  BY <1>1, <1>2, ReplayedIs
<1>4. s.c.payments[p].alloc = NoAllocation /\ s.c.payments[p].penalty = 0
  BY NotDone
<1>5. plan = FifoPlan(s.c, day, MoneyOf(s, p), OwedOn(s, day, today))
  BY DEF plan, PlanFor
<1>6. Placed(s.c, t.c, p, day, MoneyOf(s, p), OwedOn(s, day, today))
  BY <1>3, <1>4, <1>5 DEF Placed
<1> QED
  BY <1>3, <1>6 DEF plan

\* Replaying a payment keeps the rows of the replay in order.
LEMMA PaymentKeepsUnderway ==
  ASSUME NEW h, Blank(h), NEW R, NEW s, Underway(h, R, s), NEW p \in Active(h), p \notin Done(h, R),
         NEW e, e = [kind |-> "payment", id |-> p],
         NEW day \in Nat, NEW today \in Nat, NEW t, t = ReplayPayment(s, p, day, today)
  PROVE  /\ Underway(h, R \cup {e}, t)
         /\ PlanFor(s, p, day, today).penalty \in Nat /\ PlanFor(s, p, day, today).credit \in Nat
         /\ t.credit > 0 => PaidUp(t.c)
<1> DEFINE plan == PlanFor(s, p, day, today)
           money == MoneyOf(s, p)
           owed == OwedOn(s, day, today)
<1>1. /\ p \in Active(s.c) /\ p \in DOMAIN s.c.payments /\ money \in Int /\ owed \in Int /\ Fits(s.c)
      /\ s.credit \in Int /\ s.penaltyPaid \in Nat
  BY NotDone
<1>2. /\ Within(s.c) /\ PaidInOrder(s.c) /\ Reallocates(h, s.c)
      /\ s.penaltyPaid = PenaltyPaid(s.c) /\ s.overdrawn \in BOOLEAN
      /\ \A q \in DOMAIN h.payments : s.c.payments[q].partial \subseteq AccrualIds
  BY DEF Underway
<1>3. /\ Placed(s.c, t.c, p, day, money, owed)
      /\ StateRow(t) /\ RowsShaped(t.c)
      /\ t.c.payments[p].partial = PartialRows(s.c, plan.alloc)
      /\ t.penaltyPaid = s.penaltyPaid + plan.penalty
      /\ t.credit = plan.credit
      /\ t.overdrawn = s.overdrawn
  BY PaymentReplayed
<1>4. plan = FifoPlan(s.c, day, money, owed)
  BY DEF PlanFor
<1> HIDE DEF plan, money, owed
<1>5. plan.penalty \in Nat /\ plan.credit \in Nat
  BY <1>1, <1>4, PlanFacts
<1>6. Fits(t.c)
  BY <1>1, <1>3, PlacedFits
<1>7. /\ Within(t.c) /\ PaidInOrder(t.c)
      /\ plan.credit > 0 => PaidUp(t.c)
  BY <1>1, <1>2, <1>3, <1>4, PlacedInOrder
<1>8. t.penaltyPaid = PenaltyPaid(t.c)
  <2>1. PenaltyPaid(t.c) = PenaltyPaid(s.c) + plan.penalty
    BY <1>1, <1>3, <1>4, PlacedPenalty
  <2> QED
    BY <1>2, <1>3, <2>1
<1>9. Reallocates(h, t.c)
  BY <1>2, <1>3, ReallocatesTwice DEF Placed
<1>10. \A q \in DOMAIN h.payments \ Done(h, R \cup {e}) : t.c.payments[q] = h.payments[q]
  <2>1. Done(h, R \cup {e}) = Done(h, R) \cup {p}
    BY DoneAfterPayment
  <2>2. \A q \in DOMAIN h.payments \ {p} : t.c.payments[q] = s.c.payments[q]
    BY <1>2, <1>3 DEF Placed, Reallocates
  <2> QED
    BY <2>1, <2>2 DEF Underway
<1>11. \A q \in DOMAIN h.payments : t.c.payments[q].partial \subseteq AccrualIds
  <2>1. PartialRows(s.c, plan.alloc) \subseteq AccrualIds
    BY DEF PartialRows
  <2>2. \A q \in DOMAIN h.payments \ {p} : t.c.payments[q] = s.c.payments[q]
    BY <1>2, <1>3 DEF Placed, Reallocates
  <2> QED
    BY <1>2, <1>3, <2>1, <2>2
<1>12. t.penaltyPaid \in Nat /\ t.credit \in Int /\ t.overdrawn \in BOOLEAN
  <2>1. t.penaltyPaid \in Nat /\ t.credit \in Int
    BY <1>1, <1>3, <1>5
  <2> QED
    BY <1>2, <1>3, <2>1
<1>13. Underway(h, R \cup {e}, t)
  BY <1>3, <1>6, <1>7, <1>8, <1>9, <1>10, <1>11, <1>12 DEF Underway
<1> QED
  BY <1>3, <1>5, <1>7, <1>13 DEF plan

\* The events done belong to the history, and are finitely many.
LEMMA DoneFinite ==
  ASSUME NEW h, Blank(h), NEW S
  PROVE  /\ IsFiniteSet(Done(h, S)) /\ Done(h, S) \subseteq DOMAIN h.payments
         /\ IsFiniteSet(GivenBack(h, S)) /\ GivenBack(h, S) \subseteq DOMAIN h.refunds
         /\ \A p \in DOMAIN h.payments : PaidSums(h)[p] = h.payments[p].amount /\ PaidSums(h)[p] \in Int
         /\ \A r \in DOMAIN h.refunds : RefundSums(h)[r] = h.refunds[r].amount /\ RefundSums(h)[r] \in Int
<1>1. IsFiniteSet(DOMAIN h.payments) /\ IsFiniteSet(DOMAIN h.refunds)
  BY DEF Blank, Fits, RefundsFit
<1>2. Done(h, S) \subseteq DOMAIN h.payments /\ GivenBack(h, S) \subseteq DOMAIN h.refunds
  BY DEF Done, GivenBack, Active
<1>3. \A p \in DOMAIN h.payments : h.payments[p].amount \in Nat
  BY DEF Blank, Fits, PaymentFits
<1>4. \A r \in DOMAIN h.refunds : h.refunds[r].amount \in Nat
  BY DEF Blank, RefundsFit
<1> QED
  BY <1>1, <1>2, <1>3, <1>4, FS_Subset DEF PaidSums, RefundSums

\* Replaying a payment neither makes nor loses money.
LEMMA PaymentKeepsBalance ==
  ASSUME NEW h, Blank(h), NEW R, NEW s, Underway(h, R, s), NEW p \in Active(h), p \notin Done(h, R),
         NEW e, e = [kind |-> "payment", id |-> p],
         NEW day \in Nat, NEW today \in Nat, NEW t, t = ReplayPayment(s, p, day, today),
         Balanced(h, R, s)
  PROVE  Balanced(h, R \cup {e}, t)
<1> DEFINE plan == PlanFor(s, p, day, today)
           money == MoneyOf(s, p)
           owed == OwedOn(s, day, today)
           a == h.payments[p].amount
<1> SUFFICES ASSUME ~t.overdrawn
             PROVE  /\ t.credit \in Nat /\ (t.credit > 0 => PaidUp(t.c))
                    /\ SumOver(PaidSums(h), Done(h, R \cup {e}))
                         = AllocatedTotal(t.c) + t.penaltyPaid + t.credit
                             + SumOver(RefundSums(h), GivenBack(h, R \cup {e}))
  BY DEF Balanced
<1>1. /\ p \in Active(s.c) /\ money \in Int /\ owed \in Int /\ Fits(s.c) /\ s.penaltyPaid \in Nat
      /\ money = a + s.credit /\ a \in Nat /\ p \in DOMAIN h.payments
  <2>1. p \in DOMAIN h.payments
    BY DEF Active
  <2> QED
    BY <2>1, NotDone
<1>2. /\ Placed(s.c, t.c, p, day, money, owed)
      /\ t.penaltyPaid = s.penaltyPaid + plan.penalty
      /\ t.credit = plan.credit
      /\ t.overdrawn = s.overdrawn
  BY PaymentReplayed
<1>3. plan.penalty \in Nat /\ plan.credit \in Nat /\ (t.credit > 0 => PaidUp(t.c))
  BY PaymentKeepsUnderway
<1>4. plan = FifoPlan(s.c, day, money, owed)
  BY DEF PlanFor
<1>5. Done(h, R \cup {e}) = Done(h, R) \cup {p} /\ GivenBack(h, R \cup {e}) = GivenBack(h, R)
  BY DoneAfterPayment
<1> HIDE DEF plan, money, owed
<1>6. /\ s.credit \in Nat
      /\ SumOver(PaidSums(h), Done(h, R))
           = AllocatedTotal(s.c) + s.penaltyPaid + s.credit + SumOver(RefundSums(h), GivenBack(h, R))
  BY <1>2 DEF Balanced
<1>7. money >= 0
  BY <1>1, <1>6
<1>8. SumOver(plan.alloc, AccrualIds) + plan.penalty + plan.credit = money
  BY <1>1, <1>4, <1>7, PlanFacts
<1>9. /\ AllocatedTotal(s.c) \in Nat
      /\ AllocatedTotal(t.c) = AllocatedTotal(s.c) + SumOver(plan.alloc, AccrualIds)
  <2>1. Fits(t.c) /\ Extends(s.c, t.c, p)
    BY <1>1, <1>2, PlacedFits
  <2>2. t.c.payments[p].alloc = plan.alloc
    BY <1>2, <1>4 DEF Placed
  <2> QED
    BY <1>1, <2>1, <2>2, AllocatedTotalAfter
<1>10. SumOver(PaidSums(h), Done(h, R) \cup {p}) = SumOver(PaidSums(h), Done(h, R)) + a
  <2>1. /\ IsFiniteSet(Done(h, R)) /\ PaidSums(h)[p] = a
        /\ \A q \in Done(h, R) \cup {p} : PaidSums(h)[q] \in Int
    BY <1>1, DoneFinite
  <2> HIDE DEF a
  <2> QED
    BY <2>1, SumAdd
<1>11. SumOver(RefundSums(h), GivenBack(h, R)) \in Int
  <2>1. /\ IsFiniteSet(GivenBack(h, R))
        /\ \A r \in GivenBack(h, R) : RefundSums(h)[r] \in Int
    BY DoneFinite
  <2> QED
    BY <2>1, SumInt
<1>12. SumOver(plan.alloc, AccrualIds) \in Int
  <2>1. plan.alloc \in [AccrualIds -> Nat]
    BY <1>1, <1>4, PlanFacts
  <2>2. IsFiniteSet(AccrualIds) /\ \A i \in AccrualIds : plan.alloc[i] \in Int
    BY <2>1, MonthsFacts
  <2> QED
    BY <2>2, SumInt
<1> HIDE DEF a
<1>13. SumOver(PaidSums(h), Done(h, R \cup {e}))
         = AllocatedTotal(t.c) + t.penaltyPaid + t.credit
             + SumOver(RefundSums(h), GivenBack(h, R \cup {e}))
  <2> DEFINE x == SumOver(plan.alloc, AccrualIds)
             y == AllocatedTotal(s.c)
             z == SumOver(RefundSums(h), GivenBack(h, R))
             w == SumOver(PaidSums(h), Done(h, R))
  <2>1. x \in Int /\ y \in Int /\ z \in Int /\ x + plan.penalty + plan.credit = a + s.credit
    BY <1>1, <1>8, <1>9, <1>11, <1>12
  <2>2. w = y + s.penaltyPaid + s.credit + z
    BY <1>6
  <2>3. AllocatedTotal(t.c) = y + x
    BY <1>9
  <2> HIDE DEF x, y, z, w
  <2>4. w + a = (y + x) + (s.penaltyPaid + plan.penalty) + plan.credit + z
    <3>1. /\ a \in Int /\ s.penaltyPaid \in Int /\ s.credit \in Int
          /\ plan.penalty \in Int /\ plan.credit \in Int
      BY <1>1, <1>3, <1>6
    <3> QED
      BY <2>1, <2>2, <3>1
  <2>5. SumOver(PaidSums(h), Done(h, R \cup {e})) = w + a
    BY <1>5, <1>10 DEF w
  <2>6. SumOver(RefundSums(h), GivenBack(h, R \cup {e})) = z
    BY <1>5 DEF z
  <2> QED
    BY <1>2, <2>3, <2>4, <2>5, <2>6
<1> QED
  BY <1>2, <1>3, <1>13

\* Replaying a payment pays no more penalty than has accrued by its day, when the
\* events before it are not dated later.
LEMMA PaymentKeepsCover ==
  ASSUME NEW h, Blank(h), NEW R, NEW s, Underway(h, R, s), NEW p \in Active(h), p \notin Done(h, R),
         NEW e, e = [kind |-> "payment", id |-> p],
         NEW day \in Nat, day = EventDay(h, e), \A o \in R : EventDay(h, o) <= day,
         NEW today \in Nat, NEW t, t = ReplayPayment(s, p, day, today),
         Covered(h, R, s, today)
  PROVE  Covered(h, R \cup {e}, t, today)
<1> DEFINE plan == PlanFor(s, p, day, today)
           money == MoneyOf(s, p)
           owed == OwedOn(s, day, today)
<1>1. /\ p \in Active(s.c) /\ money \in Int /\ owed \in Int /\ Fits(s.c) /\ s.penaltyPaid \in Nat
      /\ Ends(s.c) /\ AccruedBefore(s.c, day, today) \in Nat
      /\ s.c.payments[p] = h.payments[p]
  BY NotDone
<1>2. /\ Placed(s.c, t.c, p, day, money, owed)
      /\ t.penaltyPaid = s.penaltyPaid + plan.penalty
  BY PaymentReplayed
<1>3. plan = FifoPlan(s.c, day, money, owed)
  BY DEF PlanFor
<1>4. owed = IF day > today THEN 0 ELSE AccruedBefore(s.c, day, today) - s.penaltyPaid
  BY DEF OwedOn
<1> HIDE DEF plan, money, owed
<1>5. plan.penalty \in Nat /\ (plan.penalty = 0 \/ plan.penalty <= owed)
  BY <1>1, <1>3, PlanFacts
<1>6. s.penaltyPaid <= AccruedBefore(s.c, day, today)
  BY DEF Covered, PaidUntil
<1>7. t.penaltyPaid <= AccruedBefore(s.c, day, today)
  BY <1>1, <1>2, <1>4, <1>5, <1>6
<1>8. Fits(t.c) /\ Ends(t.c) /\ Reallocates(s.c, t.c)
  <2>1. Fits(t.c) /\ Reallocates(s.c, t.c)
    BY <1>1, <1>2, PlacedFits DEF Placed
  <2> QED
    BY <1>1, <2>1 DEF Ends, Reallocates
<1>9. SameBefore(s.c, t.c, day)
  <2>1. \A x : PaidBy(t.c, x) = PaidBy(s.c, x)
    BY <1>8, ReallocatesFacts
  <2>2. ASSUME NEW x \in Nat, x < day, NEW q \in PaidBy(s.c, x)
        PROVE  t.c.payments[q].alloc = s.c.payments[q].alloc
    <3>1. MoscowDay(s.c.payments[p].at) = day
      BY <1>1 DEF EventDay
    <3>2. q # p
      <4>1. MoscowDay(s.c.payments[q].at) <= x
        BY DEF PaidBy
      <4> QED
        BY <2>2, <3>1, <4>1
    <3>3. q \in DOMAIN s.c.payments
      BY DEF PaidBy, Active
    <3> QED
      BY <1>2, <3>2, <3>3 DEF Placed
  <2> QED
    BY <1>8, <2>1, <2>2 DEF SameBefore, Reallocates
<1>10. AccruedBefore(t.c, day, today) = AccruedBefore(s.c, day, today)
  BY <1>1, <1>8, <1>9, AccruedSame
<1>11. ASSUME NEW D \in Nat, PaidUntil(h, R \cup {e}, D)
       PROVE  t.penaltyPaid <= AccruedBefore(t.c, D, today)
  <2>1. day <= D /\ day \in Int /\ D \in Int
    BY <1>11 DEF PaidUntil
  <2>2. /\ AccruedBefore(t.c, day, today) <= AccruedBefore(t.c, D, today)
        /\ AccruedBefore(t.c, day, today) \in Nat /\ AccruedBefore(t.c, D, today) \in Nat
    BY <1>8, <2>1, AccruedGrows
  <2>3. t.penaltyPaid \in Int
    BY <1>1, <1>2, <1>5
  <2> QED
    BY <1>7, <1>10, <2>2, <2>3
<1> QED
  BY <1>11 DEF Covered

\* Replaying a refund keeps the order of the rows, the balance and the penalty.
LEMMA RefundReplayedKeeps ==
  ASSUME NEW h, Blank(h), NEW R, NEW s, Underway(h, R, s), NEW r \in DOMAIN h.refunds,
         NEW e, e = [kind |-> "refund", id |-> r], e \notin R, NEW today \in Nat,
         Balanced(h, R, s), Covered(h, R, s, today), NEW t, t = ReplayRefund(s, r)
  PROVE  /\ Underway(h, R \cup {e}, t) /\ Balanced(h, R \cup {e}, t)
         /\ Covered(h, R \cup {e}, t, today)
<1> DEFINE a == h.refunds[r].amount
<1>1. /\ Done(h, R \cup {e}) = Done(h, R) /\ GivenBack(h, R \cup {e}) = GivenBack(h, R) \cup {r}
      /\ r \notin GivenBack(h, R)
  <2>1. r \notin GivenBack(h, R)
    BY DEF GivenBack
  <2> QED
    BY <2>1, DoneAfterRefund
<1>2. a \in Nat
  BY DEF Blank, RefundsFit
<1>3. s.c.refunds[r].amount = a
  BY DEF Underway, Reallocates
<1>4. StateRow(s) /\ s.credit \in Int /\ s.overdrawn \in BOOLEAN /\ s.penaltyPaid \in Nat
  BY DEF Underway
<1> HIDE DEF a
<1>5. /\ StateRow(t) /\ t.c = s.c /\ t.penaltyPaid = s.penaltyPaid
      /\ t.credit = s.credit - a /\ t.overdrawn = (s.overdrawn \/ s.credit < a)
  BY <1>3, <1>4, RefundedIs
<1>6. t.credit \in Int /\ t.overdrawn \in BOOLEAN
  <2>1. (s.credit < a) \in BOOLEAN
    BY <1>2, <1>4
  <2>2. t.overdrawn \in BOOLEAN
    BY <1>4, <1>5, <2>1
  <2> QED
    BY <1>2, <1>4, <1>5, <2>2
<1>7. Underway(h, R \cup {e}, t)
  <2>1. /\ RowsShaped(s.c) /\ Reallocates(h, s.c) /\ Fits(s.c)
        /\ \A p \in DOMAIN h.payments \ Done(h, R) : s.c.payments[p] = h.payments[p]
        /\ \A p \in DOMAIN h.payments : s.c.payments[p].partial \subseteq AccrualIds
        /\ Within(s.c) /\ PaidInOrder(s.c)
        /\ s.penaltyPaid = PenaltyPaid(s.c) /\ s.penaltyPaid \in Nat
    BY DEF Underway
  <2> QED
    BY <1>1, <1>5, <1>6, <2>1 DEF Underway
<1>8. Balanced(h, R \cup {e}, t)
  <2> SUFFICES ASSUME ~t.overdrawn
               PROVE  /\ t.credit \in Nat /\ (t.credit > 0 => PaidUp(t.c))
                      /\ SumOver(PaidSums(h), Done(h, R \cup {e}))
                           = AllocatedTotal(t.c) + t.penaltyPaid + t.credit
                               + SumOver(RefundSums(h), GivenBack(h, R \cup {e}))
    BY DEF Balanced
  <2>1. ~s.overdrawn /\ ~(s.credit < a)
    BY <1>4, <1>5
  <2>2. /\ s.credit \in Nat /\ (s.credit > 0 => PaidUp(s.c))
        /\ SumOver(PaidSums(h), Done(h, R))
             = AllocatedTotal(s.c) + s.penaltyPaid + s.credit + SumOver(RefundSums(h), GivenBack(h, R))
    BY <2>1 DEF Balanced
  <2>3. SumOver(RefundSums(h), GivenBack(h, R) \cup {r}) = SumOver(RefundSums(h), GivenBack(h, R)) + a
    <3>1. /\ IsFiniteSet(GivenBack(h, R)) /\ RefundSums(h)[r] = a
          /\ \A q \in GivenBack(h, R) \cup {r} : RefundSums(h)[q] \in Int
      BY DoneFinite DEF a
    <3> QED
      BY <1>1, <3>1, SumAdd
  <2>4. SumOver(RefundSums(h), GivenBack(h, R)) \in Int /\ AllocatedTotal(s.c) \in Int
    <3>1. /\ IsFiniteSet(GivenBack(h, R))
          /\ \A q \in GivenBack(h, R) : RefundSums(h)[q] \in Int
      BY DoneFinite
    <3>2. Fits(s.c)
      BY DEF Underway
    <3>3. IsFiniteSet(AccrualIds) /\ \A i \in AccrualIds : Allocated(s.c, i) \in Int
      BY <3>2, MonthsFacts, AllocatedNat
    <3>4. SumOver([i \in AccrualIds |-> Allocated(s.c, i)], AccrualIds) \in Int
      <4> DEFINE f == [i \in AccrualIds |-> Allocated(s.c, i)]
      <4>1. \A i \in AccrualIds : f[i] \in Int
        BY <3>3
      <4> HIDE DEF f
      <4>2. SumOver(f, AccrualIds) \in Int
        BY <3>3, <4>1, SumInt
      <4> QED
        BY <4>2 DEF f
    <3>5. AllocatedTotal(s.c) \in Int
      BY <3>4 DEF AllocatedTotal
    <3>6. SumOver(RefundSums(h), GivenBack(h, R)) \in Int
      BY <3>1, SumInt
    <3> QED
      BY <3>5, <3>6
  <2>5. t.credit \in Nat /\ (t.credit > 0 => PaidUp(t.c))
    BY <1>2, <1>5, <2>1, <2>2
  <2>6. SumOver(PaidSums(h), Done(h, R))
          = AllocatedTotal(s.c) + s.penaltyPaid + (s.credit - a)
              + (SumOver(RefundSums(h), GivenBack(h, R)) + a)
    <3> DEFINE x == SumOver(RefundSums(h), GivenBack(h, R))
               y == AllocatedTotal(s.c)
               w == SumOver(PaidSums(h), Done(h, R))
    <3>1. x \in Int /\ y \in Int /\ a \in Int /\ s.penaltyPaid \in Int /\ s.credit \in Int
      BY <1>2, <1>4, <2>4
    <3>2. w = y + s.penaltyPaid + s.credit + x
      BY <2>2
    <3> HIDE DEF x, y, w
    <3>3. w = y + s.penaltyPaid + (s.credit - a) + (x + a)
      BY <3>1, <3>2
    <3> QED
      BY <3>3 DEF x, y, w
  <2> QED
    BY <1>1, <1>5, <2>3, <2>5, <2>6
<1>9. Covered(h, R \cup {e}, t, today)
  BY <1>5 DEF Covered, PaidUntil
<1> QED
  BY <1>7, <1>8, <1>9

\* One event of a history, taken after the events R.
LEMMA EventStep ==
  ASSUME NEW h, Blank(h), NEW R, NEW s, Underway(h, R, s), NEW today \in Nat,
         NEW e \in Events(h), e \notin R, NEW t, t = ReplayEvent(s, e, today)
  PROVE  \/ /\ e = [kind |-> "payment", id |-> e.id] /\ e.id \in Active(h) /\ e.id \notin Done(h, R)
            /\ EventDay(h, e) \in Nat /\ t = ReplayPayment(s, e.id, EventDay(h, e), today)
         \/ /\ e = [kind |-> "refund", id |-> e.id] /\ e.id \in DOMAIN h.refunds
            /\ t = ReplayRefund(s, e.id)
<1>0. Fits(h) /\ RefundsFit(h) /\ DOMAIN h.payments \subseteq Nat
  BY DEF Blank
<1>1. /\ e = [kind |-> e.kind, id |-> e.id]
      /\ e.kind \in {"payment", "refund"} /\ EventDay(h, e) \in Nat
      /\ e.kind = "payment" => e.id \in Active(h)
      /\ e.kind = "refund" => e.id \in DOMAIN h.refunds
  BY <1>0, EventsFacts
<1>2. CASE e.kind = "payment"
  <2>1. e.id \in Active(h) /\ e = [kind |-> "payment", id |-> e.id]
    BY <1>1, <1>2
  <2>2. e.id \notin Done(h, R)
    BY <2>1 DEF Done
  <2>3. EventDay(h, e) = MoscowDay(s.c.payments[e.id].at)
    <3>1. s.c.payments[e.id] = h.payments[e.id]
      BY <2>1, <2>2 DEF Underway, Active
    <3> QED
      BY <1>2, <3>1 DEF EventDay
  <2>4. t = ReplayPayment(s, e.id, EventDay(h, e), today)
    BY <1>2, <2>3 DEF ReplayEvent
  <2> QED
    BY <1>1, <2>1, <2>2, <2>4
<1>3. CASE e.kind = "refund"
  <2>1. e.id \in DOMAIN h.refunds /\ e = [kind |-> "refund", id |-> e.id]
    BY <1>1, <1>3
  <2>2. t = ReplayRefund(s, e.id)
    BY <1>3 DEF ReplayEvent
  <2> QED
    BY <2>1, <2>2
<1> QED
  BY <1>1, <1>2, <1>3

-----------------------------------------------------------------------------
(* When credit is left *)

\* A plan that leaves credit has paid all the penalty that was owed.
LEMMA PlanPenalty ==
  ASSUME NEW c, Fits(c), NEW day \in Nat, NEW money \in Int, NEW owed \in Int,
         FifoPlan(c, day, money, owed).credit > 0
  PROVE  owed <= FifoPlan(c, day, money, owed).penalty
<1> DEFINE left == DueLeft(c, day, money)
           share == PenaltyShare(c, day, money, owed)
           later == LaterMoney(c, day, money, owed)
<1>1. /\ FifoPlan(c, day, money, owed).penalty = share
      /\ FifoPlan(c, day, money, owed).credit = Left(RoomOf(c), LaterOn(c, day), later)
      /\ FifoPlan(c, day, money, owed).alloc = [i \in AccrualIds |->
            IF i \in DueOn(c, day) THEN Pour(RoomOf(c), DueOn(c, day), money)[i]
            ELSE IF i \in LaterOn(c, day) THEN Pour(RoomOf(c), LaterOn(c, day), later)[i] ELSE 0]
  BY PlanParts
<1>2. /\ IsFiniteSet(DueOn(c, day)) /\ IsFiniteSet(LaterOn(c, day))
      /\ \A i \in DueOn(c, day) : RoomOf(c)[i] \in Nat
      /\ \A i \in LaterOn(c, day) : RoomOf(c)[i] \in Nat
  <2>1. DueOn(c, day) \subseteq AccrualIds /\ LaterOn(c, day) \subseteq AccrualIds
    BY DEF DueOn, LaterOn, Live
  <2> QED
    BY <2>1, RoomNat, MonthsFacts, FS_Subset
<1>3. left \in Nat
  BY <1>2, LeftFacts DEF DueLeft
<1>4. PICK m \in Int : m = Max({owed, 0}) /\ m >= owed /\ m >= 0
  <2>1. 0 \in Int
    OBVIOUS
  <2> QED
    BY <2>1, MaxOf, Zenon
<1>5. share \in Int /\ share <= left /\ share <= m /\ (share = left \/ share = m)
  <2>1. share = Min({left, m})
    BY <1>4 DEF PenaltyShare
  <2>2. left \in Int
    BY <1>3
  <2> HIDE DEF share, left
  <2> QED
    BY <1>4, <2>1, <2>2, MinOf, Zenon
<1>6. later = left - share
  BY DEF LaterMoney
<1> HIDE DEF left, share, later
<1>7. later \in Int
  BY <1>3, <1>5, <1>6
<1>8. later <= 0 => Left(RoomOf(c), LaterOn(c, day), later) = 0
  BY <1>2, <1>7, LeftFacts
<1>9. later > 0
  BY <1>1, <1>7, <1>8
<1> QED
  BY <1>1, <1>3, <1>4, <1>5, <1>6, <1>9

\* A plan for a contract that is paid up leaves all the money as credit.
LEMMA PlanNothing ==
  ASSUME NEW c, Fits(c), PaidUp(c), NEW day \in Nat, NEW money \in Nat, NEW owed \in Int, owed <= 0
  PROVE  /\ FifoPlan(c, day, money, owed).alloc = NoAllocation
         /\ FifoPlan(c, day, money, owed).penalty = 0
         /\ FifoPlan(c, day, money, owed).credit = money
<1> DEFINE plan == FifoPlan(c, day, money, owed)
<1>0. money \in Int /\ money >= 0
  OBVIOUS
<1>1. /\ plan.alloc \in [AccrualIds -> Nat]
      /\ \A i \in AccrualIds : plan.alloc[i] <= Room(c, i)
      /\ \A i \in AccrualIds \ Live(c) : plan.alloc[i] = 0
      /\ plan.penalty \in Nat /\ plan.credit \in Nat
      /\ plan.penalty = 0 \/ plan.penalty <= owed
      /\ SumOver(plan.alloc, AccrualIds) + plan.penalty + plan.credit = money
  BY <1>0, PlanFacts
<1> HIDE DEF plan
<1>2. \A i \in AccrualIds : plan.alloc[i] = 0
  <2> TAKE i \in AccrualIds
  <2>1. plan.alloc[i] \in Nat /\ plan.alloc[i] <= Room(c, i)
    BY <1>1
  <2>2. CASE i \in Live(c)
    BY <2>1, <2>2 DEF PaidUp
  <2> QED
    BY <1>1, <2>2
<1>3. plan.alloc = NoAllocation
  <2>1. plan.alloc = [i \in AccrualIds |-> plan.alloc[i]]
    BY <1>1
  <2> QED
    BY <1>2, <2>1 DEF NoAllocation
<1>4. SumOver(plan.alloc, AccrualIds) = 0
  BY <1>2, MonthsFacts, SumZero
<1>5. plan.penalty = 0
  BY <1>1
<1> QED
  BY <1>1, <1>3, <1>4, <1>5 DEF plan

\* No allocation of c belongs to a payment dated after the day.
AllocatedUntil(c, day) ==
    \A p \in Active(c) : MoscowDay(c.payments[p].at) <= day \/ c.payments[p].alloc = NoAllocation

\* Nothing is overdue on the days a contract is paid up.
LEMMA NothingOverdueWhenPaid ==
  ASSUME NEW c, Fits(c), PaidUp(c), NEW day \in Nat, AllocatedUntil(c, day)
  PROVE  OverdueSum(c, day) = 0
<1>1. ASSUME NEW i \in Live(c) PROVE ~(LeftOn(c, day)[i] > 0)
  <2>0. i \in AccrualIds
    BY DEF Live
  <2>1. SumOver(AllocTo(c, i), PaidBy(c, day)) = Allocated(c, i)
    <3>1. PaidBy(c, day) \in SUBSET (DOMAIN c.payments)
      BY DEF PaidBy, Active
    <3>2. \A p \in DOMAIN c.payments : AllocTo(c, i)[p] \in Int
      BY <2>0, AllocToType
    <3>3. ASSUME NEW p \in DOMAIN c.payments \ PaidBy(c, day) PROVE AllocTo(c, i)[p] = 0
      <4>1. c.payments[p].alloc = NoAllocation
        <5>1. CASE p \in Active(c)
          BY <5>1 DEF PaidBy, AllocatedUntil
        <5>2. CASE p \notin Active(c)
          BY <5>2 DEF Active, Fits, PaymentFits
        <5> QED
          BY <5>1, <5>2
      <4> QED
        BY <2>0, <4>1 DEF AllocTo, NoAllocation
    <3>4. IsFiniteSet(DOMAIN c.payments)
      BY DEF Fits
    <3>5. SumOver(AllocTo(c, i), PaidBy(c, day)) = SumOver(AllocTo(c, i), DOMAIN c.payments)
      BY <3>1, <3>2, <3>3, <3>4, SumSupport
    <3> QED
      BY <3>5 DEF Allocated
  <2>2. LeftOn(c, day)[i] = Total(c, i) - Allocated(c, i)
    BY <2>0, <2>1 DEF LeftOn
  <2>3. Room(c, i) = 0 /\ Room(c, i) >= Total(c, i) - Allocated(c, i)
    BY <2>0, RoomNat DEF PaidUp
  <2>4. Total(c, i) \in Nat /\ Allocated(c, i) \in Nat
    BY <2>0, AllocatedNat DEF Fits
  <2> QED
    BY <2>2, <2>3, <2>4
<1> DEFINE f == [i \in AccrualIds |-> IF Accrual[i].daily THEN LeftOn(c, day)[i] ELSE Total(c, i)]
           due == {i \in Live(c) :
                /\ day >= Accrual[i].penaltyFrom
                /\ ~(Accrual[i].exempt /\ day <= MatCapital.until)
                /\ LeftOn(c, day)[i] > 0}
<1>2. due = {}
  BY <1>1
<1>3. OverdueSum(c, day) = SumOver(f, due)
  BY DEF OverdueSum, OverdueOf
<1> HIDE DEF due, f
<1> QED
  BY <1>2, <1>3, SumEmpty

\* No penalty accrues once a contract is paid up.
LEMMA AccruedStops ==
  ASSUME NEW c, Fits(c), Ends(c), PaidUp(c), NEW today \in Nat, NEW day \in Nat, NEW later \in Nat,
         day <= later, AllocatedUntil(c, day)
  PROVE  AccruedBefore(c, later, today) = AccruedBefore(c, day, today)
<1> DEFINE A == DaysBefore(c, day, today)
           B == DaysBefore(c, later, today)
           f == [d \in A |-> DailyPenalty(OverdueSum(c, d))]
           g == [d \in B |-> DailyPenalty(OverdueSum(c, d))]
<1>1. /\ IsFiniteSet(A) /\ IsFiniteSet(B)
      /\ \A d \in A : d \in Nat
      /\ \A d \in B : d \in Nat
      /\ \A d \in Nat : d \in A <=>
               /\ PenaltyStart(c) # None /\ PenaltyStart(c) <= d
               /\ d < day /\ d <= PenaltyEnd(c, today)
      /\ \A d \in Nat : d \in B <=>
               /\ PenaltyStart(c) # None /\ PenaltyStart(c) <= d
               /\ d < later /\ d <= PenaltyEnd(c, today)
  <2>1. day \in Int /\ later \in Int
    OBVIOUS
  <2> QED
    BY <2>1, DaysFacts
<1>2. A \in SUBSET B
  BY <1>1
<1>3. \A d \in Nat : DailyPenalty(OverdueSum(c, d)) \in Int
  <2> TAKE d \in Nat
  <2>1. d \in Int
    OBVIOUS
  <2> QED
    BY <2>1, OverdueNat, DailyPenaltyNat
<1>4. ASSUME NEW d \in B \ A PROVE g[d] = 0
  <2>1. d \in Nat /\ day <= d
    BY <1>1
  <2>2. AllocatedUntil(c, d)
    <3> SUFFICES ASSUME NEW p \in Active(c), c.payments[p].alloc # NoAllocation
                 PROVE  MoscowDay(c.payments[p].at) <= d
      BY DEF AllocatedUntil
    <3>1. MoscowDay(c.payments[p].at) <= day
      BY DEF AllocatedUntil
    <3>2. MoscowDay(c.payments[p].at) \in Nat
      BY TimeFacts DEF Active, Fits, PaymentFits
    <3> QED
      BY <2>1, <3>1, <3>2
  <2> QED
    BY <2>1, <2>2, NothingOverdueWhenPaid, DailyPenaltyZero
<1>5. /\ AccruedBefore(c, day, today) = SumOver(f, A)
      /\ AccruedBefore(c, later, today) = SumOver(g, B)
  BY AccruedDef
<1>6. \A d \in B : g[d] \in Int
  BY <1>1, <1>3
<1>7. \A d \in A : f[d] \in Int /\ f[d] = g[d]
  BY <1>1, <1>2, <1>3
<1> HIDE DEF A, B, f, g
<1>8. SumOver(g, A) = SumOver(g, B)
  BY <1>1, <1>2, <1>4, <1>6, SumSupport
<1>9. SumOver(f, A) = SumOver(g, A)
  BY <1>1, <1>7, SumEqual
<1> QED
  BY <1>5, <1>8, <1>9

\* The penalty accrued before the day of a payment does not depend on it.
LEMMA AccruedAfterPayment ==
  ASSUME NEW h, Blank(h), NEW R, NEW s, Underway(h, R, s), NEW p \in Active(h), p \notin Done(h, R),
         NEW e, e = [kind |-> "payment", id |-> p],
         NEW day \in Nat, day = EventDay(h, e), NEW today \in Nat,
         NEW t, t = ReplayPayment(s, p, day, today)
  PROVE  /\ Fits(t.c) /\ Ends(t.c) /\ Reallocates(s.c, t.c)
         /\ AccruedBefore(t.c, day, today) = AccruedBefore(s.c, day, today)
<1>1. /\ p \in Active(s.c) /\ MoneyOf(s, p) \in Int /\ OwedOn(s, day, today) \in Int
      /\ Fits(s.c) /\ Ends(s.c) /\ s.c.payments[p] = h.payments[p]
  BY NotDone
<1>2. Placed(s.c, t.c, p, day, MoneyOf(s, p), OwedOn(s, day, today))
  BY PaymentReplayed
<1>3. Fits(t.c) /\ Ends(t.c) /\ Reallocates(s.c, t.c)
  <2>1. Fits(t.c) /\ Reallocates(s.c, t.c)
    BY <1>1, <1>2, PlacedFits DEF Placed
  <2> QED
    BY <1>1, <2>1 DEF Ends, Reallocates
<1>4. SameBefore(s.c, t.c, day)
  <2>1. \A x : PaidBy(t.c, x) = PaidBy(s.c, x)
    BY <1>3, ReallocatesFacts
  <2>2. ASSUME NEW x \in Nat, x < day, NEW q \in PaidBy(s.c, x)
        PROVE  t.c.payments[q].alloc = s.c.payments[q].alloc
    <3>1. MoscowDay(s.c.payments[p].at) = day
      BY <1>1 DEF EventDay
    <3>2. q # p
      <4>1. MoscowDay(s.c.payments[q].at) <= x
        BY DEF PaidBy
      <4> QED
        BY <2>2, <3>1, <4>1
    <3>3. q \in DOMAIN s.c.payments
      BY DEF PaidBy, Active
    <3> QED
      BY <1>2, <3>2, <3>3 DEF Placed
  <2> QED
    BY <1>3, <2>1, <2>2 DEF SameBefore, Reallocates
<1>5. AccruedBefore(t.c, day, today) = AccruedBefore(s.c, day, today)
  BY <1>1, <1>3, <1>4, AccruedSame
<1> QED
  BY <1>3, <1>5

\* Only payments that are done have allocations.
LEMMA DoneAllocated ==
  ASSUME NEW h, Blank(h), NEW S, NEW s, Underway(h, S, s), NEW day \in Nat, PaidUntil(h, S, day)
  PROVE  AllocatedUntil(s.c, day)
<1>1. Active(s.c) = Active(h) /\ Reallocates(h, s.c)
  BY ReallocatesFacts DEF Underway
<1>2. ASSUME NEW p \in Active(s.c)
      PROVE  MoscowDay(s.c.payments[p].at) <= day \/ s.c.payments[p].alloc = NoAllocation
  <2>1. p \in DOMAIN h.payments /\ p \in Active(h)
    BY <1>1 DEF Active
  <2>2. CASE p \in Done(h, S)
    <3>1. [kind |-> "payment", id |-> p] \in S
      BY <2>2 DEF Done
    <3>2. EventDay(h, [kind |-> "payment", id |-> p]) <= day
      BY <3>1 DEF PaidUntil
    <3>3. EventDay(h, [kind |-> "payment", id |-> p]) = MoscowDay(h.payments[p].at)
      BY DEF EventDay
    <3>4. s.c.payments[p].at = h.payments[p].at
      BY <1>1, <2>1 DEF Reallocates
    <3> QED
      BY <3>2, <3>3, <3>4
  <2>3. CASE p \notin Done(h, S)
    <3>1. s.c.payments[p] = h.payments[p]
      BY <2>1, <2>3 DEF Underway
    <3> QED
      BY <2>1, <3>1 DEF Blank
  <2> QED
    BY <2>2, <2>3
<1> QED
  BY <1>2 DEF AllocatedUntil

\* Where credit is left, all the penalty accrued is paid, and none accrues any more.
Saturated(h, S, s, today) ==
    s.credit > 0 =>
        \A day \in Nat : PaidUntil(h, S, day) => AccruedBefore(s.c, day, today) <= s.penaltyPaid

\* Replaying a payment that leaves credit pays all the penalty.
LEMMA PaymentSaturates ==
  ASSUME NEW h, Blank(h), NEW R, NEW s, Underway(h, R, s), NEW p \in Active(h), p \notin Done(h, R),
         NEW e, e = [kind |-> "payment", id |-> p],
         NEW day \in Nat, day = EventDay(h, e), \A o \in R : EventDay(h, o) <= day,
         NEW today \in Nat, day <= today, NEW t, t = ReplayPayment(s, p, day, today)
  PROVE  Saturated(h, R \cup {e}, t, today)
<1> DEFINE plan == PlanFor(s, p, day, today)
           money == MoneyOf(s, p)
           owed == OwedOn(s, day, today)
<1> SUFFICES ASSUME t.credit > 0, NEW D \in Nat, PaidUntil(h, R \cup {e}, D)
             PROVE  AccruedBefore(t.c, D, today) <= t.penaltyPaid
  BY DEF Saturated
<1>1. /\ money \in Int /\ owed \in Int /\ Fits(s.c) /\ s.penaltyPaid \in Nat
      /\ AccruedBefore(s.c, day, today) \in Nat
  BY NotDone
<1>2. /\ t.penaltyPaid = s.penaltyPaid + plan.penalty
      /\ t.credit = plan.credit
  BY PaymentReplayed
<1>3. plan = FifoPlan(s.c, day, money, owed)
  BY DEF PlanFor
<1>4. owed = AccruedBefore(s.c, day, today) - s.penaltyPaid
  BY DEF OwedOn
<1>5. /\ Underway(h, R \cup {e}, t) /\ PaidUp(t.c) /\ plan.penalty \in Nat
  BY PaymentKeepsUnderway
<1> HIDE DEF plan, money, owed
<1>6. owed <= plan.penalty
  BY <1>1, <1>2, <1>3, PlanPenalty
<1>7. /\ Fits(t.c) /\ Ends(t.c)
      /\ AccruedBefore(t.c, day, today) = AccruedBefore(s.c, day, today)
  BY AccruedAfterPayment
<1>8. AllocatedUntil(t.c, day)
  <2>1. PaidUntil(h, R \cup {e}, day)
    BY DEF PaidUntil
  <2> QED
    BY <1>5, <2>1, DoneAllocated
<1>9. day <= D
  BY DEF PaidUntil
<1>10. AccruedBefore(t.c, D, today) = AccruedBefore(t.c, day, today)
  BY <1>5, <1>7, <1>8, <1>9, AccruedStops
<1> QED
  BY <1>1, <1>2, <1>4, <1>5, <1>6, <1>7, <1>10

\* Replaying a refund only takes from the credit.
LEMMA RefundSaturates ==
  ASSUME NEW h, Blank(h), NEW R, NEW s, Underway(h, R, s), NEW r \in DOMAIN h.refunds,
         NEW e, e = [kind |-> "refund", id |-> r], NEW today \in Nat,
         Saturated(h, R, s, today), NEW t, t = ReplayRefund(s, r)
  PROVE  Saturated(h, R \cup {e}, t, today)
<1>1. /\ t.c = s.c /\ t.penaltyPaid = s.penaltyPaid
      /\ t.credit = s.credit - s.c.refunds[r].amount
  BY RefundedIs DEF Underway
<1>2. s.credit \in Int /\ s.c.refunds[r].amount \in Nat
  BY DEF Underway, Reallocates, Blank, RefundsFit
<1>3. t.credit > 0 => s.credit > 0
  BY <1>1, <1>2
<1> QED
  BY <1>1, <1>3 DEF Saturated, PaidUntil

-----------------------------------------------------------------------------
(* The stages of a replay *)

IsReplay(g, h, today) ==
    /\ \A S \in SUBSET Events(h) : g[S] = ReplayStep(g, h, today, S)
    /\ g[Events(h)] = ReplayOf(h, today)

\* The state of the replay after every set of events.
Stages(h, today) == CHOOSE g : IsReplay(g, h, today)

\* The stages follow from one another, the latest event last.
LEMMA StagesAre ==
  ASSUME NEW h, Blank(h), NEW today
  PROVE  /\ IsFiniteSet(Events(h))
         /\ Stages(h, today)[{}] = Begun(h)
         /\ Stages(h, today)[Events(h)] = ReplayOf(h, today)
         /\ \A S \in SUBSET Events(h) : S # {} =>
               /\ Latest(h, S) \in S
               /\ \A o \in S : EventDay(h, o) <= EventDay(h, Latest(h, S))
               /\ Stages(h, today)[S]
                    = ReplayEvent(Stages(h, today)[S \ {Latest(h, S)}], Latest(h, S), today)
<1>0. Fits(h) /\ RefundsFit(h) /\ DOMAIN h.payments \subseteq Nat
  BY DEF Blank
<1>1. IsFiniteSet(Events(h))
  BY <1>0, EventsFacts
<1>2. \A S \in SUBSET Events(h) : S # {} =>
           /\ Latest(h, S) \in S
           /\ \A o \in S : EventDay(h, o) <= EventDay(h, Latest(h, S))
  BY <1>0, LatestFacts
<1>3. \A S \in SUBSET Events(h) : S # {} => Latest(h, S) \in S
  BY <1>2
<1>4. \E g : IsReplay(g, h, today)
  <2>1. PICK g : /\ \A S \in SUBSET Events(h) : g[S] = ReplayStep(g, h, today, S)
                 /\ g[Events(h)] = ReplayOf(h, today)
    BY <1>1, <1>3, ReplaySolves
  <2> QED
    BY <2>1 DEF IsReplay
<1>5. PICK g : g = Stages(h, today) /\ IsReplay(g, h, today)
  BY <1>4, Zenon DEF Stages
<1>6. \A S \in SUBSET Events(h) : g[S] = ReplayStep(g, h, today, S)
  BY <1>5 DEF IsReplay
<1>7. g[{}] = Begun(h)
  <2>1. {} \in SUBSET Events(h)
    OBVIOUS
  <2> QED
    BY <1>6, <2>1 DEF ReplayStep
<1>8. \A S \in SUBSET Events(h) : S # {} =>
         g[S] = ReplayEvent(g[S \ {Latest(h, S)}], Latest(h, S), today)
  BY <1>6 DEF ReplayStep
<1>9. g[Events(h)] = ReplayOf(h, today)
  BY <1>5 DEF IsReplay
<1> QED
  BY <1>1, <1>2, <1>5, <1>7, <1>8, <1>9

\* No payment of the history is dated after today.
Past(h, today) == \A p \in Active(h) : MoscowDay(h.payments[p].at) <= today

StageKept(h, S, s, today) ==
    /\ Underway(h, S, s) /\ Balanced(h, S, s) /\ Covered(h, S, s, today)
    /\ Past(h, today) => Saturated(h, S, s, today)

\* One event keeps what holds of every stage.
LEMMA StageStepKeeps ==
  ASSUME NEW h, Blank(h), NEW today \in Nat, NEW R, NEW s, StageKept(h, R, s, today),
         NEW e \in Events(h), e \notin R, \A o \in R : EventDay(h, o) <= EventDay(h, e),
         NEW t, t = ReplayEvent(s, e, today)
  PROVE  StageKept(h, R \cup {e}, t, today)
<1>1. /\ Underway(h, R, s) /\ Balanced(h, R, s) /\ Covered(h, R, s, today)
      /\ Past(h, today) => Saturated(h, R, s, today)
  BY DEF StageKept
<1>2. CASE /\ e = [kind |-> "payment", id |-> e.id] /\ e.id \in Active(h) /\ e.id \notin Done(h, R)
           /\ EventDay(h, e) \in Nat /\ t = ReplayPayment(s, e.id, EventDay(h, e), today)
  <2> DEFINE p == e.id
             day == EventDay(h, e)
  <2>1. /\ p \in Active(h) /\ p \notin Done(h, R) /\ e = [kind |-> "payment", id |-> p]
        /\ day \in Nat /\ t = ReplayPayment(s, p, day, today)
        /\ day = EventDay(h, e) /\ \A o \in R : EventDay(h, o) <= day
    BY <1>2
  <2>2. Past(h, today) => day <= today
    <3>1. day = MoscowDay(h.payments[p].at)
      BY <2>1 DEF EventDay
    <3> QED
      BY <2>1, <3>1 DEF Past
  <2> HIDE DEF p, day
  <2>3. Underway(h, R \cup {e}, t)
    BY <1>1, <2>1, PaymentKeepsUnderway
  <2>4. Balanced(h, R \cup {e}, t)
    BY <1>1, <2>1, PaymentKeepsBalance
  <2>5. Covered(h, R \cup {e}, t, today)
    BY <1>1, <2>1, PaymentKeepsCover
  <2>6. Past(h, today) => Saturated(h, R \cup {e}, t, today)
    BY <1>1, <2>1, <2>2, PaymentSaturates
  <2> QED
    BY <2>3, <2>4, <2>5, <2>6 DEF StageKept
<1>3. CASE /\ e = [kind |-> "refund", id |-> e.id] /\ e.id \in DOMAIN h.refunds
           /\ t = ReplayRefund(s, e.id)
  <2> DEFINE r == e.id
  <2>1. r \in DOMAIN h.refunds /\ e = [kind |-> "refund", id |-> r] /\ t = ReplayRefund(s, r)
    BY <1>3
  <2> HIDE DEF r
  <2>2. /\ Underway(h, R \cup {e}, t) /\ Balanced(h, R \cup {e}, t)
        /\ Covered(h, R \cup {e}, t, today)
    BY <1>1, <2>1, RefundReplayedKeeps
  <2>3. Past(h, today) => Saturated(h, R \cup {e}, t, today)
    BY <1>1, <2>1, RefundSaturates
  <2> QED
    BY <2>2, <2>3 DEF StageKept
<1> QED
  BY <1>1, <1>2, <1>3, EventStep

\* What every stage of a replay leaves, in whatever order the payments were entered.
LEMMA StagesKeep ==
  ASSUME NEW h, Blank(h), NEW today \in Nat
  PROVE  \A S \in SUBSET Events(h) : StageKept(h, S, Stages(h, today)[S], today)
<1> DEFINE g == Stages(h, today)
           P == {S \in SUBSET Events(h) : StageKept(h, S, g[S], today)}
<1>1. /\ IsFiniteSet(Events(h)) /\ g[{}] = Begun(h)
      /\ \A S \in SUBSET Events(h) : S # {} =>
               /\ Latest(h, S) \in S
               /\ \A o \in S : EventDay(h, o) <= EventDay(h, Latest(h, S))
               /\ g[S] = ReplayEvent(g[S \ {Latest(h, S)}], Latest(h, S), today)
  BY StagesAre
<1> HIDE DEF g
<1>2. ASSUME NEW S \in SUBSET Events(h), \A x \in S : S \ {x} \in P
      PROVE  S \in P
  <2>1. CASE S = {}
    <3>1. Begun(h).credit = 0
      BY DEF Begun
    <3>2. Saturated(h, {}, Begun(h), today)
      BY <3>1 DEF Saturated
    <3> QED
      BY <1>1, <2>1, <3>2, ReplayBegins DEF StageKept
  <2>2. CASE S # {}
    <3>1. PICK e \in S : /\ e = Latest(h, S) /\ \A o \in S : EventDay(h, o) <= EventDay(h, e)
                         /\ g[S] = ReplayEvent(g[S \ {e}], e, today)
      BY <1>1, <2>2
    <3>2. S \ {e} \in P
      BY <1>2
    <3>3. /\ StageKept(h, S \ {e}, g[S \ {e}], today) /\ e \in Events(h) /\ e \notin S \ {e}
          /\ \A o \in S \ {e} : EventDay(h, o) <= EventDay(h, e)
          /\ (S \ {e}) \cup {e} = S
      BY <3>1, <3>2
    <3> HIDE DEF P
    <3>4. StageKept(h, (S \ {e}) \cup {e}, g[S], today)
      BY <3>1, <3>3, StageStepKeeps
    <3>5. StageKept(h, S, g[S], today)
      BY <3>3, <3>4
    <3> QED
      BY <3>5 DEF P
  <2> QED
    BY <2>1, <2>2
<1> HIDE DEF P
<1>3. \A S \in SUBSET Events(h) : S \in P
  BY <1>1, <1>2, SubsetInduction
<1> QED
  BY <1>3 DEF P, g

\* What a replay leaves, in whatever order the payments were entered.
LEMMA ReplayKeeps ==
  ASSUME NEW h, Blank(h), NEW today \in Nat, NEW r, r = ReplayOf(h, today)
  PROVE  /\ Underway(h, Events(h), r) /\ Balanced(h, Events(h), r)
         /\ Covered(h, Events(h), r, today)
<1>1. r = Stages(h, today)[Events(h)]
  BY StagesAre
<1>2. StageKept(h, Events(h), Stages(h, today)[Events(h)], today)
  BY StagesKeep
<1> QED
  BY <1>1, <1>2 DEF StageKept

-----------------------------------------------------------------------------
(* The rows of a contract *)

\* The rows of a contract, as the program can leave them.
LedgerRows(c) ==
    /\ ContractRow(c)
    /\ c.payments \in Seq(PaymentType) /\ c.refunds \in Seq(RefundType)
    /\ c.adj \in [AccrualIds -> Int] /\ c.voided \in [AccrualIds -> BOOLEAN]
    /\ IsFiniteSet(DOMAIN c.log) /\ c.log = [d \in DOMAIN c.log |-> c.log[d]]
    /\ \A d \in DOMAIN c.log : d \in Nat /\ c.log[d] \in Nat
    /\ c.credit \in Nat /\ c.through \in Nat \cup {None} /\ c.pending \in BOOLEAN
    /\ c.status \in {"ACTIVE", "TERMINATED"} /\ c.actualEnd \in Nat \cup {None}

Billable(c) ==
    /\ LedgerRows(c) /\ Ends(c)
    /\ \A i \in AccrualIds : Total(c, i) \in Nat
    /\ \A p \in DOMAIN c.payments :
          /\ c.payments[p].reversed => c.payments[p].alloc = NoAllocation
          /\ c.payments[p].synced => c.payments[p].website
    /\ \A r \in DOMAIN c.refunds : c.refunds[r].credit = c.refunds[r].amount

\* The fields of a payment row and their types.
LEMMA PaymentTypeFacts ==
  ASSUME NEW x \in PaymentType
  PROVE  /\ PaymentRow(x) /\ x.amount \in Nat /\ x.at \in Nat /\ x.penalty \in Nat
         /\ x.alloc \in [AccrualIds -> Nat] /\ x.partial \subseteq AccrualIds
         /\ x.reversed \in BOOLEAN /\ x.website \in BOOLEAN /\ x.synced \in BOOLEAN
         /\ x.amount \in Amounts \cup OnlineAmounts
<1>1. PaymentRow(x)
  BY DEF PaymentType, PaymentRow
<1>2. Amounts \cup OnlineAmounts \subseteq Nat
  BY BoundsAssumption
<1> QED
  BY <1>1, <1>2 DEF PaymentType

\* What the rows of a contract give: finitely many payments and refunds, of their
\* types, and amounts the operators of the billing rules can add up.
LEMMA BillableFacts ==
  ASSUME NEW c, Billable(c)
  PROVE  /\ Fits(c) /\ RefundsFit(c) /\ Ends(c) /\ RowsShaped(c)
         /\ Len(c.payments) \in Nat /\ DOMAIN c.payments = 1..Len(c.payments)
         /\ Len(c.refunds) \in Nat /\ DOMAIN c.refunds = 1..Len(c.refunds)
         /\ \A p \in DOMAIN c.payments : c.payments[p] \in PaymentType
         /\ \A r \in DOMAIN c.refunds : c.refunds[r] \in RefundType
         /\ DOMAIN c.payments \subseteq Nat /\ IsFiniteSet(DOMAIN c.payments)
         /\ IsFiniteSet(DOMAIN c.refunds) /\ Active(c) \subseteq DOMAIN c.payments
         /\ IsFiniteSet(Active(c))
<1>1. /\ c.payments \in Seq(PaymentType) /\ c.refunds \in Seq(RefundType) /\ ContractRow(c)
      /\ c.voided \in [AccrualIds -> BOOLEAN]
  BY DEF Billable, LedgerRows
<1>2. /\ Len(c.payments) \in Nat /\ DOMAIN c.payments = 1..Len(c.payments)
      /\ c.payments = [p \in DOMAIN c.payments |-> c.payments[p]]
      /\ \A p \in DOMAIN c.payments : c.payments[p] \in PaymentType
  BY <1>1, LenProperties
<1>3. /\ Len(c.refunds) \in Nat /\ DOMAIN c.refunds = 1..Len(c.refunds)
      /\ \A r \in DOMAIN c.refunds : c.refunds[r] \in RefundType
  BY <1>1, LenProperties
<1>4. IsFiniteSet(DOMAIN c.payments) /\ IsFiniteSet(DOMAIN c.refunds)
  <2>1. \A n \in Nat : IsFiniteSet(1..n)
    BY FS_Interval
  <2> QED
    BY <1>2, <1>3, <2>1
<1>5. DOMAIN c.payments \subseteq Nat /\ DOMAIN c.refunds \subseteq Nat
  BY <1>2, <1>3
<1>6. Active(c) \subseteq DOMAIN c.payments
  BY DEF Active
<1>7. IsFiniteSet(Active(c))
  BY <1>4, <1>6, FS_Subset
<1>8. RowsShaped(c)
  BY <1>1, <1>2, PaymentTypeFacts DEF RowsShaped
<1>9. \A p \in DOMAIN c.payments : PaymentFits(c.payments[p])
  <2> TAKE p \in DOMAIN c.payments
  <2>1. c.payments[p] \in PaymentType
    BY <1>2
  <2>2. c.payments[p].reversed => c.payments[p].alloc = NoAllocation
    BY DEF Billable
  <2> QED
    BY <2>1, <2>2, PaymentTypeFacts DEF PaymentFits
<1>10. Fits(c)
  BY <1>1, <1>4, <1>9 DEF Fits, Billable
<1>11. \A r \in DOMAIN c.refunds : c.refunds[r].amount \in Nat /\ c.refunds[r].day \in Nat
  BY <1>3, BoundsAssumption DEF RefundType
<1>12. RefundsFit(c)
  BY <1>4, <1>5, <1>11 DEF RefundsFit
<1>13. Ends(c)
  BY DEF Billable
<1> QED
  BY <1>2, <1>3, <1>4, <1>5, <1>6, <1>7, <1>8, <1>10, <1>12, <1>13

\* What the replay reads of a contract.
BlankRow(x) == [x EXCEPT !.alloc = NoAllocation, !.partial = {}, !.penalty = 0,
                         !.website = FALSE, !.synced = FALSE]

\* A payment row without its allocation and penalty, field by field.
LEMMA BlankRowIs ==
  ASSUME NEW x, PaymentRow(x)
  PROVE  BlankRow(x) = [amount |-> x.amount, at |-> x.at, penalty |-> 0, alloc |-> NoAllocation,
                        partial |-> {}, reversed |-> x.reversed, website |-> FALSE,
                        synced |-> FALSE]
<1> DEFINE y == BlankRow(x)
<1>1. DOMAIN x = {"amount", "at", "penalty", "alloc", "partial", "reversed", "website", "synced"}
  BY DEF PaymentRow
<1>2. DOMAIN y = DOMAIN x /\ y = [f \in DOMAIN y |-> y[f]]
  BY DEF BlankRow
<1>3. /\ y.amount = x.amount /\ y.at = x.at /\ y.reversed = x.reversed
      /\ y.website = FALSE /\ y.synced = FALSE
      /\ y.alloc = NoAllocation /\ y.partial = {} /\ y.penalty = 0
  BY <1>1 DEF BlankRow
<1> HIDE DEF y
<1>4. y = [amount |-> x.amount, at |-> x.at, penalty |-> 0, alloc |-> NoAllocation,
           partial |-> {}, reversed |-> x.reversed, website |-> FALSE, synced |-> FALSE]
  BY <1>1, <1>2, <1>3
<1> QED
  BY <1>4 DEF y

\* The history of a contract, field by field.
LEMMA HistoryIs ==
  ASSUME NEW c, ContractRow(c)
  PROVE  History(c) = [payments |-> [p \in DOMAIN c.payments |-> BlankRow(c.payments[p])],
                       refunds |-> c.refunds, adj |-> c.adj, voided |-> c.voided,
                       log |-> <<>>, credit |-> 0, through |-> None, pending |-> FALSE,
                       status |-> c.status, actualEnd |-> c.actualEnd]
<1> DEFINE rows == [p \in DOMAIN c.payments |-> BlankRow(c.payments[p])]
           h == History(c)
<1>0. h = [c EXCEPT !.payments = rows, !.log = <<>>, !.credit = 0, !.through = None,
                    !.pending = FALSE]
  BY Zenon DEF History, BlankRow
<1> HIDE DEF rows, h
<1>1. DOMAIN c = {"payments", "refunds", "adj", "voided", "log", "credit", "through", "pending",
                  "status", "actualEnd"}
  BY DEF ContractRow
<1>2. DOMAIN h = DOMAIN c /\ h = [f \in DOMAIN h |-> h[f]]
  BY <1>0
<1>3. /\ h.payments = rows /\ h.refunds = c.refunds /\ h.adj = c.adj /\ h.voided = c.voided
      /\ h.log = <<>> /\ h.credit = 0 /\ h.through = None /\ h.pending = FALSE
      /\ h.status = c.status /\ h.actualEnd = c.actualEnd
  BY <1>0, <1>1
<1>4. h = [payments |-> rows, refunds |-> c.refunds, adj |-> c.adj, voided |-> c.voided,
           log |-> <<>>, credit |-> 0, through |-> None, pending |-> FALSE,
           status |-> c.status, actualEnd |-> c.actualEnd]
  BY <1>1, <1>2, <1>3
<1> QED
  BY <1>4 DEF h, rows

\* The history of a contract is blank, and the contract is a reallocation of it.
LEMMA HistoryBlank ==
  ASSUME NEW c, Billable(c), NEW h, h = History(c)
  PROVE  /\ Blank(h) /\ Reallocates(c, h) /\ Reallocates(h, c)
         /\ Active(h) = Active(c) /\ DOMAIN h.payments = DOMAIN c.payments
         /\ h.refunds = c.refunds
<1> DEFINE rows == [p \in DOMAIN c.payments |-> BlankRow(c.payments[p])]
<1>1. ContractRow(c) /\ RowsShaped(c) /\ Fits(c) /\ RefundsFit(c) /\ Ends(c)
      /\ DOMAIN c.payments \subseteq Nat
  BY BillableFacts DEF Billable, LedgerRows
<1>2. \A p \in DOMAIN c.payments : PaymentRow(c.payments[p])
  BY <1>1 DEF RowsShaped
<1>3. h = [payments |-> rows, refunds |-> c.refunds, adj |-> c.adj, voided |-> c.voided,
           log |-> <<>>, credit |-> 0, through |-> None, pending |-> FALSE,
           status |-> c.status, actualEnd |-> c.actualEnd]
  BY <1>1, HistoryIs
<1>4. /\ DOMAIN rows = DOMAIN c.payments /\ rows = [p \in DOMAIN rows |-> rows[p]]
      /\ \A p \in DOMAIN c.payments : rows[p] = BlankRow(c.payments[p])
  OBVIOUS
<1> HIDE DEF rows
<1>5. /\ ContractRow(h) /\ h.payments = rows /\ h.refunds = c.refunds /\ h.adj = c.adj
      /\ h.voided = c.voided /\ h.status = c.status /\ h.actualEnd = c.actualEnd
  BY <1>3 DEF ContractRow
<1>6. ASSUME NEW p \in DOMAIN c.payments
      PROVE  /\ PaymentRow(rows[p]) /\ rows[p].amount = c.payments[p].amount
             /\ rows[p].at = c.payments[p].at /\ rows[p].reversed = c.payments[p].reversed
             /\ rows[p].alloc = NoAllocation /\ rows[p].partial = {} /\ rows[p].penalty = 0
  <2>1. rows[p] = [amount |-> c.payments[p].amount, at |-> c.payments[p].at, penalty |-> 0,
                   alloc |-> NoAllocation, partial |-> {}, reversed |-> c.payments[p].reversed,
                   website |-> FALSE, synced |-> FALSE]
    BY <1>2, <1>4, BlankRowIs
  <2> QED
    BY <2>1 DEF PaymentRow
<1>7. RowsShaped(h)
  BY <1>4, <1>5, <1>6 DEF RowsShaped
<1>8. Reallocates(c, h) /\ Reallocates(h, c)
  BY <1>4, <1>5, <1>6 DEF Reallocates
<1>9. Fits(h)
  <2>1. NoAllocation \in [AccrualIds -> Nat]
    BY DEF NoAllocation
  <2>2. \A p \in DOMAIN c.payments : PaymentFits(rows[p])
    BY <1>1, <1>6, <2>1 DEF Fits, PaymentFits
  <2>3. \A i \in AccrualIds : Total(h, i) = Total(c, i)
    BY <1>5 DEF Total
  <2> QED
    BY <1>1, <1>4, <1>5, <2>2, <2>3 DEF Fits
<1>10. RefundsFit(h) /\ Ends(h)
  BY <1>1, <1>5 DEF RefundsFit, Ends
<1>11. Blank(h)
  BY <1>1, <1>4, <1>5, <1>6, <1>7, <1>9, <1>10 DEF Blank
<1>12. Active(h) = Active(c)
  BY <1>8, ReallocatesFacts
<1> QED
  BY <1>4, <1>5, <1>8, <1>11, <1>12

\* All events: every payment that is not reversed, and every refund.
LEMMA AllDone ==
  ASSUME NEW h
  PROVE  Done(h, Events(h)) = Active(h) /\ GivenBack(h, Events(h)) = DOMAIN h.refunds
<1>1. \A p \in Active(h) : [kind |-> "payment", id |-> p] \in Events(h)
  BY DEF Events
<1>2. \A r \in DOMAIN h.refunds : [kind |-> "refund", id |-> r] \in Events(h)
  BY DEF Events
<1> QED
  BY <1>1, <1>2 DEF Done, GivenBack

\* The replay of the whole history of a contract.
LEMMA ReplayFacts ==
  ASSUME NEW c, Billable(c), NEW today \in Nat, NEW r, r = Replay(c, today)
  PROVE  /\ StateRow(r) /\ RowsShaped(r.c) /\ Reallocates(c, r.c) /\ Fits(r.c) /\ Ends(r.c)
         /\ \A p \in DOMAIN c.payments :
              /\ r.c.payments[p].partial \subseteq AccrualIds
              /\ p \notin Active(c) => r.c.payments[p].alloc = NoAllocation
         /\ Within(r.c) /\ PaidInOrder(r.c)
         /\ PenaltyPaid(r.c) \in Nat /\ r.credit \in Int /\ r.overdrawn \in BOOLEAN
         /\ PenaltyPaid(r.c) <= AccruedBefore(r.c, today + 1, today)
         /\ ~r.overdrawn =>
              /\ r.credit \in Nat /\ (r.credit > 0 => PaidUp(r.c))
              /\ Received(c) = AllocatedTotal(r.c) + PenaltyPaid(r.c) + r.credit + Refunded(c)
<1> DEFINE h == History(c)
           E == Events(h)
<1>1. /\ Blank(h) /\ Reallocates(c, h) /\ Active(h) = Active(c)
      /\ DOMAIN h.payments = DOMAIN c.payments /\ h.refunds = c.refunds
  BY HistoryBlank
<1>2. r = ReplayOf(h, today)
  BY DEF Replay
<1> HIDE DEF h
<1>3. Underway(h, E, r) /\ Balanced(h, E, r) /\ Covered(h, E, r, today)
  BY <1>1, <1>2, ReplayKeeps
<1>4. Done(h, E) = Active(c) /\ GivenBack(h, E) = DOMAIN c.refunds
  BY <1>1, AllDone
<1>5. Reallocates(c, r.c)
  BY <1>1, <1>3, ReallocatesTwice DEF Underway
<1>6. \A p \in DOMAIN c.payments :
         /\ r.c.payments[p].partial \subseteq AccrualIds
         /\ p \notin Active(c) => r.c.payments[p].alloc = NoAllocation
  BY <1>1, <1>3, <1>4 DEF Underway, Blank
<1>7. Fits(r.c) /\ Ends(r.c)
  <2>1. Ends(c)
    BY BillableFacts
  <2> QED
    BY <1>3, <1>5, <2>1 DEF Underway, Ends, Reallocates
<1>8. /\ StateRow(r) /\ RowsShaped(r.c) /\ Within(r.c) /\ PaidInOrder(r.c)
      /\ r.penaltyPaid = PenaltyPaid(r.c) /\ r.penaltyPaid \in Nat
      /\ r.credit \in Int /\ r.overdrawn \in BOOLEAN
  BY <1>3 DEF Underway
<1>9. r.penaltyPaid <= AccruedBefore(r.c, today + 1, today)
  <2>1. \E D \in Nat : D >= today + 1 /\ \A e \in E : EventDay(h, e) <= D
    <3>1. Fits(h) /\ RefundsFit(h) /\ DOMAIN h.payments \subseteq Nat
      BY <1>1 DEF Blank
    <3>2. \A e \in E : EventDay(h, e) \in Nat
      BY <3>1, EventsFacts
    <3>3. CASE E = {}
      BY <3>3
    <3>4. CASE E # {}
      <4>1. /\ Latest(h, E) \in E
            /\ \A o \in E : EventDay(h, o) <= EventDay(h, Latest(h, E))
        BY <3>1, <3>4, LatestFacts
      <4> DEFINE D == EventDay(h, Latest(h, E)) + today + 1
      <4>2. EventDay(h, Latest(h, E)) \in Nat
        BY <3>2, <4>1
      <4>3. D \in Nat /\ D >= today + 1 /\ EventDay(h, Latest(h, E)) <= D
        BY <4>2
      <4>4. \A e \in E : EventDay(h, e) <= D
        <5> TAKE e \in E
        <5>1. EventDay(h, e) \in Nat /\ EventDay(h, e) <= EventDay(h, Latest(h, E))
          BY <3>2, <4>1
        <5> QED
          BY <4>2, <5>1
      <4> HIDE DEF D
      <4> QED
        BY <4>3, <4>4
    <3> QED
      BY <3>3, <3>4
  <2>2. PICK D \in Nat : D >= today + 1 /\ \A e \in E : EventDay(h, e) <= D
    BY <2>1
  <2>3. r.penaltyPaid <= AccruedBefore(r.c, D, today)
    BY <1>3, <2>2 DEF Covered, PaidUntil
  <2>4. AccruedBefore(r.c, D, today) = AccruedBefore(r.c, today + 1, today)
    <3>1. Min({D - 1, PenaltyEnd(r.c, today)}) = Min({today + 1 - 1, PenaltyEnd(r.c, today)})
      <4> DEFINE e == PenaltyEnd(r.c, today)
                 x == D - 1
                 y == today + 1 - 1
      <4>1. e \in Nat /\ e <= today
        BY <1>7, EndFacts
      <4>2. x \in Int /\ y \in Int /\ e <= x /\ e <= y /\ e \in Int
        BY <2>2, <4>1
      <4> HIDE DEF e, x, y
      <4>3. Min({x, e}) = e
        <5>1. Min({x, e}) <= e /\ (Min({x, e}) = x \/ Min({x, e}) = e) /\ Min({x, e}) \in Int
          BY <4>2, MinOf, Zenon
        <5> QED
          BY <4>2, <5>1
      <4>4. Min({y, e}) = e
        <5>1. Min({y, e}) <= e /\ (Min({y, e}) = y \/ Min({y, e}) = e) /\ Min({y, e}) \in Int
          BY <4>2, MinOf, Zenon
        <5> QED
          BY <4>2, <5>1
      <4> QED
        BY <4>3, <4>4 DEF e, x, y
    <3> QED
      <4>1. DaysBefore(r.c, D, today) = DaysBefore(r.c, today + 1, today)
        BY <3>1 DEF DaysBefore
      <4> QED
        BY <4>1, AccruedDef
  <2> QED
    BY <2>3, <2>4
<1>10. ~r.overdrawn =>
         /\ r.credit \in Nat /\ (r.credit > 0 => PaidUp(r.c))
         /\ Received(c) = AllocatedTotal(r.c) + PenaltyPaid(r.c) + r.credit + Refunded(c)
  <2>1. SumOver(PaidSums(h), Active(c)) = Received(c)
    <3>1. IsFiniteSet(Active(c)) /\ Active(c) \subseteq DOMAIN c.payments
      BY BillableFacts
    <3>2. \A p \in Active(c) : PaidSums(h)[p] \in Int /\ PaidSums(h)[p] = PaidSums(c)[p]
      <4>1. \A p \in DOMAIN c.payments : PaidSums(h)[p] \in Int /\ PaidSums(h)[p] = h.payments[p].amount
        BY <1>1, DoneFinite
      <4>2. \A p \in DOMAIN c.payments : PaidSums(c)[p] = h.payments[p].amount
        BY <1>1 DEF PaidSums, Reallocates
      <4> QED
        BY <3>1, <4>1, <4>2
    <3>3. SumOver(PaidSums(h), Active(c)) = SumOver(PaidSums(c), Active(c))
      BY <3>1, <3>2, SumEqual
    <3> QED
      BY <3>3 DEF Received
  <2>2. SumOver(RefundSums(h), DOMAIN c.refunds) = Refunded(c)
    BY <1>1 DEF Refunded, RefundSums
  <2> QED
    BY <1>3, <1>4, <1>8, <2>1, <2>2 DEF Balanced
<1> QED
  BY <1>5, <1>6, <1>7, <1>8, <1>9, <1>10

SameAllocations(c, d) ==
    /\ d.adj = c.adj /\ d.voided = c.voided
    /\ d.status = c.status /\ d.actualEnd = c.actualEnd
    /\ DOMAIN d.payments = DOMAIN c.payments
    /\ \A p \in DOMAIN c.payments :
          /\ d.payments[p].alloc = c.payments[p].alloc
          /\ d.payments[p].at = c.payments[p].at
          /\ d.payments[p].reversed = c.payments[p].reversed

\* Everything but the penalties paid follows from the allocations.
LEMMA SameAccounts ==
  ASSUME NEW c, NEW d, SameAllocations(c, d)
  PROVE  /\ \A i \in AccrualIds : Allocated(d, i) = Allocated(c, i) /\ Room(d, i) = Room(c, i)
         /\ AllocatedTotal(d) = AllocatedTotal(c)
         /\ Within(c) => Within(d)
         /\ PaidInOrder(c) => PaidInOrder(d)
         /\ PaidUp(c) => PaidUp(d)
         /\ \A day : OverdueSum(d, day) = OverdueSum(c, day)
         /\ \A from, to : Rows(d, from, to) = Rows(c, from, to)
         /\ \A day, today : AccruedBefore(d, day, today) = AccruedBefore(c, day, today)
         /\ \A today : FreshJournal(d, today) = FreshJournal(c, today)
<1>1. /\ Active(d) = Active(c) /\ Live(d) = Live(c) /\ \A i : Total(d, i) = Total(c, i)
      /\ \A day : PaidBy(d, day) = PaidBy(c, day)
  <2>1. Active(d) = Active(c)
    BY DEF Active, SameAllocations
  <2>2. Live(d) = Live(c) /\ \A i : Total(d, i) = Total(c, i)
    BY DEF Live, Total, SameAllocations
  <2>3. \A p \in Active(c) : d.payments[p].at = c.payments[p].at
    BY DEF Active, SameAllocations
  <2>4. \A day : PaidBy(d, day) = PaidBy(c, day)
    BY <2>1, <2>3 DEF PaidBy
  <2> QED
    BY <2>1, <2>2, <2>4
<1>2. /\ d.voided = c.voided /\ d.status = c.status /\ d.actualEnd = c.actualEnd
      /\ DOMAIN d.payments = DOMAIN c.payments
  BY DEF SameAllocations
<1>3. \A i : AllocTo(d, i) = AllocTo(c, i)
  BY <1>2 DEF SameAllocations, AllocTo
<1>4. \A i : Allocated(d, i) = Allocated(c, i)
  BY <1>2, <1>3 DEF Allocated
<1>5. \A i : Room(d, i) = Room(c, i)
  BY <1>1, <1>4 DEF Room
<1>6. AllocatedTotal(d) = AllocatedTotal(c)
  BY <1>4 DEF AllocatedTotal
<1>7. \A day : LeftOn(d, day) = LeftOn(c, day)
  BY <1>1, <1>3 DEF LeftOn
<1>8. \A day : OverdueSum(d, day) = OverdueSum(c, day)
  <2> TAKE day
  <2>1. OverdueOf(d, day, LeftOn(c, day)) = OverdueOf(c, day, LeftOn(c, day))
    BY <1>1 DEF OverdueOf
  <2> QED
    BY <1>7, <2>1 DEF OverdueSum
<1>9. \A from, to : Rows(d, from, to) = Rows(c, from, to)
  BY <1>8 DEF Rows
<1>10. PenaltyStart(d) = PenaltyStart(c) /\ \A today : PenaltyEnd(d, today) = PenaltyEnd(c, today)
  BY <1>2, StartSame, EndSame
<1>11. \A day, today : AccruedBefore(d, day, today) = AccruedBefore(c, day, today)
  <2> TAKE day, today
  <2>1. DaysBefore(d, day, today) = DaysBefore(c, day, today)
    BY <1>10 DEF DaysBefore
  <2>2. [x \in DaysBefore(c, day, today) |-> DailyPenalty(OverdueSum(d, x))]
          = [x \in DaysBefore(c, day, today) |-> DailyPenalty(OverdueSum(c, x))]
    BY <1>8
  <2> QED
    BY <2>1, <2>2, AccruedDef
<1>12. \A today : FreshJournal(d, today) = FreshJournal(c, today)
  BY <1>1, <1>9, <1>10 DEF FreshJournal
<1>13. Within(c) => Within(d)
  BY <1>1, <1>2, <1>4 DEF Within
<1>14. (PaidInOrder(c) => PaidInOrder(d)) /\ (PaidUp(c) => PaidUp(d))
  BY <1>1, <1>4, <1>5 DEF PaidInOrder, PaidUp, Live
<1> QED
  BY <1>4, <1>5, <1>6, <1>8, <1>9, <1>11, <1>12, <1>13, <1>14

\* Nothing is released when nothing is to be released.
LEMMA NothingReleased ==
  ASSUME NEW c, RowsShaped(c), Fits(c), c.credit \in Nat
  PROVE  ReleasePenalty(c, 0) = c
<1> DEFINE after(p) == {q \in PaidSoFar(c) : \/ c.payments[q].at > c.payments[p].at
                                             \/ c.payments[q].at = c.payments[p].at /\ q > p}
           taken(p) == Left(Penalties(c), after(p), 0)
           rows == [p \in DOMAIN c.payments |->
                      IF p \in PaidSoFar(c)
                      THEN [c.payments[p] EXCEPT !.penalty = Max({@ - taken(p), 0})]
                      ELSE c.payments[p]]
<1>1. PaidSoFar(c) \subseteq DOMAIN c.payments /\ IsFiniteSet(DOMAIN c.payments)
  BY DEF PaidSoFar, Active, Fits
<1>2. \A q \in DOMAIN c.payments : Penalties(c)[q] \in Nat /\ c.payments[q].penalty \in Nat
  BY DEF Penalties, Fits, PaymentFits
<1>3. ASSUME NEW p \in DOMAIN c.payments PROVE taken(p) = 0
  <2> DEFINE A == after(p)
  <2>1. A \subseteq DOMAIN c.payments
    BY <1>1
  <2>2. IsFiniteSet(A) /\ \A q \in A : Penalties(c)[q] \in Nat
    BY <1>1, <1>2, <2>1, FS_Subset
  <2> HIDE DEF A
  <2>3. 0 \in Int /\ 0 <= 0
    OBVIOUS
  <2>4. 0 <= 0 => Left(Penalties(c), A, 0) = 0
    BY <2>2, <2>3, LeftFacts, Zenon
  <2> QED
    BY <2>3, <2>4 DEF A
<1> HIDE DEF taken
<1>4. ASSUME NEW p \in DOMAIN c.payments PROVE rows[p] = c.payments[p]
  <2> DEFINE x == c.payments[p]
             m == Max({x.penalty - taken(p), 0})
  <2>1. x.penalty \in Nat /\ taken(p) = 0 /\ PaymentRow(x)
    BY <1>2, <1>3 DEF RowsShaped
  <2>2. m = x.penalty
    <3>1. x.penalty - taken(p) \in Int /\ 0 \in Int
      BY <2>1
    <3>2. /\ m \in Int /\ m >= x.penalty - taken(p) /\ m >= 0
          /\ m = x.penalty - taken(p) \/ m = 0
      BY <3>1, MaxOf, Zenon
    <3> QED
      BY <2>1, <3>2
  <2>3. rows[p] = IF p \in PaidSoFar(c) THEN [x EXCEPT !.penalty = m] ELSE x
    OBVIOUS
  <2> HIDE DEF m
  <2>4. [x EXCEPT !.penalty = m] = x
    <3> HIDE DEF x
    <3>1. DOMAIN x = {"amount", "at", "penalty", "alloc", "partial", "reversed", "website", "synced"}
          /\ x = [f \in DOMAIN x |-> x[f]]
      BY <2>1 DEF PaymentRow
    <3> QED
      BY <2>2, <3>1
  <2> QED
    BY <2>3, <2>4
<1>5. rows = c.payments
  <2>1. c.payments = [p \in DOMAIN c.payments |-> c.payments[p]]
    BY DEF RowsShaped
  <2>2. rows = [p \in DOMAIN c.payments |-> rows[p]]
    OBVIOUS
  <2> HIDE DEF rows
  <2> QED
    BY <1>4, <2>1, <2>2
<1>6. ReleasePenalty(c, 0) = [c EXCEPT !.credit = @ + 0, !.payments = rows]
  BY Zenon DEF ReleasePenalty, taken
<1> HIDE DEF rows
<1>7. c.credit + 0 = c.credit
  OBVIOUS
<1>8. [c EXCEPT !.credit = @ + 0, !.payments = rows] = c
  <2> DEFINE y == [c EXCEPT !.credit = @ + 0, !.payments = rows]
  <2>1. DOMAIN c = {"payments", "refunds", "adj", "voided", "log", "credit", "through", "pending",
                    "status", "actualEnd"} /\ c = [f \in DOMAIN c |-> c[f]]
    BY DEF RowsShaped, ContractRow
  <2>2. y = [f \in DOMAIN c |-> y[f]]
    OBVIOUS
  <2>3. \A f \in DOMAIN c : y[f] = c[f]
    BY <1>5, <1>7, <2>1
  <2> HIDE DEF y
  <2>4. y = c
    BY <2>1, <2>2, <2>3
  <2> QED
    BY <2>4 DEF y
<1> QED
  BY <1>6, <1>8

\* A row that a reconciliation writes.
RowWith(x, a, b, m) == [x EXCEPT !.alloc = a, !.partial = b, !.penalty = m]

\* A payment row with a new allocation and penalty is a payment row.
LEMMA RewrittenRow ==
  ASSUME NEW x \in PaymentType, NEW a \in [AccrualIds -> Nat], NEW b, b \subseteq AccrualIds,
         NEW m \in Nat, NEW y, y = RowWith(x, a, b, m)
  PROVE  /\ y \in PaymentType /\ y.amount = x.amount /\ y.at = x.at /\ y.reversed = x.reversed
         /\ y.website = x.website /\ y.synced = x.synced
         /\ y.alloc = a /\ y.partial = b /\ y.penalty = m
<1>1. y = [amount |-> x.amount, at |-> x.at, penalty |-> m, alloc |-> a, partial |-> b,
           reversed |-> x.reversed, website |-> x.website, synced |-> x.synced]
  <2>1. PaymentRow(x)
    BY PaymentTypeFacts
  <2> QED
    BY <2>1, RowChanged, Zenon DEF RowWith
<1>2. /\ x.amount \in Amounts \cup OnlineAmounts /\ x.at \in Nat
      /\ x.reversed \in BOOLEAN /\ x.website \in BOOLEAN /\ x.synced \in BOOLEAN
  BY PaymentTypeFacts
<1> QED
  BY <1>1, <1>2 DEF PaymentType

\* The rows a replay writes: the active payments get the allocations and the
\* penalties of the replay, the reversed ones are left alone.
LEMMA RewrittenFacts ==
  ASSUME NEW c, Billable(c), NEW today \in Nat, NEW r, r = Replay(c, today), NEW rows,
         rows = Rewritten(c, r)
  PROVE  /\ DOMAIN rows = DOMAIN c.payments /\ rows \in Seq(PaymentType)
         /\ \A p \in DOMAIN c.payments :
              /\ rows[p].amount = c.payments[p].amount /\ rows[p].at = c.payments[p].at
              /\ rows[p].reversed = c.payments[p].reversed
              /\ rows[p].website = c.payments[p].website /\ rows[p].synced = c.payments[p].synced
         /\ \A p \in Active(c) :
              /\ rows[p].alloc = r.c.payments[p].alloc
              /\ rows[p].partial = r.c.payments[p].partial
              /\ rows[p].penalty = r.c.payments[p].penalty
         /\ \A p \in DOMAIN c.payments \ Active(c) : rows[p] = c.payments[p]
<1>1. /\ Fits(r.c) /\ Reallocates(c, r.c)
      /\ \A p \in DOMAIN c.payments : r.c.payments[p].partial \subseteq AccrualIds
  BY ReplayFacts
<1>2. /\ \A p \in DOMAIN c.payments : c.payments[p] \in PaymentType
      /\ Len(c.payments) \in Nat /\ DOMAIN c.payments = 1..Len(c.payments)
      /\ Active(c) \subseteq DOMAIN c.payments
  BY BillableFacts
<1>3. \A p \in DOMAIN c.payments :
         r.c.payments[p].alloc \in [AccrualIds -> Nat] /\ r.c.payments[p].penalty \in Nat
  BY <1>1 DEF Fits, PaymentFits, Reallocates
<1>4. rows = [p \in DOMAIN c.payments |->
                IF p \in Active(c)
                THEN [c.payments[p] EXCEPT !.alloc = r.c.payments[p].alloc,
                                           !.partial = r.c.payments[p].partial,
                                           !.penalty = r.c.payments[p].penalty]
                ELSE c.payments[p]]
  BY Zenon DEF Rewritten
<1>5. ASSUME NEW p \in Active(c)
      PROVE  /\ rows[p] \in PaymentType /\ rows[p].amount = c.payments[p].amount
             /\ rows[p].at = c.payments[p].at /\ rows[p].reversed = c.payments[p].reversed
             /\ rows[p].website = c.payments[p].website /\ rows[p].synced = c.payments[p].synced
             /\ rows[p].alloc = r.c.payments[p].alloc
             /\ rows[p].partial = r.c.payments[p].partial
             /\ rows[p].penalty = r.c.payments[p].penalty
  <2> DEFINE x == c.payments[p]
             a == r.c.payments[p].alloc
             b == r.c.payments[p].partial
             m == r.c.payments[p].penalty
             y == rows[p]
  <2>1. y = RowWith(x, a, b, m)
    BY <1>2, <1>4 DEF RowWith
  <2>2. x \in PaymentType /\ a \in [AccrualIds -> Nat] /\ b \subseteq AccrualIds /\ m \in Nat
    BY <1>1, <1>2, <1>3
  <2> HIDE DEF x, a, b, m, y
  <2>3. /\ y \in PaymentType /\ y.amount = x.amount /\ y.at = x.at /\ y.reversed = x.reversed
        /\ y.website = x.website /\ y.synced = x.synced
        /\ y.alloc = a /\ y.partial = b /\ y.penalty = m
    BY <2>1, <2>2, RewrittenRow
  <2> QED
    BY <2>3 DEF x, a, b, m, y
<1>6. \A p \in DOMAIN c.payments \ Active(c) : rows[p] = c.payments[p]
  BY <1>4
<1>7. DOMAIN rows = DOMAIN c.payments /\ rows = [p \in DOMAIN c.payments |-> rows[p]]
  BY <1>4
<1>8. \A p \in DOMAIN c.payments : rows[p] \in PaymentType
  BY <1>2, <1>5, <1>6
<1>9. rows \in Seq(PaymentType)
  <2>1. rows \in [1..Len(c.payments) -> PaymentType]
    BY <1>2, <1>7, <1>8
  <2> QED
    BY <1>2, <2>1, SeqDef
<1>10. \A p \in DOMAIN c.payments :
         /\ rows[p].amount = c.payments[p].amount /\ rows[p].at = c.payments[p].at
         /\ rows[p].reversed = c.payments[p].reversed
         /\ rows[p].website = c.payments[p].website /\ rows[p].synced = c.payments[p].synced
  BY <1>5, <1>6
<1> QED
  BY <1>5, <1>6, <1>7, <1>9, <1>10

\* The fields of a contract that a replay leaves alone.
Untouched(c, d) ==
    /\ d.refunds = c.refunds /\ d.adj = c.adj /\ d.voided = c.voided
    /\ d.status = c.status /\ d.actualEnd = c.actualEnd

\* What a replay that is not refused does to the rows of a contract; a payment
\* accounting has seen keeps its allocation and penalty.
LEMMA AppliedIs ==
  ASSUME NEW c, Billable(c), NEW today \in Nat, NEW r, r = Replay(c, today), ~Refuses(c, r),
         NEW d, d = Applied(c, r)
  PROVE  /\ ContractRow(d) /\ d.payments \in Seq(PaymentType)
         /\ Untouched(c, d) /\ d.pending = c.pending /\ d.through = c.through /\ d.log = c.log
         /\ d.credit = r.credit /\ ~r.overdrawn
         /\ Reallocates(c, d)
         /\ \A p \in DOMAIN c.payments :
              /\ d.payments[p].website = c.payments[p].website
              /\ d.payments[p].synced = c.payments[p].synced
         /\ \A p \in Active(c) :
              /\ d.payments[p].alloc = r.c.payments[p].alloc
              /\ d.payments[p].partial = r.c.payments[p].partial
              /\ d.payments[p].penalty = r.c.payments[p].penalty
         /\ \A p \in DOMAIN c.payments \ Active(c) : d.payments[p] = c.payments[p]
         /\ \A p \in DOMAIN c.payments : c.payments[p].synced =>
              /\ d.payments[p].alloc = c.payments[p].alloc
              /\ d.payments[p].penalty = c.payments[p].penalty
<1>1. ContractRow(c) /\ c.payments \in Seq(PaymentType)
  BY DEF Billable, LedgerRows
<1>2. ~r.overdrawn /\ \A p \in Reallocated(c, r) : ~(c.payments[p].website /\ c.payments[p].synced)
  BY DEF Refuses
<1>3. \A p \in DOMAIN c.payments : c.payments[p].synced => c.payments[p].website
  BY DEF Billable
<1>4. ASSUME Changes(c, r)
      PROVE  /\ ContractRow(d) /\ d.payments = Rewritten(c, r) /\ Untouched(c, d)
             /\ d.pending = c.pending /\ d.through = c.through /\ d.log = c.log
             /\ d.credit = r.credit
  <2> DEFINE rows == Rewritten(c, r)
  <2>1. d = [c EXCEPT !.payments = rows, !.credit = r.credit]
    BY <1>4 DEF Applied
  <2> HIDE DEF rows
  <2>2. DOMAIN c = {"payments", "refunds", "adj", "voided", "log", "credit", "through", "pending",
                    "status", "actualEnd"}
    BY <1>1 DEF ContractRow
  <2>3. DOMAIN d = DOMAIN c /\ d = [f \in DOMAIN d |-> d[f]]
    BY <2>1
  <2>4. /\ d.payments = rows /\ Untouched(c, d) /\ d.pending = c.pending
        /\ d.through = c.through /\ d.log = c.log /\ d.credit = r.credit
    BY <2>1, <2>2 DEF Untouched
  <2>5. ContractRow(d)
    BY <2>2, <2>3 DEF ContractRow
  <2> QED
    BY <2>4, <2>5 DEF rows
<1>5. CASE Changes(c, r)
  <2> DEFINE rows == Rewritten(c, r)
  <2>1. /\ DOMAIN rows = DOMAIN c.payments /\ rows \in Seq(PaymentType)
        /\ \A p \in DOMAIN c.payments :
              /\ rows[p].amount = c.payments[p].amount /\ rows[p].at = c.payments[p].at
              /\ rows[p].reversed = c.payments[p].reversed
              /\ rows[p].website = c.payments[p].website /\ rows[p].synced = c.payments[p].synced
        /\ \A p \in Active(c) :
              /\ rows[p].alloc = r.c.payments[p].alloc
              /\ rows[p].partial = r.c.payments[p].partial
              /\ rows[p].penalty = r.c.payments[p].penalty
        /\ \A p \in DOMAIN c.payments \ Active(c) : rows[p] = c.payments[p]
    BY RewrittenFacts
  <2> HIDE DEF rows
  <2>2. /\ ContractRow(d) /\ d.payments = rows /\ Untouched(c, d)
        /\ d.pending = c.pending /\ d.through = c.through /\ d.log = c.log
        /\ d.credit = r.credit
    BY <1>4, <1>5 DEF rows
  <2>3. Reallocates(c, d)
    BY <2>1, <2>2 DEF Reallocates, Untouched
  <2>4. ASSUME NEW p \in DOMAIN c.payments, c.payments[p].synced
        PROVE  rows[p].alloc = c.payments[p].alloc /\ rows[p].penalty = c.payments[p].penalty
    <3>1. CASE p \in Active(c)
      <4>1. p \notin Reallocated(c, r)
        BY <1>2, <1>3, <2>4
      <4> QED
        BY <2>1, <3>1, <4>1 DEF Reallocated
    <3>2. CASE p \notin Active(c)
      BY <2>1, <3>2
    <3> QED
      BY <3>1, <3>2
  <2> QED
    BY <1>2, <2>1, <2>2, <2>3, <2>4
<1>6. CASE ~Changes(c, r)
  <2>1. d = c
    BY <1>6 DEF Applied
  <2>2. Reallocated(c, r) = {} /\ r.credit = c.credit
    BY <1>6 DEF Changes
  <2>3. \A p \in Active(c) : /\ c.payments[p].alloc = r.c.payments[p].alloc
                             /\ c.payments[p].partial = r.c.payments[p].partial
                             /\ c.payments[p].penalty = r.c.payments[p].penalty
    BY <2>2 DEF Reallocated
  <2> QED
    BY <1>1, <1>2, <2>1, <2>2, <2>3 DEF Untouched, Reallocates
<1> QED
  BY <1>5, <1>6

\* Reallocation is symmetric.
LEMMA ReallocatesBack ==
  ASSUME NEW c, NEW d, Reallocates(c, d)
  PROVE  Reallocates(d, c)
BY DEF Reallocates

\* A contract whose money is all where it belongs.
Settled(c) ==
    /\ Within(c) /\ PaidInOrder(c)
    /\ c.credit > 0 => PaidUp(c)
    /\ Received(c) = AllocatedTotal(c) + PenaltyPaid(c) + c.credit + Refunded(c)

\* A replay leaves well-formed rows.
LEMMA AppliedBillable ==
  ASSUME NEW c, Billable(c), NEW today \in Nat, NEW r, r = Replay(c, today), ~Refuses(c, r),
         NEW d, d = Applied(c, r)
  PROVE  Billable(d)
<1>1. /\ ContractRow(d) /\ d.payments \in Seq(PaymentType)
      /\ Untouched(c, d) /\ d.pending = c.pending /\ d.through = c.through /\ d.log = c.log
      /\ d.credit = r.credit /\ ~r.overdrawn /\ Reallocates(c, d)
      /\ \A p \in DOMAIN c.payments :
            /\ d.payments[p].website = c.payments[p].website
            /\ d.payments[p].synced = c.payments[p].synced
      /\ \A p \in DOMAIN c.payments \ Active(c) : d.payments[p] = c.payments[p]
  BY AppliedIs
<1>2. d.credit \in Nat
  BY <1>1, ReplayFacts
<1>3. LedgerRows(d)
  BY <1>1, <1>2 DEF Billable, LedgerRows, Untouched
<1>4. DOMAIN d.payments = DOMAIN c.payments
  BY <1>1 DEF Reallocates
<1>5. ASSUME NEW p \in DOMAIN d.payments
      PROVE  /\ d.payments[p].reversed => d.payments[p].alloc = NoAllocation
             /\ d.payments[p].synced => d.payments[p].website
  <2>1. d.payments[p].reversed = c.payments[p].reversed
    BY <1>1, <1>4 DEF Reallocates
  <2>2. c.payments[p].reversed => d.payments[p] = c.payments[p] /\ c.payments[p].alloc = NoAllocation
    BY <1>1, <1>4 DEF Active, Billable
  <2>3. d.payments[p].synced => d.payments[p].website
    BY <1>1, <1>4 DEF Billable
  <2> QED
    BY <2>1, <2>2, <2>3
<1>6. /\ Ends(d) /\ \A i \in AccrualIds : Total(d, i) \in Nat
      /\ \A q \in DOMAIN d.refunds : d.refunds[q].credit = d.refunds[q].amount
  BY <1>1 DEF Billable, Ends, Total, Untouched
<1> QED
  BY <1>3, <1>5, <1>6 DEF Billable

\* After a replay the money is conserved, in order, and no more penalty is paid
\* than has accrued through today.
LEMMA AppliedSettled ==
  ASSUME NEW c, Billable(c), NEW today \in Nat, NEW r, r = Replay(c, today), ~Refuses(c, r),
         NEW d, d = Applied(c, r)
  PROVE  /\ Settled(d) /\ PenaltyPaid(d) \in Nat
         /\ PenaltyPaid(d) <= AccruedBefore(d, today + 1, today)
<1>1. /\ Reallocates(c, d) /\ Untouched(c, d) /\ d.credit = r.credit /\ ~r.overdrawn
      /\ \A p \in Active(c) :
              /\ d.payments[p].alloc = r.c.payments[p].alloc
              /\ d.payments[p].penalty = r.c.payments[p].penalty
      /\ \A p \in DOMAIN c.payments \ Active(c) : d.payments[p] = c.payments[p]
  BY AppliedIs
<1>2. /\ Reallocates(c, r.c) /\ Fits(r.c)
      /\ \A p \in DOMAIN c.payments : p \notin Active(c) => r.c.payments[p].alloc = NoAllocation
      /\ Within(r.c) /\ PaidInOrder(r.c)
      /\ PenaltyPaid(r.c) \in Nat
      /\ PenaltyPaid(r.c) <= AccruedBefore(r.c, today + 1, today)
      /\ ~r.overdrawn =>
           /\ r.credit \in Nat /\ (r.credit > 0 => PaidUp(r.c))
           /\ Received(c) = AllocatedTotal(r.c) + PenaltyPaid(r.c) + r.credit + Refunded(c)
  BY ReplayFacts
<1>3. Reallocates(r.c, d)
  BY <1>1, <1>2, ReallocatesBack, ReallocatesTwice
<1>4. SameAllocations(r.c, d)
  <2>1. DOMAIN r.c.payments = DOMAIN c.payments
    BY <1>2 DEF Reallocates
  <2>2. \A p \in DOMAIN c.payments \ Active(c) :
           d.payments[p] = c.payments[p] /\ c.payments[p].alloc = NoAllocation
    <3>1. \A p \in DOMAIN c.payments : c.payments[p] \in PaymentType
      BY BillableFacts
    <3>2. \A p \in DOMAIN c.payments \ Active(c) : c.payments[p].reversed
      BY <3>1, PaymentTypeFacts DEF Active
    <3> QED
      BY <1>1, <3>2 DEF Billable
  <2>3. \A p \in DOMAIN c.payments : d.payments[p].alloc = r.c.payments[p].alloc
    BY <1>1, <1>2, <2>2
  <2> QED
    BY <1>3, <2>1, <2>3 DEF SameAllocations, Reallocates
<1>5. /\ AllocatedTotal(d) = AllocatedTotal(r.c)
      /\ Within(d) /\ PaidInOrder(d) /\ (PaidUp(r.c) => PaidUp(d))
      /\ AccruedBefore(d, today + 1, today) = AccruedBefore(r.c, today + 1, today)
  BY <1>2, <1>4, SameAccounts
<1>6. PenaltyPaid(d) = PenaltyPaid(r.c)
  <2>1. /\ Active(d) = Active(c) /\ Active(r.c) = Active(c)
        /\ DOMAIN d.payments = DOMAIN c.payments /\ DOMAIN r.c.payments = DOMAIN c.payments
    BY <1>1, <1>2, ReallocatesFacts DEF Reallocates
  <2>2. IsFiniteSet(Active(c)) /\ Active(c) \subseteq DOMAIN c.payments
    BY BillableFacts
  <2>3. \A p \in Active(c) : /\ Penalties(r.c)[p] \in Int
                             /\ Penalties(r.c)[p] = Penalties(d)[p]
    <3>1. \A p \in DOMAIN c.payments : r.c.payments[p].penalty \in Nat
      BY <1>2, <2>1 DEF Fits, PaymentFits
    <3>2. \A p \in DOMAIN c.payments : /\ Penalties(r.c)[p] = r.c.payments[p].penalty
                                       /\ Penalties(d)[p] = d.payments[p].penalty
      BY <2>1 DEF Penalties
    <3> QED
      BY <1>1, <2>2, <3>1, <3>2
  <2>4. SumOver(Penalties(r.c), Active(c)) = SumOver(Penalties(d), Active(c))
    BY <2>2, <2>3, SumEqual
  <2> QED
    BY <2>1, <2>4 DEF PenaltyPaid
<1>7. Received(d) = Received(c) /\ Refunded(d) = Refunded(c)
  <2>1. PaidSums(d) = PaidSums(c)
    BY <1>1 DEF PaidSums, Reallocates
  <2>2. Active(d) = Active(c)
    BY <1>1, ReallocatesFacts
  <2>3. RefundSums(d) = RefundSums(c) /\ d.refunds = c.refunds
    BY <1>1 DEF RefundSums, Untouched
  <2> QED
    BY <2>1, <2>2, <2>3 DEF Received, Refunded
<1>8. Settled(d)
  BY <1>1, <1>2, <1>5, <1>6, <1>7 DEF Settled
<1> QED
  BY <1>2, <1>5, <1>6, <1>8

\* The journal that a reconciliation writes covers the penalty its replay has
\* paid, so that nothing is taken back.
LEMMA JournalIs ==
  ASSUME NEW c, Billable(c), now \in Nat, NEW today \in Nat, PenaltyPaid(c) \in Nat,
         PenaltyPaid(c) <= AccruedBefore(c, today + 1, today)
  PROVE  WithFreshJournal(c, today) = [c EXCEPT !.log = FreshJournal(c, today), !.through = today]
<1> DEFINE journal == FreshJournal(c, today)
           z == [c EXCEPT !.log = journal, !.through = today]
           a == SumOver(Penalties(c), PaidSoFar(c))
           b == SumOver(journal, DOMAIN journal)
<1>1. /\ Fits(c) /\ Ends(c) /\ RowsShaped(c) /\ IsFiniteSet(Active(c))
      /\ Active(c) \subseteq DOMAIN c.payments /\ c.credit \in Nat
  BY BillableFacts DEF Billable, LedgerRows
<1>2. b = AccruedBefore(c, today + 1, today) /\ b \in Nat
  BY <1>1, JournalIsAccrued
<1>3. a \in Int /\ a <= PenaltyPaid(c)
  <2>1. \A p \in Active(c) : Penalties(c)[p] \in Int /\ Penalties(c)[p] >= 0
    <3>1. \A p \in DOMAIN c.payments : c.payments[p].penalty \in Nat
      BY <1>1 DEF Fits, PaymentFits
    <3> QED
      BY <1>1, <3>1 DEF Penalties
  <2>2. PaidSoFar(c) \in SUBSET Active(c) /\ IsFiniteSet(PaidSoFar(c))
    BY <1>1, FS_Subset DEF PaidSoFar
  <2>3. SumOver(Penalties(c), PaidSoFar(c)) <= SumOver(Penalties(c), Active(c))
    BY <1>1, <2>1, <2>2, SumSubset
  <2>4. \A p \in PaidSoFar(c) : Penalties(c)[p] \in Int
    BY <2>1, <2>2
  <2>5. SumOver(Penalties(c), PaidSoFar(c)) \in Int
    BY <2>2, <2>4, SumInt
  <2> QED
    BY <2>3, <2>5 DEF PenaltyPaid
<1>4. WithFreshJournal(c, today) = ReleasePenalty(z, Max({a - b, 0}))
  BY Zenon DEF WithFreshJournal, WithJournal
<1> HIDE DEF journal, z, a, b
<1>5. Max({a - b, 0}) = 0
  <2>1. a - b \in Int /\ 0 \in Int /\ a - b <= 0
    BY <1>2, <1>3
  <2>2. Max({a - b, 0}) >= 0 /\ (Max({a - b, 0}) = a - b \/ Max({a - b, 0}) = 0)
    BY <2>1, MaxOf, Zenon
  <2> QED
    BY <2>1, <2>2
<1>6. /\ ContractRow(z) /\ z.payments = c.payments /\ z.credit = c.credit
      /\ z.adj = c.adj /\ z.voided = c.voided
  <2>1. DOMAIN c = {"payments", "refunds", "adj", "voided", "log", "credit", "through", "pending",
                    "status", "actualEnd"}
    BY <1>1 DEF RowsShaped, ContractRow
  <2>2. DOMAIN z = DOMAIN c /\ z = [f \in DOMAIN z |-> z[f]]
    BY DEF z
  <2>3. /\ z.payments = c.payments /\ z.credit = c.credit
        /\ z.adj = c.adj /\ z.voided = c.voided
    BY <2>1 DEF z
  <2> QED
    BY <2>1, <2>2, <2>3 DEF ContractRow
<1>7. RowsShaped(z)
  BY <1>1, <1>6 DEF RowsShaped
<1>8. Fits(z)
  BY <1>1, <1>6 DEF Fits, Total
<1>9. ReleasePenalty(z, 0) = z
  BY <1>1, <1>6, <1>7, <1>8, NothingReleased
<1> QED
  BY <1>4, <1>5, <1>9 DEF z, journal

SameMoney(c, d) ==
    /\ Reallocates(c, d) /\ d.credit = c.credit
    /\ \A p \in DOMAIN c.payments :
          /\ d.payments[p].alloc = c.payments[p].alloc
          /\ d.payments[p].penalty = c.payments[p].penalty

\* Rows with the same payments and credit have the same money, journal and order.
LEMMA SameMoneyFacts ==
  ASSUME NEW c, NEW d, SameMoney(c, d)
  PROVE  /\ Settled(c) => Settled(d)
         /\ PenaltyPaid(d) = PenaltyPaid(c)
         /\ Within(c) => Within(d)
         /\ \A from, to : Rows(d, from, to) = Rows(c, from, to)
         /\ \A today : FreshJournal(d, today) = FreshJournal(c, today)
         /\ \A day, today : AccruedBefore(d, day, today) = AccruedBefore(c, day, today)
<1>1. SameAllocations(c, d)
  BY DEF SameMoney, SameAllocations, Reallocates
<1>2. /\ AllocatedTotal(d) = AllocatedTotal(c)
      /\ Within(c) => Within(d)
      /\ PaidInOrder(c) => PaidInOrder(d)
      /\ PaidUp(c) => PaidUp(d)
      /\ \A from, to : Rows(d, from, to) = Rows(c, from, to)
      /\ \A day, today : AccruedBefore(d, day, today) = AccruedBefore(c, day, today)
      /\ \A today : FreshJournal(d, today) = FreshJournal(c, today)
  BY <1>1, SameAccounts
<1>3. Active(d) = Active(c)
  BY ReallocatesFacts DEF SameMoney
<1>4. Penalties(d) = Penalties(c) /\ PaidSums(d) = PaidSums(c) /\ RefundSums(d) = RefundSums(c)
      /\ DOMAIN d.refunds = DOMAIN c.refunds
  BY DEF SameMoney, Reallocates, Penalties, PaidSums, RefundSums
<1>5. PenaltyPaid(d) = PenaltyPaid(c) /\ Received(d) = Received(c) /\ Refunded(d) = Refunded(c)
  BY <1>3, <1>4 DEF PenaltyPaid, Received, Refunded
<1>6. Settled(c) => Settled(d)
  BY <1>2, <1>5 DEF Settled, SameMoney
<1> QED
  BY <1>2, <1>5, <1>6

\* Another journal, nothing else.
WithLog(c, log, through) == [c EXCEPT !.log = log, !.through = through]

\* Writing the journal of a contract changes nothing else.
LEMMA JournalRow ==
  ASSUME NEW c, ContractRow(c), NEW log, NEW through,
         NEW d, d = WithLog(c, log, through)
  PROVE  /\ ContractRow(d) /\ d.log = log /\ d.through = through /\ d.pending = c.pending
         /\ d.payments = c.payments /\ d.credit = c.credit /\ Untouched(c, d)
<1>1. DOMAIN c = {"payments", "refunds", "adj", "voided", "log", "credit", "through", "pending",
                  "status", "actualEnd"}
  BY DEF ContractRow
<1>2. DOMAIN d = DOMAIN c /\ d = [f \in DOMAIN d |-> d[f]]
  BY DEF WithLog
<1>3. /\ d.log = log /\ d.through = through /\ d.pending = c.pending
      /\ d.payments = c.payments /\ d.credit = c.credit /\ Untouched(c, d)
  BY <1>1 DEF Untouched, WithLog
<1>4. ContractRow(d)
  BY <1>1, <1>2 DEF ContractRow
<1> QED
  BY <1>3, <1>4

\* Changing the flag of a contract changes nothing else.
LEMMA PendingRow ==
  ASSUME NEW c, ContractRow(c), NEW pending, NEW d, d = [c EXCEPT !.pending = pending]
  PROVE  /\ ContractRow(d) /\ d.log = c.log /\ d.through = c.through /\ d.pending = pending
         /\ d.payments = c.payments /\ d.credit = c.credit /\ Untouched(c, d)
<1>1. DOMAIN c = {"payments", "refunds", "adj", "voided", "log", "credit", "through", "pending",
                  "status", "actualEnd"}
  BY DEF ContractRow
<1>2. DOMAIN d = DOMAIN c /\ d = [f \in DOMAIN d |-> d[f]]
  OBVIOUS
<1>3. /\ d.log = c.log /\ d.through = c.through /\ d.pending = pending
      /\ d.payments = c.payments /\ d.credit = c.credit /\ Untouched(c, d)
  BY <1>1 DEF Untouched
<1>4. ContractRow(d)
  BY <1>1, <1>2 DEF ContractRow
<1> QED
  BY <1>3, <1>4

\* e is d with its journal as of the day.
Journalled(d, e, today) ==
    /\ ContractRow(e) /\ e.log = FreshJournal(d, today) /\ e.through = today
    /\ e.pending = FALSE /\ e.payments = d.payments /\ e.credit = d.credit /\ Untouched(d, e)

\* A reconciliation is a replay followed by a fresh journal.  What the journal does
\* not cover is released; after a replay, that is nothing.
LEMMA ReconciledIs ==
  ASSUME NEW c, Billable(c), now \in Nat, NEW today \in Nat, today = Today,
         ~ReplayRefused(c, today), NEW d, d = ApplyReplay(c, today),
         NEW e, e = Reconciled(c)
  PROVE  Journalled(d, e, today)
<1> DEFINE r == Replay(c, today)
<1>0. d = Applied(c, r) /\ ~Refuses(c, r)
  BY DEF ApplyReplay, ReplayRefused
<1>1. Billable(d) /\ ContractRow(d)
  <2>1. Billable(d)
    BY <1>0, AppliedBillable
  <2> QED
    BY <2>1 DEF Billable, LedgerRows
<1>2. PenaltyPaid(d) \in Nat /\ PenaltyPaid(d) <= AccruedBefore(d, today + 1, today)
  BY <1>0, AppliedSettled
<1> DEFINE z == WithLog(d, FreshJournal(d, today), today)
<1>3. WithFreshJournal(d, today) = z
  BY <1>1, <1>2, JournalIs DEF WithLog
<1>4. e = [WithFreshJournal(d, today) EXCEPT !.pending = FALSE]
  BY DEF Reconciled
<1>5. e = [z EXCEPT !.pending = FALSE]
  BY <1>3, <1>4
<1>6. /\ ContractRow(z) /\ z.log = FreshJournal(d, today) /\ z.through = today
      /\ z.payments = d.payments /\ z.credit = d.credit /\ Untouched(d, z)
  BY <1>1, JournalRow
<1> HIDE DEF z
<1>7. /\ ContractRow(e) /\ e.log = z.log /\ e.through = z.through /\ e.pending = FALSE
      /\ e.payments = z.payments /\ e.credit = z.credit /\ Untouched(z, e)
  BY <1>5, <1>6, PendingRow
<1> QED
  BY <1>6, <1>7 DEF Untouched, Journalled

\* d is c with the allocations and penalties that the replay r gives.
AsReplayed(c, d, r) ==
    /\ Untouched(c, d) /\ d.credit = r.credit /\ Reallocates(c, d)
    /\ \A p \in DOMAIN c.payments : d.payments[p].synced = c.payments[p].synced
    /\ \A p \in Active(c) :
            /\ d.payments[p].alloc = r.c.payments[p].alloc
            /\ d.payments[p].partial = r.c.payments[p].partial
            /\ d.payments[p].penalty = r.c.payments[p].penalty
    /\ \A p \in DOMAIN c.payments : c.payments[p].synced =>
            /\ d.payments[p].alloc = c.payments[p].alloc
            /\ d.payments[p].penalty = c.payments[p].penalty

\* The rows after a replay carry the allocations, penalties and credit of the replay.
LEMMA AppliedAsReplayed ==
  ASSUME NEW c, Billable(c), NEW today \in Nat, NEW r, r = Replay(c, today), ~Refuses(c, r),
         NEW d, d = Applied(c, r)
  PROVE  AsReplayed(c, d, r)
BY AppliedIs DEF AsReplayed

\* d is a reconciliation of c.
AfterReplay(c, d) ==
    /\ Billable(d) /\ Settled(d) /\ PenaltyPaid(d) <= JournalSum(d, Today)
    /\ d.log = FreshJournal(d, Today) /\ d.through = Today /\ d.pending = FALSE
    /\ Untouched(c, d) /\ Reallocates(c, d)
    /\ \A p \in DOMAIN c.payments :
         /\ d.payments[p].synced = c.payments[p].synced
         /\ c.payments[p].synced =>
              /\ d.payments[p].alloc = c.payments[p].alloc
              /\ d.payments[p].penalty = c.payments[p].penalty
    /\ d.credit = Replay(c, Today).credit
    /\ \A p \in Active(c) :
         /\ d.payments[p].alloc = Replay(c, Today).c.payments[p].alloc
         /\ d.payments[p].partial = Replay(c, Today).c.payments[p].partial
         /\ d.payments[p].penalty = Replay(c, Today).c.payments[p].penalty

\* What a reconciliation that is not refused leaves.
LEMMA ReconciledFacts ==
  ASSUME NEW c, Billable(c), now \in Nat, ~ReplayRefused(c, Today),
         NEW e, e = Reconciled(c)
  PROVE  AfterReplay(c, e)
<1> DEFINE r == Replay(c, Today)
           d == ApplyReplay(c, Today)
<1>1. Today \in Nat
  BY TimeFacts DEF Today
<1>2. /\ ~Refuses(c, r) /\ ~ReplayRefused(c, Today) /\ d = Applied(c, r)
      /\ d = ApplyReplay(c, Today)
  BY DEF ReplayRefused, ApplyReplay
<1>3. /\ Billable(d) /\ Settled(d) /\ PenaltyPaid(d) \in Nat
      /\ PenaltyPaid(d) <= AccruedBefore(d, Today + 1, Today)
  BY <1>1, <1>2, AppliedBillable, AppliedSettled
<1> HIDE DEF d
<1>4. /\ ContractRow(e) /\ e.log = FreshJournal(d, Today) /\ e.through = Today
      /\ e.pending = FALSE /\ e.payments = d.payments /\ e.credit = d.credit /\ Untouched(d, e)
  <2>1. Journalled(d, e, Today)
    BY <1>1, <1>2, ReconciledIs
  <2> QED
    BY <2>1 DEF Journalled
<1>5. /\ Untouched(c, d) /\ d.credit = r.credit /\ Reallocates(c, d)
      /\ \A p \in DOMAIN c.payments : d.payments[p].synced = c.payments[p].synced
      /\ \A p \in Active(c) :
            /\ d.payments[p].alloc = r.c.payments[p].alloc
            /\ d.payments[p].partial = r.c.payments[p].partial
            /\ d.payments[p].penalty = r.c.payments[p].penalty
      /\ \A p \in DOMAIN c.payments : c.payments[p].synced =>
            /\ d.payments[p].alloc = c.payments[p].alloc
            /\ d.payments[p].penalty = c.payments[p].penalty
  <2>1. AsReplayed(c, d, r)
    BY <1>1, <1>2, AppliedAsReplayed
  <2> HIDE DEF r
  <2> QED
    BY <2>1 DEF AsReplayed
<1> HIDE DEF r
<1>6. SameMoney(d, e)
  BY <1>4 DEF SameMoney, Reallocates, Untouched
<1>7. /\ Settled(e) /\ PenaltyPaid(e) = PenaltyPaid(d)
      /\ FreshJournal(e, Today) = FreshJournal(d, Today)
      /\ AccruedBefore(e, Today + 1, Today) = AccruedBefore(d, Today + 1, Today)
  BY <1>3, <1>6, SameMoneyFacts
<1>8. Untouched(c, e) /\ Reallocates(c, e)
  BY <1>4, <1>5 DEF Untouched, Reallocates
<1>9. Fits(d) /\ Ends(d)
  BY <1>3, BillableFacts
<1>10. /\ e.log = [x \in JournalDays(d, Today) |-> DailyPenalty(OverdueSum(d, x))]
       /\ IsFiniteSet(JournalDays(d, Today))
       /\ \A x \in JournalDays(d, Today) :
              x \in Nat /\ DailyPenalty(OverdueSum(d, x)) \in Nat /\ x <= Today
  BY <1>1, <1>4, <1>9, FreshJournalIs
<1>11. /\ DOMAIN e.log = JournalDays(d, Today) /\ e.log = [x \in DOMAIN e.log |-> e.log[x]]
       /\ \A x \in DOMAIN e.log : x \in Nat /\ e.log[x] \in Nat /\ x <= Today
  BY <1>10
<1>12. LedgerRows(e)
  <2>1. /\ e.payments \in Seq(PaymentType) /\ e.refunds \in Seq(RefundType)
        /\ e.adj \in [AccrualIds -> Int] /\ e.voided \in [AccrualIds -> BOOLEAN]
        /\ e.credit \in Nat
        /\ e.status \in {"ACTIVE", "TERMINATED"} /\ e.actualEnd \in Nat \cup {None}
    BY <1>3, <1>4 DEF Billable, LedgerRows, Untouched
  <2> QED
    BY <1>1, <1>4, <1>10, <1>11, <2>1 DEF LedgerRows
<1>13. Billable(e)
  <2>1. /\ Ends(e) /\ \A i \in AccrualIds : Total(e, i) \in Nat
        /\ \A q \in DOMAIN e.refunds : e.refunds[q].credit = e.refunds[q].amount
        /\ \A p \in DOMAIN e.payments :
             /\ e.payments[p].reversed => e.payments[p].alloc = NoAllocation
             /\ e.payments[p].synced => e.payments[p].website
    BY <1>3, <1>4 DEF Billable, Ends, Total, Untouched
  <2> QED
    BY <1>12, <2>1 DEF Billable
<1>14. PenaltyPaid(e) <= JournalSum(e, Today)
  <2>1. {x \in DOMAIN e.log : x <= Today} = DOMAIN e.log
    BY <1>11
  <2>2. JournalSum(e, Today) = SumOver(e.log, DOMAIN e.log)
    BY <2>1 DEF JournalSum
  <2>3. SumOver(FreshJournal(d, Today), DOMAIN FreshJournal(d, Today)) = AccruedBefore(d, Today + 1, Today)
    BY <1>1, <1>9, JournalIsAccrued
  <2> QED
    BY <1>3, <1>4, <1>7, <2>2, <2>3
<1> QED
  BY <1>1, <1>4, <1>5, <1>7, <1>8, <1>13, <1>14 DEF r, AfterReplay

\* The journal up to a day adds up to a natural.
LEMMA JournalSumNat ==
  ASSUME NEW c, LedgerRows(c), NEW day \in Int
  PROVE  JournalSum(c, day) \in Nat
<1> DEFINE D == {d \in DOMAIN c.log : d <= day}
<1>1. IsFiniteSet(D)
  <2>1. IsFiniteSet(DOMAIN c.log) /\ D \subseteq DOMAIN c.log
    BY DEF LedgerRows
  <2> QED
    BY <2>1, FS_Subset
<1>2. \A d \in D : c.log[d] \in Nat
  BY DEF LedgerRows
<1> HIDE DEF D
<1>3. SumOver(c.log, D) \in Nat
  BY <1>1, <1>2, SumNat
<1> QED
  BY <1>3 DEF JournalSum, D

\* The unpaid penalty on a day is an integer.
LEMMA BalanceInt ==
  ASSUME NEW c, Billable(c), NEW day \in Int
  PROVE  PenaltyBalance(c, day) \in Int
<1> DEFINE D == {p \in Active(c) : c.payments[p].at <= Midnight(day)}
<1>1. JournalSum(c, day) \in Nat
  BY JournalSumNat DEF Billable
<1>2. IsFiniteSet(D) /\ D \subseteq DOMAIN c.payments
  <2>1. D \subseteq Active(c) /\ IsFiniteSet(Active(c)) /\ Active(c) \subseteq DOMAIN c.payments
    BY BillableFacts
  <2> QED
    BY <2>1, FS_Subset
<1>3. \A p \in D : Penalties(c)[p] \in Int
  <2>1. \A p \in DOMAIN c.payments : c.payments[p].penalty \in Nat
    BY BillableFacts, PaymentTypeFacts
  <2> QED
    BY <1>2, <2>1 DEF Penalties
<1> HIDE DEF D
<1>4. SumOver(Penalties(c), D) \in Int
  BY <1>2, <1>3, SumInt
<1>5. JournalSum(c, day) - SumOver(Penalties(c), D) \in Int
  BY <1>1, <1>4
<1> QED
  BY <1>5 DEF PenaltyBalance, D

NewRow(c, amount, at, website, plan) ==
    [amount |-> amount, at |-> at, penalty |-> plan.penalty,
     alloc |-> plan.alloc, partial |-> PartialRows(c, plan.alloc),
     reversed |-> FALSE, website |-> website, synced |-> FALSE]

\* The rows after a payment.
LEMMA PaymentRows ==
  ASSUME NEW c, ContractRow(c), NEW amount, NEW at, NEW website, NEW plan,
         NEW d, d = WithPlan(c, amount, at, website, plan)
  PROVE  /\ ContractRow(d) /\ Untouched(c, d) /\ d.log = c.log /\ d.through = c.through
         /\ d.credit = plan.credit
         /\ d.payments = Append(c.payments, NewRow(c, amount, at, website, plan))
         /\ d.pending = (c.pending \/ MoscowDay(at) <= Today)
<1> DEFINE rows == Append(c.payments, NewRow(c, amount, at, website, plan))
           z == [c EXCEPT !.credit = plan.credit, !.payments = rows]
           b == c.pending \/ MoscowDay(at) <= Today
<1>1. DOMAIN c = {"payments", "refunds", "adj", "voided", "log", "credit", "through", "pending",
                  "status", "actualEnd"}
  BY DEF ContractRow
<1>2. d = Flagged(z, at)
  BY Zenon DEF WithPlan, NewRow
<1> HIDE DEF rows
<1>3. DOMAIN z = DOMAIN c /\ z = [f \in DOMAIN z |-> z[f]]
  OBVIOUS
<1>4. /\ z.log = c.log /\ z.through = c.through /\ z.pending = c.pending
      /\ z.payments = rows /\ z.credit = plan.credit /\ Untouched(c, z)
  BY <1>1 DEF Untouched
<1> HIDE DEF z
<1>5. ContractRow(z)
  BY <1>1, <1>3 DEF ContractRow
<1>6. d = [z EXCEPT !.pending = b]
  BY <1>2, <1>4 DEF Flagged
<1> HIDE DEF b
<1>7. /\ ContractRow(d) /\ d.log = z.log /\ d.through = z.through /\ d.pending = b
      /\ d.payments = z.payments /\ d.credit = z.credit /\ Untouched(z, d)
  BY <1>5, <1>6, PendingRow
<1>8. d.pending = (c.pending \/ MoscowDay(at) <= Today)
  BY <1>7 DEF b
<1> QED
  BY <1>4, <1>7, <1>8 DEF rows, Untouched

\* d is c with one more payment, placed by the waterfall.
Entered(c, d, p, day, money, owed) ==
    /\ p = Len(c.payments) + 1
    /\ DOMAIN d.payments = DOMAIN c.payments \cup {p} /\ p \notin DOMAIN c.payments
    /\ \A q \in DOMAIN c.payments : d.payments[q] = c.payments[q]
    /\ d.payments[p].alloc = FifoPlan(c, day, money, owed).alloc
    /\ d.payments[p].penalty = FifoPlan(c, day, money, owed).penalty
    /\ d.payments[p].reversed = FALSE
    /\ d.payments[p].amount \in Nat /\ money = d.payments[p].amount + c.credit
    /\ d.credit = FifoPlan(c, day, money, owed).credit
    /\ Untouched(c, d) /\ d.log = c.log /\ d.through = c.through

\* d is c after a payment.
PaymentMade(c, d, amount, at) ==
    /\ Billable(d)
    /\ Entered(c, d, Len(c.payments) + 1, UtcDay(at), amount + c.credit,
               PenaltyBalance(c, UtcDay(at)))
    /\ UtcDay(at) \in Nat /\ amount + c.credit \in Int /\ PenaltyBalance(c, UtcDay(at)) \in Int
    /\ d.pending = (c.pending \/ MoscowDay(at) <= Today)
    /\ d.payments[Len(c.payments) + 1].at = at

\* A new payment is placed by the FIFO rule, asks for a reconciliation unless it is
\* dated after today, and changes nothing else.
LEMMA PaymentEntered ==
  ASSUME NEW c, Billable(c), now \in Nat, NEW amount \in Amounts \cup OnlineAmounts, NEW at \in Nat,
         NEW website \in BOOLEAN, NEW d, d = WithPayment(c, amount, at, website)
  PROVE  PaymentMade(c, d, amount, at)
<1> DEFINE day == UtcDay(at)
           money == amount + c.credit
           owed == PenaltyBalance(c, UtcDay(at))
           plan == FifoPlan(c, day, money, owed)
           row == NewRow(c, amount, at, website, plan)
           p == Len(c.payments) + 1
<1>1. /\ Fits(c) /\ Ends(c) /\ ContractRow(c) /\ c.credit \in Nat
      /\ Len(c.payments) \in Nat /\ DOMAIN c.payments = 1..Len(c.payments)
      /\ c.payments \in Seq(PaymentType)
  BY BillableFacts DEF Billable, LedgerRows
<1>2. amount \in Nat
  BY BoundsAssumption
<1>3. day \in Nat /\ money \in Int /\ owed \in Int
  <2>1. day \in Nat
    BY TimeFacts
  <2>2. owed \in Int
    BY <2>1, BalanceInt
  <2> QED
    BY <1>1, <1>2, <2>1, <2>2
<1>4. d = WithPlan(c, amount, at, website, plan)
  BY Zenon DEF WithPayment
<1> HIDE DEF day, money, owed
<1>5. plan.alloc \in [AccrualIds -> Nat] /\ plan.penalty \in Nat /\ plan.credit \in Nat
  BY <1>1, <1>3, PlanFacts
<1> HIDE DEF plan
<1>6. /\ ContractRow(d) /\ Untouched(c, d) /\ d.log = c.log /\ d.through = c.through
      /\ d.credit = plan.credit
      /\ d.payments = Append(c.payments, NewRow(c, amount, at, website, plan))
      /\ d.pending = (c.pending \/ MoscowDay(at) <= Today)
  BY <1>1, <1>4, PaymentRows
<1>7. /\ row \in PaymentType /\ row.alloc = plan.alloc /\ row.penalty = plan.penalty
      /\ row.reversed = FALSE /\ row.synced = FALSE /\ row.amount = amount /\ row.at = at
  <2>1. PartialRows(c, plan.alloc) \in SUBSET AccrualIds
    BY DEF PartialRows
  <2> QED
    BY <1>5, <2>1 DEF NewRow, PaymentType
<1> HIDE DEF row
<1>8. /\ d.payments \in Seq(PaymentType) /\ d.payments[p] = row
      /\ DOMAIN d.payments = DOMAIN c.payments \cup {p} /\ p \notin DOMAIN c.payments
      /\ \A q \in DOMAIN c.payments : d.payments[q] = c.payments[q]
  <2>1. d.payments = Append(c.payments, row)
    BY <1>6 DEF row
  <2>2. /\ d.payments \in Seq(PaymentType) /\ Len(d.payments) = p /\ d.payments[p] = row
        /\ \A q \in 1..Len(c.payments) : d.payments[q] = c.payments[q]
    BY <1>1, <1>7, <2>1
  <2>3. DOMAIN d.payments = 1..p
    BY <2>2, LenProperties
  <2>4. 1..p = 1..Len(c.payments) \cup {p} /\ p \notin 1..Len(c.payments)
    BY <1>1
  <2> QED
    BY <1>1, <2>2, <2>3, <2>4
<1>9. Entered(c, d, p, day, money, owed)
  BY <1>2, <1>6, <1>7, <1>8 DEF Entered, plan, money
<1>10. d.pending \in BOOLEAN
  <2>1. c.pending \in BOOLEAN
    BY DEF Billable, LedgerRows
  <2>2. (MoscowDay(at) <= Today) \in BOOLEAN
    BY TimeFacts DEF Today
  <2> QED
    BY <1>6, <2>1, <2>2
<1>11. LedgerRows(d)
  BY <1>5, <1>6, <1>8, <1>10 DEF Billable, LedgerRows, Untouched
<1>12. /\ Ends(d) /\ \A i \in AccrualIds : Total(d, i) \in Nat
       /\ \A q \in DOMAIN d.refunds : d.refunds[q].credit = d.refunds[q].amount
  BY <1>6 DEF Billable, Ends, Total, Untouched
<1>13. \A q \in DOMAIN d.payments :
          /\ d.payments[q].reversed => d.payments[q].alloc = NoAllocation
          /\ d.payments[q].synced => d.payments[q].website
  BY <1>7, <1>8 DEF Billable
<1>14. Billable(d)
  BY <1>11, <1>12, <1>13 DEF Billable
<1> QED
  BY <1>3, <1>6, <1>7, <1>8, <1>9, <1>14 DEF PaymentMade, day, money, owed

\* A payment placed by the waterfall keeps every accrual within its charge.
LEMMA EnteredWithin ==
  ASSUME NEW c, Billable(c), NEW d, Billable(d), Within(c), NEW p, NEW day \in Nat,
         NEW money \in Int, NEW owed \in Int, Entered(c, d, p, day, money, owed)
  PROVE  /\ Extends(c, d, p) /\ Within(d)
         /\ PaidInOrder(c) => PaidInOrder(d)
         /\ d.credit > 0 => PaidUp(d)
<1>1. Fits(c) /\ Fits(d)
  BY BillableFacts
<1>2. Extends(c, d, p)
  BY DEF Entered, Extends, Untouched
<1>3. /\ d.payments[p].alloc = FifoPlan(c, day, money, owed).alloc
      /\ d.credit = FifoPlan(c, day, money, owed).credit
  BY DEF Entered
<1> QED
  BY <1>1, <1>2, <1>3, PlanKeepsOrder

\* Sums over the payments in force, one payment later.
LEMMA EnteredSums ==
  ASSUME NEW c, Billable(c), NEW d, Billable(d), NEW p, NEW day \in Nat,
         NEW money \in Int, NEW owed \in Int, Entered(c, d, p, day, money, owed)
  PROVE  /\ Received(c) \in Int /\ Received(d) = Received(c) + d.payments[p].amount
         /\ PenaltyPaid(c) \in Int /\ PenaltyPaid(d) = PenaltyPaid(c) + d.payments[p].penalty
         /\ d.payments[p].penalty \in Nat /\ d.payments[p].amount \in Nat
<1>1. /\ IsFiniteSet(Active(c)) /\ Active(c) \subseteq DOMAIN c.payments
      /\ DOMAIN d.payments = DOMAIN c.payments \cup {p} /\ p \notin DOMAIN c.payments
      /\ \A q \in DOMAIN c.payments : d.payments[q] = c.payments[q]
      /\ ~d.payments[p].reversed
  BY BillableFacts DEF Entered
<1>2. Active(d) = Active(c) \cup {p} /\ p \notin Active(c)
  BY <1>1 DEF Active
<1>3. \A q \in DOMAIN d.payments : d.payments[q].amount \in Nat /\ d.payments[q].penalty \in Nat
  BY BillableFacts, PaymentTypeFacts
<1>4. \A q \in Active(c) \cup {p} :
          /\ PaidSums(d)[q] = d.payments[q].amount /\ PaidSums(d)[q] \in Int
          /\ Penalties(d)[q] = d.payments[q].penalty /\ Penalties(d)[q] \in Int
  BY <1>1, <1>3 DEF PaidSums, Penalties
<1>5. \A q \in Active(c) :
          /\ PaidSums(c)[q] \in Int /\ PaidSums(c)[q] = PaidSums(d)[q]
          /\ Penalties(c)[q] \in Int /\ Penalties(c)[q] = Penalties(d)[q]
  BY <1>1, <1>3 DEF PaidSums, Penalties
<1>6. /\ SumOver(PaidSums(d), Active(c)) = SumOver(PaidSums(c), Active(c))
      /\ SumOver(Penalties(d), Active(c)) = SumOver(Penalties(c), Active(c))
  BY <1>1, <1>5, SumEqual
<1>7. /\ SumOver(PaidSums(d), Active(c) \cup {p}) = SumOver(PaidSums(d), Active(c)) + PaidSums(d)[p]
      /\ SumOver(Penalties(d), Active(c) \cup {p}) = SumOver(Penalties(d), Active(c)) + Penalties(d)[p]
  BY <1>1, <1>2, <1>4, SumAdd
<1>8. SumOver(PaidSums(c), Active(c)) \in Int /\ SumOver(Penalties(c), Active(c)) \in Int
  BY <1>1, <1>5, SumInt
<1> QED
  BY <1>1, <1>2, <1>3, <1>4, <1>6, <1>7, <1>8 DEF Received, PenaltyPaid

\* ... and keeps the money where it belongs.
LEMMA EnteredSettled ==
  ASSUME NEW c, Billable(c), NEW d, Billable(d), Settled(c), NEW p, NEW day \in Nat,
         NEW money \in Int, NEW owed \in Int, Entered(c, d, p, day, money, owed)
  PROVE  Settled(d)
<1> DEFINE plan == FifoPlan(c, day, money, owed)
           x == SumOver(plan.alloc, AccrualIds)
           y == AllocatedTotal(c)
           z == Refunded(c)
           a == d.payments[p].amount
<1>1. /\ Extends(c, d, p) /\ Within(d) /\ PaidInOrder(d)
      /\ d.credit > 0 => PaidUp(d)
  BY EnteredWithin DEF Settled
<1>2. Fits(c) /\ Fits(d) /\ c.credit \in Nat
  BY BillableFacts DEF Billable, LedgerRows
<1>3. /\ Received(c) \in Int /\ Received(d) = Received(c) + a
      /\ PenaltyPaid(c) \in Int /\ PenaltyPaid(d) = PenaltyPaid(c) + d.payments[p].penalty
      /\ d.payments[p].penalty \in Nat /\ a \in Nat
  BY EnteredSums
<1>4. /\ d.payments[p].alloc = plan.alloc /\ d.payments[p].penalty = plan.penalty
      /\ d.credit = plan.credit /\ money = a + c.credit /\ d.refunds = c.refunds
  BY DEF Entered, Untouched
<1>5. y \in Nat /\ AllocatedTotal(d) = y + x
  BY <1>1, <1>2, <1>4, AllocatedTotalAfter
<1>6. money >= 0
  BY <1>2, <1>3, <1>4
<1>7. /\ x + plan.penalty + plan.credit = money
      /\ plan.alloc \in [AccrualIds -> Nat] /\ plan.credit \in Nat
  BY <1>2, <1>6, PlanFacts
<1>8. x \in Int
  <2>1. IsFiniteSet(AccrualIds) /\ \A i \in AccrualIds : plan.alloc[i] \in Int
    BY <1>7, MonthsFacts
  <2> QED
    BY <2>1, SumInt
<1>9. z \in Int /\ Refunded(d) = z
  <2>1. /\ IsFiniteSet(DOMAIN c.refunds)
        /\ \A r \in DOMAIN c.refunds : c.refunds[r].amount \in Nat
    BY BillableFacts DEF RefundsFit
  <2>2. \A r \in DOMAIN c.refunds : RefundSums(c)[r] \in Int
    BY <2>1 DEF RefundSums
  <2>3. RefundSums(d) = RefundSums(c)
    BY <1>4 DEF RefundSums
  <2> QED
    BY <1>4, <2>1, <2>2, <2>3, SumInt DEF Refunded
<1>10. Received(c) = y + PenaltyPaid(c) + c.credit + z
  BY DEF Settled
<1> HIDE DEF plan, x, y, z, a
<1>11. Received(d) = AllocatedTotal(d) + PenaltyPaid(d) + d.credit + Refunded(d)
  BY <1>2, <1>3, <1>4, <1>5, <1>7, <1>8, <1>9, <1>10
<1> QED
  BY <1>1, <1>11 DEF Settled

ReversedRow(x) == [x EXCEPT !.alloc = NoAllocation, !.partial = {}, !.reversed = TRUE]
SyncedRow(x) == [x EXCEPT !.synced = TRUE]

\* What a reversal and a push do to the row of a payment.
LEMMA ChangedRows ==
  ASSUME NEW x \in PaymentType, NEW y
  PROVE  /\ y = ReversedRow(x) =>
              /\ y \in PaymentType /\ y.alloc = NoAllocation /\ y.reversed = TRUE
              /\ y.amount = x.amount /\ y.at = x.at /\ y.penalty = x.penalty
              /\ y.website = x.website /\ y.synced = x.synced
         /\ y = SyncedRow(x) =>
              /\ y \in PaymentType /\ y.alloc = x.alloc /\ y.reversed = x.reversed
              /\ y.amount = x.amount /\ y.at = x.at /\ y.penalty = x.penalty
              /\ y.website = x.website /\ y.synced = TRUE /\ y.partial = x.partial
<1>1. NoAllocation \in [AccrualIds -> Nat]
  BY DEF NoAllocation
<1> QED
  BY <1>1 DEF PaymentType, ReversedRow, SyncedRow

\* d is c with another row for the payment p.
OtherRow(c, d, p, row) ==
    /\ ContractRow(d) /\ Untouched(c, d) /\ d.log = c.log /\ d.through = c.through
    /\ d.credit = c.credit
    /\ d.payments \in Seq(PaymentType) /\ DOMAIN d.payments = DOMAIN c.payments
    /\ \A q \in DOMAIN c.payments \ {p} : d.payments[q] = c.payments[q]
    /\ d.payments[p] = row

\* Replacing one payment row changes nothing else.
LEMMA OtherRowIs ==
  ASSUME NEW c, Billable(c), NEW p \in DOMAIN c.payments, NEW row \in PaymentType,
         NEW d, d = [c EXCEPT !.payments = [c.payments EXCEPT ![p] = row]]
  PROVE  OtherRow(c, d, p, row) /\ d.pending = c.pending
<1> DEFINE rows == [c.payments EXCEPT ![p] = row]
<1>1. /\ ContractRow(c) /\ Len(c.payments) \in Nat /\ DOMAIN c.payments = 1..Len(c.payments)
      /\ c.payments \in Seq(PaymentType)
      /\ \A q \in DOMAIN c.payments : c.payments[q] \in PaymentType
  BY BillableFacts DEF Billable, LedgerRows
<1>2. DOMAIN c = {"payments", "refunds", "adj", "voided", "log", "credit", "through", "pending",
                  "status", "actualEnd"}
  BY <1>1 DEF ContractRow
<1>3. /\ DOMAIN rows = DOMAIN c.payments /\ rows[p] = row
      /\ \A q \in DOMAIN c.payments \ {p} : rows[q] = c.payments[q]
      /\ rows = [q \in DOMAIN c.payments |-> rows[q]]
  OBVIOUS
<1> HIDE DEF rows
<1>4. rows \in Seq(PaymentType)
  <2>1. \A q \in 1..Len(c.payments) : rows[q] \in PaymentType
    BY <1>1, <1>3
  <2>2. rows \in [1..Len(c.payments) -> PaymentType]
    BY <1>1, <1>3, <2>1
  <2> QED
    BY <1>1, <2>2
<1>5. d = [c EXCEPT !.payments = rows]
  BY DEF rows
<1>6. DOMAIN d = DOMAIN c /\ d = [f \in DOMAIN d |-> d[f]]
  BY <1>5
<1>7. /\ d.payments = rows /\ d.log = c.log /\ d.through = c.through /\ d.pending = c.pending
      /\ d.credit = c.credit /\ Untouched(c, d)
  BY <1>2, <1>5 DEF Untouched
<1>8. ContractRow(d)
  BY <1>2, <1>6 DEF ContractRow
<1> QED
  BY <1>3, <1>4, <1>7, <1>8 DEF OtherRow

Reversal(c, p) ==
    Flagged([c EXCEPT !.payments[p].alloc = NoAllocation, !.payments[p].partial = {},
                      !.payments[p].reversed = TRUE], c.payments[p].at)

\* A reversal changes the row and asks for a reconciliation.
LEMMA ReversalIs ==
  ASSUME NEW c, Billable(c), NEW p \in DOMAIN c.payments, NEW d, d = Reversal(c, p)
  PROVE  /\ OtherRow(c, d, p, ReversedRow(c.payments[p]))
         /\ d.pending = (c.pending \/ MoscowDay(c.payments[p].at) <= Today)
<1> DEFINE z == [c EXCEPT !.payments[p].alloc = NoAllocation, !.payments[p].partial = {},
                          !.payments[p].reversed = TRUE]
           y == [c EXCEPT !.payments = [c.payments EXCEPT ![p] = ReversedRow(c.payments[p])]]
           b == c.pending \/ MoscowDay(c.payments[p].at) <= Today
<1>1. /\ ContractRow(c) /\ c.payments[p] \in PaymentType
      /\ c.payments = [q \in DOMAIN c.payments |-> c.payments[q]]
  BY BillableFacts DEF Billable, LedgerRows, RowsShaped
<1>2. DOMAIN c = {"payments", "refunds", "adj", "voided", "log", "credit", "through", "pending",
                  "status", "actualEnd"}
  BY <1>1 DEF ContractRow
<1>3. z = y
  <2>1. /\ DOMAIN z = DOMAIN c /\ DOMAIN y = DOMAIN c
        /\ z = [f \in DOMAIN c |-> z[f]] /\ y = [f \in DOMAIN c |-> y[f]]
    OBVIOUS
  <2>2. \A f \in DOMAIN c : f # "payments" => z[f] = y[f]
    OBVIOUS
  <2>3. z["payments"] = y["payments"]
    BY <1>1, <1>2 DEF ReversedRow
  <2> HIDE DEF z, y
  <2> QED
    BY <2>1, <2>2, <2>3
<1>4. ReversedRow(c.payments[p]) \in PaymentType
  BY <1>1, ChangedRows
<1>5. d = Flagged(z, c.payments[p].at)
  BY Zenon DEF Reversal
<1> HIDE DEF z
<1>6. OtherRow(c, z, p, ReversedRow(c.payments[p])) /\ z.pending = c.pending
  BY <1>3, <1>4, OtherRowIs
<1>7. ContractRow(z)
  BY <1>6 DEF OtherRow
<1>8. d = [z EXCEPT !.pending = b]
  BY <1>5, <1>6 DEF Flagged
<1> HIDE DEF b
<1>9. /\ ContractRow(d) /\ d.log = z.log /\ d.through = z.through /\ d.pending = b
      /\ d.payments = z.payments /\ d.credit = z.credit /\ Untouched(z, d)
  BY <1>7, <1>8, PendingRow
<1>10. OtherRow(c, d, p, ReversedRow(c.payments[p]))
  BY <1>6, <1>9 DEF OtherRow, Untouched
<1> QED
  BY <1>9, <1>10 DEF b

\* A push replaces one payment row by the same one, synced.
LEMMA PushIs ==
  ASSUME NEW c, Billable(c), NEW p \in DOMAIN c.payments,
         NEW d, d = [c EXCEPT !.payments[p].synced = TRUE]
  PROVE  OtherRow(c, d, p, SyncedRow(c.payments[p])) /\ d.pending = c.pending
<1> DEFINE z == [c EXCEPT !.payments[p].synced = TRUE]
           y == [c EXCEPT !.payments = [c.payments EXCEPT ![p] = SyncedRow(c.payments[p])]]
<1>1. /\ ContractRow(c) /\ c.payments[p] \in PaymentType
      /\ c.payments = [q \in DOMAIN c.payments |-> c.payments[q]]
  BY BillableFacts DEF Billable, LedgerRows, RowsShaped
<1>2. DOMAIN c = {"payments", "refunds", "adj", "voided", "log", "credit", "through", "pending",
                  "status", "actualEnd"}
  BY <1>1 DEF ContractRow
<1>3. z = y
  BY <1>1, <1>2 DEF SyncedRow
<1>4. SyncedRow(c.payments[p]) \in PaymentType
  BY <1>1, ChangedRows
<1>5. d = z
  OBVIOUS
<1> HIDE DEF z
<1>6. OtherRow(c, z, p, SyncedRow(c.payments[p])) /\ z.pending = c.pending
  BY <1>3, <1>4, OtherRowIs
<1> QED
  BY <1>5, <1>6

\* Replacing one payment row by another of its type leaves well-formed rows.
LEMMA OtherRowBillable ==
  ASSUME NEW c, Billable(c), NEW p \in DOMAIN c.payments, NEW row \in PaymentType,
         NEW d, OtherRow(c, d, p, row), d.pending \in BOOLEAN,
         row.reversed => row.alloc = NoAllocation, row.synced => row.website
  PROVE  Billable(d)
<1>1. LedgerRows(d)
  BY DEF Billable, LedgerRows, OtherRow, Untouched
<1>2. /\ Ends(d) /\ \A i \in AccrualIds : Total(d, i) \in Nat
      /\ \A q \in DOMAIN d.refunds : d.refunds[q].credit = d.refunds[q].amount
  BY DEF Billable, Ends, Total, Untouched, OtherRow
<1>3. \A q \in DOMAIN d.payments :
          /\ d.payments[q].reversed => d.payments[q].alloc = NoAllocation
          /\ d.payments[q].synced => d.payments[q].website
  BY DEF Billable, OtherRow
<1> QED
  BY <1>1, <1>2, <1>3 DEF Billable

\* A reversal leaves every accrual within its charge: it only takes away.
LEMMA ReversalKeeps ==
  ASSUME NEW c, Billable(c), Within(c), now \in Nat, NEW p \in Active(c), NEW d, d = Reversal(c, p)
  PROVE  Billable(d) /\ Within(d)
<1>1. p \in DOMAIN c.payments /\ c.payments[p] \in PaymentType /\ c.payments[p].at \in Nat
  BY BillableFacts, PaymentTypeFacts DEF Active
<1> DEFINE row == ReversedRow(c.payments[p])
<1>2. OtherRow(c, d, p, row) /\ d.pending = (c.pending \/ MoscowDay(c.payments[p].at) <= Today)
  BY <1>1, ReversalIs
<1>3. /\ row \in PaymentType /\ row.alloc = NoAllocation
      /\ row.website = c.payments[p].website /\ row.synced = c.payments[p].synced
  BY <1>1, ChangedRows
<1> HIDE DEF row
<1>4. d.pending \in BOOLEAN
  <2>1. c.pending \in BOOLEAN
    BY DEF Billable, LedgerRows
  <2>2. (MoscowDay(c.payments[p].at) <= Today) \in BOOLEAN
    BY <1>1, TimeFacts DEF Today
  <2> QED
    BY <1>2, <2>1, <2>2
<1>5. row.synced => row.website
  BY <1>1, <1>3 DEF Billable
<1>6. Billable(d)
  BY <1>1, <1>2, <1>3, <1>4, <1>5, OtherRowBillable
<1>7. Within(d)
  <2>1. Fits(c) /\ Fits(d)
    BY <1>6, BillableFacts
  <2>2. Extends(d, c, p)
    BY <1>1, <1>2, <1>3 DEF OtherRow, Extends, Untouched
  <2>3. \A i \in AccrualIds : Allocated(c, i) = Allocated(d, i) + c.payments[p].alloc[i]
    BY <2>1, <2>2, AllocatedAfter
  <2>4. \A i \in AccrualIds : c.payments[p].alloc[i] \in Nat /\ Allocated(d, i) \in Nat
    BY <1>1, <2>1, AllocatedNat, PaymentTypeFacts
  <2>5. d.voided = c.voided /\ \A i \in AccrualIds : Total(d, i) = Total(c, i)
    BY <1>2 DEF OtherRow, Untouched, Total
  <2>6. \A i \in AccrualIds : Total(c, i) \in Nat
    BY DEF Billable
  <2>7. ASSUME NEW i \in AccrualIds
        PROVE  Allocated(d, i) <= IF d.voided[i] THEN 0 ELSE Total(d, i)
    <3>1. Allocated(d, i) <= Allocated(c, i)
      BY <2>3, <2>4
    <3>2. Allocated(c, i) \in Int /\ Allocated(d, i) \in Int /\ Total(c, i) \in Int
      BY <2>1, <2>6, AllocatedNat
    <3>3. Allocated(c, i) <= IF d.voided[i] THEN 0 ELSE Total(d, i)
      BY <2>5 DEF Within
    <3> QED
      BY <2>5, <3>1, <3>2, <3>3
  <2> QED
    BY <2>7 DEF Within
<1> QED
  BY <1>6, <1>7

\* d is c with a payment marked as sent.
PushedRows(c, d) ==
    /\ Billable(d) /\ SameMoney(c, d) /\ Untouched(c, d)
    /\ d.log = c.log /\ d.through = c.through /\ d.pending = c.pending
    /\ DOMAIN d.payments = DOMAIN c.payments
    /\ \A q \in DOMAIN c.payments : d.payments[q].partial = c.payments[q].partial

\* A push changes nothing that the billing reads.
LEMMA PushKeeps ==
  ASSUME NEW c, Billable(c), NEW p \in Active(c), c.payments[p].website,
         NEW d, d = [c EXCEPT !.payments[p].synced = TRUE]
  PROVE  PushedRows(c, d)
<1>1. p \in DOMAIN c.payments /\ c.payments[p] \in PaymentType
  BY BillableFacts DEF Active
<1> DEFINE row == SyncedRow(c.payments[p])
<1>2. OtherRow(c, d, p, row) /\ d.pending = c.pending
  BY <1>1, PushIs
<1>3. /\ row \in PaymentType /\ row.alloc = c.payments[p].alloc
      /\ row.reversed = c.payments[p].reversed /\ row.amount = c.payments[p].amount
      /\ row.at = c.payments[p].at /\ row.penalty = c.payments[p].penalty
      /\ row.website = c.payments[p].website /\ row.partial = c.payments[p].partial
  BY <1>1, ChangedRows
<1> HIDE DEF row
<1>4. d.pending \in BOOLEAN
  BY <1>2 DEF Billable, LedgerRows
<1>5. /\ row.reversed => row.alloc = NoAllocation
      /\ row.synced => row.website
  BY <1>1, <1>3 DEF Billable
<1>6. Billable(d)
  BY <1>1, <1>2, <1>3, <1>4, <1>5, OtherRowBillable
<1>7. SameMoney(c, d)
  BY <1>1, <1>2, <1>3 DEF SameMoney, Reallocates, OtherRow, Untouched
<1> QED
  BY <1>1, <1>2, <1>3, <1>6, <1>7 DEF OtherRow, PushedRows

\* No accrual has more than its charge, so that a refund has only the credit.
LEMMA NothingOverallocated ==
  ASSUME NEW c, Billable(c), Within(c), NEW day \in Nat, NEW i \in AccrualIds
  PROVE  Overallocated(c, i, day) = 0
<1> DEFINE S == {p \in Active(c) : c.payments[p].at <= Midnight(day)}
           g == [r \in DOMAIN c.refunds |-> c.refunds[r].amount - c.refunds[r].credit]
           R == RefundsOf(c, i, day)
<1>1. Fits(c) /\ IsFiniteSet(DOMAIN c.payments) /\ Active(c) \subseteq DOMAIN c.payments
  BY BillableFacts
<1>2. \A p \in DOMAIN c.payments : AllocTo(c, i)[p] \in Nat
  BY <1>1, AllocToType
<1>3. S \in SUBSET DOMAIN c.payments /\ IsFiniteSet(S)
  <2>1. S \subseteq DOMAIN c.payments
    BY <1>1
  <2> QED
    BY <1>1, <2>1, FS_Subset
<1> HIDE DEF S
<1>4. SumOver(AllocTo(c, i), S) <= Allocated(c, i) /\ SumOver(AllocTo(c, i), S) \in Nat
  <2>1. \A p \in DOMAIN c.payments : AllocTo(c, i)[p] \in Int
    BY <1>2
  <2>2. \A p \in DOMAIN c.payments \ S : AllocTo(c, i)[p] >= 0
    BY <1>2
  <2>3. \A p \in S : AllocTo(c, i)[p] \in Nat
    BY <1>2, <1>3
  <2>4. SumOver(AllocTo(c, i), S) <= SumOver(AllocTo(c, i), DOMAIN c.payments)
    BY <1>1, <1>3, <2>1, <2>2, SumSubset
  <2>5. SumOver(AllocTo(c, i), S) \in Nat
    BY <1>3, <2>3, SumNat
  <2> QED
    BY <2>4, <2>5 DEF Allocated
<1>5. SumOver(g, R) = 0
  <2>1. R \subseteq DOMAIN c.refunds /\ IsFiniteSet(R)
    <3>1. R \subseteq DOMAIN c.refunds /\ IsFiniteSet(DOMAIN c.refunds)
      BY BillableFacts DEF RefundsOf
    <3> QED
      BY <3>1, FS_Subset
  <2>2. \A r \in DOMAIN c.refunds : c.refunds[r].amount \in Nat /\ c.refunds[r].credit = c.refunds[r].amount
    BY BillableFacts DEF RefundsFit, Billable
  <2>3. \A r \in R : g[r] = 0
    BY <2>1, <2>2
  <2> HIDE DEF g, R
  <2> QED
    BY <2>1, <2>3, SumZero
<1>6. PaidNetOfRefunds(c, i, day) = SumOver(AllocTo(c, i), S) - SumOver(g, R)
  BY DEF PaidNetOfRefunds, S
<1> HIDE DEF g, R
<1>7. /\ Allocated(c, i) \in Nat /\ Total(c, i) \in Nat /\ Allocated(c, i) <= Total(c, i)
  BY <1>1, AllocatedNat DEF Within, Billable
<1>8. PICK m \in Int : m = PaidNetOfRefunds(c, i, day) - Total(c, i) /\ m <= 0
  BY <1>4, <1>5, <1>6, <1>7
<1>9. Max({m, 0}) = 0
  <2>1. 0 \in Int
    OBVIOUS
  <2>2. Max({m, 0}) >= 0 /\ (Max({m, 0}) = m \/ Max({m, 0}) = 0)
    BY <1>8, <2>1, MaxOf, Zenon
  <2> QED
    BY <1>8, <2>2
<1> QED
  BY <1>8, <1>9 DEF Overallocated

\* The overpayment on a day is a natural.
LEMMA OverpaymentNat ==
  ASSUME NEW c, Billable(c), NEW day \in Nat
  PROVE  Overpayment(c, day) \in Nat
<1> DEFINE S == {p \in Active(c) : c.payments[p].at <= Midnight(day)}
           R == {r \in DOMAIN c.refunds : c.refunds[r].day <= day}
           f == [i \in AccrualIds |-> Total(c, i)]
<1>1. SumOver(PaidSums(c), S) \in Int
  <2>1. IsFiniteSet(S) /\ S \subseteq DOMAIN c.payments
    <3>1. S \subseteq Active(c) /\ IsFiniteSet(Active(c)) /\ Active(c) \subseteq DOMAIN c.payments
      BY BillableFacts
    <3> QED
      BY <3>1, FS_Subset
  <2>2. \A p \in S : PaidSums(c)[p] \in Int
    <3>1. \A p \in DOMAIN c.payments : c.payments[p].amount \in Nat
      BY BillableFacts, PaymentTypeFacts
    <3> QED
      BY <2>1, <3>1 DEF PaidSums
  <2> HIDE DEF S
  <2> QED
    BY <2>1, <2>2, SumInt
<1>2. SumOver(RefundSums(c), R) \in Int
  <2>1. IsFiniteSet(R) /\ R \subseteq DOMAIN c.refunds
    <3>1. R \subseteq DOMAIN c.refunds /\ IsFiniteSet(DOMAIN c.refunds)
      BY BillableFacts
    <3> QED
      BY <3>1, FS_Subset
  <2>2. \A r \in R : RefundSums(c)[r] \in Int
    <3>1. \A r \in DOMAIN c.refunds : c.refunds[r].amount \in Nat
      BY BillableFacts DEF RefundsFit
    <3> QED
      BY <2>1, <3>1 DEF RefundSums
  <2> HIDE DEF R
  <2> QED
    BY <2>1, <2>2, SumInt
<1>3. SumOver(f, Live(c)) \in Int
  <2>1. IsFiniteSet(Live(c)) /\ Live(c) \subseteq AccrualIds
    BY MonthsFacts, FS_Subset DEF Live
  <2>2. \A i \in Live(c) : f[i] \in Int
    BY <2>1 DEF Billable
  <2> HIDE DEF f
  <2> QED
    BY <2>1, <2>2, SumInt
<1>4. JournalSum(c, day) \in Int
  BY JournalSumNat DEF Billable
<1>5. Overpayment(c, day)
        = Max({SumOver(PaidSums(c), S) - (JournalSum(c, day) + SumOver(f, Live(c)))
                 - SumOver(RefundSums(c), R), 0})
  BY DEF Overpayment
<1> HIDE DEF S, R, f
<1>6. PICK m \in Int : m = SumOver(PaidSums(c), S) - (JournalSum(c, day) + SumOver(f, Live(c)))
                 - SumOver(RefundSums(c), R)
  BY <1>1, <1>2, <1>3, <1>4
<1>7. Max({m, 0}) \in Int /\ Max({m, 0}) >= 0
  <2>1. 0 \in Int
    OBVIOUS
  <2> QED
    BY <1>6, <2>1, MaxOf, Zenon
<1> QED
  BY <1>5, <1>6, <1>7

\* What is available for a refund is credit, and attributed to no accrual.
LEMMA AvailableIsCredit ==
  ASSUME NEW c, Billable(c), Within(c), NEW day \in Nat
  PROVE  /\ Available(c, day).accrual = None /\ Available(c, day).correction = 0
         /\ Available(c, day).amount \in Nat /\ Available(c, day).amount <= c.credit
         /\ Available(c, day).amount <= Overpayment(c, day)
<1> DEFINE over == Overpayment(c, day)
           sum == [i \in AccrualIds |-> Overallocated(c, i, day)]
           correction == [i \in AccrualIds |-> RefundableCorrection(c, i, day)]
           corrected == {i \in Live(c) : /\ c.adj[i] < 0
                                         /\ Min({over, c.credit + sum[i]}) > 0
                                         /\ correction[i] > 0}
           overpaid == {i \in Live(c) : sum[i] > 0}
<1>1. over \in Nat
  BY OverpaymentNat
<1>2. \A i \in AccrualIds : sum[i] = 0
  BY NothingOverallocated
<1>3. Live(c) \subseteq AccrualIds
  BY DEF Live
<1>4. overpaid = {}
  BY <1>2, <1>3
<1>5. c.credit \in Nat
  BY DEF Billable, LedgerRows
<1>6. \A i \in AccrualIds : ~(correction[i] > 0)
  <2> TAKE i \in AccrualIds
  <2> DEFINE R == RefundsOf(c, i, day)
             f == [r \in DOMAIN c.refunds |-> c.refunds[r].adjustment]
  <2>1. SumOver(f, R) \in Int
    <3>1. IsFiniteSet(R) /\ R \subseteq DOMAIN c.refunds
      <4>1. R \subseteq DOMAIN c.refunds /\ IsFiniteSet(DOMAIN c.refunds)
        BY BillableFacts DEF RefundsOf
      <4> QED
        BY <4>1, FS_Subset
    <3>2. \A r \in DOMAIN c.refunds : c.refunds[r].adjustment \in Nat
      BY BillableFacts DEF RefundType
    <3>3. \A r \in R : f[r] \in Int
      BY <3>1, <3>2
    <3> HIDE DEF R, f
    <3> QED
      BY <3>1, <3>3, SumInt
  <2>2. c.adj[i] \in Int
    BY DEF Billable, LedgerRows
  <2>3. correction[i] = Min({0, -c.adj[i] - SumOver(f, R)})
    BY NothingOverallocated DEF RefundableCorrection
  <2> HIDE DEF f, R, correction
  <2>4. PICK m \in Int : m = -c.adj[i] - SumOver(f, R)
    BY <2>1, <2>2
  <2>5. 0 \in Int
    OBVIOUS
  <2>6. Min({0, m}) <= 0 /\ Min({0, m}) \in Int
    BY <2>5, MinOf, Zenon
  <2> QED
    BY <2>3, <2>4, <2>6
<1>7. corrected = {}
  BY <1>3, <1>6
<1>8. /\ Available(c, day) = BestOf(c, over, corrected, overpaid, sum, correction)
      /\ over = Overpayment(c, day)
  BY DEF Available, Best
<1> HIDE DEF over, sum, correction, corrected, overpaid
<1>9. CASE over = 0
  <2>1. Available(c, day) = NothingAvailable
    BY <1>8, <1>9 DEF BestOf
  <2> QED
    BY <1>5, <1>8, <1>9, <2>1 DEF NothingAvailable
<1>10. CASE over # 0
  <2>1. ~(over = 0) /\ ~(over > 0 /\ corrected # {}) /\ ~(over > 0 /\ corrected = {} /\ overpaid # {})
    BY <1>4, <1>7, <1>10
  <2>2. Available(c, day) = [accrual |-> None, amount |-> Min({over, c.credit}), correction |-> 0]
    BY <1>8, <2>1 DEF BestOf
  <2>3. /\ Min({over, c.credit}) \in Int /\ Min({over, c.credit}) <= c.credit
        /\ Min({over, c.credit}) <= over
        /\ Min({over, c.credit}) = over \/ Min({over, c.credit}) = c.credit
    <3>1. over \in Int /\ c.credit \in Int
      BY <1>1, <1>5
    <3> QED
      BY <3>1, MinOf, Zenon
  <2> QED
    BY <1>1, <1>5, <1>8, <2>2, <2>3
<1> QED
  BY <1>9, <1>10

\* A refund that is allowed is paid from the credit, to the last kopeck.
LEMMA RefundIsCredit ==
  ASSUME NEW c, Billable(c), Within(c), NEW amount \in RefundAmounts, NEW day \in Nat,
         NEW today \in Nat, RefundAllowed(c, amount, day, today),
         NEW row, row = RefundRow(c, amount, day, today)
  PROVE  /\ row \in RefundType /\ row.amount = amount /\ row.credit = amount /\ row.day = day
         /\ amount \in Nat /\ amount <= c.credit /\ amount <= Overpayment(c, day)
<1> DEFINE old == Available(c, day)
           cur == Available(c, today)
           part == Min({amount, c.credit})
<1>1. /\ old.accrual = None /\ old.correction = 0 /\ cur.correction = 0
      /\ cur.amount \in Nat /\ cur.amount <= c.credit
      /\ old.amount \in Nat /\ old.amount <= Overpayment(c, day)
  BY AvailableIsCredit
<1>2. amount \in Nat /\ c.credit \in Nat
  BY BoundsAssumption DEF Billable, LedgerRows
<1>3. amount <= cur.amount /\ amount <= old.amount
  BY DEF RefundAllowed, Allowed
<1>4. row = [amount |-> amount, credit |-> part, accrual |-> old.accrual, day |-> day,
             adjustment |-> Min({amount - part, old.correction, cur.correction})]
  BY DEF RefundRow, RowOf
<1> HIDE DEF old, cur
<1>5. amount <= c.credit
  BY <1>1, <1>2, <1>3
<1>6. part = amount
  <2>1. amount \in Int /\ c.credit \in Int
    BY <1>2
  <2>2. /\ Min({amount, c.credit}) <= amount
        /\ Min({amount, c.credit}) = amount \/ Min({amount, c.credit}) = c.credit
    BY <2>1, MinOf, Zenon
  <2> QED
    BY <1>2, <1>5, <2>2
<1> HIDE DEF part
<1>7. Min({amount - part, old.correction, cur.correction}) = 0
  <2>1. {amount - part, old.correction, cur.correction} = {0}
    BY <1>1, <1>2, <1>6
  <2>2. {0} \subseteq Nat /\ {0} # {}
    OBVIOUS
  <2>3. Min({0}) \in {0}
    BY <2>2, MinOfNats
  <2> QED
    BY <2>1, <2>3
<1>8. row = [amount |-> amount, credit |-> amount, accrual |-> None, day |-> day, adjustment |-> 0]
  BY <1>1, <1>4, <1>6, <1>7
<1>9. row \in RefundType
  BY <1>2, <1>8 DEF RefundType
<1>10. amount <= Overpayment(c, day)
  BY <1>1, <1>2, <1>3, OverpaymentNat
<1> QED
  BY <1>2, <1>5, <1>8, <1>9, <1>10

RefundPaid(c, d, amount) ==
    /\ ContractRow(d) /\ d.payments = c.payments /\ d.credit = c.credit - amount
    /\ d.log = c.log /\ d.through = c.through /\ d.pending = c.pending
    /\ d.adj = c.adj /\ d.voided = c.voided
    /\ d.status = c.status /\ d.actualEnd = c.actualEnd
    /\ d.refunds \in Seq(RefundType)
    /\ DOMAIN d.refunds = DOMAIN c.refunds \cup {Len(c.refunds) + 1}
    /\ Len(c.refunds) + 1 \notin DOMAIN c.refunds
    /\ \A r \in DOMAIN c.refunds : d.refunds[r] = c.refunds[r]
    /\ d.refunds[Len(c.refunds) + 1].amount = amount
    /\ d.refunds[Len(c.refunds) + 1].credit = amount

\* Entering a refund paid from the credit takes it from the credit and changes
\* nothing else.
LEMMA RefundRows ==
  ASSUME NEW c, Billable(c), NEW row \in RefundType, row.credit = row.amount,
         NEW d, d = WithRefund(c, row)
  PROVE  RefundPaid(c, d, row.amount) /\ d.refunds[Len(c.refunds) + 1] = row
<1> DEFINE rows == Append(c.refunds, row)
           n == Len(c.refunds) + 1
           credit == c.credit - row.amount
<1>1. /\ ContractRow(c) /\ Len(c.refunds) \in Nat /\ DOMAIN c.refunds = 1..Len(c.refunds)
      /\ c.refunds \in Seq(RefundType)
  BY BillableFacts DEF Billable, LedgerRows
<1>2. DOMAIN c = {"payments", "refunds", "adj", "voided", "log", "credit", "through", "pending",
                  "status", "actualEnd"}
  BY <1>1 DEF ContractRow
<1>3. /\ rows \in Seq(RefundType) /\ Len(rows) = n /\ rows[n] = row
      /\ \A r \in 1..Len(c.refunds) : rows[r] = c.refunds[r]
  BY <1>1
<1>4. DOMAIN rows = 1..n
  BY <1>3, LenProperties
<1>5. DOMAIN rows = DOMAIN c.refunds \cup {n} /\ n \notin DOMAIN c.refunds
  <2>1. 1..n = 1..Len(c.refunds) \cup {n} /\ n \notin 1..Len(c.refunds)
    BY <1>1
  <2> QED
    BY <1>1, <1>4, <2>1
<1>6. d = [c EXCEPT !.refunds = rows, !.credit = credit]
  BY DEF WithRefund
<1> HIDE DEF rows, credit
<1>7. DOMAIN d = DOMAIN c /\ d = [f \in DOMAIN d |-> d[f]]
  BY <1>6
<1>8. /\ d.payments = c.payments /\ d.credit = credit
      /\ d.log = c.log /\ d.through = c.through /\ d.pending = c.pending
      /\ d.adj = c.adj /\ d.voided = c.voided
      /\ d.status = c.status /\ d.actualEnd = c.actualEnd /\ d.refunds = rows
  BY <1>2, <1>6
<1>9. ContractRow(d)
  BY <1>2, <1>7 DEF ContractRow
<1> QED
  BY <1>1, <1>3, <1>5, <1>8, <1>9 DEF RefundPaid, credit

\* A refund moves credit to the refunds and nothing else.
LEMMA RefundKeeps ==
  ASSUME NEW c, Billable(c), NEW amount \in Nat, amount <= c.credit,
         NEW d, RefundPaid(c, d, amount)
  PROVE  /\ Billable(d) /\ (Within(c) => Within(d)) /\ (Settled(c) => Settled(d))
         /\ PenaltyPaid(d) = PenaltyPaid(c)
         /\ \A from, to : Rows(d, from, to) = Rows(c, from, to)
         /\ \A today : FreshJournal(d, today) = FreshJournal(c, today)
<1> DEFINE n == Len(c.refunds) + 1
<1>1. SameAllocations(c, d)
  BY DEF SameAllocations, RefundPaid
<1>2. /\ AllocatedTotal(d) = AllocatedTotal(c)
      /\ Within(c) => Within(d)
      /\ PaidInOrder(c) => PaidInOrder(d)
      /\ PaidUp(c) => PaidUp(d)
      /\ \A from, to : Rows(d, from, to) = Rows(c, from, to)
      /\ \A today : FreshJournal(d, today) = FreshJournal(c, today)
  BY <1>1, SameAccounts
<1>3. PenaltyPaid(d) = PenaltyPaid(c) /\ Received(d) = Received(c)
  BY DEF PenaltyPaid, Received, Penalties, PaidSums, Active, RefundPaid
<1>4. /\ c.credit \in Nat /\ d.credit = c.credit - amount /\ d.credit \in Nat
  BY DEF RefundPaid, Billable, LedgerRows
<1>5. Refunded(c) \in Int /\ Refunded(d) = Refunded(c) + amount
  <2>1. /\ IsFiniteSet(DOMAIN c.refunds)
        /\ \A r \in DOMAIN c.refunds : c.refunds[r].amount \in Nat
    BY BillableFacts DEF RefundsFit
  <2>2. /\ DOMAIN d.refunds = DOMAIN c.refunds \cup {n} /\ n \notin DOMAIN c.refunds
        /\ \A r \in DOMAIN c.refunds : d.refunds[r] = c.refunds[r]
        /\ d.refunds[n].amount = amount
    BY DEF RefundPaid
  <2> HIDE DEF n
  <2>3. \A r \in DOMAIN c.refunds : /\ RefundSums(c)[r] \in Int
                                    /\ RefundSums(c)[r] = RefundSums(d)[r]
    BY <2>1, <2>2 DEF RefundSums
  <2>4. SumOver(RefundSums(d), DOMAIN c.refunds) = SumOver(RefundSums(c), DOMAIN c.refunds)
    BY <2>1, <2>3, SumEqual
  <2>5. RefundSums(d)[n] = amount /\ \A r \in DOMAIN c.refunds \cup {n} : RefundSums(d)[r] \in Int
    BY <2>1, <2>2 DEF RefundSums
  <2>6. SumOver(RefundSums(d), DOMAIN c.refunds \cup {n})
          = SumOver(RefundSums(d), DOMAIN c.refunds) + RefundSums(d)[n]
    BY <2>1, <2>2, <2>5, SumAdd
  <2>7. SumOver(RefundSums(c), DOMAIN c.refunds) \in Int
    BY <2>1, <2>3, SumInt
  <2> QED
    BY <2>2, <2>4, <2>5, <2>6, <2>7 DEF Refunded
<1>6. Billable(d)
  <2>1. LedgerRows(d)
    BY <1>4 DEF Billable, LedgerRows, RefundPaid
  <2>2. Ends(d) /\ \A i \in AccrualIds : Total(d, i) \in Nat
    BY DEF Billable, Ends, Total, RefundPaid
  <2>3. \A p \in DOMAIN d.payments :
          /\ d.payments[p].reversed => d.payments[p].alloc = NoAllocation
          /\ d.payments[p].synced => d.payments[p].website
    BY DEF Billable, RefundPaid
  <2>4. \A r \in DOMAIN d.refunds : d.refunds[r].credit = d.refunds[r].amount
    BY DEF Billable, RefundPaid
  <2> QED
    BY <2>1, <2>2, <2>3, <2>4 DEF Billable
<1>7. Settled(c) => Settled(d)
  <2> SUFFICES ASSUME Settled(c) PROVE Settled(d)
    OBVIOUS
  <2>1. d.credit > 0 => PaidUp(d)
    BY <1>2, <1>4 DEF Settled
  <2>2. AllocatedTotal(c) \in Int /\ PenaltyPaid(c) \in Int
    <3>1. IsFiniteSet(AccrualIds) /\ \A i \in AccrualIds : Allocated(c, i) \in Nat
      BY MonthsFacts, BillableFacts, AllocatedNat
    <3> DEFINE f == [i \in AccrualIds |-> Allocated(c, i)]
    <3>2. \A i \in AccrualIds : f[i] \in Int
      BY <3>1
    <3> HIDE DEF f
    <3>3. SumOver(f, AccrualIds) \in Int
      BY <3>1, <3>2, SumInt
    <3>4. IsFiniteSet(Active(c)) /\ \A p \in Active(c) : Penalties(c)[p] \in Int
      <4>1. /\ IsFiniteSet(Active(c)) /\ Active(c) \subseteq DOMAIN c.payments
            /\ \A p \in DOMAIN c.payments : c.payments[p].penalty \in Nat
        BY BillableFacts, PaymentTypeFacts
      <4> QED
        BY <4>1 DEF Penalties
    <3>5. SumOver(Penalties(c), Active(c)) \in Int
      BY <3>4, SumInt
    <3> QED
      BY <3>3, <3>5 DEF AllocatedTotal, PenaltyPaid, f
  <2>3. Received(d) = AllocatedTotal(d) + PenaltyPaid(d) + d.credit + Refunded(d)
    <3>1. Received(c) = AllocatedTotal(c) + PenaltyPaid(c) + c.credit + Refunded(c)
      BY DEF Settled
    <3> QED
      BY <1>2, <1>3, <1>4, <1>5, <2>2, <3>1
  <2> QED
    BY <1>2, <2>1, <2>3 DEF Settled
<1> QED
  BY <1>2, <1>3, <1>6, <1>7

VoidedOn(c, day) == [i \in AccrualIds |-> c.voided[i] \/ Accrual[i].start > day]
CutOn(c, day) == {i \in Live(c) : Accrual[i].start <= day /\ Accrual[i].end > day}
AdjOn(c, day) ==
    [i \in AccrualIds |-> IF i \in CutOn(c, day)
                          THEN AmountFor(day - Accrual[i].start + 1, FALSE) - Accrual[i].charge
                          ELSE c.adj[i]]

\* A termination keeps the rows of a contract what billing relies on: it leaves no
\* accrual with a negative charge.
LEMMA ShortenedKeeps ==
  ASSUME NEW c, Billable(c), NEW day \in LeaveDays, NEW d, d = Shortened(c, day)
  PROVE  /\ Billable(d) /\ d.payments = c.payments /\ d.refunds = c.refunds
         /\ d.status = "TERMINATED" /\ d.actualEnd = day /\ day \in Nat
<1> DEFINE voided == VoidedOn(c, day)
           adj == AdjOn(c, day)
<1>1. day \in Nat
  BY BoundsAssumption, CalendarAssumption
<1>2. DOMAIN c = {"payments", "refunds", "adj", "voided", "log", "credit", "through", "pending",
                  "status", "actualEnd"}
  BY DEF Billable, LedgerRows, ContractRow
<1>3. d = [c EXCEPT !.status = "TERMINATED", !.actualEnd = day, !.voided = voided, !.adj = adj]
  BY DEF Shortened, VoidedOn, CutOn, AdjOn
<1> HIDE DEF voided, adj
<1>4. DOMAIN d = DOMAIN c /\ d = [f \in DOMAIN d |-> d[f]]
  BY <1>3
<1>5. /\ d.payments = c.payments /\ d.refunds = c.refunds /\ d.log = c.log
      /\ d.credit = c.credit /\ d.through = c.through /\ d.pending = c.pending
      /\ d.status = "TERMINATED" /\ d.actualEnd = day /\ d.voided = voided /\ d.adj = adj
  BY <1>2, <1>3
<1>6. ContractRow(d)
  BY <1>2, <1>4 DEF ContractRow
<1>7. voided \in [AccrualIds -> BOOLEAN]
  BY DEF voided, VoidedOn
<1>8. ASSUME NEW i \in AccrualIds
      PROVE  adj[i] \in Int /\ Accrual[i].charge + adj[i] \in Nat
  <2>1. /\ Accrual[i].charge \in Nat /\ Accrual[i].start \in Nat
        /\ c.adj[i] \in Int /\ Accrual[i].charge + c.adj[i] \in Nat
    BY AccrualFacts DEF Billable, LedgerRows, Total
  <2>2. CASE i \in CutOn(c, day)
    <3>1. Accrual[i].start <= day
      BY <2>2 DEF CutOn
    <3>2. day - Accrual[i].start + 1 \in Nat
      BY <1>1, <2>1, <3>1
    <3>3. FALSE \in BOOLEAN
      OBVIOUS
    <3>4. AmountFor(day - Accrual[i].start + 1, FALSE) \in Nat
      BY <3>2, <3>3, AmountNat, Zenon
    <3>5. adj[i] = AmountFor(day - Accrual[i].start + 1, FALSE) - Accrual[i].charge
      BY <2>2 DEF adj, AdjOn
    <3>6. PICK m \in Nat : m = AmountFor(day - Accrual[i].start + 1, FALSE)
      BY <3>4, Zenon
    <3>7. PICK q \in Nat : q = Accrual[i].charge
      BY <2>1, Zenon
    <3>8. adj[i] = m - q
      BY <3>5, <3>6, <3>7, Zenon
    <3>9. adj[i] \in Int /\ q + adj[i] \in Nat
      <4>1. m - q \in Int /\ q + (m - q) = m
        OBVIOUS
      <4> QED
        BY <3>8, <4>1
    <3> QED
      BY <3>7, <3>9
  <2>3. CASE i \notin CutOn(c, day)
    <3>1. adj[i] = c.adj[i]
      BY <2>3 DEF adj, AdjOn
    <3> QED
      BY <2>1, <3>1
  <2> QED
    BY <2>2, <2>3
<1>9. adj \in [AccrualIds -> Int]
  <2>1. adj = [i \in AccrualIds |-> adj[i]]
    BY DEF adj, AdjOn
  <2> QED
    BY <1>8, <2>1
<1>10. LedgerRows(d)
  BY <1>1, <1>5, <1>6, <1>7, <1>9 DEF Billable, LedgerRows
<1>11. Ends(d)
  BY <1>1, <1>5 DEF Ends
<1>12. \A i \in AccrualIds : Total(d, i) \in Nat
  BY <1>5, <1>8 DEF Total
<1>13. Billable(d)
  BY <1>5, <1>10, <1>11, <1>12 DEF Billable
<1> QED
  BY <1>1, <1>5, <1>13

\* A contract that has only been signed.
LEMMA NewContractFacts ==
  /\ Billable(NewContract) /\ Settled(NewContract)
  /\ DOMAIN NewContract.payments = {} /\ DOMAIN NewContract.refunds = {}
  /\ NewContract.through = None /\ NewContract.log = <<>> /\ NewContract.pending = FALSE
  /\ NewContract.status = "ACTIVE" /\ \A i \in AccrualIds : ~NewContract.voided[i]
<1> DEFINE c == NewContract
<1>1. /\ c.payments = <<>> /\ c.refunds = <<>> /\ c.log = <<>> /\ c.credit = 0
      /\ c.through = None /\ c.pending = FALSE /\ c.status = "ACTIVE" /\ c.actualEnd = None
      /\ c.adj = [i \in AccrualIds |-> 0] /\ c.voided = [i \in AccrualIds |-> FALSE]
      /\ ContractRow(c)
  BY DEF NewContract, ContractRow
<1> HIDE DEF c
<1>2. DOMAIN c.payments = {} /\ DOMAIN c.refunds = {} /\ DOMAIN c.log = {}
  BY <1>1
<1>3. \A i \in AccrualIds : Total(c, i) = Accrual[i].charge /\ Total(c, i) \in Nat
  BY <1>1, AccrualFacts DEF Total
<1>4. LedgerRows(c)
  <2>1. IsFiniteSet(DOMAIN c.log)
    BY <1>2, FS_EmptySet
  <2>2. c.log = [d \in DOMAIN c.log |-> c.log[d]]
    BY <1>1, <1>2
  <2>3. c.payments \in Seq(PaymentType) /\ c.refunds \in Seq(RefundType)
    BY <1>1
  <2>4. c.adj \in [AccrualIds -> Int] /\ c.voided \in [AccrualIds -> BOOLEAN]
    BY <1>1
  <2>5. /\ c.credit \in Nat /\ c.through \in Nat \cup {None}
        /\ c.status \in {"ACTIVE", "TERMINATED"} /\ c.actualEnd \in Nat \cup {None}
    BY <1>1
  <2>6. c.pending \in BOOLEAN
    BY <1>1, Zenon
  <2> QED
    BY <1>1, <1>2, <2>1, <2>2, <2>3, <2>4, <2>5, <2>6 DEF LedgerRows
<1>5. Billable(c)
  BY <1>1, <1>2, <1>3, <1>4 DEF Billable, Ends
<1>6. Active(c) = {}
  BY <1>2 DEF Active
<1>7. \A i \in AccrualIds : Allocated(c, i) = 0
  BY <1>2, SumEmpty DEF Allocated
<1>8. AllocatedTotal(c) = 0
  <2> DEFINE f == [i \in AccrualIds |-> Allocated(c, i)]
  <2>1. IsFiniteSet(AccrualIds) /\ \A i \in AccrualIds : f[i] = 0
    BY <1>7, MonthsFacts
  <2> HIDE DEF f
  <2>2. SumOver(f, AccrualIds) = 0
    BY <2>1, SumZero
  <2> QED
    BY <2>2 DEF AllocatedTotal, f
<1>9. Received(c) = 0 /\ PenaltyPaid(c) = 0 /\ Refunded(c) = 0
  BY <1>2, <1>6, SumEmpty DEF Received, PenaltyPaid, Refunded
<1>10. Within(c) /\ PaidInOrder(c)
  <2>1. Within(c)
    BY <1>3, <1>7 DEF Within
  <2>2. PaidInOrder(c)
    BY <1>7 DEF PaidInOrder, Live
  <2> QED
    BY <2>1, <2>2
<1>11. Settled(c)
  BY <1>1, <1>8, <1>9, <1>10 DEF Settled
<1> QED
  BY <1>1, <1>2, <1>5, <1>11 DEF c

\* A journal, or a part of one.
JournalLike(rows) ==
    /\ IsFiniteSet(DOMAIN rows) /\ rows = [x \in DOMAIN rows |-> rows[x]]
    /\ \A x \in DOMAIN rows : x \in Nat /\ rows[x] \in Nat

\* The rows of the days from..to.
LEMMA RowsFacts ==
  ASSUME NEW c, Fits(c), NEW from \in Nat, NEW to \in Int
  PROVE  /\ JournalLike(Rows(c, from, to))
         /\ DOMAIN Rows(c, from, to) = {x \in from..to : OverdueSum(c, x) > 0}
         /\ \A x \in DOMAIN Rows(c, from, to) :
               Rows(c, from, to)[x] = DailyPenalty(OverdueSum(c, x))
<1> DEFINE D == {x \in from..to : OverdueSum(c, x) > 0}
           rows == Rows(c, from, to)
<1>1. rows = [x \in D |-> DailyPenalty(OverdueSum(c, x))]
  BY DEF Rows
<1>2. IsFiniteSet(D) /\ D \subseteq from..to
  <2>1. IsFiniteSet(from..to) /\ D \subseteq from..to
    BY FS_Interval
  <2> QED
    BY <2>1, FS_Subset
<1>3. \A x \in D : x \in Nat /\ x \in Int
  BY <1>2
<1>4. \A x \in D : OverdueSum(c, x) \in Nat
  BY <1>3, OverdueNat
<1>5. \A x \in D : DailyPenalty(OverdueSum(c, x)) \in Nat
  BY <1>4, DailyPenaltyNat
<1>6. DOMAIN rows = D
  BY <1>1
<1> HIDE DEF rows
<1>7. JournalLike(rows)
  BY <1>1, <1>2, <1>3, <1>5, <1>6 DEF JournalLike
<1> QED
  BY <1>1, <1>6, <1>7 DEF rows

NightWritten(c, d, rows, today) ==
    /\ ContractRow(d) /\ d.through = today /\ d.log = Merged(c.log, rows)
    /\ d.payments = c.payments /\ d.credit = c.credit /\ d.pending = c.pending
    /\ Untouched(c, d)

\* What the nightly accrual writes, field by field.
LEMMA NightRowsWritten ==
  ASSUME NEW c, Billable(c), NEW rows, NEW today,
         NEW d, d = [c EXCEPT !.through = today, !.log = Merged(@, rows)]
  PROVE  NightWritten(c, d, rows, today)
<1> DEFINE log == Merged(c.log, rows)
<1>1. DOMAIN c = {"payments", "refunds", "adj", "voided", "log", "credit", "through", "pending",
                  "status", "actualEnd"}
  BY DEF Billable, LedgerRows, ContractRow
<1>2. d = [c EXCEPT !.through = today, !.log = log]
  OBVIOUS
<1> HIDE DEF log
<1>3. DOMAIN d = DOMAIN c /\ d = [f \in DOMAIN d |-> d[f]]
  BY <1>2
<1>4. /\ d.payments = c.payments /\ d.credit = c.credit /\ d.pending = c.pending
      /\ d.through = today /\ d.log = log /\ Untouched(c, d)
  BY <1>1, <1>2 DEF Untouched
<1>5. ContractRow(d)
  BY <1>1, <1>3 DEF ContractRow
<1> QED
  BY <1>4, <1>5 DEF NightWritten, log

\* The nightly accrual only adds to the journal.
LEMMA NightKeeps ==
  ASSUME NEW c, Billable(c), NEW rows, JournalLike(rows), NEW today \in Nat,
         NEW d, NightWritten(c, d, rows, today)
  PROVE  /\ Billable(d) /\ SameMoney(c, d) /\ Untouched(c, d)
         /\ \A x \in Int : JournalSum(c, x) <= JournalSum(d, x)
<1>1. /\ d.log = Merged(c.log, rows) /\ DOMAIN d.log = DOMAIN c.log \cup DOMAIN rows
      /\ \A x \in DOMAIN d.log : d.log[x] = IF x \in DOMAIN c.log THEN c.log[x] ELSE rows[x]
  <2>1. d.log = Merged(c.log, rows)
    BY DEF NightWritten
  <2> QED
    BY <2>1 DEF Merged
<1>2. /\ IsFiniteSet(DOMAIN c.log) /\ \A x \in DOMAIN c.log : x \in Nat /\ c.log[x] \in Nat
  BY DEF Billable, LedgerRows
<1>3. /\ IsFiniteSet(DOMAIN d.log) /\ \A x \in DOMAIN d.log : x \in Nat /\ d.log[x] \in Nat
  <2>1. IsFiniteSet(DOMAIN rows) /\ \A x \in DOMAIN rows : x \in Nat /\ rows[x] \in Nat
    BY DEF JournalLike
  <2>2. IsFiniteSet(DOMAIN d.log)
    BY <1>1, <1>2, <2>1, FS_Union
  <2>3. \A x \in DOMAIN d.log : x \in DOMAIN c.log \/ x \in DOMAIN rows
    BY <1>1
  <2> QED
    BY <1>1, <1>2, <2>1, <2>2, <2>3
<1>4. d.log = [x \in DOMAIN d.log |-> d.log[x]]
  BY <1>1 DEF Merged
<1>5. LedgerRows(d)
  BY <1>3, <1>4 DEF Billable, LedgerRows, NightWritten, Untouched
<1>6. Billable(d)
  BY <1>5 DEF Billable, NightWritten, Untouched, Ends, Total
<1>7. SameMoney(c, d) /\ Untouched(c, d)
  BY DEF SameMoney, Reallocates, NightWritten, Untouched
<1>8. ASSUME NEW x \in Int PROVE JournalSum(c, x) <= JournalSum(d, x)
  <2> DEFINE C == {y \in DOMAIN c.log : y <= x}
             D == {y \in DOMAIN d.log : y <= x}
  <2>1. IsFiniteSet(C) /\ IsFiniteSet(D) /\ C \in SUBSET D
    <3>1. C \subseteq DOMAIN c.log /\ D \subseteq DOMAIN d.log /\ C \subseteq D
      BY <1>1
    <3> QED
      BY <1>2, <1>3, <3>1, FS_Subset
  <2>2. \A y \in D : d.log[y] \in Int /\ d.log[y] >= 0
    BY <1>3
  <2>3. \A y \in C : c.log[y] \in Int /\ c.log[y] = d.log[y]
    BY <1>1, <1>2
  <2> HIDE DEF C, D
  <2>4. SumOver(c.log, C) = SumOver(d.log, C)
    BY <2>1, <2>3, SumEqual
  <2>5. SumOver(d.log, C) <= SumOver(d.log, D)
    BY <2>1, <2>2, SumSubset
  <2> QED
    BY <2>4, <2>5 DEF JournalSum, C, D
<1> QED
  BY <1>6, <1>7, <1>8

NightSane(n) == n # None => JournalLike(n.rows) /\ n.today \in Nat

LeftInTime(c) == c.status = "TERMINATED" => \A d \in DOMAIN c.log : d <= c.actualEnd

\* What every reachable state has, whatever the order of the operations.
LedgerInv ==
    /\ now \in Nat
    /\ Billable(contract) /\ Within(contract)
    /\ NightSane(night) /\ LeftInTime(contract)

PaidIn(amount, at, website) ==
    /\ amount \in Amounts \cup OnlineAmounts /\ at \in Nat /\ website \in BOOLEAN
    /\ at <= now \/ AllowFuture
    /\ contract' = WithPayment(contract, amount, at, website)
    /\ now' = now /\ night' = night

TakenBack(p) ==
    /\ p \in Active(contract) /\ contract' = Reversal(contract, p)
    /\ Cardinality(DOMAIN contract.payments \ Active(contract)) < MaxReversals
    /\ now' = now /\ night' = night

Pushed(p) ==
    /\ p \in Active(contract) /\ contract.payments[p].website
    /\ contract' = [contract EXCEPT !.payments[p].synced = TRUE]
    /\ now' = now /\ night' = night

PaidOut(amount, day) ==
    /\ amount \in RefundAmounts /\ day \in Nat
    /\ Len(contract.refunds) < MaxRefunds
    /\ RefundAllowed(contract, amount, day, Today)
    /\ contract' = WithRefund(contract, RefundRow(contract, amount, day, Today))
    /\ now' = now /\ night' = night

Reconciling ==
    /\ night = None \/ NightOverlap
    /\ ~ReplayRefused(contract, Today) /\ contract' = Reconciled(contract)
    /\ now' = now /\ night' = night

Terminating(day) ==
    /\ day \in LeaveDays /\ contract.status # "TERMINATED"
    /\ ~ReplayRefused(Shortened(contract, day), Today)
    /\ contract' = Reconciled(Shortened(contract, day))
    /\ now' = now /\ night' = night

Resting == contract' = contract /\ night' = night /\ (now' = now \/ (now' = now + 1 /\ night = None))

\* The steps of the ledger, with what the proofs use of their guards.
LEMMA Steps ==
  ASSUME LedgerInv, [Next]_vars
  PROVE  \/ \E amount, at, website : PaidIn(amount, at, website)
         \/ \E p : TakenBack(p)
         \/ \E p : Pushed(p)
         \/ \E amount, day : PaidOut(amount, day)
         \/ Reconciling
         \/ \E day : Terminating(day)
         \/ NightRead
         \/ NightCommit
         \/ Resting
<1>1. now \in Nat
  BY DEF LedgerInv
<1>2. CASE CreatePayment
  <2>1. PICK amount \in Amounts, at \in PaymentDates :
           contract' = WithPayment(contract, amount, at, FALSE)
    BY <1>2 DEF CreatePayment
  <2>2. at \in Nat /\ (at <= now \/ AllowFuture)
    <3>1. CASE at = now
      BY <1>1, <3>1
    <3>2. CASE \E d \in BackDates : at = Midnight(d) /\ (at <= now \/ AllowFuture)
      <4>1. PICK d \in BackDates : at = Midnight(d) /\ (at <= now \/ AllowFuture)
        BY <3>2
      <4>2. d \in Nat
        BY BoundsAssumption
      <4> QED
        BY <4>1, <4>2, TimeFacts
    <3> QED
      BY <3>1, <3>2 DEF PaymentDates
  <2>3. FALSE \in BOOLEAN
    OBVIOUS
  <2>4. PaidIn(amount, at, FALSE)
    BY <1>2, <2>1, <2>2, <2>3, Zenon DEF PaidIn, CreatePayment
  <2> QED
    BY <2>4
<1>3. CASE ReceiveOnlinePayment
  <2>1. PICK amount \in OnlineAmounts : contract' = WithPayment(contract, amount, now, TRUE)
    BY <1>3 DEF ReceiveOnlinePayment
  <2>2. TRUE \in BOOLEAN /\ now <= now
    BY <1>1
  <2>3. PaidIn(amount, now, TRUE)
    BY <1>1, <1>3, <2>1, <2>2, Zenon DEF PaidIn, ReceiveOnlinePayment
  <2> QED
    BY <2>3
<1>4. CASE ReversePayment
  BY <1>4 DEF ReversePayment, TakenBack, Reversal
<1>5. CASE PushPayment
  BY <1>5 DEF PushPayment, Pushed
<1>6. CASE CreateRefund
  <2>1. PICK amount \in RefundAmounts, day \in RefundDays :
           /\ RefundAllowed(contract, amount, day, Today)
           /\ contract' = WithRefund(contract, RefundRow(contract, amount, day, Today))
    BY <1>6 DEF CreateRefund
  <2>2. day \in Nat
    BY BoundsAssumption
  <2>3. PaidOut(amount, day)
    BY <1>6, <2>1, <2>2 DEF PaidOut, CreateRefund
  <2> QED
    BY <2>3
<1>7. CASE ReconcilePending
  BY <1>7 DEF ReconcilePending, Reconciling
<1>8. CASE RecalculatePenalty
  BY <1>8 DEF RecalculatePenalty, Reconciling
<1>9. CASE Terminate
  BY <1>9 DEF Terminate, Terminating
<1>10. CASE Tick
  <2>1. contract' = contract /\ night' = night /\ now' = now + 1 /\ night = None
    BY <1>10 DEF Tick
  <2> QED
    BY <2>1, Zenon DEF Resting
<1>11. CASE UNCHANGED vars
  <2>1. contract' = contract /\ night' = night /\ now' = now
    BY <1>11 DEF vars
  <2>2. Resting
    BY <2>1 DEF Resting
  <2> QED
    BY <2>2
<1> QED
  BY <1>2, <1>3, <1>4, <1>5, <1>6, <1>7, <1>8, <1>9, <1>10, <1>11 DEF Next

\* Today is a natural.
LEMMA TodayNat == ASSUME now \in Nat PROVE Today \in Nat
  BY TimeFacts DEF Today

\* The rows after a payment.
LEMMA PaidInFacts ==
  ASSUME LedgerInv, NEW amount, NEW at, NEW website, PaidIn(amount, at, website)
  PROVE  PaymentMade(contract, contract', amount, at) /\ Within(contract')
<1>1. Billable(contract) /\ Within(contract) /\ now \in Nat
  BY DEF LedgerInv
<1>2. /\ amount \in Amounts \cup OnlineAmounts /\ at \in Nat /\ website \in BOOLEAN
      /\ contract' = WithPayment(contract, amount, at, website)
  BY DEF PaidIn
<1>3. PaymentMade(contract, contract', amount, at)
  BY <1>1, <1>2, PaymentEntered
<1>4. PICK p, day, money, owed :
        /\ Billable(contract') /\ day \in Nat /\ money \in Int /\ owed \in Int
        /\ Entered(contract, contract', p, day, money, owed)
  BY <1>3, Zenon DEF PaymentMade
<1>5. Within(contract')
  BY <1>1, <1>4, EnteredWithin
<1> QED
  BY <1>3, <1>5

\* The rows after a refund.
LEMMA PaidOutFacts ==
  ASSUME LedgerInv, NEW amount, NEW day, PaidOut(amount, day)
  PROVE  /\ RefundPaid(contract, contract', amount) /\ amount \in Nat /\ amount <= contract.credit
         /\ amount > 0 /\ amount <= Overpayment(contract, day)
         /\ contract'.refunds[Len(contract.refunds) + 1].day = day
         /\ Billable(contract') /\ Within(contract')
         /\ Settled(contract) => Settled(contract')
         /\ PenaltyPaid(contract') = PenaltyPaid(contract)
         /\ \A today : FreshJournal(contract', today) = FreshJournal(contract, today)
         /\ \A from, to : Rows(contract', from, to) = Rows(contract, from, to)
<1>1. Billable(contract) /\ Within(contract) /\ now \in Nat
  BY DEF LedgerInv
<1>2. /\ amount \in RefundAmounts /\ day \in Nat
      /\ RefundAllowed(contract, amount, day, Today)
      /\ contract' = WithRefund(contract, RefundRow(contract, amount, day, Today))
  BY DEF PaidOut
<1>3. Today \in Nat
  BY <1>1, TodayNat
<1>4. PICK row : row = RefundRow(contract, amount, day, Today)
  OBVIOUS
<1>5. /\ row \in RefundType /\ row.amount = amount /\ row.credit = amount /\ row.day = day
      /\ amount \in Nat /\ amount <= contract.credit /\ amount <= Overpayment(contract, day)
  BY <1>1, <1>2, <1>3, <1>4, RefundIsCredit
<1>6. contract' = WithRefund(contract, row)
  BY <1>2, <1>4
<1>7. /\ RefundPaid(contract, contract', amount)
      /\ contract'.refunds[Len(contract.refunds) + 1].day = day
  BY <1>1, <1>5, <1>6, RefundRows
<1>8. /\ Billable(contract') /\ (Within(contract) => Within(contract'))
      /\ Settled(contract) => Settled(contract')
      /\ PenaltyPaid(contract') = PenaltyPaid(contract)
      /\ \A today : FreshJournal(contract', today) = FreshJournal(contract, today)
      /\ \A from, to : Rows(contract', from, to) = Rows(contract, from, to)
  BY <1>1, <1>5, <1>7, RefundKeeps
<1>9. amount > 0
  BY <1>2, <1>5, BoundsAssumption
<1> QED
  BY <1>1, <1>5, <1>7, <1>8, <1>9

\* A reconciliation leaves a contract replayed, within its totals, and without a
\* penalty for a day after the resident left.
LEMMA ReconcilingFacts ==
  ASSUME NEW c, Billable(c), now \in Nat, ~ReplayRefused(c, Today), NEW d, d = Reconciled(c)
  PROVE  AfterReplay(c, d) /\ Within(d) /\ LeftInTime(d)
<1>1. AfterReplay(c, d)
  BY ReconciledFacts
<1>2. Within(d)
  BY <1>1 DEF AfterReplay, Settled
<1>3. LeftInTime(d)
  <2>1. Fits(d) /\ Ends(d) /\ Today \in Nat
    BY <1>1, BillableFacts, TodayNat DEF AfterReplay
  <2>2. /\ FreshJournal(d, Today)
              = [x \in JournalDays(d, Today) |-> DailyPenalty(OverdueSum(d, x))]
        /\ \A x \in JournalDays(d, Today) : x \in Nat /\ x <= PenaltyEnd(d, Today)
    BY <2>1, FreshJournalIs
  <2>3. DOMAIN d.log = JournalDays(d, Today)
    BY <1>1, <2>2 DEF AfterReplay
  <2>4. /\ PenaltyEnd(d, Today) \in Nat
        /\ d.status = "TERMINATED" => PenaltyEnd(d, Today) <= d.actualEnd
    BY <2>1, EndFacts
  <2>5. d.status = "TERMINATED" => d.actualEnd \in Nat
    BY <2>1 DEF Ends
  <2> QED
    BY <2>2, <2>3, <2>4, <2>5 DEF LeftInTime
<1> QED
  BY <1>1, <1>2, <1>3

\* The nightly accrual has read what the journal lacks.
LEMMA NightReadFacts ==
  ASSUME LedgerInv, NightRead
  PROVE  /\ NightSane(night') /\ contract' = contract /\ now' = now
         /\ night'.today = Today /\ AccruedThrough + 1 \in Nat
         /\ night'.rows = Rows(contract, AccruedThrough + 1, Today)
         /\ Today \in Nat /\ contract.status # "TERMINATED" /\ Live(contract) # {}
<1>1. Fits(contract) /\ Today \in Nat /\ Billable(contract)
  BY BillableFacts, TodayNat DEF LedgerInv
<1>2. Live(contract) # {} /\ contract.status # "TERMINATED"
  BY DEF NightRead, NightDue
<1>3. AccruedThrough + 1 \in Nat
  <2>1. PenaltyStart(contract) \in Nat
    BY <1>2, StartFacts
  <2>2. contract.through # None => contract.through \in Nat
    BY <1>1 DEF Billable, LedgerRows
  <2>3. CASE contract.through = None
    <3>1. AccruedThrough = PenaltyStart(contract) - 1
      BY <2>3 DEF AccruedThrough
    <3> QED
      BY <2>1, <3>1
  <2>4. CASE contract.through # None
    <3>1. AccruedThrough = contract.through
      BY <2>4 DEF AccruedThrough
    <3> QED
      BY <2>2, <2>4, <3>1
  <2> QED
    BY <2>3, <2>4
<1>4. night' = [rows |-> Rows(contract, AccruedThrough + 1, Today), today |-> Today]
  BY DEF NightRead
<1>5. JournalLike(Rows(contract, AccruedThrough + 1, Today))
  <2>1. Today \in Int
    BY <1>1
  <2> QED
    BY <1>1, <1>3, <2>1, RowsFacts
<1>6. NightSane(night')
  BY <1>1, <1>4, <1>5 DEF NightSane
<1> QED
  BY <1>1, <1>2, <1>3, <1>4, <1>6 DEF NightRead

\* The nightly accrual only adds to the journal: to that of an active contract, the
\* rows it has read.
LEMMA NightCommitFacts ==
  ASSUME LedgerInv, NightCommit
  PROVE  /\ night' = None /\ now' = now
         /\ Billable(contract') /\ SameMoney(contract, contract') /\ Untouched(contract, contract')
         /\ Within(contract') /\ contract'.pending = contract.pending
         /\ contract'.payments = contract.payments
         /\ \A x \in Int : JournalSum(contract, x) <= JournalSum(contract', x)
         /\ \/ contract' = contract
            \/ /\ contract.status # "TERMINATED" /\ night # None
               /\ NightWritten(contract, contract', night.rows, night.today)
<1>1. Billable(contract) /\ Within(contract)
  BY DEF LedgerInv
<1>2. night # None /\ JournalLike(night.rows) /\ night.today \in Nat
  BY DEF LedgerInv, NightCommit, NightSane
<1>3. CASE contract.status = "TERMINATED"
  <2>1. contract' = contract
    BY <1>3 DEF NightCommit
  <2>2. \A x \in Int : JournalSum(contract, x) \in Nat
    BY <1>1, JournalSumNat DEF Billable
  <2>3. SameMoney(contract, contract') /\ Untouched(contract, contract')
    BY <2>1 DEF SameMoney, Reallocates, Untouched
  <2>4. \A x \in Int : JournalSum(contract, x) <= JournalSum(contract', x)
    BY <2>1, <2>2
  <2> QED
    BY <1>1, <2>1, <2>3, <2>4 DEF NightCommit
<1>4. CASE contract.status # "TERMINATED"
  <2>1. contract' = [contract EXCEPT !.through = night.today, !.log = Merged(@, night.rows)]
    BY <1>4 DEF NightCommit
  <2>2. NightWritten(contract, contract', night.rows, night.today)
    BY <1>1, <2>1, NightRowsWritten
  <2>3. /\ Billable(contract') /\ SameMoney(contract, contract') /\ Untouched(contract, contract')
        /\ \A x \in Int : JournalSum(contract, x) <= JournalSum(contract', x)
    BY <1>1, <1>2, <2>2, NightKeeps
  <2>4. Within(contract')
    BY <1>1, <2>3, SameMoneyFacts
  <2> QED
    BY <1>2, <1>4, <2>2, <2>3, <2>4 DEF NightCommit, NightWritten
<1> QED
  BY <1>3, <1>4

\* The journal of a left contract ends in time as long as nothing is written to it.
LEMMA LeftInTimeKept ==
  ASSUME NEW c, NEW d, LeftInTime(c), Untouched(c, d), d.log = c.log
  PROVE  LeftInTime(d)
BY DEF LeftInTime, Untouched

\* The inductive invariant holds of a new contract.
LEMMA LedgerInvInit == Init => LedgerInv
<1> SUFFICES ASSUME Init PROVE LedgerInv
  OBVIOUS
<1>1. contract = NewContract /\ night = None
  BY DEF Init
<1>2. now \in Nat
  <2>1. now = Midnight(FirstDay) + 1
    BY DEF Init
  <2>2. FirstDay \in Nat
    BY BoundsAssumption
  <2> QED
    BY <2>1, <2>2, TimeFacts
<1>3. Billable(contract) /\ Settled(contract) /\ contract.status = "ACTIVE"
  BY <1>1, NewContractFacts
<1>4. Within(contract) /\ LeftInTime(contract)
  BY <1>3 DEF Settled, LeftInTime
<1> QED
  BY <1>1, <1>2, <1>3, <1>4 DEF LedgerInv, NightSane

\* The invariant is inductive.
LEMMA LedgerInvKept ==
  ASSUME LedgerInv, [Next]_vars
  PROVE  LedgerInv'
<1>1. /\ now \in Nat /\ Billable(contract) /\ Within(contract) /\ NightSane(night)
      /\ LeftInTime(contract)
  BY DEF LedgerInv
<1> SUFFICES /\ now' \in Nat /\ Billable(contract') /\ Within(contract') /\ NightSane(night')
             /\ LeftInTime(contract')
  BY DEF LedgerInv
<1>2. CASE \E amount, at, website : PaidIn(amount, at, website)
  <2>1. PICK amount, at, website : PaidIn(amount, at, website)
    BY <1>2
  <2>2. PaymentMade(contract, contract', amount, at) /\ Within(contract')
    BY <2>1, PaidInFacts
  <2>3. Billable(contract') /\ Untouched(contract, contract') /\ contract'.log = contract.log
    BY <2>2 DEF PaymentMade, Entered
  <2>4. now' = now /\ night' = night
    BY <2>1 DEF PaidIn
  <2> QED
    BY <1>1, <2>2, <2>3, <2>4, LeftInTimeKept
<1>3. CASE \E p : TakenBack(p)
  <2>1. PICK p : TakenBack(p)
    BY <1>3
  <2>2. p \in Active(contract) /\ contract' = Reversal(contract, p) /\ now' = now /\ night' = night
    BY <2>1 DEF TakenBack
  <2>3. p \in DOMAIN contract.payments
    BY <2>2 DEF Active
  <2>4. Billable(contract') /\ Within(contract')
    BY <1>1, <2>2, ReversalKeeps
  <2>5. OtherRow(contract, contract', p, ReversedRow(contract.payments[p]))
    BY <1>1, <2>2, <2>3, ReversalIs
  <2>6. Untouched(contract, contract') /\ contract'.log = contract.log
    BY <2>5 DEF OtherRow
  <2> QED
    BY <1>1, <2>2, <2>4, <2>6, LeftInTimeKept
<1>4. CASE \E p : Pushed(p)
  <2>1. PICK p : Pushed(p)
    BY <1>4
  <2>2. /\ p \in Active(contract) /\ contract.payments[p].website
        /\ contract' = [contract EXCEPT !.payments[p].synced = TRUE]
        /\ now' = now /\ night' = night
    BY <2>1 DEF Pushed
  <2>3. PushedRows(contract, contract')
    BY <1>1, <2>2, PushKeeps
  <2>4. /\ Billable(contract') /\ SameMoney(contract, contract')
        /\ Untouched(contract, contract') /\ contract'.log = contract.log
    BY <2>3 DEF PushedRows
  <2>5. Within(contract')
    BY <1>1, <2>4, SameMoneyFacts
  <2> QED
    BY <1>1, <2>2, <2>4, <2>5, LeftInTimeKept
<1>5. CASE \E amount, day : PaidOut(amount, day)
  <2>1. PICK amount, day : PaidOut(amount, day)
    BY <1>5
  <2>2. RefundPaid(contract, contract', amount) /\ Billable(contract') /\ Within(contract')
    BY <2>1, PaidOutFacts
  <2>3. LeftInTime(contract')
    BY <1>1, <2>2 DEF LeftInTime, RefundPaid
  <2> QED
    BY <1>1, <2>1, <2>2, <2>3 DEF PaidOut
<1>6. CASE Reconciling
  <2>1. /\ ~ReplayRefused(contract, Today) /\ contract' = Reconciled(contract)
        /\ now' = now /\ night' = night
    BY <1>6 DEF Reconciling
  <2>2. AfterReplay(contract, contract') /\ Within(contract') /\ LeftInTime(contract')
    BY <1>1, <2>1, ReconcilingFacts
  <2> QED
    BY <1>1, <2>1, <2>2 DEF AfterReplay
<1>7. CASE \E day : Terminating(day)
  <2>1. PICK day : Terminating(day)
    BY <1>7
  <2>2. /\ day \in LeaveDays /\ now' = now /\ night' = night
    BY <2>1 DEF Terminating
  <2>3. PICK c : c = Shortened(contract, day)
    OBVIOUS
  <2>4. ~ReplayRefused(c, Today) /\ contract' = Reconciled(c)
    BY <2>1, <2>3 DEF Terminating
  <2>5. Billable(c)
    BY <1>1, <2>2, <2>3, ShortenedKeeps
  <2>6. AfterReplay(c, contract') /\ Within(contract') /\ LeftInTime(contract')
    BY <1>1, <2>4, <2>5, ReconcilingFacts
  <2> QED
    BY <1>1, <2>2, <2>6 DEF AfterReplay
<1>8. CASE NightRead
  <2>1. NightSane(night') /\ contract' = contract /\ now' = now
    BY <1>8, NightReadFacts
  <2> QED
    BY <1>1, <2>1
<1>9. CASE NightCommit
  <2>1. /\ night' = None /\ now' = now /\ Billable(contract') /\ Within(contract')
        /\ Untouched(contract, contract')
        /\ contract' = contract \/ contract.status # "TERMINATED"
    BY <1>9, NightCommitFacts
  <2>2. LeftInTime(contract')
    BY <1>1, <2>1 DEF LeftInTime, Untouched
  <2>3. NightSane(night')
    BY <2>1 DEF NightSane
  <2> QED
    BY <1>1, <2>1, <2>2, <2>3
<1>10. CASE Resting
  <2>1. contract' = contract /\ night' = night /\ now' \in Nat
    BY <1>1, <1>10 DEF Resting
  <2> QED
    BY <1>1, <2>1
<1> QED
  BY <1>2, <1>3, <1>4, <1>5, <1>6, <1>7, <1>8, <1>9, <1>10, Steps

\* The inductive invariant holds in every state.
LEMMA LedgerInvAlways == Spec => []LedgerInv
<1>1. LedgerInv /\ [Next]_vars => LedgerInv'
  BY LedgerInvKept
<1> QED
  BY <1>1, LedgerInvInit, PTL DEF Spec

\* Every row keeps its type, whatever the order of the operations.
THEOREM TypeCorrect == Spec => []TypeOK
<1>1. LedgerInv => TypeOK
  <2> SUFFICES ASSUME LedgerInv PROVE TypeOK
    OBVIOUS
  <2>1. Billable(contract) /\ now \in Nat /\ NightSane(night)
    BY DEF LedgerInv
  <2>2. /\ \A p \in DOMAIN contract.payments : contract.payments[p] \in PaymentType
        /\ \A r \in DOMAIN contract.refunds : contract.refunds[r] \in RefundType
    BY <2>1, BillableFacts
  <2>3. LedgerRows(contract)
    BY <2>1 DEF Billable
  <2>4. night = None \/ \A d \in DOMAIN night.rows : d \in Nat /\ night.rows[d] \in Nat
    BY <2>1 DEF NightSane, JournalLike
  <2> QED
    BY <2>1, <2>2, <2>3, <2>4 DEF TypeOK, LedgerRows
<1> QED
  BY <1>1, LedgerInvAlways, PTL

\* No penalty is charged for a day after the resident left, even when the nightly
\* accrual had read the contract before its termination.
THEOREM NoPenaltyAfterLeavingAlways == Spec => []NoPenaltyAfterLeaving
<1>1. LedgerInv => NoPenaltyAfterLeaving
  BY DEF LedgerInv, LeftInTime, NoPenaltyAfterLeaving
<1> QED
  BY <1>1, LedgerInvAlways, PTL

\* Accounting has seen the allocation and the penalty of a synced payment: only its
\* reversal changes them.
THEOREM SyncedAllocationFixedAlways == Spec => SyncedAllocationFixed
<1> DEFINE Kept == \A p \in DOMAIN contract.payments :
                      /\ contract.payments[p].synced
                      /\ contract'.payments[p].reversed = contract.payments[p].reversed
                      => /\ contract'.payments[p].alloc = contract.payments[p].alloc
                         /\ contract'.payments[p].penalty = contract.payments[p].penalty
<1>1. ASSUME LedgerInv, [Next]_vars PROVE Kept
  <2>1. Billable(contract) /\ now \in Nat
    BY <1>1 DEF LedgerInv
  <2>2. CASE contract'.payments = contract.payments
    BY <2>2
  <2>3. CASE \E amount, at, website : PaidIn(amount, at, website)
    <3>1. PICK amount, at, website : PaidIn(amount, at, website)
      BY <2>3
    <3>2. PaymentMade(contract, contract', amount, at)
      BY <1>1, <3>1, PaidInFacts
    <3>3. \A p \in DOMAIN contract.payments : contract'.payments[p] = contract.payments[p]
      BY <3>2 DEF PaymentMade, Entered
    <3> QED
      BY <3>3
  <2>4. CASE \E p : TakenBack(p)
    <3>1. PICK q : TakenBack(q)
      BY <2>4
    <3>2. q \in Active(contract) /\ contract' = Reversal(contract, q)
      BY <3>1 DEF TakenBack
    <3>3. /\ q \in DOMAIN contract.payments /\ ~contract.payments[q].reversed
          /\ contract.payments[q] \in PaymentType
      BY <2>1, <3>2, BillableFacts DEF Active
    <3>4. PICK row : row = ReversedRow(contract.payments[q])
      OBVIOUS
    <3>5. OtherRow(contract, contract', q, row) /\ row.reversed = TRUE
      BY <2>1, <3>2, <3>3, <3>4, ReversalIs, ChangedRows
    <3>6. \A p \in DOMAIN contract.payments \ {q} : contract'.payments[p] = contract.payments[p]
      BY <3>5 DEF OtherRow
    <3>7. contract'.payments[q].reversed
      BY <3>5 DEF OtherRow
    <3>8. contract'.payments[q].reversed # contract.payments[q].reversed
      BY <3>3, <3>7
    <3> QED
      BY <3>6, <3>8
  <2>5. CASE \E p : Pushed(p)
    <3>1. PICK q : Pushed(q)
      BY <2>5
    <3>2. /\ q \in Active(contract) /\ contract.payments[q].website
          /\ contract' = [contract EXCEPT !.payments[q].synced = TRUE]
      BY <3>1 DEF Pushed
    <3>3. PushedRows(contract, contract')
      BY <2>1, <3>2, PushKeeps
    <3> QED
      BY <3>3 DEF PushedRows, SameMoney
  <2>6. CASE Reconciling
    <3>1. AfterReplay(contract, contract')
      BY <2>1, <2>6, ReconcilingFacts DEF Reconciling
    <3> QED
      BY <3>1 DEF AfterReplay
  <2>7. CASE \E day : Terminating(day)
    <3>1. PICK day : Terminating(day)
      BY <2>7
    <3>2. PICK c : c = Shortened(contract, day)
      OBVIOUS
    <3>3. ~ReplayRefused(c, Today) /\ contract' = Reconciled(c) /\ day \in LeaveDays
      BY <3>1, <3>2 DEF Terminating
    <3>4. Billable(c) /\ c.payments = contract.payments
      BY <2>1, <3>2, <3>3, ShortenedKeeps
    <3>5. AfterReplay(c, contract')
      BY <2>1, <3>3, <3>4, ReconcilingFacts
    <3> QED
      BY <3>4, <3>5 DEF AfterReplay
  <2>8. CASE \E amount, day : PaidOut(amount, day)
    <3>1. PICK amount, day : PaidOut(amount, day)
      BY <2>8
    <3>2. RefundPaid(contract, contract', amount)
      BY <1>1, <3>1, PaidOutFacts
    <3> QED
      BY <2>2, <3>2 DEF RefundPaid
  <2>9. CASE NightRead \/ NightCommit \/ Resting
    <3>1. contract'.payments = contract.payments
      BY <1>1, <2>9, NightReadFacts, NightCommitFacts DEF Resting
    <3> QED
      BY <2>2, <3>1
  <2> QED
    BY <1>1, <2>3, <2>4, <2>5, <2>6, <2>7, <2>8, <2>9, Steps
<1>2. LedgerInv /\ [Next]_vars => [Kept]_vars
  BY <1>1
<1> QED
  BY <1>2, LedgerInvAlways, PTL DEF Spec, SyncedAllocationFixed

-----------------------------------------------------------------------------

\* No payment is dated after t.
Dated(c, t) == \A p \in DOMAIN c.payments : c.payments[p].at <= t

\* A reallocation leaves the dates of the payments alone.
LEMMA DatedSame ==
  ASSUME NEW c, NEW d, NEW t, Dated(c, t), Reallocates(c, d)
  PROVE  Dated(d, t)
BY DEF Dated, Reallocates

\* Without payments dated in the future, none is ever later than the clock.
LEMMA DatedKept ==
  ASSUME ~AllowFuture, LedgerInv, Dated(contract, now), [Next]_vars
  PROVE  Dated(contract', now')
<1>1. Billable(contract) /\ now \in Nat
  BY DEF LedgerInv
<1>2. CASE \E amount, at, website : PaidIn(amount, at, website)
  <2>1. PICK amount, at, website : PaidIn(amount, at, website)
    BY <1>2
  <2>2. PaymentMade(contract, contract', amount, at)
    BY <2>1, PaidInFacts
  <2>3. PICK p : /\ DOMAIN contract'.payments = DOMAIN contract.payments \cup {p}
                 /\ \A q \in DOMAIN contract.payments : contract'.payments[q] = contract.payments[q]
                 /\ contract'.payments[p].at = at
    BY <2>2 DEF PaymentMade, Entered
  <2>4. now' = now /\ at <= now
    BY <2>1 DEF PaidIn
  <2> QED
    BY <2>3, <2>4 DEF Dated
<1>3. CASE \E p : TakenBack(p)
  <2>1. PICK q : TakenBack(q)
    BY <1>3
  <2>2. q \in Active(contract) /\ contract' = Reversal(contract, q) /\ now' = now
    BY <2>1 DEF TakenBack
  <2>3. q \in DOMAIN contract.payments /\ contract.payments[q] \in PaymentType
    BY <1>1, <2>2, BillableFacts DEF Active
  <2>4. PICK row : row = ReversedRow(contract.payments[q])
    OBVIOUS
  <2>5. OtherRow(contract, contract', q, row) /\ row.at = contract.payments[q].at
    BY <1>1, <2>2, <2>3, <2>4, ReversalIs, ChangedRows
  <2> QED
    BY <2>2, <2>3, <2>5 DEF OtherRow, Dated
<1>4. CASE \E p : Pushed(p)
  <2>1. PICK q : Pushed(q)
    BY <1>4
  <2>2. /\ q \in Active(contract) /\ contract.payments[q].website /\ now' = now
        /\ contract' = [contract EXCEPT !.payments[q].synced = TRUE]
    BY <2>1 DEF Pushed
  <2>3. PushedRows(contract, contract')
    BY <1>1, <2>2, PushKeeps
  <2> QED
    BY <2>2, <2>3, DatedSame DEF PushedRows, SameMoney
<1>5. CASE \E amount, day : PaidOut(amount, day)
  <2>1. PICK amount, day : PaidOut(amount, day)
    BY <1>5
  <2>2. RefundPaid(contract, contract', amount) /\ now' = now
    BY <2>1, PaidOutFacts DEF PaidOut
  <2> QED
    BY <2>2 DEF RefundPaid, Dated
<1>6. CASE Reconciling
  <2>1. AfterReplay(contract, contract') /\ now' = now
    BY <1>1, <1>6, ReconcilingFacts DEF Reconciling
  <2> QED
    BY <2>1, DatedSame DEF AfterReplay
<1>7. CASE \E day : Terminating(day)
  <2>1. PICK day : Terminating(day)
    BY <1>7
  <2>2. PICK c : c = Shortened(contract, day)
    OBVIOUS
  <2>3. ~ReplayRefused(c, Today) /\ contract' = Reconciled(c) /\ day \in LeaveDays /\ now' = now
    BY <2>1, <2>2 DEF Terminating
  <2>4. Billable(c) /\ c.payments = contract.payments
    BY <1>1, <2>2, <2>3, ShortenedKeeps
  <2>5. AfterReplay(c, contract')
    BY <1>1, <2>3, <2>4, ReconcilingFacts
  <2>6. Dated(c, now)
    BY <2>4 DEF Dated
  <2> QED
    BY <2>3, <2>5, <2>6, DatedSame DEF AfterReplay
<1>8. CASE NightRead \/ NightCommit
  <2>1. contract'.payments = contract.payments /\ now' = now
    BY <1>8, NightReadFacts, NightCommitFacts
  <2> QED
    BY <2>1 DEF Dated
<1>9. CASE Resting
  <2>1. \A p \in DOMAIN contract.payments : contract.payments[p].at \in Nat
    BY <1>1, BillableFacts, PaymentTypeFacts
  <2>2. contract' = contract /\ now' \in Nat /\ now <= now'
    BY <1>1, <1>9 DEF Resting
  <2> QED
    BY <1>1, <2>1, <2>2 DEF Dated
<1> QED
  BY <1>2, <1>3, <1>4, <1>5, <1>6, <1>7, <1>8, <1>9, Steps

\* What happened until now is not dated after today.
LEMMA AskedFor ==
  ASSUME NEW at \in Nat, now \in Nat, at <= now
  PROVE  MoscowDay(at) <= Today
BY TimeFacts DEF Today

\* The journal up to a later day adds up to no less.
LEMMA JournalSumGrows ==
  ASSUME NEW c, Billable(c), NEW x \in Int, NEW y \in Int, x <= y
  PROVE  JournalSum(c, x) <= JournalSum(c, y)
<1> DEFINE X == {d \in DOMAIN c.log : d <= x}
           Y == {d \in DOMAIN c.log : d <= y}
<1>1. /\ IsFiniteSet(DOMAIN c.log)
      /\ \A d \in DOMAIN c.log : d \in Nat /\ c.log[d] \in Nat
  BY DEF Billable, LedgerRows
<1>2. X \in SUBSET Y /\ Y \subseteq DOMAIN c.log
  BY <1>1
<1>3. IsFiniteSet(Y)
  BY <1>1, <1>2, FS_Subset
<1>4. \A d \in Y : c.log[d] \in Int /\ c.log[d] >= 0
  BY <1>1, <1>2
<1> HIDE DEF X, Y
<1>5. SumOver(c.log, X) <= SumOver(c.log, Y)
  BY <1>2, <1>3, <1>4, SumSubset
<1> QED
  BY <1>5 DEF JournalSum, X, Y

\* The penalty paid is an integer.
LEMMA PenaltyPaidInt ==
  ASSUME NEW c, Billable(c)
  PROVE  PenaltyPaid(c) \in Int
<1>1. /\ IsFiniteSet(Active(c)) /\ Active(c) \subseteq DOMAIN c.payments
      /\ \A p \in DOMAIN c.payments : c.payments[p].penalty \in Nat
  BY BillableFacts, PaymentTypeFacts
<1>2. \A p \in Active(c) : Penalties(c)[p] \in Int
  BY <1>1 DEF Penalties
<1> QED
  BY <1>1, <1>2, SumInt DEF PenaltyPaid

\* A reversal asks for a reconciliation, unless the payment is dated in the future.
LEMMA TakenBackAsks ==
  ASSUME LedgerInv, Dated(contract, now), NEW p, TakenBack(p)
  PROVE  contract'.pending
<1>1. Billable(contract) /\ now \in Nat
  BY DEF LedgerInv
<1>2. p \in DOMAIN contract.payments /\ contract' = Reversal(contract, p)
  BY DEF TakenBack, Active
<1>3. contract'.pending = (contract.pending \/ MoscowDay(contract.payments[p].at) <= Today)
  BY <1>1, <1>2, ReversalIs
<1>4. contract.payments[p].at \in Nat /\ contract.payments[p].at <= now
  BY <1>1, <1>2, BillableFacts, PaymentTypeFacts DEF Dated
<1>5. MoscowDay(contract.payments[p].at) <= Today
  BY <1>1, <1>4, AskedFor
<1> QED
  BY <1>3, <1>5

\* The steps that leave a contract settled, or ask for a reconciliation.
LEMMA SettledKept ==
  ASSUME ~AllowFuture \/ MaxReversals = 0, LedgerInv, AllowFuture \/ Dated(contract, now),
         contract.pending \/ Settled(contract), [Next]_vars
  PROVE  contract'.pending \/ Settled(contract')
<1>1. Billable(contract) /\ now \in Nat
  BY DEF LedgerInv
<1>2. CASE \E amount, at, website : PaidIn(amount, at, website)
  <2>1. PICK amount, at, website : PaidIn(amount, at, website)
    BY <1>2
  <2>2. PaymentMade(contract, contract', amount, at)
    BY <2>1, PaidInFacts
  <2>3. contract.pending => contract'.pending
    BY <2>2 DEF PaymentMade
  <2>4. PICK p, day, money, owed :
           /\ Billable(contract') /\ day \in Nat /\ money \in Int /\ owed \in Int
           /\ Entered(contract, contract', p, day, money, owed)
    BY <2>2, Zenon DEF PaymentMade
  <2>5. Settled(contract) => Settled(contract')
    BY <1>1, <2>4, EnteredSettled
  <2> QED
    BY <2>3, <2>5
<1>3. CASE \E p : TakenBack(p)
  <2>1. PICK p : TakenBack(p)
    BY <1>3
  <2>2. CASE MaxReversals = 0
    <3>1. IsFiniteSet(DOMAIN contract.payments \ Active(contract))
      BY <1>1, BillableFacts, FS_Difference
    <3>2. Cardinality(DOMAIN contract.payments \ Active(contract)) \in Nat
      BY <3>1, FS_CardinalityType
    <3>3. Cardinality(DOMAIN contract.payments \ Active(contract)) < MaxReversals
      BY <2>1 DEF TakenBack
    <3> QED
      BY <2>2, <3>2, <3>3
  <2>3. CASE ~AllowFuture
    BY <2>1, <2>3, TakenBackAsks
  <2> QED
    BY <2>2, <2>3
<1>4. CASE \E p : Pushed(p)
  <2>1. PICK q : Pushed(q)
    BY <1>4
  <2>2. /\ q \in Active(contract) /\ contract.payments[q].website
        /\ contract' = [contract EXCEPT !.payments[q].synced = TRUE]
    BY <2>1 DEF Pushed
  <2>3. PushedRows(contract, contract')
    BY <1>1, <2>2, PushKeeps
  <2>4. SameMoney(contract, contract') /\ contract'.pending = contract.pending
    BY <2>3 DEF PushedRows
  <2> QED
    BY <2>4, SameMoneyFacts
<1>5. CASE \E amount, day : PaidOut(amount, day)
  <2>1. PICK amount, day : PaidOut(amount, day)
    BY <1>5
  <2>2. RefundPaid(contract, contract', amount) /\ (Settled(contract) => Settled(contract'))
    BY <2>1, PaidOutFacts
  <2>3. contract'.pending = contract.pending
    BY <2>2 DEF RefundPaid
  <2> QED
    BY <2>2, <2>3
<1>6. CASE Reconciling
  <2>1. AfterReplay(contract, contract')
    BY <1>1, <1>6, ReconcilingFacts DEF Reconciling
  <2> QED
    BY <2>1 DEF AfterReplay
<1>7. CASE \E day : Terminating(day)
  <2>1. PICK day : Terminating(day)
    BY <1>7
  <2>2. PICK c : c = Shortened(contract, day)
    OBVIOUS
  <2>3. ~ReplayRefused(c, Today) /\ contract' = Reconciled(c) /\ day \in LeaveDays
    BY <2>1, <2>2 DEF Terminating
  <2>4. Billable(c)
    BY <1>1, <2>2, <2>3, ShortenedKeeps
  <2>5. AfterReplay(c, contract')
    BY <1>1, <2>3, <2>4, ReconcilingFacts
  <2> QED
    BY <2>5 DEF AfterReplay
<1>8. CASE NightCommit
  <2>1. SameMoney(contract, contract') /\ contract'.pending = contract.pending
    BY <1>8, NightCommitFacts
  <2> QED
    BY <2>1, SameMoneyFacts
<1>9. CASE NightRead \/ Resting
  BY <1>9, NightReadFacts DEF Resting
<1> QED
  BY <1>2, <1>3, <1>4, <1>5, <1>6, <1>7, <1>8, <1>9, Steps

PenaltyCovered(c, today) == c.pending \/ PenaltyPaid(c) <= JournalSum(c, today)

\* No settled contract has paid more penalty than it was charged.
LEMMA PenaltyCoveredKept ==
  ASSUME ~AllowFuture, LedgerInv, Dated(contract, now), PenaltyCovered(contract, Today), [Next]_vars
  PROVE  PenaltyCovered(contract', Today')
<1>1. Billable(contract) /\ now \in Nat /\ Today \in Int
  BY TodayNat DEF LedgerInv
<1>2. CASE \E amount, at, website : PaidIn(amount, at, website)
  <2>1. PICK amount, at, website : PaidIn(amount, at, website)
    BY <1>2
  <2>2. PaymentMade(contract, contract', amount, at)
    BY <2>1, PaidInFacts
  <2>3. at \in Nat /\ at <= now
    BY <2>1 DEF PaidIn
  <2>4. MoscowDay(at) <= Today
    BY <1>1, <2>3, AskedFor
  <2> QED
    BY <2>2, <2>4 DEF PaymentMade, PenaltyCovered
<1>3. CASE \E p : TakenBack(p)
  BY <1>3, TakenBackAsks DEF PenaltyCovered
<1>4. CASE \E p : Pushed(p)
  <2>1. PICK q : Pushed(q)
    BY <1>4
  <2>2. /\ q \in Active(contract) /\ contract.payments[q].website /\ now' = now
        /\ contract' = [contract EXCEPT !.payments[q].synced = TRUE]
    BY <2>1 DEF Pushed
  <2>3. PushedRows(contract, contract')
    BY <1>1, <2>2, PushKeeps
  <2>4. /\ SameMoney(contract, contract') /\ contract'.pending = contract.pending
        /\ contract'.log = contract.log
    BY <2>3 DEF PushedRows
  <2>5. PenaltyPaid(contract') = PenaltyPaid(contract)
    BY <2>4, SameMoneyFacts
  <2> QED
    BY <2>2, <2>4, <2>5 DEF PenaltyCovered, JournalSum, Today
<1>5. CASE \E amount, day : PaidOut(amount, day)
  <2>1. PICK amount, day : PaidOut(amount, day)
    BY <1>5
  <2>2. RefundPaid(contract, contract', amount) /\ PenaltyPaid(contract') = PenaltyPaid(contract)
    BY <2>1, PaidOutFacts
  <2>3. contract'.pending = contract.pending /\ contract'.log = contract.log /\ now' = now
    BY <2>1, <2>2 DEF RefundPaid, PaidOut
  <2> QED
    BY <2>2, <2>3 DEF PenaltyCovered, JournalSum, Today
<1>6. CASE Reconciling
  <2>1. AfterReplay(contract, contract') /\ now' = now
    BY <1>1, <1>6, ReconcilingFacts DEF Reconciling
  <2> QED
    BY <2>1 DEF AfterReplay, PenaltyCovered, Today
<1>7. CASE \E day : Terminating(day)
  <2>1. PICK day : Terminating(day)
    BY <1>7
  <2>2. PICK c : c = Shortened(contract, day)
    OBVIOUS
  <2>3. ~ReplayRefused(c, Today) /\ contract' = Reconciled(c) /\ day \in LeaveDays /\ now' = now
    BY <2>1, <2>2 DEF Terminating
  <2>4. Billable(c)
    BY <1>1, <2>2, <2>3, ShortenedKeeps
  <2>5. AfterReplay(c, contract')
    BY <1>1, <2>3, <2>4, ReconcilingFacts
  <2> QED
    BY <2>3, <2>5 DEF AfterReplay, PenaltyCovered, Today
<1>8. CASE NightCommit
  <2>1. /\ SameMoney(contract, contract') /\ contract'.pending = contract.pending /\ now' = now
        /\ Billable(contract')
        /\ \A x \in Int : JournalSum(contract, x) <= JournalSum(contract', x)
    BY <1>8, NightCommitFacts
  <2>2. PenaltyPaid(contract') = PenaltyPaid(contract)
    BY <2>1, SameMoneyFacts
  <2>3. JournalSum(contract, Today) <= JournalSum(contract', Today)
    BY <1>1, <2>1
  <2>4. JournalSum(contract, Today) \in Nat /\ JournalSum(contract', Today) \in Nat
    BY <1>1, <2>1, JournalSumNat DEF Billable
  <2>5. PenaltyPaid(contract) \in Int
    BY <1>1, PenaltyPaidInt
  <2>6. Today' = Today
    BY <2>1 DEF Today
  <2> QED
    BY <2>1, <2>2, <2>3, <2>4, <2>5, <2>6 DEF PenaltyCovered
<1>9. CASE NightRead
  BY <1>9, NightReadFacts DEF PenaltyCovered, Today
<1>10. CASE Resting
  <2>1. contract' = contract /\ now' \in Nat /\ now <= now'
    BY <1>1, <1>10 DEF Resting
  <2>2. Today \in Nat /\ MoscowDay(now') \in Nat /\ Today <= MoscowDay(now')
    BY <1>1, <2>1, TimeFacts DEF Today
  <2>3. Today' = MoscowDay(now')
    BY DEF Today
  <2>4. PICK t \in Nat : t = MoscowDay(now') /\ Today <= t
    BY <2>2
  <2>5. t \in Int
    BY <2>4
  <2>6. JournalSum(contract, Today) <= JournalSum(contract, t)
    BY <1>1, <2>4, <2>5, JournalSumGrows
  <2>7. JournalSum(contract, Today) \in Nat /\ JournalSum(contract, t) \in Nat
    BY <1>1, <2>5, JournalSumNat DEF Billable
  <2>8. PenaltyPaid(contract) \in Int
    BY <1>1, PenaltyPaidInt
  <2>9. PenaltyCovered(contract, t)
    BY <2>6, <2>7, <2>8 DEF PenaltyCovered
  <2> QED
    BY <2>1, <2>3, <2>4, <2>9
<1> QED
  BY <1>2, <1>3, <1>4, <1>5, <1>6, <1>7, <1>8, <1>9, <1>10, Steps

OrderInv ==
    /\ LedgerInv
    /\ AllowFuture \/ Dated(contract, now)
    /\ contract.pending \/ Settled(contract)

\* The invariant of conservation and order holds in every state, when staff date no
\* payment in the future or reverse none.
LEMMA OrderInvAlways ==
  ASSUME ~AllowFuture \/ MaxReversals = 0
  PROVE  Spec => []OrderInv
<1>1. Init => OrderInv
  <2> SUFFICES ASSUME Init PROVE OrderInv
    OBVIOUS
  <2>1. LedgerInv /\ contract = NewContract
    BY LedgerInvInit DEF Init
  <2>2. Settled(contract) /\ DOMAIN contract.payments = {}
    BY <2>1, NewContractFacts
  <2> QED
    BY <2>1, <2>2 DEF OrderInv, Dated
<1>2. OrderInv /\ [Next]_vars => OrderInv'
  <2> SUFFICES ASSUME OrderInv, [Next]_vars PROVE OrderInv'
    OBVIOUS
  <2>1. LedgerInv /\ (AllowFuture \/ Dated(contract, now)) /\ (contract.pending \/ Settled(contract))
    BY DEF OrderInv
  <2>2. LedgerInv'
    BY <2>1, LedgerInvKept
  <2>3. AllowFuture \/ Dated(contract', now')
    BY <2>1, DatedKept
  <2>4. contract'.pending \/ Settled(contract')
    BY <2>1, SettledKept
  <2> QED
    BY <2>2, <2>3, <2>4 DEF OrderInv
<1> QED
  BY <1>1, <1>2, PTL DEF Spec

\* Every kopeck received on a settled contract is in exactly one place.
THEOREM MoneyConservedAlways ==
  ASSUME ~AllowFuture \/ MaxReversals = 0
  PROVE  Spec => []MoneyConserved
<1>1. OrderInv => MoneyConserved
  BY DEF OrderInv, Settled, MoneyConserved
<1> QED
  BY <1>1, OrderInvAlways, PTL

\* On a settled contract money has gone to the oldest charge first.
THEOREM OldestFirstAlways ==
  ASSUME ~AllowFuture \/ MaxReversals = 0
  PROVE  Spec => []OldestFirst
<1>1. OrderInv => OldestFirst
  BY DEF OrderInv, Settled, OldestFirst, PaidInOrder, PaidUp
<1> QED
  BY <1>1, OrderInvAlways, PTL

PaidInv == LedgerInv /\ Dated(contract, now) /\ PenaltyCovered(contract, Today)

\* The invariant of the paid penalty holds in every state, when staff date no payment
\* in the future.
LEMMA PaidInvAlways ==
  ASSUME ~AllowFuture
  PROVE  Spec => []PaidInv
<1>1. Init => PaidInv
  <2> SUFFICES ASSUME Init PROVE PaidInv
    OBVIOUS
  <2>1. LedgerInv /\ contract = NewContract
    BY LedgerInvInit DEF Init
  <2>2. /\ DOMAIN contract.payments = {} /\ Billable(contract)
        /\ Settled(contract)
    BY <2>1, NewContractFacts
  <2>3. PenaltyPaid(contract) = 0
    <3>1. Active(contract) = {}
      BY <2>2 DEF Active
    <3> QED
      BY <3>1, SumEmpty DEF PenaltyPaid
  <2>4. Today \in Int
    BY <2>1, TodayNat DEF LedgerInv
  <2>5. JournalSum(contract, Today) \in Nat
    BY <2>2, <2>4, JournalSumNat DEF Billable
  <2> QED
    BY <2>1, <2>2, <2>3, <2>5 DEF PaidInv, Dated, PenaltyCovered
<1>2. PaidInv /\ [Next]_vars => PaidInv'
  <2> SUFFICES ASSUME PaidInv, [Next]_vars PROVE PaidInv'
    OBVIOUS
  <2>1. LedgerInv /\ Dated(contract, now) /\ PenaltyCovered(contract, Today)
    BY DEF PaidInv
  <2>2. LedgerInv'
    BY <2>1, LedgerInvKept
  <2>3. Dated(contract', now')
    BY <2>1, DatedKept
  <2>4. PenaltyCovered(contract', Today')
    BY <2>1, PenaltyCoveredKept
  <2> QED
    BY <2>2, <2>3, <2>4 DEF PaidInv
<1> QED
  BY <1>1, <1>2, PTL DEF Spec

\* No accrual is ever paid beyond its charge, a voided one not at all, and on a
\* settled contract no penalty beyond the journal.
THEOREM NothingOverpaidAlways ==
  ASSUME ~AllowFuture
  PROVE  Spec => []NothingOverpaid
<1>1. ASSUME PaidInv PROVE NothingOverpaid
  <2>1. Billable(contract) /\ Within(contract) /\ PenaltyCovered(contract, Today)
    BY <1>1 DEF PaidInv, LedgerInv
  <2>2. ASSUME NEW i \in AccrualIds PROVE Max({Total(contract, i), 0}) = Total(contract, i)
    <3>1. PICK t \in Nat : t = Total(contract, i)
      BY <2>1 DEF Billable
    <3>2. t \in Int /\ 0 \in Int
      BY <3>1
    <3>3. Max({t, 0}) \in Int /\ Max({t, 0}) >= t /\ (Max({t, 0}) = t \/ Max({t, 0}) = 0)
      BY <3>2, MaxOf, Zenon
    <3>4. Max({t, 0}) = t
      BY <3>1, <3>3
    <3> QED
      BY <3>1, <3>4
  <2> QED
    BY <2>1, <2>2 DEF NothingOverpaid, Within, PenaltyCovered
<1>2. PaidInv => NothingOverpaid
  BY <1>1
<1> QED
  BY <1>2, PaidInvAlways, PTL

\* Nothing is overdue before the first day penalties can start on.
LEMMA NothingOverdueBefore ==
  ASSUME NEW c, Fits(c), Live(c) # {}, NEW x \in Int, x < PenaltyStart(c)
  PROVE  OverdueSum(c, x) = 0
<1> DEFINE S == {i \in Live(c) :
                   /\ x >= Accrual[i].penaltyFrom
                   /\ ~(Accrual[i].exempt /\ x <= MatCapital.until)
                   /\ LeftOn(c, x)[i] > 0}
           f == [i \in AccrualIds |-> IF Accrual[i].daily THEN LeftOn(c, x)[i] ELSE Total(c, i)]
<1>1. /\ PenaltyStart(c) \in Nat
      /\ \A i \in Live(c) : PenaltyStart(c) <= Accrual[i].penaltyFrom
  BY StartFacts
<1>2. \A i \in Live(c) : Accrual[i].penaltyFrom \in Nat
  BY AccrualFacts DEF Live
<1>3. S = {}
  BY <1>1, <1>2
<1>4. OverdueSum(c, x) = SumOver(f, S)
  BY DEF OverdueSum, OverdueOf
<1> HIDE DEF S, f
<1> QED
  BY <1>3, <1>4, SumEmpty

\* What the journal of the days up to `today` depends on has not changed.
LEMMA RowsSame ==
  ASSUME NEW c, NEW d, Fits(c), Fits(d), NEW today \in Nat, SameBefore(c, d, today + 1),
         NEW from \in Nat
  PROVE  Rows(d, from, today) = Rows(c, from, today)
<1>1. \A x \in from..today : OverdueSum(d, x) = OverdueSum(c, x)
  <2> TAKE x \in from..today
  <2>1. x \in Nat /\ x < today + 1 /\ today + 1 \in Int
    OBVIOUS
  <2> QED
    BY <2>1, OverdueSame
<1> QED
  BY <1>1 DEF Rows

\* Contracts that agree on the payments through a day have the same journal.
LEMMA FreshSame ==
  ASSUME NEW c, NEW d, Fits(c), Fits(d), Ends(c), Ends(d), NEW today \in Nat,
         SameBefore(c, d, today + 1), NEW t \in Nat, t <= today
  PROVE  FreshJournal(d, t) = FreshJournal(c, t)
<1>1. /\ FreshJournal(c, t) = [x \in JournalDays(c, t) |-> DailyPenalty(OverdueSum(c, x))]
      /\ FreshJournal(d, t) = [x \in JournalDays(d, t) |-> DailyPenalty(OverdueSum(d, x))]
      /\ \A x \in JournalDays(c, t) : x \in Nat /\ x <= t
  BY FreshJournalIs
<1>2. DaysBefore(d, t + 1, t) = DaysBefore(c, t + 1, t)
  BY StartSame, EndSame DEF DaysBefore, SameBefore
<1>3. t + 1 \in Int /\ today + 1 \in Int
  OBVIOUS
<1>4. DaysBefore(c, t + 1, t) \subseteq Nat /\ \A x \in DaysBefore(c, t + 1, t) : x < t + 1
  BY <1>3, DaysFacts
<1>5. \A x \in DaysBefore(c, t + 1, t) : OverdueSum(d, x) = OverdueSum(c, x)
  <2> TAKE x \in DaysBefore(c, t + 1, t)
  <2>1. x \in Nat /\ x < today + 1
    BY <1>4
  <2> QED
    BY <1>3, <2>1, OverdueSame
<1>6. JournalDays(d, t) = JournalDays(c, t)
  BY <1>2, <1>5 DEF JournalDays
<1>7. \A x \in JournalDays(c, t) : OverdueSum(d, x) = OverdueSum(c, x)
  BY <1>5 DEF JournalDays
<1> QED
  BY <1>1, <1>6, <1>7

JournalKept(c, d, today) ==
    /\ d.log = c.log /\ d.through = c.through /\ d.status = c.status /\ d.voided = c.voided
    /\ c.pending => d.pending
    /\ d.pending \/ /\ \A t \in Nat : t <= today => FreshJournal(d, t) = FreshJournal(c, t)
                    /\ \A from \in Nat : Rows(d, from, today) = Rows(c, from, today)

\* A journal that is fresh stays so, when the payments through the day it has been
\* accrued to do not change.
LEMMA SameBeforeKept ==
  ASSUME NEW c, Billable(c), NEW d, Billable(d), NEW today \in Nat, SameBefore(c, d, today + 1),
         d.log = c.log, d.through = c.through, c.pending => d.pending
  PROVE  JournalKept(c, d, today)
<1>1. Fits(c) /\ Fits(d) /\ Ends(c) /\ Ends(d)
  BY BillableFacts
<1>2. \A t \in Nat : t <= today => FreshJournal(d, t) = FreshJournal(c, t)
  BY <1>1, FreshSame
<1>3. \A from \in Nat : Rows(d, from, today) = Rows(c, from, today)
  BY <1>1, RowsSame
<1> QED
  BY <1>2, <1>3 DEF JournalKept, SameBefore

\* A payment dated in the future leaves the journal of today as it is.
LEMMA FuturePaymentKept ==
  ASSUME NEW c, Billable(c), now \in Nat, NEW amount, NEW at \in Nat, NEW d,
         PaymentMade(c, d, amount, at)
  PROVE  JournalKept(c, d, Today)
<1> DEFINE p == Len(c.payments) + 1
<1>1. /\ Billable(d) /\ Untouched(c, d) /\ d.log = c.log /\ d.through = c.through
      /\ DOMAIN d.payments = DOMAIN c.payments \cup {p} /\ p \notin DOMAIN c.payments
      /\ \A q \in DOMAIN c.payments : d.payments[q] = c.payments[q]
      /\ d.payments[p].at = at
      /\ d.pending = (c.pending \/ MoscowDay(at) <= Today)
  BY DEF PaymentMade, Entered
<1> HIDE DEF p
<1>2. Today \in Nat
  BY TodayNat
<1>3. CASE d.pending
  BY <1>1, <1>3 DEF JournalKept, Untouched
<1>4. CASE ~d.pending
  <2>1. ~(MoscowDay(at) <= Today) /\ MoscowDay(at) \in Nat
    BY <1>1, <1>4, TimeFacts
  <2>2. \A x \in Nat : x < Today + 1 => ~(MoscowDay(d.payments[p].at) <= x)
    BY <1>1, <1>2, <2>1
  <2>3. \A x \in Nat : x < Today + 1 => PaidBy(d, x) = PaidBy(c, x)
    BY <1>1, <2>2 DEF PaidBy, Active
  <2>4. SameBefore(c, d, Today + 1)
    BY <1>1, <2>3 DEF SameBefore, Untouched, PaidBy, Active
  <2> QED
    BY <1>1, <1>2, <2>4, SameBeforeKept
<1> QED
  BY <1>3, <1>4

\* So does the reversal of one.
LEMMA FutureReversalKept ==
  ASSUME NEW c, Billable(c), Within(c), now \in Nat, NEW p \in Active(c), NEW d, d = Reversal(c, p)
  PROVE  JournalKept(c, d, Today)
<1>1. p \in DOMAIN c.payments /\ c.payments[p] \in PaymentType /\ Billable(d)
  BY BillableFacts, ReversalKeeps DEF Active
<1>2. PICK row : row = ReversedRow(c.payments[p])
  OBVIOUS
<1>3. /\ OtherRow(c, d, p, row) /\ row.reversed = TRUE
      /\ d.pending = (c.pending \/ MoscowDay(c.payments[p].at) <= Today)
  BY <1>1, <1>2, ReversalIs, ChangedRows
<1>4. /\ Untouched(c, d) /\ d.log = c.log /\ d.through = c.through
      /\ DOMAIN d.payments = DOMAIN c.payments
      /\ \A q \in DOMAIN c.payments \ {p} : d.payments[q] = c.payments[q]
      /\ d.payments[p].reversed
  BY <1>3 DEF OtherRow
<1>5. Today \in Nat
  BY TodayNat
<1>6. CASE d.pending
  BY <1>4, <1>6 DEF JournalKept, Untouched
<1>7. CASE ~d.pending
  <2>1. ~(MoscowDay(c.payments[p].at) <= Today) /\ MoscowDay(c.payments[p].at) \in Nat
    <3>1. c.payments[p].at \in Nat
      BY <1>1, PaymentTypeFacts
    <3> QED
      BY <1>3, <1>7, <3>1, TimeFacts
  <2>2. \A x \in Nat : x < Today + 1 => ~(MoscowDay(c.payments[p].at) <= x)
    BY <1>5, <2>1
  <2>3. Active(d) = Active(c) \ {p}
    BY <1>4 DEF Active
  <2>4. \A x \in Nat : x < Today + 1 => PaidBy(d, x) = PaidBy(c, x)
    <3> TAKE x \in Nat
    <3> HAVE x < Today + 1
    <3>1. p \notin PaidBy(c, x)
      BY <2>2 DEF PaidBy
    <3>2. \A q \in Active(c) \ {p} : d.payments[q] = c.payments[q]
      BY <1>4 DEF Active
    <3> QED
      BY <2>3, <3>1, <3>2 DEF PaidBy
  <2>5. ASSUME NEW x \in Nat, x < Today + 1, NEW q \in PaidBy(c, x)
        PROVE  d.payments[q].alloc = c.payments[q].alloc
    <3>1. q # p /\ q \in DOMAIN c.payments
      BY <2>2, <2>5 DEF PaidBy, Active
    <3> QED
      BY <1>4, <3>1
  <2>6. SameBefore(c, d, Today + 1)
    BY <1>4, <2>4, <2>5 DEF SameBefore, Untouched
  <2> QED
    BY <1>1, <1>4, <1>5, <1>7, <2>6, <1>3, SameBeforeKept
<1> QED
  BY <1>6, <1>7

\* The rows of the days from..to, as one predicate.
RowsAre(rows, c, from, to) ==
    /\ JournalLike(rows)
    /\ DOMAIN rows = {x \in from..to : OverdueSum(c, x) > 0}
    /\ \A x \in DOMAIN rows : rows[x] = DailyPenalty(OverdueSum(c, x))

\* The rows of a journal, by name.
LEMMA RowsShape ==
  ASSUME NEW c, Fits(c), NEW from \in Nat, NEW to \in Int, NEW rows, rows = Rows(c, from, to)
  PROVE  RowsAre(rows, c, from, to)
BY RowsFacts DEF RowsAre

\* Two consecutive parts of a journal make the whole.
LEMMA RowsJoined ==
  ASSUME NEW c, Fits(c), Live(c) # {}, NEW t \in Nat, NEW today \in Nat, t <= today
  PROVE  Merged(Rows(c, PenaltyStart(c), t), Rows(c, t + 1, today))
           = Rows(c, PenaltyStart(c), today)
<1> DEFINE start == PenaltyStart(c)
           a == Rows(c, start, t)
           b == Rows(c, t + 1, today)
           w == Rows(c, start, today)
<1>1. start \in Nat
  BY StartFacts
<1>2. t + 1 \in Nat /\ t \in Int /\ today \in Int
  OBVIOUS
<1>3. \A x \in Int : x < start => OverdueSum(c, x) = 0
  BY NothingOverdueBefore
<1> HIDE DEF start
<1>4. a = Rows(c, start, t) /\ b = Rows(c, t + 1, today) /\ w = Rows(c, start, today)
  OBVIOUS
<1> HIDE DEF a, b, w
<1>5. RowsAre(a, c, start, t) /\ RowsAre(b, c, t + 1, today) /\ RowsAre(w, c, start, today)
  BY <1>4, <1>1, <1>2, RowsShape
<1>6. /\ DOMAIN a = {x \in start..t : OverdueSum(c, x) > 0}
      /\ \A x \in DOMAIN a : a[x] = DailyPenalty(OverdueSum(c, x))
  BY <1>5 DEF RowsAre
<1>7. /\ DOMAIN b = {x \in (t + 1)..today : OverdueSum(c, x) > 0}
      /\ \A x \in DOMAIN b : b[x] = DailyPenalty(OverdueSum(c, x))
  BY <1>5 DEF RowsAre
<1>8. /\ DOMAIN w = {x \in start..today : OverdueSum(c, x) > 0}
      /\ \A x \in DOMAIN w : w[x] = DailyPenalty(OverdueSum(c, x))
      /\ w = [x \in DOMAIN w |-> w[x]]
  BY <1>5 DEF RowsAre, JournalLike
<1>9. DOMAIN a \cup DOMAIN b = DOMAIN w
  <2>1. ASSUME NEW x \in DOMAIN b PROVE x \in DOMAIN w
    <3>1. x \in Int /\ x >= t + 1 /\ x <= today /\ OverdueSum(c, x) > 0
      BY <1>7
    <3>2. ~(x < start)
      BY <1>3, <3>1
    <3> QED
      BY <1>1, <1>8, <3>1, <3>2
  <2>2. ASSUME NEW x \in DOMAIN a PROVE x \in DOMAIN w
    BY <1>1, <1>2, <1>6, <1>8
  <2>3. ASSUME NEW x \in DOMAIN w PROVE x \in DOMAIN a \cup DOMAIN b
    BY <1>1, <1>2, <1>6, <1>7, <1>8
  <2> QED
    BY <2>1, <2>2, <2>3
<1>10. \A x \in DOMAIN w : (IF x \in DOMAIN a THEN a[x] ELSE b[x]) = w[x]
  BY <1>6, <1>7, <1>8, <1>9
<1>11. Merged(a, b) = w
  BY <1>8, <1>9, <1>10 DEF Merged
<1> QED
  BY <1>11 DEF a, b, w, start

\* A merge with an empty journal is the other one.
LEMMA NothingMerged ==
  ASSUME NEW f, NEW g, DOMAIN f = {}, g = [x \in DOMAIN g |-> g[x]]
  PROVE  Merged(f, g) = g
BY DEF Merged

\* The journal of a contract that goes on is the rows up to the day.
LEMMA FreshIsRows ==
  ASSUME NEW c, Live(c) # {}, c.status # "TERMINATED"
  PROVE  \A today : FreshJournal(c, today) = Rows(c, PenaltyStart(c), today)
BY DEF FreshJournal, PenaltyEnd

\* The day after the last accrued one is a natural.
LEMMA AccruedNat ==
  ASSUME Billable(contract), Live(contract) # {}
  PROVE  AccruedThrough + 1 \in Nat
<1>1. PenaltyStart(contract) \in Nat
  BY StartFacts
<1>2. contract.through # None => contract.through \in Nat
  BY DEF Billable, LedgerRows
<1>3. CASE contract.through = None
  <2>1. AccruedThrough = PenaltyStart(contract) - 1
    BY <1>3 DEF AccruedThrough
  <2> QED
    BY <1>1, <2>1
<1>4. CASE contract.through # None
  <2>1. AccruedThrough = contract.through
    BY <1>4 DEF AccruedThrough
  <2> QED
    BY <1>2, <1>4, <2>1
<1> QED
  BY <1>3, <1>4

\* What the nightly accrual has read is still the case when it writes.
NightFresh ==
    night # None =>
        /\ night.today = Today
        /\ contract.status # "TERMINATED" =>
              /\ Live(contract) # {}
              /\ contract.pending \/ night.rows = Rows(contract, AccruedThrough + 1, Today)

FreshInv ==
    /\ LedgerInv
    /\ contract.through # None => contract.through <= Today
    /\ contract.through = None => DOMAIN contract.log = {}
    /\ NightFresh
    /\ JournalFresh

\* A step that keeps the journal keeps its freshness.
LEMMA FreshAfterKept ==
  ASSUME FreshInv, LedgerInv', JournalKept(contract, contract', Today), now' = now, night' = night
  PROVE  FreshInv'
<1>1. /\ Billable(contract) /\ now \in Nat /\ Today \in Nat /\ Today' = Today
  BY TodayNat DEF FreshInv, LedgerInv, Today
<1>2. /\ contract'.log = contract.log /\ contract'.through = contract.through
      /\ contract'.status = contract.status /\ contract'.voided = contract.voided
      /\ contract.pending => contract'.pending
      /\ contract'.pending \/
           /\ \A t \in Nat : t <= Today => FreshJournal(contract', t) = FreshJournal(contract, t)
           /\ \A from \in Nat : Rows(contract', from, Today) = Rows(contract, from, Today)
  BY DEF JournalKept
<1>3. Live(contract') = Live(contract) /\ PenaltyStart(contract') = PenaltyStart(contract)
  BY <1>2, StartSame
<1>4. AccruedThrough' = AccruedThrough
  BY <1>2, <1>3 DEF AccruedThrough
<1>5. contract.through # None => contract.through \in Nat /\ contract.through <= Today
  BY <1>1 DEF FreshInv, Billable, LedgerRows
<1>6. JournalFresh'
  BY <1>2, <1>5 DEF FreshInv, JournalFresh
<1>7. NightFresh'
  <2> SUFFICES ASSUME night # None PROVE
        /\ night.today = Today
        /\ contract'.status # "TERMINATED" =>
              /\ Live(contract') # {}
              /\ contract'.pending \/ night.rows = Rows(contract', AccruedThrough + 1, Today)
    BY <1>1, <1>4 DEF NightFresh
  <2>1. /\ night.today = Today
        /\ contract.status # "TERMINATED" =>
              /\ Live(contract) # {}
              /\ contract.pending \/ night.rows = Rows(contract, AccruedThrough + 1, Today)
    BY DEF FreshInv, NightFresh
  <2>2. Live(contract) # {} => AccruedThrough + 1 \in Nat
    BY <1>1, AccruedNat
  <2> QED
    BY <1>2, <1>3, <2>1, <2>2
<1> QED
  BY <1>1, <1>2, <1>6, <1>7 DEF FreshInv

\* The nightly accrual leaves the journal as if it were computed afresh.
LEMMA FreshAfterNight ==
  ASSUME FreshInv, LedgerInv', NightCommit
  PROVE  FreshInv'
<1> DEFINE c == contract
           d == contract'
<1>1. /\ Billable(c) /\ Fits(c) /\ now \in Nat /\ Today \in Nat
  BY BillableFacts, TodayNat DEF FreshInv, LedgerInv
<1>2. /\ night' = None /\ now' = now /\ SameMoney(c, d) /\ Untouched(c, d) /\ d.pending = c.pending
      /\ \/ d = c
         \/ /\ c.status # "TERMINATED" /\ night # None
            /\ NightWritten(c, d, night.rows, night.today)
  BY NightCommitFacts DEF FreshInv
<1>3. NightFresh' /\ Today' = Today
  BY <1>2 DEF NightFresh, Today
<1>4. CASE d = c
  BY <1>3, <1>4 DEF FreshInv, JournalFresh
<1>5. CASE c.status # "TERMINATED" /\ night # None /\ NightWritten(c, d, night.rows, night.today)
  <2>1. /\ night.today = Today /\ Live(c) # {}
        /\ c.pending \/ night.rows = Rows(c, AccruedThrough + 1, Today)
    BY <1>5 DEF FreshInv, NightFresh
  <2>2. d.through = Today /\ d.log = Merged(c.log, night.rows)
    BY <1>5, <2>1 DEF NightWritten
  <2>3. Today # None /\ Today <= Today
    BY <1>1, NoneAssumption
  <2>4. c.pending \/ d.log = FreshJournal(d, Today)
    <3> SUFFICES ASSUME ~c.pending PROVE d.log = FreshJournal(d, Today)
      OBVIOUS
    <3>1. night.rows = Rows(c, AccruedThrough + 1, Today)
      BY <2>1
    <3>2. FreshJournal(d, Today) = FreshJournal(c, Today)
      BY <1>2, SameMoneyFacts
    <3>3. FreshJournal(c, Today) = Rows(c, PenaltyStart(c), Today)
      BY <1>5, <2>1, FreshIsRows
    <3>4. CASE c.through = None
      <4>1. DOMAIN c.log = {}
        BY <3>4 DEF FreshInv
      <4>2. PenaltyStart(c) \in Nat
        BY <2>1, StartFacts
      <4>3. AccruedThrough + 1 = PenaltyStart(c)
        <5>1. AccruedThrough = PenaltyStart(c) - 1
          BY <3>4 DEF AccruedThrough
        <5> QED
          BY <4>2, <5>1
      <4>4. night.rows = [x \in DOMAIN night.rows |-> night.rows[x]]
        BY <1>5 DEF FreshInv, LedgerInv, NightSane, JournalLike
      <4>5. Merged(c.log, night.rows) = night.rows
        BY <4>1, <4>4, NothingMerged
      <4> QED
        BY <2>2, <3>1, <3>2, <3>3, <4>3, <4>5
    <3>5. CASE c.through # None
      <4>1. c.through \in Nat /\ c.through <= Today
        BY <1>1, <3>5 DEF FreshInv, Billable, LedgerRows
      <4>2. AccruedThrough = c.through
        BY <3>5 DEF AccruedThrough
      <4>3. c.log = FreshJournal(c, c.through)
        BY <3>5 DEF FreshInv, JournalFresh
      <4>4. FreshJournal(c, c.through) = Rows(c, PenaltyStart(c), c.through)
        BY <1>5, <2>1, FreshIsRows
      <4>5. PICK t \in Nat : t = c.through /\ t <= Today
        BY <4>1
      <4>6. Merged(Rows(c, PenaltyStart(c), t), Rows(c, t + 1, Today))
              = Rows(c, PenaltyStart(c), Today)
        BY <1>1, <2>1, <4>5, RowsJoined
      <4>7. /\ c.log = Rows(c, PenaltyStart(c), t)
            /\ night.rows = Rows(c, t + 1, Today)
        BY <3>1, <4>2, <4>3, <4>4, <4>5
      <4> QED
        BY <2>2, <3>2, <3>3, <4>6, <4>7
    <3> QED
      BY <3>4, <3>5
  <2>5. JournalFresh'
    BY <1>2, <2>2, <2>4 DEF JournalFresh
  <2> QED
    BY <1>3, <2>2, <2>3, <2>5 DEF FreshInv
<1> QED
  BY <1>2, <1>4, <1>5

\* The journal of a settled contract is the one its allocations give, provided that no
\* recalculation comes between the two halves of the nightly accrual.
THEOREM JournalFreshAlways ==
  ASSUME ~NightOverlap
  PROVE  Spec => []JournalFresh
<1>1. Init => FreshInv
  <2> SUFFICES ASSUME Init PROVE FreshInv
    OBVIOUS
  <2>1. LedgerInv /\ contract = NewContract /\ night = None
    BY LedgerInvInit DEF Init
  <2>2. contract.through = None /\ contract.log = <<>>
    BY <2>1, NewContractFacts
  <2> QED
    BY <2>1, <2>2 DEF FreshInv, NightFresh, JournalFresh
<1>2. ASSUME FreshInv, [Next]_vars PROVE FreshInv'
  <2>1. LedgerInv /\ LedgerInv'
    BY <1>2, LedgerInvKept DEF FreshInv
  <2>2. /\ Billable(contract) /\ Within(contract) /\ now \in Nat /\ Today \in Nat
    BY <2>1, TodayNat DEF LedgerInv
  <2>3. CASE \E amount, at, website : PaidIn(amount, at, website)
    <3>1. PICK amount, at, website : PaidIn(amount, at, website)
      BY <2>3
    <3>2. PaymentMade(contract, contract', amount, at)
      BY <2>1, <3>1, PaidInFacts
    <3>3. at \in Nat /\ now' = now /\ night' = night
      BY <3>1 DEF PaidIn
    <3>4. JournalKept(contract, contract', Today)
      BY <2>2, <3>2, <3>3, FuturePaymentKept
    <3> QED
      BY <1>2, <2>1, <3>3, <3>4, FreshAfterKept
  <2>4. CASE \E p : TakenBack(p)
    <3>1. PICK p : TakenBack(p)
      BY <2>4
    <3>2. p \in Active(contract) /\ contract' = Reversal(contract, p) /\ now' = now /\ night' = night
      BY <3>1 DEF TakenBack
    <3>3. JournalKept(contract, contract', Today)
      BY <2>2, <3>2, FutureReversalKept
    <3> QED
      BY <1>2, <2>1, <3>2, <3>3, FreshAfterKept
  <2>5. CASE \E p : Pushed(p)
    <3>1. PICK q : Pushed(q)
      BY <2>5
    <3>2. /\ q \in Active(contract) /\ contract.payments[q].website
          /\ now' = now /\ night' = night
          /\ contract' = [contract EXCEPT !.payments[q].synced = TRUE]
      BY <3>1 DEF Pushed
    <3>3. PushedRows(contract, contract')
      BY <2>2, <3>2, PushKeeps
    <3>4. /\ SameMoney(contract, contract') /\ Untouched(contract, contract')
          /\ contract'.log = contract.log /\ contract'.through = contract.through
          /\ contract'.pending = contract.pending
      BY <3>3 DEF PushedRows
    <3>5. JournalKept(contract, contract', Today)
      BY <3>4, SameMoneyFacts DEF JournalKept, Untouched
    <3> QED
      BY <1>2, <2>1, <3>2, <3>5, FreshAfterKept
  <2>6. CASE \E amount, day : PaidOut(amount, day)
    <3>1. PICK amount, day : PaidOut(amount, day)
      BY <2>6
    <3>2. now' = now /\ night' = night
      BY <3>1 DEF PaidOut
    <3>3. /\ RefundPaid(contract, contract', amount)
          /\ \A today : FreshJournal(contract', today) = FreshJournal(contract, today)
          /\ \A from, to : Rows(contract', from, to) = Rows(contract, from, to)
      BY <2>1, <3>1, PaidOutFacts
    <3>4. JournalKept(contract, contract', Today)
      BY <3>3 DEF JournalKept, RefundPaid
    <3> QED
      BY <1>2, <2>1, <3>2, <3>4, FreshAfterKept
  <2>7. CASE Reconciling
    <3>1. AfterReplay(contract, contract') /\ now' = now /\ night' = night /\ night = None
      BY <2>2, <2>7, ReconcilingFacts DEF Reconciling
    <3> QED
      BY <2>1, <2>2, <3>1, NoneAssumption DEF FreshInv, NightFresh, JournalFresh, AfterReplay, Today
  <2>8. CASE \E day : Terminating(day)
    <3>1. PICK day : Terminating(day)
      BY <2>8
    <3>2. PICK c : c = Shortened(contract, day)
      OBVIOUS
    <3>3. /\ ~ReplayRefused(c, Today) /\ contract' = Reconciled(c) /\ day \in LeaveDays
          /\ now' = now /\ night' = night
      BY <3>1, <3>2 DEF Terminating
    <3>4. Billable(c) /\ c.status = "TERMINATED"
      BY <2>2, <3>2, <3>3, ShortenedKeeps
    <3>5. AfterReplay(c, contract')
      BY <2>2, <3>3, <3>4, ReconcilingFacts
    <3>6. /\ contract'.through = Today /\ contract'.log = FreshJournal(contract', Today)
          /\ contract'.status = "TERMINATED" /\ Today' = Today
      BY <3>3, <3>4, <3>5 DEF AfterReplay, Untouched, Today
    <3>7. NightFresh'
      BY <1>2, <3>3, <3>6 DEF FreshInv, NightFresh
    <3>8. Today # None /\ Today <= Today
      BY <2>2, NoneAssumption
    <3> QED
      BY <2>1, <3>6, <3>7, <3>8 DEF FreshInv, JournalFresh
  <2>9. CASE NightRead
    <3>1. /\ contract' = contract /\ now' = now /\ night'.today = Today
          /\ night'.rows = Rows(contract, AccruedThrough + 1, Today)
          /\ Live(contract) # {}
      BY <2>1, <2>9, NightReadFacts
    <3>2. NightFresh'
      BY <3>1 DEF NightFresh, AccruedThrough, Today
    <3> QED
      BY <1>2, <2>1, <3>1, <3>2 DEF FreshInv, JournalFresh, Today
  <2>10. CASE NightCommit
    BY <1>2, <2>1, <2>10, FreshAfterNight
  <2>11. CASE Resting
    <3>1. contract' = contract /\ night' = night
      BY <2>11 DEF Resting
    <3>2. CASE now' = now
      BY <1>2, <3>1, <3>2 DEF FreshInv, NightFresh, JournalFresh, Today, LedgerInv, AccruedThrough
    <3>3. CASE now' = now + 1 /\ night = None
      <4>1. now + 1 \in Nat /\ Today <= MoscowDay(now + 1) /\ MoscowDay(now + 1) \in Nat
        BY <2>2, TimeFacts DEF Today
      <4>2. contract.through # None => contract.through \in Nat /\ contract.through <= Today
        BY <1>2, <2>2 DEF FreshInv, Billable, LedgerRows
      <4>3. Today' = MoscowDay(now + 1)
        BY <3>3 DEF Today
      <4>4. contract'.through # None => contract'.through <= Today'
        BY <2>2, <3>1, <4>1, <4>2, <4>3
      <4> QED
        BY <1>2, <2>1, <3>1, <3>3, <4>4 DEF FreshInv, NightFresh, JournalFresh
    <3> QED
      BY <2>11, <3>2, <3>3 DEF Resting
  <2> QED
    BY <1>2, <2>1, <2>3, <2>4, <2>5, <2>6, <2>7, <2>8, <2>9, <2>10, <2>11, Steps
<1>3. FreshInv /\ [Next]_vars => FreshInv'
  BY <1>2
<1>4. FreshInv => JournalFresh
  BY DEF FreshInv
<1> QED
  BY <1>1, <1>3, <1>4, PTL DEF Spec

=============================================================================
