--------------------------- MODULE BlockTreeProofs ---------------------------
(***************************************************************************)
(* The lemmas about constant data that the proofs of the chain and of the  *)
(* wallet share: induction, sums over finite sets, and the blocks of a     *)
(* branch.                                                                 *)
(*                                                                         *)
(* Induction is stated for sets: a property of naturals is the set of the  *)
(* naturals that have it.  The induction theorems of the library take the  *)
(* property as an operator, which the provers cannot instantiate; its      *)
(* theorem on minimal elements takes a set.                                *)
(***************************************************************************)
EXTENDS BlockTree, WellFoundedInduction, FiniteSetTheorems, TLAPS

-----------------------------------------------------------------------------
(* Induction and recursion. *)

(***************************************************************************)
(* A set of naturals that is not empty has a least element.                *)
(***************************************************************************)
LEMMA LeastElement ==
    ASSUME NEW T \in SUBSET Nat, T # {}
    PROVE  \E n \in T : \A m \in T : n <= m
<1> DEFINE R == {ss \in Nat \X Nat : ss[1] < ss[2]}
<1>1. IsWellFoundedOn(R, Nat)
  BY NatLessThanWellFounded DEF OpToRel
<1>2. \A m, n \in Nat : m < n => <<m, n>> \in R
  OBVIOUS
<1> HIDE DEF R
<1>3. PICK n \in T : \A m \in T : ~(<<m, n>> \in R)
  BY <1>1, WFMin
<1>4. \A m \in T : ~(m < n)
  BY <1>2, <1>3
<1> QED BY <1>4

(***************************************************************************)
(* Induction on the naturals.                                              *)
(***************************************************************************)
LEMMA SetInduction ==
    ASSUME NEW T, 0 \in T, \A n \in Nat : n \in T => n + 1 \in T
    PROVE  \A n \in Nat : n \in T
<1> SUFFICES ASSUME Nat \ T # {} PROVE FALSE
  OBVIOUS
<1>1. PICK n \in Nat \ T : \A m \in Nat \ T : n <= m
  BY LeastElement
<1>2. n - 1 \in Nat
  BY <1>1
<1>3. n - 1 \in T
  BY <1>1, <1>2
<1> QED BY <1>1, <1>2, <1>3

(***************************************************************************)
(* Induction on an interval.                                               *)
(***************************************************************************)
LEMMA RangeInduction ==
    ASSUME NEW m \in Int, NEW n \in Int, NEW T, m \in T,
           \A h \in m..(n - 1) : h \in T => h + 1 \in T
    PROVE  \A h \in m..n : h \in T
<1> DEFINE S == {k \in Nat : m + k <= n => m + k \in T}
<1>1. 0 \in S
  OBVIOUS
<1>2. \A k \in Nat : k \in S => k + 1 \in S
  OBVIOUS
<1> HIDE DEF S
<1>3. \A k \in Nat : k \in S
  BY <1>1, <1>2, SetInduction
<1> QED
  <2> SUFFICES ASSUME NEW h \in m..n PROVE h \in T
    OBVIOUS
  <2>1. h - m \in Nat /\ m + (h - m) = h
    OBVIOUS
  <2>2. h - m \in S
    BY <1>3, <2>1
  <2> QED BY <2>1, <2>2 DEF S

(***************************************************************************)
(* Definition by recursion on an interval, up from m: the function exists. *)
(***************************************************************************)
Iterates(f, m, n, start, step) ==
    f[m] = start /\ \A h \in (m + 1)..n : f[h] = step[h][f[h - 1]]

LEMMA RangeRecursion ==
    ASSUME NEW m \in Int, NEW n \in Int, m <= n, NEW S, NEW start \in S,
           NEW step \in [m..n -> [S -> S]]
    PROVE  \E f \in [m..n -> S] : Iterates(f, m, n, start, step)
<1> DEFINE Follows(f, k) ==
              f[m] = start /\ \A h \in (m + 1)..k : f[h] = step[h][f[h - 1]]
           T == {k \in m..n : \E f \in [m..k -> S] : Follows(f, k)}
<1>1. m \in T
  <2>0. m \in m..n
    OBVIOUS
  <2>1. [h \in m..m |-> start] \in [m..m -> S] /\ Follows([h \in m..m |-> start], m)
    OBVIOUS
  <2> HIDE DEF Follows
  <2> QED BY <2>0, <2>1
<1>2. ASSUME NEW k \in m..(n - 1), k \in T PROVE k + 1 \in T
  <2>1. PICK f \in [m..k -> S] : Follows(f, k)
    BY <1>2
  <2> DEFINE g == [h \in m..(k + 1) |-> IF h <= k THEN f[h] ELSE step[k + 1][f[k]]]
  <2>2. f[k] \in S /\ k + 1 \in m..n
    OBVIOUS
  <2>3. step[k + 1][f[k]] \in S
    BY <2>2
  <2>4. g \in [m..(k + 1) -> S]
    BY <2>3
  <2>5. g[m] = start
    BY <2>1
  <2>6. ASSUME NEW h \in (m + 1)..(k + 1) PROVE g[h] = step[h][g[h - 1]]
    <3>1. h - 1 \in m..k /\ g[h - 1] = f[h - 1]
      OBVIOUS
    <3>2. CASE h = k + 1
      BY <3>1, <3>2
    <3>3. CASE h # k + 1
      <4>1. h \in (m + 1)..k
        BY <3>3
      <4> QED BY <2>1, <3>1, <4>1
    <3> QED BY <3>2, <3>3
  <2> HIDE DEF g
  <2> QED BY <2>2, <2>4, <2>5, <2>6
<1>3. n \in T
  <2> HIDE DEF T
  <2>1. \A h \in m..(n - 1) : h \in T => h + 1 \in T
    BY <1>2
  <2>2. \A h \in m..n : h \in T
    BY <1>1, <2>1, RangeInduction
  <2> QED BY <2>2
<1>4. PICK f \in [m..n -> S] : Follows(f, n)
  BY <1>3
<1> QED BY <1>4 DEF Iterates

-----------------------------------------------------------------------------
(* Sums over finite sets. *)

(***************************************************************************)
(* Induction on the subsets of a finite set, one element at a time.        *)
(***************************************************************************)
LEMMA SubsetInduction ==
    ASSUME NEW U, IsFiniteSet(U), NEW T,
           \A s \in SUBSET U : (\A x \in s : s \ {x} \in T) => s \in T
    PROVE  \A s \in SUBSET U : s \in T
<1> DEFINE Upto == {n \in Nat : \A s \in SUBSET U : Cardinality(s) <= n => s \in T}
<1>1. ASSUME NEW s \in SUBSET U
      PROVE  /\ Cardinality(s) \in Nat /\ (Cardinality(s) = 0 <=> s = {})
             /\ \A x \in s : Cardinality(s \ {x}) = Cardinality(s) - 1
  <2>1. IsFiniteSet(s)
    BY FS_Subset
  <2> QED BY <2>1, FS_EmptySet, FS_RemoveElement, FS_CardinalityType
<1>2. 0 \in Upto
  <2> SUFFICES ASSUME NEW s \in SUBSET U, Cardinality(s) <= 0 PROVE s \in T
    OBVIOUS
  <2>1. s = {}
    BY <1>1
  <2> QED BY <2>1
<1>3. ASSUME NEW n \in Nat, n \in Upto PROVE n + 1 \in Upto
  <2> SUFFICES ASSUME NEW s \in SUBSET U, Cardinality(s) <= n + 1 PROVE s \in T
    OBVIOUS
  <2>1. \A x \in s : Cardinality(s \ {x}) <= n /\ s \ {x} \in SUBSET U
    BY <1>1
  <2> QED BY <1>3, <2>1
<1> HIDE DEF Upto
<1>4. \A n \in Nat : n \in Upto
  BY <1>2, <1>3, SetInduction
<1> SUFFICES ASSUME NEW s \in SUBSET U PROVE s \in T
  OBVIOUS
<1>5. Cardinality(s) \in Nat /\ Cardinality(s) \in Upto
  BY <1>1, <1>4
<1> QED BY <1>5 DEF Upto

Pick(s) == CHOOSE x \in s : TRUE

(***************************************************************************)
(* The equation of the fold that defines a sum.                            *)
(***************************************************************************)
Sums(g, f, U) ==
    /\ g = [s \in SUBSET U |-> g[s]]
    /\ g[{}] = 0
    /\ \A s \in (SUBSET U) \ {{}} : g[s] = f[Pick(s)] + g[s \ {Pick(s)}]

LEMMA SumsExist ==
    ASSUME NEW U, IsFiniteSet(U), NEW f \in [U -> Nat]
    PROVE  \E g \in [SUBSET U -> Nat] : Sums(g, f, U)
<1> DEFINE Upto(g, n) ==
              \A s \in (SUBSET U) \ {{}} : Cardinality(s) <= n =>
                  g[s] = f[Pick(s)] + g[s \ {Pick(s)}]
           T == {n \in Nat : \E g \in [SUBSET U -> Nat] : g[{}] = 0 /\ Upto(g, n)}
<1>1. ASSUME NEW s \in SUBSET U
      PROVE  /\ Cardinality(s) \in Nat /\ Cardinality(s) <= Cardinality(U)
             /\ (Cardinality(s) = 0 <=> s = {})
             /\ \A x \in s : Cardinality(s \ {x}) = Cardinality(s) - 1
  <2>1. IsFiniteSet(s) /\ Cardinality(s) <= Cardinality(U)
    BY FS_Subset
  <2> QED BY <2>1, FS_EmptySet, FS_RemoveElement, FS_CardinalityType
<1>2. \A s \in (SUBSET U) \ {{}} : Pick(s) \in s
  BY DEF Pick
<1>3. 0 \in T
  <2> DEFINE g == [s \in SUBSET U |-> 0]
  <2>1. g \in [SUBSET U -> Nat] /\ g[{}] = 0
    OBVIOUS
  <2>2. Upto(g, 0)
    BY <1>1
  <2> HIDE DEF g, Upto
  <2> QED BY <2>1, <2>2
<1>4. ASSUME NEW n \in Nat, n \in T PROVE n + 1 \in T
  <2>1. PICK g \in [SUBSET U -> Nat] : g[{}] = 0 /\ Upto(g, n)
    BY <1>4
  <2> DEFINE next(s) == f[Pick(s)] + g[s \ {Pick(s)}]
             h == [s \in SUBSET U |-> IF s = {} THEN 0 ELSE next(s)]
  <2>2. \A s \in (SUBSET U) \ {{}} : next(s) \in Nat
    <3> SUFFICES ASSUME NEW s \in (SUBSET U) \ {{}} PROVE next(s) \in Nat
      OBVIOUS
    <3>1. Pick(s) \in U /\ s \ {Pick(s)} \in SUBSET U
      BY <1>2
    <3>2. f[Pick(s)] \in Nat /\ g[s \ {Pick(s)}] \in Nat
      BY <3>1
    <3> QED BY <3>2
  <2>3. h \in [SUBSET U -> Nat] /\ h[{}] = 0
    BY <2>2
  <2>4. \A s \in SUBSET U : Cardinality(s) <= n => h[s] = g[s]
    BY <2>1
  <2>5. ASSUME NEW s \in (SUBSET U) \ {{}}, Cardinality(s) <= n + 1
        PROVE  h[s] = f[Pick(s)] + h[s \ {Pick(s)}]
    <3>1. s \ {Pick(s)} \in SUBSET U /\ Cardinality(s \ {Pick(s)}) <= n
      BY <1>1, <1>2, <2>5
    <3>2. h[s \ {Pick(s)}] = g[s \ {Pick(s)}]
      BY <2>4, <3>1
    <3>3. h[s] = next(s)
      OBVIOUS
    <3> QED BY <3>2, <3>3
  <2>6. Upto(h, n + 1)
    BY <2>5
  <2> HIDE DEF h, Upto
  <2> QED BY <2>3, <2>6
<1>5. \A n \in Nat : n \in T
  <2> HIDE DEF T
  <2> QED BY <1>3, <1>4, SetInduction
<1>6. Cardinality(U) \in Nat
  BY <1>1
<1>7. PICK g \in [SUBSET U -> Nat] : g[{}] = 0 /\ Upto(g, Cardinality(U))
  BY <1>5, <1>6
<1>8. Sums(g, f, U)
  BY <1>1, <1>7 DEF Sums
<1> QED BY <1>8

(***************************************************************************)
(* Whichever element the fold picks, the sum is the same.                  *)
(***************************************************************************)
LEMMA SumsCommute ==
    ASSUME NEW U, IsFiniteSet(U), NEW f \in [U -> Nat],
           NEW g \in [SUBSET U -> Nat], Sums(g, f, U)
    PROVE  \A s \in SUBSET U : \A b \in s : g[s] = f[b] + g[s \ {b}]
<1> DEFINE T == {s \in SUBSET U : \A b \in s : g[s] = f[b] + g[s \ {b}]}
<1>1. ASSUME NEW s \in SUBSET U, \A x \in s : s \ {x} \in T
      PROVE  s \in T
  <2> SUFFICES ASSUME NEW b \in s PROVE g[s] = f[b] + g[s \ {b}]
    OBVIOUS
  <2> DEFINE x == Pick(s)
             rest == s \ {b, x}
  <2>1. x \in s /\ g[s] = f[x] + g[s \ {x}]
    BY DEF Pick, Sums
  <2>2. CASE b = x
    BY <2>1, <2>2
  <2>3. CASE b # x
    <3>1. b \in s \ {x} /\ x \in s \ {b}
      BY <2>1, <2>3
    <3>2. (s \ {x}) \ {b} = rest /\ (s \ {b}) \ {x} = rest
      OBVIOUS
    <3>3. g[s \ {x}] = f[b] + g[rest]
      BY <1>1, <2>1, <3>1, <3>2
    <3>4. g[s \ {b}] = f[x] + g[rest]
      BY <1>1, <3>1, <3>2
    <3>5. f[b] \in Nat /\ f[x] \in Nat /\ g[rest] \in Nat
      BY <2>1
    <3> HIDE DEF x, rest
    <3> QED BY <2>1, <3>3, <3>4, <3>5
  <2> QED BY <2>2, <2>3
<1>2. \A s \in SUBSET U : s \in T
  <2> HIDE DEF T
  <2> QED BY <1>1, SubsetInduction
<1> QED BY <1>2

SumOver(f, S) == MapThenSumSet(LAMBDA x : f[x], S)

(***************************************************************************)
(* The fold of the community modules computes that sum.                    *)
(***************************************************************************)
LEMMA SumIsTheFold ==
    ASSUME NEW U, IsFiniteSet(U), NEW f \in [U -> Nat],
           NEW g \in [SUBSET U -> Nat], Sums(g, f, U), NEW V \in SUBSET U
    PROVE  SumOver(f, V) = g[V]
<1> DEFINE eq(it) ==
              it = [s \in SUBSET V |->
                      IF s = {} THEN 0 ELSE f[Pick(s)] + it[s \ {Pick(s)}]]
           iter == CHOOSE it : eq(it)
           h == [s \in SUBSET V |-> g[s]]
<1>1. SumOver(f, V) = iter[V]
  BY DEF SumOver, MapThenSumSet, MapThenFoldSet, Pick
<1>2. eq(h)
  <2>1. ASSUME NEW s \in SUBSET V
        PROVE  h[s] = IF s = {} THEN 0 ELSE f[Pick(s)] + h[s \ {Pick(s)}]
    BY DEF Sums
  <2>2. h = [s \in SUBSET V |->
                IF s = {} THEN 0 ELSE f[Pick(s)] + h[s \ {Pick(s)}]]
    BY <2>1
  <2> QED BY <2>2
<1>3. eq(iter)
  <2> HIDE DEF h, eq
  <2> QED BY <1>2
<1>4. ASSUME NEW s \in SUBSET V
      PROVE  iter[s] = IF s = {} THEN 0 ELSE f[Pick(s)] + iter[s \ {Pick(s)}]
  <2> HIDE DEF iter
  <2> QED BY <1>3
<1> DEFINE T == {s \in SUBSET V : iter[s] = g[s]}
<1>5. ASSUME NEW s \in SUBSET V, \A x \in s : s \ {x} \in T
      PROVE  s \in T
  <2> HIDE DEF iter
  <2>1. CASE s = {}
    BY <1>4, <2>1 DEF Sums
  <2>2. CASE s # {}
    <3>1. Pick(s) \in s
      BY <2>2 DEF Pick
    <3>2. iter[s \ {Pick(s)}] = g[s \ {Pick(s)}]
      BY <1>5, <3>1
    <3> QED BY <1>4, <2>2, <3>2 DEF Sums
  <2> QED BY <2>1, <2>2
<1>6. \A s \in SUBSET V : s \in T
  <2>1. IsFiniteSet(V)
    BY FS_Subset
  <2> HIDE DEF T
  <2> QED BY <1>5, <2>1, SubsetInduction
<1> QED BY <1>1, <1>6

(***************************************************************************)
(* What a sum over a finite set of naturals satisfies.                     *)
(***************************************************************************)
LEMMA SumFacts ==
    ASSUME NEW U, IsFiniteSet(U), NEW f \in [U -> Nat]
    PROVE  /\ SumOver(f, {}) = 0
           /\ \A S \in SUBSET U : SumOver(f, S) \in Nat
           /\ \A S \in SUBSET U : \A x \in U \ S :
                 SumOver(f, S \cup {x}) = SumOver(f, S) + f[x]
<1>1. PICK g \in [SUBSET U -> Nat] : Sums(g, f, U)
  BY SumsExist
<1>2. \A S \in SUBSET U : SumOver(f, S) = g[S]
  BY <1>1, SumIsTheFold
<1>3. SumOver(f, {}) = 0
  BY <1>1, <1>2 DEF Sums
<1>4. ASSUME NEW S \in SUBSET U, NEW x \in U \ S
      PROVE  SumOver(f, S \cup {x}) = SumOver(f, S) + f[x]
  <2>1. x \in S \cup {x} /\ (S \cup {x}) \ {x} = S /\ S \cup {x} \in SUBSET U
    OBVIOUS
  <2>2. g[S \cup {x}] = f[x] + g[S]
    BY <1>1, <2>1, SumsCommute
  <2>3. f[x] \in Nat /\ g[S] \in Nat
    OBVIOUS
  <2> QED BY <1>2, <2>1, <2>2, <2>3
<1> QED BY <1>2, <1>3, <1>4

(***************************************************************************)
(* A part sums up to less than the whole when every value is positive.     *)
(***************************************************************************)
LEMMA SumOfPart ==
    ASSUME NEW U, IsFiniteSet(U), NEW f \in [U -> Nat \ {0}],
           NEW S \in SUBSET U, NEW T \in SUBSET S, S # T
    PROVE  SumOver(f, T) < SumOver(f, S)
<1> DEFINE Bigger == {R \in SUBSET U : T \subseteq R /\ R # T
                                           => SumOver(f, T) < SumOver(f, R)}
<1>1. /\ f \in [U -> Nat] /\ \A R \in SUBSET U : SumOver(f, R) \in Nat
      /\ \A R \in SUBSET U : \A x \in U \ R :
            SumOver(f, R \cup {x}) = SumOver(f, R) + f[x]
  <2>1. f \in [U -> Nat]
    OBVIOUS
  <2> QED BY <2>1, SumFacts
<1>2. ASSUME NEW R \in SUBSET U, \A x \in R : R \ {x} \in Bigger
      PROVE  R \in Bigger
  <2> SUFFICES ASSUME T \subseteq R, R # T PROVE SumOver(f, T) < SumOver(f, R)
    OBVIOUS
  <2>1. PICK x \in R : x \notin T
    OBVIOUS
  <2> DEFINE Q == R \ {x}
  <2>2. Q \in SUBSET U /\ x \in U \ Q /\ Q \cup {x} = R /\ T \subseteq Q
    BY <2>1
  <2>3. SumOver(f, R) = SumOver(f, Q) + f[x] /\ f[x] \in Nat \ {0}
    BY <1>1, <2>2
  <2>4. SumOver(f, T) <= SumOver(f, Q)
    <3>1. CASE Q = T
      BY <1>1, <2>2, <3>1
    <3>2. CASE Q # T
      BY <1>1, <1>2, <2>2, <3>2
    <3> QED BY <3>1, <3>2
  <2>5. SumOver(f, T) \in Nat /\ SumOver(f, Q) \in Nat
    BY <1>1, <2>2
  <2> HIDE DEF Q
  <2> QED BY <2>3, <2>4, <2>5
<1>3. \A R \in SUBSET U : R \in Bigger
  <2> HIDE DEF Bigger
  <2> QED BY <1>2, SubsetInduction
<1> QED BY <1>3

(***************************************************************************)
(* What the work and the fees of a set of blocks and transactions satisfy. *)
(***************************************************************************)
LEMMA TreeSums ==
    /\ \A S \in SUBSET Block : \A T \in SUBSET S :
          /\ TotalWork(S) \in Nat
          /\ S # T => TotalWork(T) < TotalWork(S)
    /\ TotalWork({}) = 0
    /\ \A S \in SUBSET Block : \A b \in Block \ S :
          TotalWork(S \cup {b}) = TotalWork(S) + Work[b]
    /\ TotalFee({}) = 0
    /\ \A S \in SUBSET Tx : TotalFee(S) \in Nat
    /\ \A S \in SUBSET Tx : \A t \in Tx \ S :
          TotalFee(S \cup {t}) = TotalFee(S) + TxFee[t]
<1>1. /\ IsFiniteSet(Block) /\ Work \in [Block -> Nat \ {0}] /\ Work \in [Block -> Nat]
      /\ IsFiniteSet(Tx) /\ TxFee \in [Tx -> Nat]
  BY TreeAssumption, TxAssumption DEF TreeAssumption, TxAssumption
<1>2. \A S : TotalWork(S) = SumOver(Work, S) /\ TotalFee(S) = SumOver(TxFee, S)
  BY DEF TotalWork, TotalFee, SumOver
<1>3. /\ TotalWork({}) = 0 /\ \A S \in SUBSET Block : TotalWork(S) \in Nat
      /\ \A S \in SUBSET Block : \A b \in Block \ S :
            TotalWork(S \cup {b}) = TotalWork(S) + Work[b]
  BY <1>1, <1>2, SumFacts
<1>4. \A S \in SUBSET Block : \A T \in SUBSET S : S # T => TotalWork(T) < TotalWork(S)
  BY <1>1, <1>2, SumOfPart
<1>5. /\ TotalFee({}) = 0 /\ \A S \in SUBSET Tx : TotalFee(S) \in Nat
      /\ \A S \in SUBSET Tx : \A t \in Tx \ S :
            TotalFee(S \cup {t}) = TotalFee(S) + TxFee[t]
  BY <1>1, <1>2, SumFacts
<1> QED BY <1>3, <1>4, <1>5

-----------------------------------------------------------------------------
(* Branches. *)

(***************************************************************************)
(* What holds of genesis and passes from a parent to its children holds of *)
(* every block.                                                            *)
(***************************************************************************)
LEMMA TreeInduction ==
    ASSUME NEW T, Genesis \in T,
           \A b \in Block \ {Genesis} : Prev[b] \in T => b \in T
    PROVE  \A b \in Block : b \in T
<1> DEFINE Level == {n \in Nat : \A b \in Block : Height[b] = n => b \in T}
<1>1. /\ Height \in [Block -> Nat] /\ Prev \in [Block -> Block]
      /\ \A b \in Block : Height[b] = 0 <=> b = Genesis
      /\ \A b \in Block \ {Genesis} : Height[b] = Height[Prev[b]] + 1
  BY TreeAssumption DEF TreeAssumption
<1>2. 0 \in Level
  BY <1>1
<1>3. ASSUME NEW n \in Nat, n \in Level PROVE n + 1 \in Level
  <2> SUFFICES ASSUME NEW b \in Block, Height[b] = n + 1 PROVE b \in T
    OBVIOUS
  <2>1. b \in Block \ {Genesis}
    BY <1>1
  <2>2. Prev[b] \in Block /\ Height[Prev[b]] = n
    BY <1>1, <2>1
  <2> QED BY <1>3, <2>1, <2>2
<1>4. \A n \in Nat : n \in Level
  <2> HIDE DEF Level
  <2> QED BY <1>2, <1>3, SetInduction
<1> QED BY <1>1, <1>4

(***************************************************************************)
(* A branch runs from genesis to its block down the prev_hash links, and   *)
(* passes through the branches of the blocks on it.                        *)
(***************************************************************************)
LEMMA BranchFacts ==
    ASSUME NEW b \in Block
    PROVE  /\ Branch[b] \in [0..Height[b] -> Block]
           /\ Height[b] \in Nat
           /\ Branch[b][Height[b]] = b
           /\ Branch[b][0] = Genesis
           /\ b # Genesis => /\ Height[b] > 0
                             /\ Prev[b] \in Block
                             /\ Height[Prev[b]] = Height[b] - 1
                             /\ Branch[b][Height[b] - 1] = Prev[b]
           /\ \A k \in 0..Height[b] :
                 /\ Branch[b][k] \in Block
                 /\ Height[Branch[b][k]] = k
                 /\ \A h \in 0..k : Branch[Branch[b][k]][h] = Branch[b][h]
<1> DEFINE IsBranch(x) ==
              /\ Branch[x] \in [0..Height[x] -> Block]
              /\ Branch[x][Height[x]] = x
              /\ Branch[x][0] = Genesis
              /\ \A k \in 0..Height[x] :
                    /\ Height[Branch[x][k]] = k
                    /\ \A h \in 0..k : Branch[Branch[x][k]][h] = Branch[x][h]
           T == {x \in Block : IsBranch(x)}
<1>1. /\ Height \in [Block -> Nat] /\ Prev \in [Block -> Block] /\ Genesis \in Block
      /\ \A x \in Block : Height[x] = 0 <=> x = Genesis
      /\ \A x \in Block \ {Genesis} : Height[x] = Height[Prev[x]] + 1
  BY TreeAssumption DEF TreeAssumption
<1>2. \A x \in Block :
         Branch[x] = [h \in 0..Height[x] |->
                         IF h = Height[x] THEN x ELSE Branch[Prev[x]][h]]
  BY BranchAssumption DEF BranchAssumption
<1> DEFINE At(x, h) == IF h = Height[x] THEN x ELSE Branch[Prev[x]][h]
<1>3. ASSUME NEW x \in Block
      PROVE  /\ Branch[x] = [h \in 0..Height[x] |-> At(x, h)]
             /\ \A h \in 0..Height[x] : Branch[x][h] = At(x, h)
  <2>1. Branch[x] = [h \in 0..Height[x] |-> At(x, h)]
    BY <1>2
  <2> HIDE DEF At
  <2> QED BY <2>1
<1>4. ASSUME NEW x \in Block, NEW h \in 0..Height[x]
      PROVE  /\ h = Height[x] => Branch[x][h] = x
             /\ h # Height[x] => Branch[x][h] = Branch[Prev[x]][h]
  BY <1>3
<1>5. ASSUME NEW x \in Block, \A h \in 0..Height[x] : Branch[x][h] \in Block
       PROVE  Branch[x] \in [0..Height[x] -> Block]
  <2>1. Branch[x] = [h \in 0..Height[x] |-> Branch[x][h]]
    <3> HIDE DEF At
    <3> QED BY <1>3
  <2> QED BY <1>5, <2>1
<1>6. IsBranch(Genesis)
  <2>1. Height[Genesis] = 0 /\ 0..0 = {0}
    BY <1>1
  <2>2. Branch[Genesis] = [h \in {0} |-> At(Genesis, h)] /\ At(Genesis, 0) = Genesis
    BY <1>1, <1>3, <2>1
  <2> QED BY <1>1, <2>1, <2>2
<1>7. ASSUME NEW x \in Block \ {Genesis}, IsBranch(Prev[x]) PROVE IsBranch(x)
  <2> DEFINE p == Prev[x]
  <2>1. /\ p \in Block /\ Height[p] \in Nat /\ Height[x] = Height[p] + 1
    BY <1>1
  <2>2. /\ Branch[x][Height[x]] = x
        /\ \A h \in 0..Height[p] : Branch[x][h] = Branch[p][h]
    <3>1. Height[x] \in 0..Height[x] /\ Height[x] # Height[p]
          /\ \A h \in 0..Height[p] : h \in 0..Height[x] /\ h # Height[x]
      BY <2>1
    <3> QED BY <1>4, <3>1
  <2>3. Branch[x] \in [0..Height[x] -> Block]
    <3>1. \A h \in 0..Height[x] : Branch[x][h] \in Block
      BY SMTT(30), <1>7, <2>1, <2>2
    <3> QED BY <1>5, <3>1
  <2>4. ASSUME NEW k \in 0..Height[x], NEW h \in 0..k
        PROVE  Height[Branch[x][k]] = k /\ Branch[Branch[x][k]][h] = Branch[x][h]
    <3>1. CASE k = Height[x]
      BY <2>2, <3>1
    <3>2. CASE k # Height[x]
      <4>1. k \in 0..Height[p] /\ h \in 0..Height[p]
        BY <2>1, <3>2
      <4> QED BY <1>7, <2>2, <4>1
    <3> QED BY <3>1, <3>2
  <2>5. \A k \in 0..Height[x] : k \in 0..k
    OBVIOUS
  <2> QED BY <1>7, <2>1, <2>2, <2>3, <2>4, <2>5
<1>8. \A x \in Block : x \in T
  <2>1. Genesis \in T
    BY <1>1, <1>6
  <2>2. \A x \in Block \ {Genesis} : Prev[x] \in T => x \in T
    BY <1>7
  <2> HIDE DEF T
  <2> QED BY <2>1, <2>2, TreeInduction
<1>9. b # Genesis => /\ Height[b] > 0
                     /\ Prev[b] \in Block
                     /\ Height[Prev[b]] = Height[b] - 1
                     /\ Branch[b][Height[b] - 1] = Prev[b]
  <2> SUFFICES ASSUME b # Genesis
               PROVE  /\ Height[b] > 0 /\ Prev[b] \in Block
                      /\ Height[Prev[b]] = Height[b] - 1
                      /\ Branch[b][Height[b] - 1] = Prev[b]
    OBVIOUS
  <2>1. /\ Prev[b] \in Block /\ Height[Prev[b]] \in Nat
        /\ Height[b] = Height[Prev[b]] + 1
    BY <1>1
  <2>2. Branch[b][Height[Prev[b]]] = Branch[Prev[b]][Height[Prev[b]]]
    <3>1. Height[Prev[b]] \in 0..Height[b] /\ Height[Prev[b]] # Height[b]
      BY <2>1
    <3> QED BY <1>4, <3>1
  <2> QED BY <1>8, <2>1, <2>2
<1>10. IsBranch(b) /\ Height[b] \in Nat
  BY <1>1, <1>8
<1> QED BY <1>9, <1>10

(***************************************************************************)
(* A branch goes on from the branch of the parent.                         *)
(***************************************************************************)
LEMMA ParentFacts ==
    ASSUME NEW b \in Block \ {Genesis}
    PROVE  /\ Prev[b] \in Block /\ Height[Prev[b]] \in Nat
           /\ Height[b] = Height[Prev[b]] + 1
           /\ Branch[b][Height[b]] = b
           /\ \A h \in 0..Height[Prev[b]] : Branch[b][h] = Branch[Prev[b]][h]
<1>1. /\ Prev[b] \in Block /\ Height[b] \in Nat /\ Height[b] > 0
      /\ Height[Prev[b]] = Height[b] - 1 /\ Branch[b][Height[Prev[b]]] = Prev[b]
  BY BranchFacts
<1>2. Height[Prev[b]] \in 0..Height[b] /\ Height[b] = Height[Prev[b]] + 1
  BY <1>1
<1>3. \A h \in 0..Height[Prev[b]] :
         Branch[Branch[b][Height[Prev[b]]]][h] = Branch[b][h]
  BY <1>2, BranchFacts
<1>4. Branch[b][Height[b]] = b
  BY BranchFacts
<1>5. Height[Prev[b]] \in Nat
  BY <1>1, BranchFacts
<1> QED BY ONLY <1>1, <1>2, <1>3, <1>4, <1>5

(***************************************************************************)
(* The block of a branch at a height above genesis, and its parent.        *)
(***************************************************************************)
LEMMA BranchParent ==
    ASSUME NEW b \in Block, NEW h \in 1..Height[b]
    PROVE  /\ Branch[b][h] \in Block \ {Genesis} /\ Height[Branch[b][h]] = h
           /\ Prev[Branch[b][h]] = Branch[b][h - 1]
<1> DEFINE d == Branch[b][h]
<1>1. h \in 0..Height[b] /\ h > 0 /\ h - 1 \in 0..h
  BY BranchFacts
<1>2. d \in Block /\ Height[d] = h /\ Branch[d][h - 1] = Branch[b][h - 1]
  BY <1>1, BranchFacts
<1> HIDE DEF d
<1>3. d # Genesis
  BY <1>1, <1>2, TreeAssumption DEF TreeAssumption
<1>4. Branch[d][h - 1] = Prev[d]
  BY <1>2, <1>3, BranchFacts
<1> QED BY <1>2, <1>3, <1>4 DEF d

(***************************************************************************)
(* Every unspent output was created by a block of the branch.              *)
(***************************************************************************)
LEMMA LedgerComesFromTheBranch ==
    \A b \in Block : UtxoAfter[b] \subseteq
        UNION {BlockOuts(Branch[b][h]) : h \in 0..Height[b]}
<1> DEFINE Born(b) == UNION {BlockOuts(Branch[b][h]) : h \in 0..Height[b]}
           T == {b \in Block : UtxoAfter[b] \subseteq Born(b)}
<1>1. Genesis \in T
  BY TreeAssumption, ReplayAssumption DEF TreeAssumption, ReplayAssumption
<1>2. ASSUME NEW b \in Block \ {Genesis}, Prev[b] \in T PROVE b \in T
  <2>1. UtxoAfter[b] \subseteq UtxoAfter[Prev[b]] \cup BlockOuts(b)
    BY ReplayAssumption DEF ReplayAssumption, SpendAndCreate
  <2>2. Born(Prev[b]) \subseteq Born(b)
    <3>1. \A h \in 0..Height[Prev[b]] :
             h \in 0..Height[b] /\ Branch[b][h] = Branch[Prev[b]][h]
      BY ParentFacts
    <3> QED BY <3>1
  <2>3. BlockOuts(b) \subseteq Born(b)
    <3>1. Height[b] \in 0..Height[b] /\ Branch[b][Height[b]] = b
      BY BranchFacts
    <3> QED BY <3>1
  <2> QED BY <1>2, <2>1, <2>2, <2>3
<1> HIDE DEF T
<1>3. \A b \in Block : b \in T
  BY <1>1, <1>2, TreeInduction
<1> QED BY <1>3 DEF T

(***************************************************************************)
(* No block of a branch creates an output that was unspent below it.       *)
(***************************************************************************)
LEMMA LaterOutputsAreNew ==
    ASSUME OutputsBornOnce, NEW b \in Block,
           NEW h \in 0..Height[b], NEW k \in 0..Height[b], k < h
    PROVE  BlockOuts(Branch[b][h]) \cap UtxoAfter[Branch[b][k]] = {}
<1> DEFINE a == Branch[b][k]
<1>1. a \in Block /\ Height[a] = k /\ \A i \in 0..k : Branch[a][i] = Branch[b][i]
  BY BranchFacts
<1> HIDE DEF a
<1> SUFFICES ASSUME NEW c \in BlockOuts(Branch[b][h]), c \in UtxoAfter[a] PROVE FALSE
  BY DEF a
<1>2. PICK i \in 0..k : c \in BlockOuts(Branch[b][i])
  BY <1>1, LedgerComesFromTheBranch
<1>3. i \in 0..Height[b] /\ i # h
  BY BranchFacts
<1> QED BY <1>2, <1>3 DEF OutputsBornOnce
=============================================================================
