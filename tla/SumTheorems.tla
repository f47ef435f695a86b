---------------------------- MODULE SumTheorems ----------------------------
(***************************************************************************)
(* Facts about sums over finite sets, SumFunctionOnSet of the community    *)
(* module Functions: removing an element, changing one term, disjoint      *)
(* unions.  The proofs are inductions over the subsets of a finite set, in *)
(* the form of SubsetInduction, which speaks of a set of subsets where the *)
(* library's induction theorems speak of an operator.                      *)
(***************************************************************************)
EXTENDS FiniteSetTheorems, TLAPS

\* Zenon proves the leaves of the proofs that name no prover; those that need
\* arithmetic, records or sequences name the SMT solver.
USE Zenon

\* A set of subsets that holds a subset whenever it holds all smaller ones
\* holds them all.
LEMMA SubsetInduction ==
    ASSUME NEW S, IsFiniteSet(S), NEW G,
           \A T \in SUBSET S : (\A U \in SUBSET T : U # T => U \in G) => T \in G
    PROVE  SUBSET S \subseteq G
<1> DEFINE Bad == (SUBSET S) \ G
<1>1. SUFFICES ASSUME Bad # {} PROVE FALSE
  OBVIOUS
<1>2. IsWellFoundedOn(StrictSubsetOrdering(S), SUBSET S)
  BY FS_StrictSubsetOrderingWellFounded, FS_FiniteSubsetsOfFinite
<1>3. PICK T \in Bad : \A U \in Bad : ~(<<U, T>> \in StrictSubsetOrdering(S))
  <2>1. Bad \subseteq SUBSET S
    OBVIOUS
  <2> HIDE DEF Bad
  <2> QED
    BY <1>1, <1>2, <2>1, WFMin, SMT
<1>4. \A U \in SUBSET T : U # T => U \in G
  BY <1>3 DEF StrictSubsetOrdering
<1> QED
  BY <1>3, <1>4

----------------------------------------------------------------------------
(***************************************************************************)
(* The equation a sum is defined by.  IsSumTable says of g that it is a    *)
(* table of the sums of f over the subsets of S, each computed by taking   *)
(* out one element.                                                        *)
(***************************************************************************)
First(T) == CHOOSE x \in T : TRUE

IsSumTable(g, f, S) ==
    g = [T \in SUBSET S |-> IF T = {} THEN 0 ELSE f[First(T)] + g[T \ {First(T)}]]

\* SumFunctionOnSet is an entry of such a table.
LEMMA SumIsTable ==
    ASSUME NEW f, NEW S
    PROVE  SumFunctionOnSet(f, S) = (CHOOSE g : IsSumTable(g, f, S))[S]
BY DEF SumFunctionOnSet, FoldFunctionOnSet, MapThenFoldSet, IsSumTable, First

\* The element taken out is one of the set.
LEMMA FirstIn ==
    ASSUME NEW T, T # {}
    PROVE  First(T) \in T
BY DEF First

\* One entry of a table.
LEMMA SumTableEntry ==
    ASSUME NEW f, NEW S, NEW g, IsSumTable(g, f, S), NEW T \in SUBSET S
    PROVE  g[T] = IF T = {} THEN 0 ELSE f[First(T)] + g[T \ {First(T)}]
BY DEF IsSumTable

\* Two tables of the same sums are equal.
LEMMA SumTableUnique ==
    ASSUME NEW f, NEW S, IsFiniteSet(S), NEW g, NEW h,
           IsSumTable(g, f, S), IsSumTable(h, f, S)
    PROVE  g = h
<1> DEFINE G == {T \in SUBSET S : g[T] = h[T]}
<1>1. ASSUME NEW T \in SUBSET S, \A U \in SUBSET T : U # T => U \in G
      PROVE  T \in G
  <2>1. CASE T = {}
    BY <2>1, SumTableEntry, SMT
  <2>2. CASE T # {}
    <3>1. T \ {First(T)} \in G
      BY <1>1, <2>2, FirstIn
    <3>2. g[T] = f[First(T)] + g[T \ {First(T)}] /\ h[T] = f[First(T)] + h[T \ {First(T)}]
      BY <2>2, SumTableEntry, SMT
    <3> QED
      BY <3>1, <3>2
  <2> QED
    BY <2>1, <2>2
<1>2. SUBSET S \subseteq G
  <2> HIDE DEF G
  <2> QED
    BY <1>1, SubsetInduction
<1>3. g = [T \in SUBSET S |-> g[T]] /\ h = [T \in SUBSET S |-> h[T]]
  BY DEF IsSumTable
<1> QED
  BY <1>2, <1>3

\* A table for S holds tables for the subsets of S.
LEMMA SumTableRestrict ==
    ASSUME NEW f, NEW S, NEW g, IsSumTable(g, f, S), NEW T \in SUBSET S
    PROVE  IsSumTable([U \in SUBSET T |-> g[U]], f, T)
<1> DEFINE h == [U \in SUBSET T |-> g[U]]
<1>1. ASSUME NEW U \in SUBSET T
      PROVE  g[U] = IF U = {} THEN 0 ELSE f[First(U)] + h[U \ {First(U)}]
  <2>1. U \in SUBSET S /\ U \ {First(U)} \in SUBSET T
    OBVIOUS
  <2> QED
    BY <2>1, SumTableEntry, SMT
<1> QED
  BY <1>1 DEF IsSumTable

\* There is a table of the sums over the subsets of any finite set.
LEMMA SumTableExists ==
    ASSUME NEW f, NEW S, IsFiniteSet(S)
    PROVE  \E g : IsSumTable(g, f, S)
<1> DEFINE G == {T \in SUBSET S : \E g : IsSumTable(g, f, T)}
           table(T) == CHOOSE g : IsSumTable(g, f, T)
<1>1. ASSUME NEW T \in SUBSET S, \A U \in SUBSET T : U # T => U \in G
      PROVE  T \in G
  <2>1. ASSUME NEW U \in SUBSET T, U # T
        PROVE  IsSumTable(table(U), f, U)
    BY <1>1, <2>1
  <2> HIDE DEF table
  <2> DEFINE sum(U) == IF U = {} THEN 0
                       ELSE f[First(U)] + table(U \ {First(U)})[U \ {First(U)}]
             g == [U \in SUBSET T |-> sum(U)]
  <2>2. ASSUME NEW U \in SUBSET T, U # T
        PROVE  table(U)[U] = sum(U)
    <3>1. U \in SUBSET U
      OBVIOUS
    <3>2. CASE U = {}
      <4>1. table(U)[U] = 0
        BY <2>1, <2>2, <3>1, <3>2, SumTableEntry
      <4> QED BY <3>2, <4>1
    <3>3. CASE U # {}
      <4> DEFINE V == U \ {First(U)}
      <4>1. V \in SUBSET U /\ V \in SUBSET T /\ V # T
        BY <3>3, FirstIn
      <4>2. table(U)[U] = f[First(U)] + table(U)[V]
        BY <2>1, <2>2, <3>1, <3>3, SumTableEntry, SMT
      <4>3. IsFiniteSet(V)
        BY <4>1, FS_Subset
      <4>4. table(V)[V] = table(U)[V]
        <5> HIDE DEF V
        <5>1. IsSumTable([W \in SUBSET V |-> table(U)[W]], f, V)
          BY <2>1, <2>2, <4>1, SumTableRestrict
        <5>2. table(V) = [W \in SUBSET V |-> table(U)[W]]
          BY <2>1, <4>1, <4>3, <5>1, SumTableUnique
        <5> QED
          BY <5>2
      <4> QED
        BY <3>3, <4>2, <4>4
    <3> QED
      BY <3>2, <3>3
  <2>3. ASSUME NEW U \in SUBSET T
        PROVE  sum(U) = IF U = {} THEN 0 ELSE f[First(U)] + g[U \ {First(U)}]
    <3>1. CASE U = {}
      BY <3>1
    <3>2. CASE U # {}
      <4>1. U \ {First(U)} \in SUBSET T /\ U \ {First(U)} # T
        BY <3>2, FirstIn
      <4>2. table(U \ {First(U)})[U \ {First(U)}] = g[U \ {First(U)}]
        BY <2>2, <4>1
      <4> QED
        BY <3>2, <4>2
    <3> QED
      BY <3>1, <3>2
  <2>4. IsSumTable(g, f, T)
    <3>1. g = [U \in SUBSET T |-> IF U = {} THEN 0 ELSE f[First(U)] + g[U \ {First(U)}]]
      <4> HIDE DEF sum
      <4> QED BY <2>3
    <3> QED
      BY <3>1 DEF IsSumTable
  <2> QED
    BY <2>4
<1>2. SUBSET S \subseteq G
  <2> HIDE DEF G
  <2> QED
    BY <1>1, SubsetInduction
<1> QED
  BY <1>2

\* A sum, with one term taken out.
LEMMA SumUnfold ==
    ASSUME NEW f, NEW S, IsFiniteSet(S)
    PROVE  SumFunctionOnSet(f, S) =
             IF S = {} THEN 0 ELSE f[First(S)] + SumFunctionOnSet(f, S \ {First(S)})
<1> DEFINE table(T) == CHOOSE g : IsSumTable(g, f, T)
           V == S \ {First(S)}
<1>1. IsSumTable(table(S), f, S)
  BY SumTableExists
<1>2. IsFiniteSet(V) /\ V \in SUBSET S
  BY FS_Subset
<1>3. IsSumTable(table(V), f, V)
  BY <1>2, SumTableExists
<1>4. SumFunctionOnSet(f, S) = table(S)[S] /\ SumFunctionOnSet(f, V) = table(V)[V]
  BY SumIsTable
<1> HIDE DEF table
<1>5. table(S)[S] = IF S = {} THEN 0 ELSE f[First(S)] + table(S)[V]
  <2>1. \A T \in SUBSET S :
          table(S)[T] = IF T = {} THEN 0 ELSE f[First(T)] + table(S)[T \ {First(T)}]
    BY <1>1, SumTableEntry, SMT
  <2> QED
    BY <2>1
<1>6. table(V)[V] = table(S)[V]
  <2> HIDE DEF V
  <2>1. IsSumTable([W \in SUBSET V |-> table(S)[W]], f, V)
    BY <1>1, <1>2, SumTableRestrict
  <2>2. table(V) = [W \in SUBSET V |-> table(S)[W]]
    BY <1>2, <1>3, <2>1, SumTableUnique
  <2> QED
    BY <2>2
<1> QED
  BY <1>4, <1>5, <1>6

----------------------------------------------------------------------------
(***************************************************************************)
(* What is used of sums.                                                   *)
(***************************************************************************)
\* The empty sum.
LEMMA SumEmpty ==
    ASSUME NEW f
    PROVE  SumFunctionOnSet(f, {}) = 0
BY SumUnfold, FS_EmptySet

\* A sum of integers is an integer.
LEMMA SumInt ==
    ASSUME NEW f, NEW S, IsFiniteSet(S), \A x \in S : f[x] \in Int
    PROVE  SumFunctionOnSet(f, S) \in Int
<1> DEFINE G == {T \in SUBSET S : SumFunctionOnSet(f, T) \in Int}
<1>1. ASSUME NEW T \in SUBSET S, \A U \in SUBSET T : U # T => U \in G
      PROVE  T \in G
  <2>1. IsFiniteSet(T)
    BY FS_Subset
  <2>2. CASE T = {}
    BY <2>2, SumEmpty, SMT
  <2>3. CASE T # {}
    <3>1. T \ {First(T)} \in G /\ First(T) \in S
      BY <1>1, <2>3, FirstIn
    <3>2. SumFunctionOnSet(f, T) = f[First(T)] + SumFunctionOnSet(f, T \ {First(T)})
      BY <2>1, <2>3, SumUnfold
    <3> QED
      BY <3>1, <3>2, SMT
  <2> QED
    BY <2>2, <2>3
<1>2. SUBSET S \subseteq G
  <2> HIDE DEF G
  <2> QED
    BY <1>1, SubsetInduction
<1> QED
  BY <1>2

\* Any term can be taken out of a sum.
LEMMA SumRemove ==
    ASSUME NEW f, NEW S, IsFiniteSet(S), \A x \in S : f[x] \in Int, NEW x \in S
    PROVE  SumFunctionOnSet(f, S) = f[x] + SumFunctionOnSet(f, S \ {x})
<1> DEFINE G == {T \in SUBSET S :
                   \A y \in T : SumFunctionOnSet(f, T) = f[y] + SumFunctionOnSet(f, T \ {y})}
<1>1. ASSUME NEW T \in SUBSET S, \A U \in SUBSET T : U # T => U \in G
      PROVE  T \in G
  <2> SUFFICES ASSUME NEW y \in T
               PROVE  SumFunctionOnSet(f, T) = f[y] + SumFunctionOnSet(f, T \ {y})
    OBVIOUS
  <2> DEFINE c == First(T)
  <2>1. IsFiniteSet(T) /\ c \in T
    BY FS_Subset, FirstIn
  <2>2. SumFunctionOnSet(f, T) = f[c] + SumFunctionOnSet(f, T \ {c})
    BY <2>1, SumUnfold
  <2>3. CASE y = c
    BY <2>2, <2>3
  <2>4. CASE y # c
    <3> HIDE DEF c
    <3>1. SumFunctionOnSet(f, T \ {c}) = f[y] + SumFunctionOnSet(f, (T \ {c}) \ {y})
      <4>1. T \ {c} \in G /\ y \in T \ {c}
        BY <1>1, <2>1, <2>4
      <4> QED
        BY <4>1
    <3>2. SumFunctionOnSet(f, T \ {y}) = f[c] + SumFunctionOnSet(f, (T \ {y}) \ {c})
      <4>1. T \ {y} \in G /\ c \in T \ {y}
        BY <1>1, <2>1, <2>4
      <4> QED
        BY <4>1
    <3>3. (T \ {c}) \ {y} = (T \ {y}) \ {c}
      OBVIOUS
    <3>4. SumFunctionOnSet(f, (T \ {y}) \ {c}) \in Int
      <4>1. IsFiniteSet((T \ {y}) \ {c})
        BY FS_Subset
      <4> QED
        BY <4>1, SumInt
    <3>5. f[c] \in Int /\ f[y] \in Int
      BY <2>1
    <3>6. f[c] + (f[y] + SumFunctionOnSet(f, (T \ {y}) \ {c}))
            = f[y] + (f[c] + SumFunctionOnSet(f, (T \ {y}) \ {c}))
      BY <3>4, <3>5, SMT
    <3> QED
      BY <2>2, <3>1, <3>2, <3>3, <3>6
  <2> QED
    BY <2>3, <2>4
<1>2. SUBSET S \subseteq G
  <2> HIDE DEF G
  <2> QED
    BY <1>1, SubsetInduction
<1> QED
  BY <1>2

\* A new term.
LEMMA SumAdd ==
    ASSUME NEW f, NEW S, IsFiniteSet(S), \A x \in S : f[x] \in Int,
           NEW x, x \notin S, f[x] \in Int
    PROVE  SumFunctionOnSet(f, S \cup {x}) = f[x] + SumFunctionOnSet(f, S)
<1>1. IsFiniteSet(S \cup {x})
  BY FS_AddElement
<1>2. (S \cup {x}) \ {x} = S
  OBVIOUS
<1>3. x \in S \cup {x} /\ \A y \in S \cup {x} : f[y] \in Int
  OBVIOUS
<1>4. SumFunctionOnSet(f, S \cup {x}) = f[x] + SumFunctionOnSet(f, (S \cup {x}) \ {x})
  BY <1>1, <1>3, SumRemove, SMT
<1> QED
  BY <1>2, <1>4

\* Sums of equal terms are equal.
LEMMA SumEqual ==
    ASSUME NEW f, NEW g, NEW S, IsFiniteSet(S), \A x \in S : f[x] = g[x]
    PROVE  SumFunctionOnSet(f, S) = SumFunctionOnSet(g, S)
<1> DEFINE G == {T \in SUBSET S : SumFunctionOnSet(f, T) = SumFunctionOnSet(g, T)}
<1>1. ASSUME NEW T \in SUBSET S, \A U \in SUBSET T : U # T => U \in G
      PROVE  T \in G
  <2>1. IsFiniteSet(T)
    BY FS_Subset
  <2>2. CASE T = {}
    BY <2>2, SumEmpty
  <2>3. CASE T # {}
    <3>1. T \ {First(T)} \in G /\ First(T) \in S
      BY <1>1, <2>3, FirstIn
    <3>2. /\ SumFunctionOnSet(f, T) = f[First(T)] + SumFunctionOnSet(f, T \ {First(T)})
          /\ SumFunctionOnSet(g, T) = g[First(T)] + SumFunctionOnSet(g, T \ {First(T)})
      BY <2>1, <2>3, SumUnfold
    <3> QED
      BY <3>1, <3>2
  <2> QED
    BY <2>2, <2>3
<1>2. SUBSET S \subseteq G
  <2> HIDE DEF G
  <2> QED
    BY <1>1, SubsetInduction
<1> QED
  BY <1>2

\* A sum with one term changed.
LEMMA SumChange ==
    ASSUME NEW f, NEW g, NEW S, IsFiniteSet(S), NEW x \in S,
           \A y \in S : f[y] \in Int, \A y \in S \ {x} : g[y] = f[y], g[x] \in Int
    PROVE  SumFunctionOnSet(g, S) = SumFunctionOnSet(f, S) - f[x] + g[x]
<1>1. IsFiniteSet(S \ {x}) /\ \A y \in S : g[y] \in Int
  BY FS_Subset
<1>2. SumFunctionOnSet(f, S) = f[x] + SumFunctionOnSet(f, S \ {x})
  BY SumRemove, SMT
<1>3. SumFunctionOnSet(g, S) = g[x] + SumFunctionOnSet(g, S \ {x})
  BY <1>1, SumRemove, SMT
<1>4. SumFunctionOnSet(g, S \ {x}) = SumFunctionOnSet(f, S \ {x})
  BY <1>1, SumEqual
<1>5. SumFunctionOnSet(f, S \ {x}) \in Int /\ f[x] \in Int
  BY <1>1, SumInt
<1> QED
  BY <1>2, <1>3, <1>4, <1>5, SMT

\* The sum over two sets without a common element.
LEMMA SumUnion ==
    ASSUME NEW f, NEW S, NEW R, IsFiniteSet(S), IsFiniteSet(R), S \cap R = {},
           \A x \in S \cup R : f[x] \in Int
    PROVE  SumFunctionOnSet(f, S \cup R) = SumFunctionOnSet(f, S) + SumFunctionOnSet(f, R)
<1> DEFINE G == {T \in SUBSET R :
                   SumFunctionOnSet(f, S \cup T) = SumFunctionOnSet(f, S) + SumFunctionOnSet(f, T)}
<1>0. SumFunctionOnSet(f, S) \in Int
  BY SumInt
<1>1. ASSUME NEW T \in SUBSET R, \A U \in SUBSET T : U # T => U \in G
      PROVE  T \in G
  <2>1. CASE T = {}
    <3>1. S \cup T = S
      BY <2>1
    <3> QED
      BY <1>0, <2>1, <3>1, SumEmpty, SMT
  <2>2. CASE T # {}
    <3> DEFINE c == First(T)
               U == T \ {c}
    <3>1. c \in T /\ c \in R /\ c \notin S
      BY <2>2, FirstIn
    <3>2. U \in G
      BY <1>1, <3>1
    <3> HIDE DEF c
    <3>3. IsFiniteSet(U) /\ IsFiniteSet(T)
      BY FS_Subset
    <3>4. IsFiniteSet(S \cup U)
      BY <3>3, FS_Union
    <3>5. c \notin S \cup U /\ (S \cup U) \cup {c} = S \cup T
      BY <3>1
    <3>6. \A y \in S \cup U : f[y] \in Int
      OBVIOUS
    <3>7. SumFunctionOnSet(f, S \cup T) = f[c] + SumFunctionOnSet(f, S \cup U)
      <4> HIDE DEF U
      <4>1. SumFunctionOnSet(f, (S \cup U) \cup {c}) = f[c] + SumFunctionOnSet(f, S \cup U)
        BY <3>1, <3>4, <3>5, <3>6, SumAdd
      <4> QED
        BY <3>5, <4>1
    <3>8. SumFunctionOnSet(f, T) = f[c] + SumFunctionOnSet(f, U)
      BY <3>1, <3>3, SumRemove, SMT
    <3>9. f[c] \in Int /\ SumFunctionOnSet(f, U) \in Int
      BY <3>1, <3>3, SumInt
    <3> QED
      BY <1>0, <3>2, <3>7, <3>8, <3>9, SMT
  <2> QED
    BY <2>1, <2>2
<1>2. SUBSET R \subseteq G
  <2> HIDE DEF G
  <2> QED
    BY <1>1, SubsetInduction, SMT
<1> QED
  BY <1>2

\* A sum of natural numbers is one.
LEMMA SumNat ==
    ASSUME NEW f, NEW S, IsFiniteSet(S), \A x \in S : f[x] \in Nat
    PROVE  SumFunctionOnSet(f, S) \in Nat
<1> DEFINE G == {T \in SUBSET S : SumFunctionOnSet(f, T) \in Nat}
<1>1. ASSUME NEW T \in SUBSET S, \A U \in SUBSET T : U # T => U \in G
      PROVE  T \in G
  <2>1. IsFiniteSet(T)
    BY FS_Subset
  <2>2. CASE T = {}
    BY <2>2, SumEmpty, SMT
  <2>3. CASE T # {}
    <3>1. T \ {First(T)} \in G /\ First(T) \in S
      BY <1>1, <2>3, FirstIn
    <3>2. SumFunctionOnSet(f, T) = f[First(T)] + SumFunctionOnSet(f, T \ {First(T)})
      BY <2>1, <2>3, SumUnfold
    <3> QED
      BY <3>1, <3>2, SMT
  <2> QED
    BY <2>2, <2>3
<1>2. SUBSET S \subseteq G
  <2> HIDE DEF G
  <2> QED
    BY <1>1, SubsetInduction
<1> QED
  BY <1>2

\* A sum whose terms are sums of two.
LEMMA SumPlus ==
    ASSUME NEW f, NEW g, NEW h, NEW S, IsFiniteSet(S),
           \A x \in S : f[x] \in Int /\ g[x] \in Int /\ h[x] = f[x] + g[x]
    PROVE  SumFunctionOnSet(h, S) = SumFunctionOnSet(f, S) + SumFunctionOnSet(g, S)
<1> DEFINE G == {T \in SUBSET S :
                   SumFunctionOnSet(h, T) = SumFunctionOnSet(f, T) + SumFunctionOnSet(g, T)}
<1>1. ASSUME NEW T \in SUBSET S, \A U \in SUBSET T : U # T => U \in G
      PROVE  T \in G
  <2>1. IsFiniteSet(T)
    BY FS_Subset
  <2>2. CASE T = {}
    BY <2>2, SumEmpty, SMT
  <2>3. CASE T # {}
    <3> DEFINE c == First(T)
               U == T \ {c}
    <3>1. U \in G /\ c \in S
      BY <1>1, <2>3, FirstIn
    <3>2. /\ SumFunctionOnSet(f, T) = f[c] + SumFunctionOnSet(f, U)
          /\ SumFunctionOnSet(g, T) = g[c] + SumFunctionOnSet(g, U)
          /\ SumFunctionOnSet(h, T) = h[c] + SumFunctionOnSet(h, U)
      BY <2>1, <2>3, SumUnfold
    <3>3. SumFunctionOnSet(f, U) \in Int /\ SumFunctionOnSet(g, U) \in Int
      <4>1. IsFiniteSet(U)
        BY <2>1, FS_Subset
      <4> QED
        BY <4>1, SumInt
    <3> HIDE DEF c, U
    <3> QED
      BY <3>1, <3>2, <3>3, SMT
  <2> QED
    BY <2>2, <2>3
<1>2. SUBSET S \subseteq G
  <2> HIDE DEF G
  <2> QED
    BY <1>1, SubsetInduction
<1> QED
  BY <1>2

\* A sum of equal terms is a product.
LEMMA SumConstant ==
    ASSUME NEW f, NEW S, IsFiniteSet(S), NEW k \in Int, \A x \in S : f[x] = k
    PROVE  SumFunctionOnSet(f, S) = Cardinality(S) * k
<1> DEFINE G == {T \in SUBSET S : SumFunctionOnSet(f, T) = Cardinality(T) * k}
<1>1. ASSUME NEW T \in SUBSET S, \A U \in SUBSET T : U # T => U \in G
      PROVE  T \in G
  <2>1. IsFiniteSet(T)
    BY FS_Subset
  <2>2. CASE T = {}
    <3>1. Cardinality(T) = 0
      BY <2>2, FS_EmptySet
    <3> QED
      BY <2>2, <3>1, SumEmpty, SMT
  <2>3. CASE T # {}
    <3> DEFINE c == First(T)
               U == T \ {c}
    <3>1. U \in G /\ c \in T
      BY <1>1, <2>3, FirstIn
    <3>2. SumFunctionOnSet(f, T) = k + SumFunctionOnSet(f, U)
      BY <2>1, <2>3, <3>1, SumUnfold
    <3> HIDE DEF c
    <3>3. IsFiniteSet(U) /\ Cardinality(U) \in Nat /\ Cardinality(T) = Cardinality(U) + 1
      BY <2>1, <3>1, FS_Subset, FS_RemoveElement, FS_CardinalityType, SMT
    <3> HIDE DEF U
    <3>4. \A m \in Nat : k + m * k = (m + 1) * k
      BY SMT
    <3> QED
      BY <3>1, <3>2, <3>3, <3>4
  <2> QED
    BY <2>2, <2>3
<1>2. SUBSET S \subseteq G
  <2> HIDE DEF G
  <2> QED
    BY <1>1, SubsetInduction
<1> QED
  BY <1>2

\* A sum to some of whose terms others are added.
LEMMA SumCredit ==
    ASSUME NEW f, NEW g, NEW h, NEW S, NEW R, IsFiniteSet(S), R \subseteq S,
           \A x \in S : f[x] \in Int,
           \A x \in R : g[x] \in Int /\ h[x] = f[x] + g[x],
           \A x \in S \ R : h[x] = f[x]
    PROVE  SumFunctionOnSet(h, S) = SumFunctionOnSet(f, S) + SumFunctionOnSet(g, R)
<1> DEFINE Q == S \ R
<1>1. /\ IsFiniteSet(R) /\ IsFiniteSet(Q)
      /\ Q \cap R = {} /\ Q \cup R = S
  BY FS_Subset
<1>2. \A x \in Q \cup R : f[x] \in Int /\ h[x] \in Int
  BY SMT
<1>3. SumFunctionOnSet(h, Q) = SumFunctionOnSet(f, Q)
  BY <1>1, SumEqual
<1> HIDE DEF Q
<1>4. SumFunctionOnSet(h, R) = SumFunctionOnSet(f, R) + SumFunctionOnSet(g, R)
  BY <1>1, <1>2, SumPlus, SMT
<1>5. /\ SumFunctionOnSet(h, Q \cup R) = SumFunctionOnSet(h, Q) + SumFunctionOnSet(h, R)
      /\ SumFunctionOnSet(f, Q \cup R) = SumFunctionOnSet(f, Q) + SumFunctionOnSet(f, R)
  BY <1>1, <1>2, SumUnion
<1>6. /\ SumFunctionOnSet(f, Q) \in Int /\ SumFunctionOnSet(f, R) \in Int
      /\ SumFunctionOnSet(g, R) \in Int
  BY <1>1, <1>2, SumInt
<1>7. SumFunctionOnSet(h, Q \cup R) = SumFunctionOnSet(f, Q \cup R) + SumFunctionOnSet(g, R)
  BY <1>3, <1>4, <1>5, <1>6, SMT
<1>8. Q \cup R = S
  BY <1>1
<1> QED
  BY <1>7, <1>8
=============================================================================
