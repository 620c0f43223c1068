-------------------------- MODULE SettlementProofs --------------------------
(***************************************************************************)
(* Proofs about Settlement, for any split and any plan, and about the      *)
(* split and the plan of SettlementPlan.  The inductive invariant of       *)
(* Settlement adds to the type invariant that transfers belong to          *)
(* settlements made so far, locks follow the settlement, and the transfers *)
(* in force are the plan.  Sums, the plan and the partition are recursive  *)
(* functions; what they compute is proved by induction over the subsets of *)
(* a finite set.                                                           *)
(***************************************************************************)
EXTENDS MCSettlement, FiniteSetTheorems, TLAPS

(* Sums over finite sets *)

\* Among subsets of a finite set there is one that contains no other of them.
LEMMA SmallestSubset ==
    ASSUME NEW S, IsFiniteSet(S), NEW Sets, Sets \subseteq SUBSET S, Sets # {}
    PROVE  \E T \in Sets : \A U \in Sets : U \subseteq T => U = T
<1>1. FiniteSubsetsOf(S) = SUBSET S
    BY FS_FiniteSubsetsOfFinite
<1>2. IsWellFoundedOn(StrictSubsetOrdering(S), SUBSET S)
    BY <1>1, FS_StrictSubsetOrderingWellFounded
<1>3. PICK T \in Sets : \A U \in Sets : <<U, T>> \notin StrictSubsetOrdering(S)
    BY <1>2, WFMin, Zenon
<1>4. ASSUME NEW U \in Sets, U \subseteq T, U # T PROVE FALSE
    <2>1. U \in SUBSET S /\ T \in SUBSET S
        OBVIOUS
    <2>2. <<U, T>> \in StrictSubsetOrdering(S)
        BY <1>4, <2>1 DEF StrictSubsetOrdering
    <2> QED BY <1>3, <2>2
<1> QED BY <1>4, Zenon

\* Induction over the subsets of a finite set: what holds of a subset once it
\* holds of all smaller ones holds of the set.
LEMMA SubsetsInduction ==
    ASSUME NEW S, IsFiniteSet(S), NEW G, 
           \A T \in SUBSET S : (\A U \in SUBSET T : U # T => U \in G) => T \in G
    PROVE  S \in G
<1> DEFINE Rest == (SUBSET S) \ G
<1> SUFFICES ASSUME S \notin G PROVE FALSE
    OBVIOUS
<1>1. Rest \subseteq SUBSET S /\ Rest # {}
    OBVIOUS
<1>2. PICK T \in Rest : \A U \in Rest : U \subseteq T => U = T
    <2> HIDE DEF Rest
    <2> QED BY <1>1, SmallestSubset
<1> QED BY <1>2

Picked(s) == CHOOSE x \in s : TRUE

\* What is picked from a set is in it.
LEMMA PickedIn == \A s : s # {} => Picked(s) \in s
    BY DEF Picked

IsSum(g, f, S) ==
    g = [s \in SUBSET S |-> IF s = {} THEN 0 ELSE f[Picked(s)] + g[s \ {Picked(s)}]]

\* SumFunctionOnSet is defined by a recursive function on the subsets.
LEMMA SumByChoice ==
    ASSUME NEW f, NEW S
    PROVE  SumFunctionOnSet(f, S) = (CHOOSE g : IsSum(g, f, S))[S]
BY Zenon DEF SumFunctionOnSet, FoldFunctionOnSet, MapThenFoldSet, IsSum, Picked

\* Each value of such a function from smaller ones.
LEMMA SumUnfolds ==
    ASSUME NEW f, NEW S, NEW g, IsSum(g, f, S), NEW T \in SUBSET S
    PROVE  g[T] = IF T = {} THEN 0 ELSE f[Picked(T)] + g[T \ {Picked(T)}]
BY Zenon DEF IsSum

\* Two such functions agree on what both of them sum.
LEMMA SumsAgree ==
    ASSUME NEW f, NEW A, NEW B, NEW g, NEW h, IsSum(g, f, A), IsSum(h, f, B),
           NEW S \in SUBSET A, S \in SUBSET B, IsFiniteSet(S)
    PROVE  g[S] = h[S]
<1> DEFINE G == {T \in SUBSET S : g[T] = h[T]}
<1>1. ASSUME NEW T \in SUBSET S, \A U \in SUBSET T : U # T => U \in G
      PROVE  T \in G
    <2>1. CASE T = {}
        BY <2>1, SumUnfolds
    <2>2. CASE T # {}
        <3> DEFINE U == T \ {Picked(T)}
        <3>1. U \in SUBSET T /\ U # T
            BY <2>2, PickedIn
        <3>2. g[U] = h[U]
            BY <1>1, <3>1
        <3> QED BY <2>2, <3>2, SumUnfolds
    <2> QED BY <2>1, <2>2
<1>2. S \in G
    <2> HIDE DEF G
    <2> QED BY <1>1, SubsetsInduction
<1> QED BY <1>2

\* There is such a function for every finite set.
LEMMA SumExists ==
    ASSUME NEW f, NEW S, IsFiniteSet(S)
    PROVE  \E g : IsSum(g, f, S)
<1> DEFINE G == {T \in SUBSET S : \E g : IsSum(g, f, T)}
<1>1. ASSUME NEW T \in SUBSET S, \A U \in SUBSET T : U # T => U \in G
      PROVE  T \in G
    <2> DEFINE Chosen(U) == CHOOSE g : IsSum(g, f, U)
               Value(U) == IF U = {} THEN 0
                           ELSE f[Picked(U)] + Chosen(U \ {Picked(U)})[U \ {Picked(U)}]
               g == [U \in SUBSET T |-> Value(U)]
    <2>1. \A U \in SUBSET T : U # T => IsSum(Chosen(U), f, U)
        BY <1>1
    <2>2. \A U \in SUBSET T : IsFiniteSet(U)
        BY FS_Subset
    <2>3. ASSUME NEW U \in SUBSET T, U # T PROVE Chosen(U)[U] = Value(U)
        <3>1. CASE U = {}
            BY <2>1, <2>3, <3>1, SumUnfolds
        <3>2. CASE U # {}
            <4> DEFINE W == U \ {Picked(U)}
            <4>1. W \in SUBSET U /\ W # U /\ W \in SUBSET T /\ W # T
                BY <3>2, PickedIn
            <4>2. IsSum(Chosen(U), f, U) /\ IsSum(Chosen(W), f, W) /\ IsFiniteSet(W)
                BY <2>1, <2>2, <2>3, <4>1
            <4> HIDE DEF Chosen
            <4>3. Chosen(U)[W] = Chosen(W)[W]
                <5> HIDE DEF W
                <5> QED BY <4>1, <4>2, SumsAgree
            <4>4. Chosen(U)[U] = f[Picked(U)] + Chosen(U)[W]
                BY <3>2, <4>2, SumUnfolds
            <4> QED BY <3>2, <4>3, <4>4
        <3> QED BY <3>1, <3>2
    <2>4. IsSum(g, f, T)
        <3>1. ASSUME NEW U \in SUBSET T
              PROVE  g[U] = IF U = {} THEN 0 ELSE f[Picked(U)] + g[U \ {Picked(U)}]
            <4>1. CASE U = {}
                BY <4>1
            <4>2. CASE U # {}
                <5> DEFINE W == U \ {Picked(U)}
                <5>1. W \in SUBSET T /\ W # T
                    BY <4>2, PickedIn
                <5>2. g[W] = Chosen(W)[W]
                    <6> HIDE DEF Chosen, W
                    <6> QED BY <2>3, <5>1
                <5>3. g[U] = f[Picked(U)] + Chosen(W)[W]
                    <6> HIDE DEF Chosen
                    <6> QED BY <4>2
                <5> HIDE DEF Chosen, g, W
                <5> QED BY <4>2, <5>2, <5>3 DEF W
            <4> QED BY <4>1, <4>2
        <3>2. g = [U \in SUBSET T |-> g[U]]
            <4> HIDE DEF Value
            <4> QED OBVIOUS
        <3> HIDE DEF g
        <3> QED BY <3>1, <3>2, Zenon DEF IsSum
    <2> QED BY <2>4, Zenon
<1>2. S \in G
    <2> HIDE DEF G
    <2> QED BY <1>1, SubsetsInduction
<1> QED BY <1>2

\* The function that the definition of the sum chooses.
LEMMA SumIs ==
    ASSUME NEW f, NEW S, IsFiniteSet(S)
    PROVE  IsSum(CHOOSE g : IsSum(g, f, S), f, S)
BY SumExists, Zenon

\* What is to be known of a sum from its definition.
LEMMA SumOfNone == \A f : SumFunctionOnSet(f, {}) = 0
<1> TAKE f
<1> DEFINE g == CHOOSE g : IsSum(g, f, {})
<1>1. IsSum(g, f, {})
    BY SumIs, FS_EmptySet
<1>2. SumFunctionOnSet(f, {}) = g[{}]
    BY SumByChoice
<1> HIDE DEF g
<1> QED BY <1>1, <1>2, SumUnfolds

\* A sum takes the picked element first.
LEMMA SumPicks ==
    ASSUME NEW f, NEW S, IsFiniteSet(S), S # {}
    PROVE  SumFunctionOnSet(f, S) = f[Picked(S)] + SumFunctionOnSet(f, S \ {Picked(S)})
<1> DEFINE T == S \ {Picked(S)}
           g == CHOOSE k : IsSum(k, f, S)
           h == CHOOSE k : IsSum(k, f, T)
<1>1. T \in SUBSET S /\ T \in SUBSET T /\ IsFiniteSet(T)
    BY FS_Subset
<1>2. SumFunctionOnSet(f, S) = g[S] /\ SumFunctionOnSet(f, T) = h[T]
    BY SumByChoice
<1>3. IsSum(g, f, S) /\ IsSum(h, f, T)
    <2> HIDE DEF T
    <2> QED BY <1>1, SumIs
<1>4. g[S] = f[Picked(S)] + g[T]
    <2> HIDE DEF g
    <2> QED BY <1>3, SumUnfolds
<1>5. g[T] = h[T]
    <2> HIDE DEF g, h, T
    <2> QED BY <1>1, <1>3, SumsAgree
<1> HIDE DEF g, h
<1> QED BY <1>2, <1>4, <1>5

\* A finite sum of integers is an integer, and any element may come first.
LEMMA SumIsInt ==
    ASSUME NEW f, NEW S, IsFiniteSet(S), \A x \in S : f[x] \in Int
    PROVE  SumFunctionOnSet(f, S) \in Int
<1> DEFINE G == {T \in SUBSET S : SumFunctionOnSet(f, T) \in Int}
<1>1. ASSUME NEW T \in SUBSET S, \A U \in SUBSET T : U # T => U \in G
      PROVE  T \in G
    <2>1. CASE T = {}
        BY <2>1, SumOfNone
    <2>2. CASE T # {}
        <3> DEFINE U == T \ {Picked(T)}
        <3>1. U \in SUBSET T /\ U # T /\ Picked(T) \in S
            BY <2>2, PickedIn
        <3>2. SumFunctionOnSet(f, U) \in Int
            BY <1>1, <3>1
        <3>3. SumFunctionOnSet(f, T) = f[Picked(T)] + SumFunctionOnSet(f, U)
            BY <2>2, FS_Subset, SumPicks
        <3> HIDE DEF U
        <3> QED BY <3>1, <3>2, <3>3
    <2> QED BY <2>1, <2>2
<1>2. S \in G
    <2> HIDE DEF G
    <2> QED BY <1>1, SubsetsInduction
<1> QED BY <1>2

\* A sum may take any element first.
LEMMA SumTakes ==
    ASSUME NEW f, NEW S, IsFiniteSet(S), \A x \in S : f[x] \in Int, NEW a \in S
    PROVE  SumFunctionOnSet(f, S) = f[a] + SumFunctionOnSet(f, S \ {a})
<1> DEFINE Sum(T) == SumFunctionOnSet(f, T)
           G == {T \in SUBSET S : \A x \in T : Sum(T) = f[x] + Sum(T \ {x})}
<1>0. \A T \in SUBSET S : IsFiniteSet(T) /\ Sum(T) \in Int
    BY FS_Subset, SumIsInt
<1>a. \A T \in SUBSET S : T # {} => Sum(T) = f[Picked(T)] + Sum(T \ {Picked(T)})
    BY <1>0, SumPicks
<1> HIDE DEF Sum
<1>1. ASSUME NEW T \in SUBSET S, \A U \in SUBSET T : U # T => U \in G
      PROVE  T \in G
    <2>1. ASSUME NEW x \in T PROVE Sum(T) = f[x] + Sum(T \ {x})
        <3> DEFINE c == Picked(T)
        <3>1. c \in T
            BY PickedIn
        <3>2. Sum(T) = f[c] + Sum(T \ {c})
            BY <1>a
        <3>3. CASE x = c
            BY <3>2, <3>3
        <3>4. CASE x # c
            <4> HIDE DEF c
            <4>1. /\ T \ {c} \in SUBSET T /\ T \ {c} # T /\ x \in T \ {c}
                  /\ T \ {x} \in SUBSET T /\ T \ {x} # T /\ c \in T \ {x}
                BY <3>1, <3>4
            <4>2. Sum(T \ {c}) = f[x] + Sum((T \ {c}) \ {x})
                BY <1>1, <4>1
            <4>3. Sum(T \ {x}) = f[c] + Sum((T \ {x}) \ {c})
                BY <1>1, <4>1
            <4>4. (T \ {x}) \ {c} = (T \ {c}) \ {x} /\ (T \ {c}) \ {x} \in SUBSET S
                OBVIOUS
            <4>5. f[x] \in Int /\ f[c] \in Int /\ Sum((T \ {c}) \ {x}) \in Int
                BY <1>0, <3>1, <4>4
            <4>6. Sum(T) = f[c] + (f[x] + Sum((T \ {c}) \ {x}))
                BY <3>2, <4>2
            <4>7. Sum(T \ {x}) = f[c] + Sum((T \ {c}) \ {x})
                BY <4>3, <4>4
            <4> HIDE DEF Sum
            <4> QED BY <4>5, <4>6, <4>7
        <3> QED BY <3>3, <3>4
    <2> QED BY <2>1
<1>2. S \in G
    <2> HIDE DEF G
    <2> QED BY <1>1, SubsetsInduction
<1> QED BY <1>2 DEF Sum

\* Sums of values that are equal, or that add up, one by one.
LEMMA SumsAdd ==
    ASSUME NEW f, NEW g, NEW h, NEW S, IsFiniteSet(S),
           \A x \in S : f[x] \in Int /\ g[x] \in Int /\ h[x] = f[x] + g[x]
    PROVE  SumFunctionOnSet(h, S) = SumFunctionOnSet(f, S) + SumFunctionOnSet(g, S)
<1> DEFINE Adds(T) == SumFunctionOnSet(h, T) = SumFunctionOnSet(f, T) + SumFunctionOnSet(g, T)
           G == {T \in SUBSET S : Adds(T)}
<1>1. ASSUME NEW T \in SUBSET S, \A U \in SUBSET T : U # T => U \in G
      PROVE  T \in G
    <2>1. CASE T = {}
        BY <2>1, SumOfNone
    <2>2. CASE T # {}
        <3> DEFINE c == Picked(T)
                   U == T \ {c}
        <3>1. U \in SUBSET T /\ U # T /\ c \in S /\ IsFiniteSet(T) /\ IsFiniteSet(U) /\ U \in SUBSET S
            BY <2>2, PickedIn, FS_Subset
        <3>2. Adds(U)
            BY <1>1, <3>1
        <3>3. /\ SumFunctionOnSet(f, T) = f[c] + SumFunctionOnSet(f, U)
              /\ SumFunctionOnSet(g, T) = g[c] + SumFunctionOnSet(g, U)
              /\ SumFunctionOnSet(h, T) = h[c] + SumFunctionOnSet(h, U)
            BY <2>2, <3>1, SumPicks
        <3> HIDE DEF c, U
        <3>4. SumFunctionOnSet(f, U) \in Int /\ SumFunctionOnSet(g, U) \in Int
            BY <3>1, SumIsInt
        <3>5. f[c] \in Int /\ g[c] \in Int /\ h[c] = f[c] + g[c]
            BY <3>1
        <3> QED BY <3>2, <3>3, <3>4, <3>5
    <2> QED BY <2>1, <2>2
<1>2. S \in G
    <2> HIDE DEF G
    <2> QED BY <1>1, SubsetsInduction
<1> QED BY <1>2

\* Sums of values that are equal one by one.
LEMMA SumsSame ==
    ASSUME NEW f, NEW g, NEW S, IsFiniteSet(S), \A x \in S : f[x] = g[x]
    PROVE  SumFunctionOnSet(f, S) = SumFunctionOnSet(g, S)
<1> DEFINE Same(T) == SumFunctionOnSet(f, T) = SumFunctionOnSet(g, T)
           G == {T \in SUBSET S : Same(T)}
<1>1. ASSUME NEW T \in SUBSET S, \A U \in SUBSET T : U # T => U \in G
      PROVE  T \in G
    <2>1. CASE T = {}
        BY <2>1, SumOfNone
    <2>2. CASE T # {}
        <3> DEFINE c == Picked(T)
                   U == T \ {c}
        <3>1. U \in SUBSET T /\ U # T /\ c \in S /\ IsFiniteSet(T)
            BY <2>2, PickedIn, FS_Subset
        <3>2. Same(U) /\ f[c] = g[c]
            BY <1>1, <3>1
        <3>3. /\ SumFunctionOnSet(f, T) = f[c] + SumFunctionOnSet(f, U)
              /\ SumFunctionOnSet(g, T) = g[c] + SumFunctionOnSet(g, U)
            BY <2>2, <3>1, SumPicks
        <3> HIDE DEF c, U
        <3> QED BY <3>2, <3>3
    <2> QED BY <2>1, <2>2
<1>2. S \in G
    <2> HIDE DEF G
    <2> QED BY <1>1, SubsetsInduction
<1> QED BY <1>2

\* A sum of zeroes.
LEMMA SumOfZeroes ==
    ASSUME NEW f, NEW S, IsFiniteSet(S), \A x \in S : f[x] = 0
    PROVE  SumFunctionOnSet(f, S) = 0
<1>1. \A x \in S : f[x] \in Int /\ f[x] = f[x] + f[x]
    OBVIOUS
<1>2. SumFunctionOnSet(f, S) = SumFunctionOnSet(f, S) + SumFunctionOnSet(f, S)
    BY <1>1, SumsAdd
<1>3. SumFunctionOnSet(f, S) \in Int
    BY <1>1, SumIsInt
<1>4. \A k \in Int : k = k + k => k = 0
    OBVIOUS
<1> QED BY <1>2, <1>3, <1>4, Zenon

\* If nothing is negative a sum is at least each of its values.
LEMMA SumBounds ==
    ASSUME NEW f, NEW S, IsFiniteSet(S), \A x \in S : f[x] \in Nat
    PROVE  /\ SumFunctionOnSet(f, S) \in Nat
           /\ \A x \in S : f[x] <= SumFunctionOnSet(f, S)
<1> DEFINE Large(T) == SumFunctionOnSet(f, T) \in Nat
           G == {T \in SUBSET S : Large(T)}
<1>1. ASSUME NEW T \in SUBSET S, \A U \in SUBSET T : U # T => U \in G
      PROVE  T \in G
    <2>1. CASE T = {}
        BY <2>1, SumOfNone
    <2>2. CASE T # {}
        <3> DEFINE c == Picked(T)
                   U == T \ {c}
        <3>1. U \in SUBSET T /\ U # T /\ c \in S /\ IsFiniteSet(T)
            BY <2>2, PickedIn, FS_Subset
        <3>2. Large(U) /\ f[c] \in Nat
            BY <1>1, <3>1
        <3>3. SumFunctionOnSet(f, T) = f[c] + SumFunctionOnSet(f, U)
            BY <2>2, <3>1, SumPicks
        <3> HIDE DEF c, U
        <3> QED BY <3>2, <3>3
    <2> QED BY <2>1, <2>2
<1>2. \A T \in SUBSET S : SumFunctionOnSet(f, T) \in Nat
    <2> SUFFICES ASSUME NEW R \in SUBSET S PROVE R \in G
        OBVIOUS
    <2>1. IsFiniteSet(R)
        BY FS_Subset
    <2>2. \A T \in SUBSET R : (\A U \in SUBSET T : U # T => U \in G) => T \in G
        BY <1>1
    <2> HIDE DEF G
    <2> QED BY <2>1, <2>2, SubsetsInduction
<1>3. ASSUME NEW x \in S PROVE f[x] <= SumFunctionOnSet(f, S)
    <2>1. SumFunctionOnSet(f, S) = f[x] + SumFunctionOnSet(f, S \ {x})
        BY SumTakes
    <2>2. SumFunctionOnSet(f, S \ {x}) \in Nat /\ f[x] \in Nat
        BY <1>2
    <2> QED BY <2>1, <2>2
<1> QED BY <1>2, <1>3

\* A table by its rows and its columns, each with its sums.
Table(A, B, row, col, f, g) ==
    /\ \A a \in A, b \in B : row[a][b] \in Int /\ col[b][a] = row[a][b]
    /\ \A a \in A : f[a] = SumFunctionOnSet(row[a], B)
    /\ \A b \in B : g[b] = SumFunctionOnSet(col[b], A)

\* Sums over rows, or over columns, of a table.
LEMMA SumsSwap ==
    ASSUME NEW A, IsFiniteSet(A), NEW B, IsFiniteSet(B), NEW row, NEW col, NEW f, NEW g,
           Table(A, B, row, col, f, g)
    PROVE  SumFunctionOnSet(f, A) = SumFunctionOnSet(g, B)
<1>a. \A a \in A, b \in B : row[a][b] \in Int /\ col[b][a] = row[a][b]
    BY Zenon DEF Table
<1>b. \A a \in A : f[a] = SumFunctionOnSet(row[a], B)
    BY Zenon DEF Table
<1>c. \A b \in B : g[b] = SumFunctionOnSet(col[b], A)
    BY Zenon DEF Table
<1> DEFINE Part(T) == [b \in B |-> SumFunctionOnSet(col[b], T)]
           Swaps(T) == SumFunctionOnSet(f, T) = SumFunctionOnSet(Part(T), B)
           G == {T \in SUBSET A : Swaps(T)}
<1>1. ASSUME NEW T \in SUBSET A, \A U \in SUBSET T : U # T => U \in G
      PROVE  T \in G
    <2>1. CASE T = {}
        <3>1. \A b \in B : Part(T)[b] = 0
            BY <2>1, SumOfNone
        <3> HIDE DEF Part
        <3> QED BY <2>1, <3>1, SumOfZeroes, SumOfNone
    <2>2. CASE T # {}
        <3> DEFINE c == Picked(T)
                   U == T \ {c}
        <3>1. U \in SUBSET T /\ U # T /\ c \in A /\ IsFiniteSet(T) /\ IsFiniteSet(U) /\ U \in SUBSET A
            BY <2>2, PickedIn, FS_Subset
        <3>2. Swaps(U)
            BY <1>1, <3>1
        <3>3. SumFunctionOnSet(f, T) = f[c] + SumFunctionOnSet(f, U)
            BY <2>2, <3>1, SumPicks
        <3>4. \A b \in B : SumFunctionOnSet(col[b], T) = col[b][c] + SumFunctionOnSet(col[b], U)
            BY <2>2, <3>1, SumPicks
        <3> HIDE DEF c, U
        <3>5. \A b \in B : SumFunctionOnSet(col[b], U) \in Int
            <4> TAKE b \in B
            <4>1. \A a \in U : col[b][a] \in Int
                BY <1>a, <3>1
            <4> QED BY <3>1, <4>1, SumIsInt
        <3>6. \A b \in B : /\ row[c][b] \in Int /\ Part(U)[b] \in Int
                           /\ Part(T)[b] = row[c][b] + Part(U)[b]
            BY <1>a, <3>1, <3>4, <3>5
        <3> HIDE DEF Part
        <3>7. SumFunctionOnSet(Part(T), B) = SumFunctionOnSet(row[c], B) + SumFunctionOnSet(Part(U), B)
            BY <3>6, SumsAdd
        <3>8. f[c] = SumFunctionOnSet(row[c], B)
            BY <1>b, <3>1
        <3> QED BY <3>2, <3>3, <3>7, <3>8
    <2> QED BY <2>1, <2>2
<1>2. A \in G
    <2> HIDE DEF G
    <2> QED BY <1>1, SubsetsInduction
<1>3. \A b \in B : Part(A)[b] = g[b]
    BY <1>c
<1>4. Swaps(A)
    BY <1>2
<1> HIDE DEF Part
<1> QED BY <1>3, <1>4, SumsSame

----------------------------------------------------------------------------
\* TypeOK with one set for all bills, and the amounts of a bill apart from it.
AmountsOf(people) == [people -> Nat]

Bills == [live : {TRUE}, total : Totals, people : SUBSET Users, collector : Users,
          share : UNION {AmountsOf(p) : p \in SUBSET Users},
          paid : UNION {AmountsOf(p) : p \in SUBSET Users}, locked : BOOLEAN]

Types ==
    /\ {open, active} \subseteq BOOLEAN
    /\ members \subseteq Users /\ Captain \in members
    /\ expense \in [Expenses -> Bills \cup {NoExpense}]
    /\ \A e \in Live : /\ expense[e].share \in AmountsOf(expense[e].people)
                      /\ expense[e].paid \in AmountsOf(expense[e].people)
    /\ settled \in 0 .. MaxSettlements
    /\ transfers \subseteq Transfers
    /\ sent \subseteq transfers
    /\ confirmed \subseteq sent
    /\ ledger \subseteq [transfer : transfers, received : BOOLEAN]

\* A transfer belongs to a settlement that exists.
TransfersDated == \A t \in transfers : t.settlement <= settled

Inv ==
    /\ Types
    /\ TransfersDated
    /\ LockedWhileFinal
    /\ CollectorParticipates
    /\ PlanCurrent
    /\ LedgerComplete

\* The part of Types about the expenses.
ExpensesOK ==
    /\ expense \in [Expenses -> Bills \cup {NoExpense}]
    /\ \A e \in Live : /\ expense[e].share \in AmountsOf(expense[e].people)
                       /\ expense[e].paid \in AmountsOf(expense[e].people)

----------------------------------------------------------------------------
(* Lemmas *)

\* The initial state satisfies the invariant.
LEMMA InitInv == Init => Inv
<1> SUFFICES ASSUME Init PROVE Inv
    OBVIOUS
<1> USE DEF Init
<1>1. Live = {}
    BY DEF Live, NoExpense
<1>2. Types
    <2>1. expense \in [Expenses -> Bills \cup {NoExpense}]
        OBVIOUS
    <2>2. members \subseteq Users /\ Captain \in members
        BY UsersAssumption
    <2>3. settled \in 0 .. MaxSettlements
        BY BoundAssumption
    <2> QED
        BY <1>1, <2>1, <2>2, <2>3 DEF Types
<1>3. TransfersDated /\ PlanCurrent /\ LockedWhileFinal /\ CollectorParticipates
    BY <1>1 DEF TransfersDated, PlanCurrent, LockedWhileFinal, CollectorParticipates
<1>4. LedgerComplete
    BY DEF LedgerComplete, InForce
<1> QED
    BY <1>2, <1>3, <1>4 DEF Inv

\* A live expense is a bill.
LEMMA LiveBill == ASSUME ExpensesOK, NEW e \in Live
                  PROVE  e \in Expenses /\ expense[e] \in Bills
<1>1. e \in Expenses /\ expense[e].live
    BY DEF Live
<1>2. expense[e] # NoExpense
    BY <1>1 DEF NoExpense
<1> QED
    BY <1>1, <1>2 DEF ExpensesOK

\* A bill as one set of records, its amounts any partial functions.
Amts == UNION {AmountsOf(p) : p \in SUBSET Users}

\* Bills written with one set of amounts.
LEMMA BillFields ==
    Bills = [live : {TRUE}, total : Totals, people : SUBSET Users, collector : Users,
             share : Amts, paid : Amts, locked : BOOLEAN]
    BY DEF Bills, Amts

\* A bill with its amounts over its own participants.
LEMMA OwnBill ==
    ASSUME NEW x \in Bills, x.share \in [x.people -> Nat], x.paid \in [x.people -> Nat]
    PROVE  x \in BillOf(x.people)
<1>1. x \in [live : {TRUE}, total : Totals, people : SUBSET Users, collector : Users,
              share : Amts, paid : Amts, locked : BOOLEAN]
    BY BillFields
<1> QED
    BY <1>1 DEF BillOf

\* A lock is all that changes when a bill is locked or unlocked.
LEMMA LockedBill ==
    ASSUME NEW x \in Bills, NEW b \in BOOLEAN, NEW y, y = [x EXCEPT !.locked = b]
    PROVE  /\ y \in Bills /\ y.live /\ y.locked = b
           /\ y.total = x.total /\ y.people = x.people /\ y.share = x.share
           /\ y.paid = x.paid /\ y.collector = x.collector
<1>1. x \in [live : {TRUE}, total : Totals, people : SUBSET Users, collector : Users,
              share : Amts, paid : Amts, locked : BOOLEAN]
    BY BillFields
<1>2. y \in [live : {TRUE}, total : Totals, people : SUBSET Users, collector : Users,
              share : Amts, paid : Amts, locked : BOOLEAN]
    BY <1>1
<1>3. /\ y.live /\ y.locked = b
      /\ y.total = x.total /\ y.people = x.people /\ y.share = x.share
      /\ y.paid = x.paid /\ y.collector = x.collector
    BY <1>1
<1> QED
    BY <1>2, <1>3, BillFields

\* A contribution changes nothing but what was paid.
LEMMA PaidBill ==
    ASSUME NEW b \in Bills, b.people \subseteq Users, NEW paid \in AmountsOf(b.people), NEW x,
           x = [b EXCEPT !.paid = paid]
    PROVE  /\ x \in Bills
           /\ x.share = b.share /\ x.paid = paid /\ x.people = b.people
           /\ x.collector = b.collector /\ x.locked = b.locked
<1>1. b \in [live : {TRUE}, total : Totals, people : SUBSET Users, collector : Users,
              share : Amts, paid : Amts, locked : BOOLEAN]
    BY BillFields
<1>2. paid \in Amts
    BY DEF Amts
<1>3. x \in [live : {TRUE}, total : Totals, people : SUBSET Users, collector : Users,
              share : Amts, paid : Amts, locked : BOOLEAN]
    BY <1>1, <1>2
<1>4. /\ x.share = b.share /\ x.paid = paid /\ x.people = b.people
      /\ x.collector = b.collector /\ x.locked = b.locked
    BY <1>1
<1> QED
    BY <1>3, <1>4, BillFields

\* Locking changes no amount, so the balances stay as they are.
LEMMA LockKeepsBalances ==
    ASSUME ExpensesOK, NEW b \in BOOLEAN, expense' = Lock(b)
    PROVE  /\ Live' = Live
           /\ Balances' = Balances
           /\ \A e \in Live : expense'[e] = [expense[e] EXCEPT !.locked = b]
           /\ ExpensesOK'
<1>1. \A e \in Expenses \ Live : expense'[e] = expense[e]
    BY DEF Lock, Live
<1>2. \A e \in Live : expense'[e] = [expense[e] EXCEPT !.locked = b]
    BY DEF Lock, Live
<1>3. ASSUME NEW e \in Live
      PROVE  /\ expense'[e] \in Bills
             /\ expense'[e].total = expense[e].total
             /\ expense'[e].people = expense[e].people
             /\ expense'[e].share = expense[e].share
             /\ expense'[e].paid = expense[e].paid
             /\ expense'[e].collector = expense[e].collector
    <2>1. expense[e] \in Bills
        BY LiveBill
    <2> DEFINE x == expense[e]
                y == expense'[e]
    <2>2. x \in Bills /\ y = [x EXCEPT !.locked = b]
        BY <1>2, <2>1
    <2> HIDE DEF x, y
    <2>3. /\ y \in Bills /\ y.live /\ y.total = x.total /\ y.people = x.people
          /\ y.share = x.share /\ y.paid = x.paid /\ y.collector = x.collector
        BY <2>2, LockedBill
    <2> QED
        BY <2>3 DEF x, y
<1>4. Live' = Live
    BY <1>1, <1>3 DEF Live, Bills
<1>5. ASSUME NEW e \in Live, NEW u \in Users
      PROVE  Net(e, u)' = Net(e, u)
    BY <1>3 DEF Net, Surplus, Paid
<1>6. Balances' = Balances
    <2>1. ASSUME NEW u \in Users
          PROVE  [e \in Live' |-> Net(e, u)'] = [e \in Live |-> Net(e, u)]
        BY <1>4, <1>5
    <2> QED
        BY <2>1 DEF Balances
<1>7. ExpensesOK'
    <2>1. expense' \in [Expenses -> Bills \cup {NoExpense}]
        BY <1>1, <1>3 DEF ExpensesOK, Lock
    <2> QED
        BY <2>1, <1>3, <1>4 DEF ExpensesOK
<1> QED
    BY <1>2, <1>4, <1>6, <1>7

\* Where expenses, settlement and transfers stay as they are, so does what is
\* in force and its plan.
LEMMA SameBook ==
    ASSUME UNCHANGED <<expense, active, settled, transfers>>
    PROVE  Live' = Live /\ Balances' = Balances /\ InForce' = InForce
    BY DEF Live, Balances, Net, Surplus, Paid, InForce
----------------------------------------------------------------------------
(* One lemma per group of actions *)

\* Members come and go without touching money.
LEMMA MembershipInv == ASSUME Inv, Membership PROVE Inv'
<1>1. /\ UNCHANGED <<expense, active, settled, transfers, sent, confirmed, ledger>>
      /\ members' \subseteq Users /\ Captain \in members' /\ open' \in BOOLEAN
    BY UsersAssumption DEF Inv, Types, Membership, Join, Leave, Close, marks
<1>2. Live' = Live /\ Balances' = Balances /\ InForce' = InForce
    BY <1>1, SameBook
<1>3. Types'
    BY <1>1, <1>2 DEF Inv, Types
<1>4. TransfersDated' /\ LockedWhileFinal' /\ CollectorParticipates'
    BY <1>1, <1>2 DEF Inv, TransfersDated, LockedWhileFinal, CollectorParticipates
<1>5. PlanCurrent' /\ LedgerComplete'
    BY <1>1, <1>2 DEF Inv, PlanCurrent, LedgerComplete
<1> QED
    BY <1>3, <1>4, <1>5 DEF Inv

\* A change of one expense preserves the invariant if no settlement is in force
\* and the expense, if it is live, is unlocked and held by a participant.
LEMMA OneExpenseInv ==
    ASSUME Inv, ~active, NEW e \in Expenses, NEW x,
           expense' = [expense EXCEPT ![e] = x],
           UNCHANGED <<open, members, active, settled, transfers, sent, confirmed, ledger>>,
           x = NoExpense \/ (/\ x \in Bills
                            /\ x.share \in AmountsOf(x.people) /\ x.paid \in AmountsOf(x.people)
                            /\ ~x.locked /\ x.collector \in x.people)
    PROVE  Inv'
<1>1. expense' \in [Expenses -> Bills \cup {NoExpense}]
    BY DEF Inv, Types
<1>2. ~NoExpense.live
    BY DEF NoExpense
<1>3. \A f \in Live' : f = e \/ (f # e /\ f \in Live /\ expense'[f] = expense[f])
    BY DEF Live, Inv, Types
<1>4. e \in Live' => x # NoExpense /\ expense'[e] = x
    BY <1>2 DEF Live, Inv, Types
<1>5. InForce' = InForce /\ InForce = {}
    BY DEF InForce
<1>6. Types'
    BY <1>1, <1>3, <1>4 DEF Inv, Types
<1>7. LockedWhileFinal' /\ CollectorParticipates'
    BY <1>3, <1>4 DEF Inv, LockedWhileFinal, CollectorParticipates
<1>8. TransfersDated' /\ PlanCurrent' /\ LedgerComplete'
    BY <1>5 DEF Inv, TransfersDated, PlanCurrent, LedgerComplete
<1> QED
    BY <1>6, <1>7, <1>8 DEF Inv

\* The actions of the captain on one expense: with a settlement in force none of
\* them is allowed.
LEMMA BookInv == ASSUME Inv, Book PROVE Inv'
<1>1. PICK e \in Expenses :
          \/ \E price \in Totals, u \in Users : CreateExpense(e, price, u) \/ UpdateExpense(e, price, u)
          \/ DeleteExpense(e)
          \/ \E u \in Users, amount \in Amounts : SetContribution(e, u, amount)
    BY DEF Book
<1>2. Editable(e) => e \in Live /\ ~active
    BY DEF Editable, Live, Inv, LockedWhileFinal
<1>3. ASSUME NEW price \in Totals, NEW u \in Users, CreateExpense(e, price, u)
      PROVE  Inv'
    <2> DEFINE x == NewExpense(price, u)
    <2>1. members \in (SUBSET Users) \ {{}}
        BY DEF Inv, Types
    <2>2. Split(price, members) \in AmountsOf(members)
        BY <2>1, SplitAssumption DEF AmountsOf
    <2>3. [v \in members |-> 0] \in AmountsOf(members)
        BY DEF AmountsOf
    <2>4. u \in members
        BY <1>3 DEF CreateExpense
    <2>5. /\ x.share \in AmountsOf(x.people) /\ x.paid \in AmountsOf(x.people)
          /\ ~x.locked /\ x.collector \in x.people
        BY <2>2, <2>3, <2>4 DEF NewExpense
    <2>6. x \in Bills
        BY <2>1, <2>2, <2>3 DEF NewExpense, Bills
    <2> QED
        BY <1>3, <2>5, <2>6, OneExpenseInv DEF CreateExpense, trip, marks
<1>4. ASSUME NEW price \in Totals, NEW u \in Users, UpdateExpense(e, price, u)
      PROVE  Inv'
    <2> DEFINE b == expense[e]
               share == IF price = b.total THEN b.share ELSE Split(price, b.people)
               x == [b EXCEPT !.share = share, !.total = price, !.collector = u]
    <2>1. e \in Live /\ ~active /\ MayCollect(u, e)
        BY <1>2, <1>4 DEF UpdateExpense
    <2>2. b \in Bills
        BY <2>1, LiveBill DEF Inv, Types, ExpensesOK
    <2>3. ~b.locked /\ u \in b.people /\ b.people \subseteq Users
        BY <2>1, <2>2 DEF Inv, LockedWhileFinal, CollectorParticipates, MayCollect, Bills
    <2>4. share \in AmountsOf(b.people) /\ b.paid \in AmountsOf(b.people)
        BY <2>1, <2>3, SplitAssumption DEF AmountsOf, Inv, Types
    <2>5. expense' = [expense EXCEPT ![e] = x]
        BY <1>4 DEF UpdateExpense
    <2> HIDE DEF b, share
    <2>6. b \in [live : {TRUE}, total : Totals, people : SUBSET Users, collector : Users,
                  share : Amts, paid : Amts, locked : BOOLEAN] /\ share \in Amts
        BY <2>2, <2>3, <2>4, BillFields DEF Amts
    <2>7. x \in [live : {TRUE}, total : Totals, people : SUBSET Users, collector : Users,
                  share : Amts, paid : Amts, locked : BOOLEAN]
        BY <2>6
    <2>8. /\ x.share = share /\ x.paid = b.paid /\ x.people = b.people
          /\ x.collector = u /\ x.locked = b.locked
        BY <2>6
    <2>9. x \in Bills
        BY <2>7, BillFields
    <2> HIDE DEF x
    <2>10. UNCHANGED <<open, members, active, settled, transfers, sent, confirmed, ledger>>
        BY <1>4 DEF UpdateExpense, trip, marks
    <2> QED
        BY <2>1, <2>3, <2>4, <2>5, <2>8, <2>9, <2>10, OneExpenseInv
<1>5. CASE DeleteExpense(e)
    BY <1>5, <1>2, OneExpenseInv DEF DeleteExpense, trip, marks
<1>6. ASSUME NEW u \in Users, NEW amount \in Amounts, SetContribution(e, u, amount)
      PROVE  Inv'
    <2> DEFINE b == expense[e]
               paid == [b.paid EXCEPT ![u] = amount]
               x == [b EXCEPT !.paid = paid]
    <2>1. e \in Live /\ ~active /\ u \in b.people
        BY <1>2, <1>6 DEF SetContribution
    <2>2. b \in Bills
        BY <2>1, LiveBill DEF Inv, Types, ExpensesOK
    <2>3. ~b.locked /\ b.collector \in b.people /\ b.people \subseteq Users
        BY <2>1, <2>2 DEF Inv, LockedWhileFinal, CollectorParticipates, Bills
    <2>4. b.share \in AmountsOf(b.people) /\ paid \in AmountsOf(b.people)
        BY <2>1, AmountsAssumption DEF AmountsOf, Inv, Types
    <2>5. expense' = [expense EXCEPT ![e] = x]
        BY <1>6 DEF SetContribution
    <2> HIDE DEF b, paid
    <2>6. /\ x \in Bills
          /\ x.share = b.share /\ x.paid = paid /\ x.people = b.people
          /\ x.collector = b.collector /\ x.locked = b.locked
        BY <2>2, <2>3, <2>4, PaidBill
    <2> HIDE DEF x
    <2>7. UNCHANGED <<open, members, active, settled, transfers, sent, confirmed, ledger>>
        BY <1>6 DEF SetContribution, trip, marks
    <2> QED
        BY <2>1, <2>3, <2>4, <2>5, <2>6, <2>7, OneExpenseInv
<1> QED
    BY <1>1, <1>3, <1>4, <1>5, <1>6

\* A settlement is finalized: its transfers are new, and all in force.
LEMMA FinalizeInv == ASSUME Inv, Finalize PROVE Inv'
<1>1. ExpensesOK /\ expense' = Lock(TRUE)
    BY DEF Inv, Types, ExpensesOK, Finalize
<1>2. /\ Live' = Live /\ Balances' = Balances /\ ExpensesOK'
      /\ \A e \in Live : expense'[e] = [expense[e] EXCEPT !.locked = TRUE]
    BY <1>1, LockKeepsBalances
<1>3. \A e \in Live : expense[e] \in Bills
    BY <1>1, LiveBill
<1>4. \A e \in Live : expense'[e].locked /\ expense'[e].collector = expense[e].collector
                       /\ expense'[e].people = expense[e].people
    BY <1>2, <1>3, LockedBill
<1>5. /\ settled \in Nat /\ settled' = settled + 1 /\ settled' \in 1 .. MaxSettlements
      /\ active' = TRUE
    BY BoundAssumption DEF Inv, Types, Finalize
<1> DEFINE new == Issue(settled + 1, Plan(Balances))
<1>6. transfers' = transfers \cup new /\ Plan(Balances) \subseteq Payments
    BY DEF Finalize
<1>7. new \subseteq Transfers /\ \A t \in new : t.settlement = settled + 1
    BY <1>5, <1>6 DEF Issue, Transfers
<1>8. \A t \in transfers : t.settlement \in Nat /\ t.settlement <= settled
    BY DEF Inv, Types, TransfersDated, Transfers
<1>9. InForce' = new
    <2> HIDE DEF new
    <2> QED BY <1>5, <1>6, <1>7, <1>8 DEF InForce
<1>10. UNCHANGED <<open, members, sent, confirmed, ledger>>
    BY DEF Finalize, trip, marks
<1>11. Types'
    <2> HIDE DEF new
    <2>1. transfers' \subseteq Transfers
        BY <1>6, <1>7 DEF Inv, Types
    <2>2. sent' \subseteq transfers' /\ confirmed' \subseteq sent'
        BY <1>6, <1>10 DEF Inv, Types
    <2>3. ledger' \subseteq [transfer : transfers', received : BOOLEAN]
        BY <1>6, <1>10 DEF Inv, Types
    <2>4. settled' \in 0 .. MaxSettlements
        BY <1>5
    <2>5. members' \subseteq Users /\ Captain \in members' /\ {open, active}' \subseteq BOOLEAN
        BY <1>5, <1>10 DEF Inv, Types
    <2> QED
        BY <1>2, <2>1, <2>2, <2>3, <2>4, <2>5 DEF Types, ExpensesOK
<1>12. TransfersDated'
    <2> HIDE DEF new
    <2> QED BY <1>5, <1>6, <1>7, <1>8 DEF TransfersDated
<1>13. LockedWhileFinal' /\ CollectorParticipates'
    BY <1>2, <1>4, <1>5 DEF Inv, LockedWhileFinal, CollectorParticipates
<1>14. PlanCurrent'
    BY <1>2, <1>5, <1>9 DEF PlanCurrent
<1>15. LedgerComplete'
    <2>1. InForce = {}
        BY DEF InForce, Finalize
    <2>2. sent \cap new = {}
        <3> HIDE DEF new
        <3> QED BY <1>5, <1>7, <1>8 DEF Inv, Types
    <2> HIDE DEF new
    <2> QED BY <1>9, <1>10, <2>1, <2>2 DEF Inv, LedgerComplete
<1> QED
    BY <1>11, <1>12, <1>13, <1>14, <1>15 DEF Inv

\* A settlement is reopened: the ledger takes what was marked in it.
LEMMA ReopenInv == ASSUME Inv, Reopen PROVE Inv'
<1>1. ExpensesOK /\ expense' = Lock(FALSE)
    BY DEF Inv, Types, ExpensesOK, Reopen
<1>2. /\ Live' = Live /\ ExpensesOK'
      /\ \A e \in Live : expense'[e] = [expense[e] EXCEPT !.locked = FALSE]
    BY <1>1, LockKeepsBalances
<1>3. \A e \in Live : expense[e] \in Bills
    BY <1>1, LiveBill
<1>4. \A e \in Live : /\ ~expense'[e].locked
                       /\ expense'[e].collector = expense[e].collector
                       /\ expense'[e].people = expense[e].people
    BY <1>2, <1>3, LockedBill
<1>5. UNCHANGED <<open, members, settled, transfers, sent, confirmed>> /\ active' = FALSE
    BY DEF Reopen, trip, marks
<1>6. InForce' = {} /\ InForce \subseteq transfers
    BY <1>5 DEF InForce
<1> DEFINE Entry(t) == [transfer |-> t, received |-> t \in confirmed]
<1>7. ledger' = ledger \cup {Entry(t) : t \in InForce \cap sent}
    BY DEF Reopen
<1>8. ledger = {Entry(t) : t \in sent \ InForce}
    BY DEF Inv, LedgerComplete
<1>9. ledger' = {Entry(t) : t \in sent}
    <2> HIDE DEF Entry
    <2> QED BY <1>7, <1>8
<1>10. LedgerComplete'
    BY <1>5, <1>6, <1>9 DEF LedgerComplete
<1>11. Types'
    <2>1. \A t \in sent : Entry(t) \in [transfer : transfers, received : BOOLEAN]
        BY DEF Inv, Types
    <2>2. ledger' \subseteq [transfer : transfers', received : BOOLEAN]
        <3> HIDE DEF Entry
        <3> QED BY <1>5, <1>9, <2>1
    <2> QED
        BY <1>2, <1>5, <2>2 DEF Inv, Types, ExpensesOK
<1>12. LockedWhileFinal' /\ CollectorParticipates'
    BY <1>2, <1>4, <1>5 DEF Inv, LockedWhileFinal, CollectorParticipates
<1>13. TransfersDated' /\ PlanCurrent'
    BY <1>5 DEF Inv, TransfersDated, PlanCurrent
<1> QED
    BY <1>10, <1>11, <1>12, <1>13 DEF Inv

\* A party marks a transfer: it is in force, so the ledger does not yet speak of it.
LEMMA MarkInv ==
    ASSUME Inv, NEW t \in transfers, MarkSent(t) \/ ConfirmReceived(t)
    PROVE  Inv'
<1>1. /\ UNCHANGED <<open, members, expense, active, settled, transfers, ledger>>
      /\ t \in InForce
      /\ sent' \subseteq sent \cup {t} /\ sent \subseteq sent'
      /\ confirmed' \subseteq confirmed \cup {t} /\ confirmed \subseteq confirmed'
      /\ confirmed' \subseteq sent'
    BY DEF Inv, Types, MarkSent, ConfirmReceived, trip
<1>2. Live' = Live /\ Balances' = Balances /\ InForce' = InForce
    BY <1>1, SameBook
<1>3. Types'
    BY <1>1, <1>2 DEF Inv, Types
<1>4. sent' \ InForce' = sent \ InForce
    BY <1>1, <1>2
<1>5. \A s \in sent \ InForce : (s \in confirmed') = (s \in confirmed)
    BY <1>1
<1>6. LedgerComplete'
    BY <1>1, <1>4, <1>5 DEF Inv, LedgerComplete
<1>7. /\ TransfersDated' /\ PlanCurrent'
      /\ LockedWhileFinal' /\ CollectorParticipates'
    BY <1>1, <1>2 DEF Inv, TransfersDated, PlanCurrent, LockedWhileFinal, CollectorParticipates
<1> QED
    BY <1>3, <1>6, <1>7 DEF Inv

----------------------------------------------------------------------------
(* Theorems *)

\* The inductive invariant holds of every behaviour.
THEOREM Invariance == Spec => []Inv
<1>1. Inv /\ [Next]_vars => Inv'
    <2> SUFFICES ASSUME Inv, [Next]_vars PROVE Inv'
        OBVIOUS
    <2>1. CASE Membership
        BY <2>1, MembershipInv
    <2>2. CASE Book
        BY <2>2, BookInv
    <2>3. CASE Settle
        BY <2>3, FinalizeInv, ReopenInv, MarkInv DEF Settle
    <2>4. CASE UNCHANGED vars
        <3>1. Live' = Live /\ Balances' = Balances /\ InForce' = InForce
            BY <2>4, SameBook DEF vars
        <3>2. Types'
            BY <2>4, <3>1 DEF Inv, Types, vars
        <3>3. TransfersDated' /\ LockedWhileFinal' /\ CollectorParticipates'
            BY <2>4, <3>1 DEF Inv, TransfersDated, LockedWhileFinal, CollectorParticipates, vars
        <3>4. PlanCurrent' /\ LedgerComplete'
            BY <2>4, <3>1 DEF Inv, PlanCurrent, LedgerComplete, vars
        <3> QED
            BY <3>2, <3>3, <3>4 DEF Inv
    <2> QED
        BY <2>1, <2>2, <2>3, <2>4 DEF Next
<1> QED
    BY <1>1, InitInv, PTL DEF Spec

\* The tables keep their shape, and nothing is confirmed that was not sent.
THEOREM TypeCorrect == Spec => []TypeOK
<1>1. Inv => TypeOK
    <2> SUFFICES ASSUME Inv PROVE TypeOK
        OBVIOUS
    <2>1. ASSUME NEW e \in Expenses, expense[e] # NoExpense
          PROVE  \E people \in SUBSET Users : expense[e] \in BillOf(people)
        <3>1. expense[e] \in Bills
            BY <2>1 DEF Inv, Types
        <3>2. e \in Live /\ expense[e].people \in SUBSET Users
            BY <3>1 DEF Live, Bills
        <3>3. expense[e].share \in AmountsOf(expense[e].people)
              /\ expense[e].paid \in AmountsOf(expense[e].people)
            BY <3>2 DEF Inv, Types
        <3>4. expense[e] \in BillOf(expense[e].people)
            BY <3>1, <3>3, OwnBill DEF AmountsOf
        <3> QED
            BY <3>2, <3>4
    <2> QED
        BY <2>1 DEF Inv, Types, TypeOK
<1> QED
    BY <1>1, Invariance, PTL

\* While a settlement is finalized its transfers are the plan for the balances,
\* whatever the split and the plan are.
THEOREM PlanStaysCurrent == Spec => []PlanCurrent
    BY Invariance, PTL DEF Inv

\* Expenses are locked exactly while a settlement is finalized.
THEOREM LocksFollowSettlement == Spec => []LockedWhileFinal
    BY Invariance, PTL DEF Inv

\* A collector is always a participant of the expense.
THEOREM CollectorsParticipate == Spec => []CollectorParticipates
    BY Invariance, PTL DEF Inv

\* The ledger holds all that was marked in the reopened settlements.
THEOREM LedgerIsComplete == Spec => []LedgerComplete
    BY Invariance, PTL DEF Inv

----------------------------------------------------------------------------
\* What is outside a set and has value 0 adds nothing.
LEMMA SumDrops ==
    ASSUME NEW f, NEW S, IsFiniteSet(S), \A x \in S : f[x] \in Int,
           NEW R \in SUBSET S, \A x \in S \ R : f[x] = 0
    PROVE  SumFunctionOnSet(f, S) = SumFunctionOnSet(f, R)
<1> DEFINE Drops(T) == R \subseteq T => SumFunctionOnSet(f, T) = SumFunctionOnSet(f, R)
           G == {T \in SUBSET S : Drops(T)}
<1>1. ASSUME NEW T \in SUBSET S, \A U \in SUBSET T : U # T => U \in G
      PROVE  T \in G
    <2>1. CASE T \subseteq R
        BY <2>1
    <2>2. CASE ~(T \subseteq R)
        <3>1. PICK c \in T : c \notin R
            BY <2>2
        <3> DEFINE U == T \ {c}
        <3>2. U \in SUBSET T /\ U # T /\ (R \subseteq T => R \subseteq U) /\ IsFiniteSet(T) /\ U \in SUBSET S
            BY <3>1, FS_Subset
        <3>3. Drops(U)
            BY <1>1, <3>2
        <3>4. \A x \in T : f[x] \in Int
            OBVIOUS
        <3>5. SumFunctionOnSet(f, T) = f[c] + SumFunctionOnSet(f, U)
            BY <3>2, <3>4, SumTakes
        <3>6. IsFiniteSet(U) /\ \A x \in U : f[x] \in Int
            BY <3>2, <3>4, FS_Subset
        <3>7. SumFunctionOnSet(f, U) \in Int /\ f[c] = 0
            <4> HIDE DEF U
            <4> QED BY <3>1, <3>6, SumIsInt
        <3> HIDE DEF U
        <3>8. SumFunctionOnSet(f, T) = SumFunctionOnSet(f, U)
            BY <3>5, <3>7
        <3> QED BY <3>2, <3>3, <3>8
    <2> QED BY <2>1, <2>2
<1>2. S \in G
    <2> HIDE DEF G
    <2> QED BY <1>1, SubsetsInduction
<1> QED BY <1>2

\* The shares of every expense add up to its total.
SharesAddUp == \A e \in Live : SumFunction(expense[e].share) = expense[e].total

\* One funded expense nets to zero: what its participants paid covers their
\* shares and the surplus that the collector holds.
LEMMA ExpenseNets ==
    ASSUME Inv, SharesAddUp, NEW e \in Live, Paid(e) >= expense[e].total
    PROVE  /\ \A u \in Users : Net(e, u) \in Int
           /\ SumFunctionOnSet([u \in Users |-> Net(e, u)], Users) = 0
<1> DEFINE people == expense[e].people
           paid == expense[e].paid
           share == expense[e].share
           collector == expense[e].collector
           net == [u \in Users |-> Net(e, u)]
           own == [u \in Users |-> IF u \in people THEN paid[u] - share[u] ELSE 0]
           held == [u \in Users |-> IF u = collector THEN Surplus(e) ELSE 0]
<1>1. /\ people \subseteq Users /\ collector \in people /\ collector \in Users
      /\ paid \in [people -> Nat] /\ share \in [people -> Nat] /\ expense[e].total \in Nat
    <2>1. expense[e] \in Bills
        BY LiveBill DEF Inv, Types, ExpensesOK
    <2> QED BY <2>1, AmountsAssumption DEF Inv, Types, Bills, AmountsOf, CollectorParticipates
<1>2. IsFiniteSet(Users) /\ IsFiniteSet(people)
    BY <1>1, UsersAssumption, FS_Subset
<1>3. Paid(e) = SumFunctionOnSet(paid, people) /\ expense[e].total = SumFunctionOnSet(share, people)
    <2>1. DOMAIN paid = people /\ DOMAIN share = people
        BY <1>1
    <2> QED BY <2>1 DEF Paid, SumFunction, SharesAddUp
<1>4. Paid(e) \in Nat /\ Surplus(e) = Paid(e) - expense[e].total /\ Surplus(e) \in Nat
    <2>1. Paid(e) \in Nat
        BY <1>1, <1>2, <1>3, SumBounds
    <2> QED BY <1>1, <2>1 DEF Surplus, Positive
<1>5. \A u \in Users : own[u] \in Int /\ held[u] \in Int /\ net[u] \in Int /\ own[u] = net[u] + held[u]
    BY <1>1, <1>4 DEF Net
<1>6. SumFunctionOnSet(own, Users) = SumFunctionOnSet(net, Users) + SumFunctionOnSet(held, Users)
    <2> HIDE DEF own, held, net
    <2> QED BY <1>2, <1>5, SumsAdd
<1>7. SumFunctionOnSet(held, Users) = Surplus(e)
    <2>1. SumFunctionOnSet(held, Users) = held[collector] + SumFunctionOnSet(held, Users \ {collector})
        <3> HIDE DEF held, collector
        <3> QED BY <1>1, <1>2, <1>5, SumTakes
    <2>2. \A u \in Users \ {collector} : held[u] = 0
        OBVIOUS
    <2>3. SumFunctionOnSet(held, Users \ {collector}) = 0
        <3>1. IsFiniteSet(Users \ {collector})
            BY <1>2, FS_Subset
        <3> HIDE DEF held, collector
        <3> QED BY <2>2, <3>1, SumOfZeroes
    <2>4. held[collector] = Surplus(e)
        BY <1>1
    <2> HIDE DEF held
    <2> QED BY <1>4, <2>1, <2>3, <2>4
<1>8. SumFunctionOnSet(own, Users) = Paid(e) - expense[e].total
    <2>1. \A u \in Users \ people : own[u] = 0
        OBVIOUS
    <2>2. \A u \in people : own[u] \in Int /\ share[u] \in Int /\ paid[u] = own[u] + share[u]
        BY <1>1
    <2>3. SumFunctionOnSet(own, Users) = SumFunctionOnSet(own, people)
        <3> HIDE DEF own, people
        <3> QED BY <1>1, <1>2, <1>5, <2>1, SumDrops
    <2>4. SumFunctionOnSet(paid, people) = SumFunctionOnSet(own, people) + SumFunctionOnSet(share, people)
        <3> HIDE DEF own, people, paid, share
        <3> QED BY <1>2, <2>2, SumsAdd
    <2>5. SumFunctionOnSet(own, people) \in Int
        <3> HIDE DEF own, people
        <3> QED BY <1>2, <2>2, SumIsInt
    <2> HIDE DEF own, people, paid, share
    <2> QED BY <1>1, <1>3, <1>4, <2>3, <2>4, <2>5
<1>9. SumFunctionOnSet(net, Users) \in Int
    <2> HIDE DEF net
    <2> QED BY <1>2, <1>5, SumIsInt
<1>10. SumFunctionOnSet(net, Users) = 0
    <2> HIDE DEF net, own, held
    <2> QED BY <1>1, <1>4, <1>6, <1>7, <1>8, <1>9
<1>11. \A u \in Users : Net(e, u) \in Int
    BY <1>5
<1> QED BY <1>10, <1>11

\* Expenses that all are funded net to zero together.
LEMMA FundedNets == Inv /\ SharesAddUp => FundedMeansBalanced
<1> SUFFICES ASSUME Inv, SharesAddUp, Missing = 0 PROVE SumFunction(Balances) = 0
    BY DEF FundedMeansBalanced
<1> DEFINE missing == [e \in Live |-> Positive(expense[e].total - Paid(e))]
           row == [e \in Live |-> [u \in Users |-> Net(e, u)]]
           col == [u \in Users |-> [e \in Live |-> Net(e, u)]]
           sums == [e \in Live |-> SumFunctionOnSet(row[e], Users)]
<1>1. IsFiniteSet(Live) /\ IsFiniteSet(Users)
    BY UsersAssumption, ExpensesAssumption, FS_Subset DEF Live
<1>2. ASSUME NEW e \in Live
      PROVE  /\ Paid(e) \in Nat /\ expense[e].total \in Nat
    <2>1. expense[e] \in Bills
        BY LiveBill DEF Inv, Types, ExpensesOK
    <2>2. /\ expense[e].people \subseteq Users /\ expense[e].total \in Nat
          /\ expense[e].paid \in [expense[e].people -> Nat]
        BY <2>1, AmountsAssumption DEF Inv, Types, Bills, AmountsOf
    <2>3. IsFiniteSet(expense[e].people) /\ DOMAIN expense[e].paid = expense[e].people
        BY <1>1, <2>2, FS_Subset
    <2>4. SumFunctionOnSet(expense[e].paid, expense[e].people) \in Nat
        BY <2>2, <2>3, SumBounds
    <2> QED BY <2>2, <2>3, <2>4 DEF Paid, SumFunction
<1>3. \A e \in Live : missing[e] \in Nat /\ (missing[e] <= 0 => Paid(e) >= expense[e].total)
    BY <1>2 DEF Positive
<1>4. SumFunctionOnSet(missing, Live) = 0
    <2>1. DOMAIN missing = Live
        OBVIOUS
    <2>2. Missing = SumFunction(missing)
        BY DEF Missing
    <2> HIDE DEF missing
    <2> QED BY <2>1, <2>2 DEF SumFunction
<1>5. \A e \in Live : Paid(e) >= expense[e].total
    <2> HIDE DEF missing
    <2>1. \A e \in Live : missing[e] <= 0
        BY <1>1, <1>3, <1>4, SumBounds
    <2> QED BY <1>3, <2>1
<1>6. \A e \in Live : /\ \A u \in Users : Net(e, u) \in Int
                      /\ SumFunctionOnSet([u \in Users |-> Net(e, u)], Users) = 0
    BY <1>5, ExpenseNets
<1>7. /\ \A e \in Live, u \in Users : row[e][u] \in Int /\ col[u][e] = row[e][u]
      /\ \A e \in Live : sums[e] = SumFunctionOnSet(row[e], Users) /\ sums[e] = 0
    BY <1>6
<1>8. \A u \in Users : Balances[u] = SumFunctionOnSet(col[u], Live)
    <2> TAKE u \in Users
    <2>1. DOMAIN col[u] = Live /\ Balances[u] = SumFunction(col[u])
        BY DEF Balances
    <2> HIDE DEF col
    <2> QED BY <2>1 DEF SumFunction
<1>9. SumFunctionOnSet(sums, Live) = SumFunctionOnSet(Balances, Users)
    <2>1. \A e \in Live, u \in Users : row[e][u] \in Int /\ col[u][e] = row[e][u]
        BY <1>7
    <2>2. \A e \in Live : sums[e] = SumFunctionOnSet(row[e], Users)
        BY <1>7
    <2>3. Table(Live, Users, row, col, sums, Balances)
        BY <1>8, <2>1, <2>2, Zenon DEF Table
    <2> HIDE DEF row, col, sums
    <2> QED BY <1>1, <2>3, SumsSwap
<1>10. SumFunctionOnSet(sums, Live) = 0
    <2> HIDE DEF row, sums
    <2> QED BY <1>1, <1>7, SumOfZeroes
<1>11. DOMAIN Balances = Users
    BY DEF Balances
<1> QED BY <1>9, <1>10, <1>11 DEF SumFunction

\* Every split adds up to what it splits.
SplitsAddUp ==
    \A price \in Totals, people \in (SUBSET Users) \ {{}} : SumFunction(Split(price, people)) = price

\* Shares are written with their total, and follow it.
LEMMA SharesKept == SplitsAddUp /\ Inv /\ SharesAddUp /\ [Next]_vars => SharesAddUp'
<1> SUFFICES ASSUME SplitsAddUp, Inv, SharesAddUp, [Next]_vars PROVE SharesAddUp'
    OBVIOUS
<1>0. expense \in [Expenses -> Bills \cup {NoExpense}] /\ ~NoExpense.live
    BY DEF Inv, Types, NoExpense
<1>1. ASSUME NEW e \in Expenses, NEW x, expense' = [expense EXCEPT ![e] = x],
             x = NoExpense \/ SumFunction(x.share) = x.total
      PROVE  SharesAddUp'
    BY <1>0, <1>1 DEF SharesAddUp, Live
<1>2. ASSUME UNCHANGED expense PROVE SharesAddUp'
    <2>1. Live' = Live /\ expense' = expense
        BY <1>2 DEF Live
    <2> QED BY <2>1, Zenon DEF SharesAddUp
<1>3. ASSUME NEW b \in BOOLEAN, expense' = Lock(b) PROVE SharesAddUp'
    <2>1. ExpensesOK
        BY DEF Inv, Types, ExpensesOK
    <2>2. Live' = Live /\ \A e \in Live : expense'[e] = [expense[e] EXCEPT !.locked = b]
        BY <1>3, <2>1, LockKeepsBalances
    <2>3. \A e \in Live : expense'[e].share = expense[e].share /\ expense'[e].total = expense[e].total
        <3> TAKE e \in Live
        <3> DEFINE x == expense[e]
                   y == expense'[e]
        <3>1. x \in Bills /\ y = [x EXCEPT !.locked = b]
            BY <2>1, <2>2, LiveBill
        <3> HIDE DEF x, y
        <3>2. y.share = x.share /\ y.total = x.total
            BY <3>1, LockedBill
        <3> QED BY <3>2 DEF x, y
    <2> QED BY <2>2, <2>3 DEF SharesAddUp
<1>4. CASE Membership
    BY <1>2, <1>4 DEF Membership, Join, Leave, Close
<1>5. CASE Settle
    BY <1>2, <1>3, <1>5 DEF Settle, Finalize, Reopen, MarkSent, ConfirmReceived
<1>6. CASE Book
    <2>1. PICK e \in Expenses :
              \/ \E price \in Totals, u \in Users : CreateExpense(e, price, u) \/ UpdateExpense(e, price, u)
              \/ DeleteExpense(e)
              \/ \E u \in Users, amount \in Amounts : SetContribution(e, u, amount)
        BY <1>6 DEF Book
    <2>2. Editable(e) => e \in Live
        BY DEF Editable, Live
    <2>3. ASSUME NEW price \in Totals, NEW u \in Users, CreateExpense(e, price, u)
          PROVE  SharesAddUp'
        <3>1. members \in (SUBSET Users) \ {{}}
            BY DEF Inv, Types
        <3>2. SumFunction(Split(price, members)) = price
            BY <3>1 DEF SplitsAddUp
        <3>3. NewExpense(price, u).share = Split(price, members) /\ NewExpense(price, u).total = price
            BY DEF NewExpense
        <3>4. expense' = [expense EXCEPT ![e] = NewExpense(price, u)]
            BY <2>3 DEF CreateExpense
        <3> QED BY <1>1, <3>2, <3>3, <3>4
    <2>4. ASSUME NEW price \in Totals, NEW u \in Users, UpdateExpense(e, price, u)
          PROVE  SharesAddUp'
        <3> DEFINE b == expense[e]
                   share == IF price = b.total THEN b.share ELSE Split(price, b.people)
                   x == [b EXCEPT !.share = share, !.total = price, !.collector = u]
        <3>1. e \in Live
            BY <2>2, <2>4 DEF UpdateExpense
        <3>2. b \in Bills /\ b.collector \in b.people
            BY <3>1, LiveBill DEF Inv, Types, ExpensesOK, CollectorParticipates
        <3>3. b.people \in (SUBSET Users) \ {{}}
            BY <3>2 DEF Bills
        <3>4. SumFunction(share) = price
            BY <3>1, <3>3 DEF SplitsAddUp, SharesAddUp
        <3>5. expense' = [expense EXCEPT ![e] = x]
            BY <2>4 DEF UpdateExpense
        <3>6. x.share = share /\ x.total = price
            <4> HIDE DEF share, b
            <4> QED BY <3>2 DEF Bills
        <3> HIDE DEF x, share
        <3> QED BY <1>1, <3>4, <3>5, <3>6
    <2>5. CASE DeleteExpense(e)
        BY <1>1, <2>5 DEF DeleteExpense
    <2>6. ASSUME NEW u \in Users, NEW amount \in Amounts, SetContribution(e, u, amount)
          PROVE  SharesAddUp'
        <3> DEFINE b == expense[e]
                   x == [b EXCEPT !.paid = [b.paid EXCEPT ![u] = amount]]
        <3>1. e \in Live
            BY <2>2, <2>6 DEF SetContribution
        <3>2. b \in Bills
            BY <3>1, LiveBill DEF Inv, Types, ExpensesOK
        <3>3. expense' = [expense EXCEPT ![e] = x]
            BY <2>6 DEF SetContribution
        <3>4. x.share = b.share /\ x.total = b.total
            <4> HIDE DEF b
            <4> QED BY <3>2 DEF Bills
        <3>5. SumFunction(b.share) = b.total
            BY <3>1 DEF SharesAddUp
        <3> HIDE DEF x, b
        <3> QED BY <1>1, <3>3, <3>4, <3>5
    <2> QED BY <2>1, <2>3, <2>4, <2>5, <2>6
<1>7. CASE UNCHANGED vars
    BY <1>2, <1>7 DEF vars
<1> QED BY <1>4, <1>5, <1>6, <1>7 DEF Next

\* Expenses that are all funded net to zero, if every split adds up: a
\* finalize_settlement that finds nothing missing does not fail on the balances.
THEOREM FundedStaysBalanced == SplitsAddUp => (Spec => []FundedMeansBalanced)
<1>1. Init => SharesAddUp
    BY DEF Init, SharesAddUp, Live, NoExpense
<1> SUFFICES ASSUME SplitsAddUp PROVE Spec => []FundedMeansBalanced
    OBVIOUS
<1>2. Inv /\ SharesAddUp /\ [Next]_vars => SharesAddUp'
    BY SharesKept
<1> QED BY <1>1, <1>2, FundedNets, Invariance, PTL DEF Spec

----------------------------------------------------------------------------
\* A constant summed up.
LEMMA SumOfEqual ==
    ASSUME NEW f, NEW S, IsFiniteSet(S), NEW k \in Int, \A x \in S : f[x] = k
    PROVE  SumFunctionOnSet(f, S) = Cardinality(S) * k
<1> DEFINE Equal(T) == SumFunctionOnSet(f, T) = Cardinality(T) * k
           G == {T \in SUBSET S : Equal(T)}
<1>1. ASSUME NEW T \in SUBSET S, \A U \in SUBSET T : U # T => U \in G
      PROVE  T \in G
    <2>1. CASE T = {}
        BY <2>1, SumOfNone, FS_EmptySet
    <2>2. CASE T # {}
        <3> DEFINE c == Picked(T)
                   U == T \ {c}
        <3>1. U \in SUBSET T /\ U # T /\ c \in T /\ IsFiniteSet(T) /\ f[c] = k
            BY <2>2, PickedIn, FS_Subset
        <3>2. Equal(U)
            BY <1>1, <3>1
        <3>3. SumFunctionOnSet(f, T) = f[c] + SumFunctionOnSet(f, U)
            BY <2>2, <3>1, SumPicks
        <3>4. IsFiniteSet(U) /\ Cardinality(T) \in Nat /\ Cardinality(U) = Cardinality(T) - 1
            BY <3>1, FS_RemoveElement, FS_CardinalityType
        <3>5. \A n \in Nat : k + (n - 1) * k = n * k
            OBVIOUS
        <3> HIDE DEF c, U
        <3> QED BY <3>1, <3>2, <3>3, <3>4, <3>5
    <2> QED BY <2>1, <2>2
<1>2. S \in G
    <2> HIDE DEF G
    <2> QED BY <1>1, SubsetsInduction
<1> QED BY <1>2

\* Of n people, the numbers of those before each are 0 .. n - 1, each once.
LEMMA BeforeOrders ==
    ASSUME NEW people \in SUBSET Int, IsFiniteSet(people)
    PROVE  /\ \A u \in people : Before(u, people) \in 0 .. Cardinality(people) - 1
           /\ \A u, v \in people : u < v => Before(u, people) < Before(v, people)
<1> DEFINE Below(u) == {p \in people : p < u}
<1>1. \A u \in people : /\ IsFiniteSet(Below(u)) /\ Cardinality(Below(u)) \in Nat
                        /\ Cardinality(Below(u)) < Cardinality(people)
                        /\ Cardinality(people) \in Nat
    <2> TAKE u \in people
    <2>1. Below(u) \subseteq people \ {u}
        OBVIOUS
    <2>2. IsFiniteSet(people \ {u}) /\ Cardinality(people \ {u}) = Cardinality(people) - 1 /\ Cardinality(people) \in Nat
        BY FS_RemoveElement, FS_CardinalityType
    <2>3. IsFiniteSet(Below(u)) /\ Cardinality(Below(u)) <= Cardinality(people \ {u}) /\ Cardinality(Below(u)) \in Nat
        <3> HIDE DEF Below
        <3> QED BY <2>1, <2>2, FS_Subset, FS_CardinalityType
    <2> HIDE DEF Below
    <2> QED BY <2>2, <2>3
<1>2. ASSUME NEW u \in people, NEW v \in people, u < v
      PROVE  Cardinality(Below(u)) < Cardinality(Below(v))
    <2>1. Below(u) \subseteq Below(v) /\ u \in Below(v) /\ u \notin Below(u)
        <3>1. \A p \in people : p \in Int
            OBVIOUS
        <3>2. \A p \in people : p < u => p < v
            BY <1>2, <3>1
        <3>3. \A p \in Below(u) : p \in Below(v)
            BY <3>2
        <3>4. u \in Below(v) /\ u \notin Below(u)
            BY <1>2, <3>1
        <3> HIDE DEF Below
        <3> QED BY <3>3, <3>4
    <2> HIDE DEF Below
    <2>2. Cardinality(Below(u)) <= Cardinality(Below(v)) /\ Cardinality(Below(u)) # Cardinality(Below(v))
        BY <1>1, <2>1, FS_Subset
    <2> QED BY <1>1, <2>2
<1> HIDE DEF Below
<1> QED BY <1>1, <1>2 DEF Before, Below

\* So that exactly k of them have fewer than k before them.
LEMMA FirstOnes ==
    ASSUME NEW people \in SUBSET Int, IsFiniteSet(people), NEW k \in 0 .. Cardinality(people)
    PROVE  Cardinality({u \in people : Before(u, people) < k}) = k
<1> DEFINE n == Cardinality(people)
           rank == [u \in people |-> Before(u, people)]
           first == {u \in people : Before(u, people) < k}
           low == [u \in first |-> Before(u, people)]
<1>1. n \in Nat /\ IsFiniteSet(0 .. n - 1) /\ Cardinality(0 .. n - 1) = n
    <2>1. n \in Nat /\ n - 1 \in Int /\ 0 \in Int
        BY FS_CardinalityType
    <2> HIDE DEF n
    <2>2. IsFiniteSet(0 .. n - 1) /\ Cardinality(0 .. n - 1) = IF 0 > n - 1 THEN 0 ELSE n - 1 - 0 + 1
        BY <2>1, FS_Interval, Zenon
    <2> QED BY <2>1, <2>2
<1>2. rank \in Injection(people, 0 .. n - 1)
    <2>1. rank \in [people -> 0 .. n - 1]
        BY BeforeOrders
    <2>2. \A u, v \in people : u # v => rank[u] # rank[v]
        <3>1. \A u \in people : Before(u, people) \in Int
            BY BeforeOrders
        <3>2. \A u, v \in people : u # v => u < v \/ v < u
            OBVIOUS
        <3> QED BY <3>1, <3>2, BeforeOrders
    <2> HIDE DEF rank
    <2> QED BY <2>1, <2>2 DEF Injection, IsInjective
<1>3. rank \in Surjection(people, 0 .. n - 1)
    <2> HIDE DEF rank, n
    <2> QED BY <1>1, <1>2, FS_Injection DEF n
<1>4. low \in Bijection(first, 0 .. k - 1)
    <2>1. \A u \in people : rank[u] = Before(u, people) /\ Before(u, people) \in 0 .. n - 1
        BY BeforeOrders
    <2>2. \A u, v \in people : u # v => Before(u, people) # Before(v, people)
        <3> HIDE DEF rank
        <3> QED BY <1>2, <2>1 DEF Injection, IsInjective
    <2>3. \A i \in 0 .. n - 1 : \E u \in people : Before(u, people) = i
        <3> HIDE DEF rank
        <3> QED BY <1>3, <2>1 DEF Surjection
    <2>4. low \in [first -> 0 .. k - 1]
        <3>1. \A u \in first : Before(u, people) \in 0 .. k - 1
            BY <2>1
        <3> QED BY <3>1
    <2>5. \A u, v \in first : u # v => low[u] # low[v]
        BY <2>2
    <2>6. \A i \in 0 .. k - 1 : \E u \in first : low[u] = i
        <3> TAKE i \in 0 .. k - 1
        <3>1. i \in 0 .. n - 1
            BY <1>1
        <3>2. PICK u \in people : Before(u, people) = i
            BY <2>3, <3>1
        <3> QED BY <3>2
    <2> HIDE DEF low, first
    <2> QED BY <2>4, <2>5, <2>6 DEF Bijection, Injection, Surjection, IsInjective
<1>5. IsFiniteSet(first) /\ IsFiniteSet(0 .. k - 1) /\ Cardinality(0 .. k - 1) = k
    <2>1. k \in Nat /\ k - 1 \in Int /\ 0 \in Int
        BY <1>1
    <2>2. IsFiniteSet(0 .. k - 1) /\ Cardinality(0 .. k - 1) = IF 0 > k - 1 THEN 0 ELSE k - 1 - 0 + 1
        BY <2>1, FS_Interval, Zenon
    <2>3. first \in SUBSET people
        OBVIOUS
    <2>4. IsFiniteSet(first)
        <3> HIDE DEF first
        <3> QED BY <2>3, FS_Subset
    <2> QED BY <2>1, <2>2, <2>4
<1>6. ExistsBijection(first, 0 .. k - 1)
    <2> HIDE DEF low, first
    <2> QED BY <1>4 DEF ExistsBijection
<1> HIDE DEF first
<1>7. Cardinality(first) = k
    BY <1>5, <1>6, FS_Bijection
<1> QED BY <1>7 DEF first

\* Integer division and its remainder.
LEMMA Division ==
    ASSUME NEW a \in Nat, NEW n \in Nat \ {0}
    PROVE  /\ a \div n \in Nat /\ a % n \in 0 .. n - 1
           /\ n * (a \div n) + (a % n) = a
    OBVIOUS

\* One value for all, and a unit more for some.
LEMMA SumOfShares ==
    ASSUME NEW f, NEW S, IsFiniteSet(S), NEW k \in Int, NEW R \in SUBSET S,
           \A x \in R : f[x] = k + 1, \A x \in S \ R : f[x] = k
    PROVE  SumFunctionOnSet(f, S) = Cardinality(S) * k + Cardinality(R)
<1> DEFINE equal == [x \in S |-> k]
           more == [x \in S |-> IF x \in R THEN 1 ELSE 0]
<1>1. \A x \in S : equal[x] \in Int /\ more[x] \in Int /\ f[x] = equal[x] + more[x]
    OBVIOUS
<1>2. SumFunctionOnSet(f, S) = SumFunctionOnSet(equal, S) + SumFunctionOnSet(more, S)
    <2> HIDE DEF equal, more
    <2> QED BY <1>1, SumsAdd
<1>3. SumFunctionOnSet(equal, S) = Cardinality(S) * k
    <2>1. \A x \in S : equal[x] = k
        OBVIOUS
    <2> HIDE DEF equal
    <2> QED BY <2>1, SumOfEqual
<1>4. SumFunctionOnSet(more, S) = Cardinality(R)
    <2>1. \A x \in S \ R : more[x] = 0
        OBVIOUS
    <2>2. \A x \in R : more[x] = 1
        OBVIOUS
    <2>3. IsFiniteSet(R) /\ Cardinality(R) \in Nat /\ 1 \in Int
        BY FS_Subset, FS_CardinalityType
    <2> HIDE DEF more
    <2>4. SumFunctionOnSet(more, S) = SumFunctionOnSet(more, R)
        BY <1>1, <2>1, SumDrops
    <2>5. SumFunctionOnSet(more, R) = Cardinality(R) * 1
        BY <2>2, <2>3, SumOfEqual, Zenon
    <2> QED BY <2>3, <2>4, <2>5
<1> HIDE DEF equal, more
<1> QED BY <1>2, <1>3, <1>4

\* A split adds up to what it splits.
LEMMA SplitAdds ==
    ASSUME NEW people, people \subseteq Int, IsFiniteSet(people), people # {}, NEW a \in Nat
    PROVE  /\ SplitEvenly(a, people) \in [people -> Nat]
           /\ SumFunction(SplitEvenly(a, people)) = a
           /\ \A u, v \in people :
                u < v => SplitEvenly(a, people)[u] - SplitEvenly(a, people)[v] \in {0, 1}
<1> DEFINE n == Cardinality(people)
           q == a \div n
           r == a % n
           split == SplitEvenly(a, people)
           first == {u \in people : Before(u, people) < r}
<1>1. n \in Nat \ {0}
    BY FS_CardinalityType, FS_EmptySet
<1>2. q \in Nat /\ r \in 0 .. n - 1 /\ n * q + r = a
    <2> HIDE DEF n
    <2> QED BY <1>1, Division
<1>3. split = [u \in people |-> q + IF Before(u, people) < r THEN 1 ELSE 0]
    BY DEF SplitEvenly
<1> HIDE DEF n, q, r, split
<1>4. Cardinality(first) = r
    <2>1. r \in 0 .. Cardinality(people)
        BY <1>1, <1>2 DEF n
    <2> QED BY <2>1, FirstOnes
<1>5. /\ first \in SUBSET people /\ \A u \in first : split[u] = q + 1
      /\ \A u \in people \ first : split[u] = q
    BY <1>2, <1>3
<1>6. SumFunctionOnSet(split, people) = n * q + r
    <2>1. q \in Int
        BY <1>2
    <2> HIDE DEF first
    <2>2. SumFunctionOnSet(split, people) = Cardinality(people) * q + Cardinality(first)
        BY <1>5, <2>1, SumOfShares, Zenon
    <2> QED BY <1>4, <2>2 DEF n
<1>7. split \in [people -> Nat] /\ DOMAIN split = people
    BY <1>2, <1>3
<1>8. SumFunction(split) = a
    BY <1>2, <1>6, <1>7 DEF SumFunction
<1>9. \A u, v \in people : u < v => split[u] - split[v] \in {0, 1}
    <2> TAKE u, v \in people
    <2> HAVE u < v
    <2>1. Before(u, people) < Before(v, people) /\ Before(u, people) \in Int /\ Before(v, people) \in Int
        BY BeforeOrders
    <2> QED BY <1>2, <1>3, <2>1
<1> QED BY <1>7, <1>8, <1>9 DEF split

----------------------------------------------------------------------------
\* A finite set of numbers has a least and a greatest element.
LEMMA MinIsLeast ==
    ASSUME NEW S, S \subseteq Int, IsFiniteSet(S), S # {}
    PROVE  Min(S) \in S /\ \A y \in S : Min(S) <= y
<1> DEFINE HasMin(T) == T # {} => \E x \in T : \A y \in T : x <= y
           G == {T \in SUBSET S : HasMin(T)}
<1>0. \A x \in S : x \in Int
    OBVIOUS
<1>1. ASSUME NEW T \in SUBSET S, \A U \in SUBSET T : U # T => U \in G
      PROVE  T \in G
    <2>1. ASSUME NEW c \in T PROVE \E x \in T : \A y \in T : x <= y
        <3> DEFINE U == T \ {c}
        <3>1. HasMin(U)
            BY <1>1, <2>1
        <3>2. CASE U = {}
            <4>1. \A y \in T : y = c
                BY <3>2
            <4> QED BY <1>0, <4>1
        <3>3. CASE U # {}
            <4>1. PICK x \in U : \A y \in U : x <= y
                BY <3>1, <3>3
            <4>2. x \in Int /\ c \in Int /\ x \in T /\ \A y \in T : y \in Int /\ (y = c \/ x <= y)
                BY <1>0, <4>1
            <4>3. (\A y \in T : x <= y) \/ (\A y \in T : c <= y)
                BY <4>2
            <4> QED BY <4>2, <4>3
        <3> QED BY <3>2, <3>3
    <2> QED BY <2>1
<1>2. S \in G
    <2> HIDE DEF G
    <2> QED BY <1>1, SubsetsInduction
<1>3. \E x \in S : \A y \in S : x <= y
    BY <1>2
<1> QED BY <1>3 DEF Min

\* The greatest by the least of the opposites.
LEMMA MaxIsGreatest ==
    ASSUME NEW S, S \subseteq Int, IsFiniteSet(S), S # {}
    PROVE  Max(S) \in S /\ \A y \in S : y <= Max(S)
<1> DEFINE R == {-x : x \in S}
<1>1. R \subseteq Int /\ R # {}
    <2>1. \A x \in S : -x \in Int
        OBVIOUS
    <2> QED BY <2>1
<1>2. IsFiniteSet(R)
    <2> DEFINE f == [x \in S |-> -x]
    <2>1. f \in Surjection(S, R)
        <3>1. f \in [S -> R] /\ \A r \in R : \E x \in S : f[x] = r
            OBVIOUS
        <3> HIDE DEF f, R
        <3> QED BY <3>1 DEF Surjection
    <2> HIDE DEF f, R
    <2> QED BY <2>1, FS_Surjection
<1>3. PICK r \in R : \A y \in R : r <= y
    <2> HIDE DEF R
    <2> QED BY <1>1, <1>2, MinIsLeast
<1>4. PICK x \in S : r = -x
    OBVIOUS
<1>5. \A y \in S : y \in Int /\ -y \in R
    OBVIOUS
<1>6. x \in S /\ \A y \in S : x >= y
    BY <1>3, <1>4, <1>5
<1>7. Max(S) \in S /\ \A y \in S : Max(S) >= y
    BY <1>6 DEF Max
<1>8. Max(S) \in Int
    BY <1>7
<1> QED BY <1>5, <1>7, <1>8

(* One transfer after another *)

Done(o) == Debtors(o) = {} \/ Creditors(o) = {}

\* The least who owes pays the least who is owed, and one of them is settled then.
NextFrom(g, o, t, n) ==
    /\ t.payer \in g /\ t.recipient \in g /\ t.amount \in Nat \ {0}
    /\ t = [payer |-> t.payer, recipient |-> t.recipient, amount |-> t.amount]
    /\ t.payer \in Debtors(o) /\ \A u \in Debtors(o) : t.payer <= u
    /\ t.recipient \in Creditors(o) /\ \A u \in Creditors(o) : t.recipient <= u
    /\ o[t.payer] < 0 /\ o[t.recipient] > 0 /\ t.payer # t.recipient
    /\ t.amount <= -o[t.payer] /\ t.amount <= o[t.recipient]
    /\ t.amount = -o[t.payer] \/ t.amount = o[t.recipient]
    /\ n \in [g -> Int]
    /\ n[t.payer] = o[t.payer] + t.amount /\ n[t.recipient] = o[t.recipient] - t.amount
    /\ \A u \in g : u # t.payer /\ u # t.recipient => n[u] = o[u]

\* The transfer of the code, and what it leaves (_build_group_transfers).
LEMMA NextIs ==
    ASSUME NEW g, g \subseteq Int, IsFiniteSet(g), NEW o \in [g -> Int], ~Done(o)
    PROVE  NextFrom(g, o, NextTransfer(o), After(o, NextTransfer(o)))
<1> DEFINE t == NextTransfer(o)
           n == After(o, t)
<1> DEFINE p == Min(Debtors(o))
           r == Min(Creditors(o))
           m == Min({-o[p], o[r]})
<1>1. DOMAIN o = g
    OBVIOUS
<1>2. p \in Debtors(o) /\ \A u \in Debtors(o) : p <= u
    <2>1. Debtors(o) \in SUBSET g
        BY <1>1 DEF Debtors
    <2>2. Debtors(o) \subseteq Int /\ IsFiniteSet(Debtors(o)) /\ Debtors(o) # {}
        BY <2>1, FS_Subset DEF Done
    <2> QED BY <2>2, MinIsLeast
<1>3. r \in Creditors(o) /\ \A u \in Creditors(o) : r <= u
    <2>1. Creditors(o) \in SUBSET g
        BY <1>1 DEF Creditors
    <2>2. Creditors(o) \subseteq Int /\ IsFiniteSet(Creditors(o)) /\ Creditors(o) # {}
        BY <2>1, FS_Subset DEF Done
    <2> QED BY <2>2, MinIsLeast
<1>4. p \in g /\ r \in g /\ o[p] \in Int /\ o[r] \in Int /\ o[p] < 0 /\ o[r] > 0 /\ p # r
    <2> HIDE DEF p, r
    <2> QED BY <1>1, <1>2, <1>3 DEF Debtors, Creditors
<1>5. m \in {-o[p], o[r]} /\ m <= -o[p] /\ m <= o[r]
    <2> DEFINE S == {-o[p], o[r]}
    <2> HIDE DEF p, r
    <2>1. S \subseteq Int /\ S # {}
        BY <1>4
    <2>2. IsFiniteSet(S)
        <3>1. IsFiniteSet({-o[p]})
            BY FS_Singleton
        <3>2. S = {-o[p]} \cup {o[r]}
            OBVIOUS
        <3> QED BY <3>1, <3>2, FS_AddElement
    <2>3. -o[p] \in S /\ o[r] \in S
        OBVIOUS
    <2>4. Min(S) \in S /\ \A y \in S : Min(S) <= y
        <3> HIDE DEF S
        <3> QED BY <2>1, <2>2, MinIsLeast
    <2> QED BY <2>3, <2>4
<1>6. t = [payer |-> p, recipient |-> r, amount |-> m]
    BY DEF NextTransfer
<1> HIDE DEF p, r, m, t
<1>7. m \in Nat \ {0}
    BY <1>4, <1>5
<1>8. t.payer = p /\ t.recipient = r /\ t.amount = m
    BY <1>6
<1>9. n = [o EXCEPT ![p] = @ + m, ![r] = @ - m]
    BY <1>8 DEF After
<1>10. /\ n \in [g -> Int] /\ n[p] = o[p] + m /\ n[r] = o[r] - m
       /\ \A u \in g : u # p /\ u # r => n[u] = o[u]
    BY <1>4, <1>7, <1>9
<1> HIDE DEF n
<1>11. NextFrom(g, o, t, n)
    BY <1>2, <1>3, <1>4, <1>5, <1>6, <1>7, <1>8, <1>10 DEF NextFrom
<1> QED BY <1>11 DEF n, t

\* A transfer settles one of the two at least, and touches nobody else.
LEMMA NextLeaves ==
    ASSUME NEW g, NEW o \in [g -> Int], NEW t, NEW n, NextFrom(g, o, t, n)
    PROVE  /\ Debtors(n) \subseteq Debtors(o) /\ Creditors(n) \subseteq Creditors(o)
           /\ Items(n) \subseteq Items(o) /\ Items(n) # Items(o) /\ Items(o) \subseteq g
           /\ t.payer \notin Debtors(n) \/ t.recipient \notin Creditors(n)
           /\ t.payer \in Items(o) /\ t.recipient \in Items(o)
           /\ Items(o) \ Items(n) \subseteq {t.payer, t.recipient}
<1>1. PICK p \in g, r \in g, a \in Nat \ {0} :
          /\ p = t.payer /\ r = t.recipient
          /\ o[p] < 0 /\ o[r] > 0 /\ p # r /\ a <= -o[p] /\ a <= o[r]
          /\ a = -o[p] \/ a = o[r]
          /\ n \in [g -> Int] /\ n[p] = o[p] + a /\ n[r] = o[r] - a
          /\ \A u \in g : u # p /\ u # r => n[u] = o[u]
    BY DEF NextFrom
<1>2. DOMAIN o = g /\ DOMAIN n = g /\ \A u \in g : o[u] \in Int /\ n[u] \in Int
    BY <1>1
<1>3. n[p] <= 0 /\ n[r] >= 0 /\ (n[p] = 0 \/ n[r] = 0)
    <2>1. o[p] \in Int /\ o[r] \in Int /\ a \in Int
        BY <1>2
    <2> QED BY <1>1, <2>1
<1>4. \A u \in g : /\ n[u] < 0 => o[u] < 0
                   /\ n[u] > 0 => o[u] > 0
                   /\ n[u] # 0 => o[u] # 0
                   /\ n[u] = 0 /\ o[u] # 0 => u = p \/ u = r
    BY <1>1, <1>2, <1>3
<1>5. o[p] # 0 /\ o[r] # 0
    BY <1>1, <1>2
<1>6. /\ Debtors(n) \subseteq Debtors(o) /\ Creditors(n) \subseteq Creditors(o)
      /\ p \notin Debtors(n) \/ r \notin Creditors(n)
    BY <1>1, <1>2, <1>3, <1>4 DEF Debtors, Creditors
<1>7. /\ Items(n) \subseteq Items(o) /\ Items(n) # Items(o) /\ Items(o) \subseteq g
      /\ p \in Items(o) /\ r \in Items(o) /\ Items(o) \ Items(n) \subseteq {p, r}
    BY <1>1, <1>2, <1>3, <1>4, <1>5 DEF Items
<1> QED BY <1>1, <1>6, <1>7

----------------------------------------------------------------------------
\* A group of people.
Plain(g) == g \subseteq Int /\ IsFiniteSet(g)

Within(g, T) == {o \in [g -> Int] : Items(o) \subseteq T}

IsMatch(m, D) ==
    m = [left \in D |-> IF Debtors(left) = {} \/ Creditors(left) = {} THEN {}
                        ELSE {NextTransfer(left)} \cup m[After(left, NextTransfer(left))]]

\* The plan of a group by the function its definition chooses.
LEMMA MatchByChoice ==
    ASSUME NEW o, NEW g
    PROVE  GroupTransfers(o, g) = (CHOOSE m : IsMatch(m, [g -> Int]))[[u \in g |-> o[u]]]
BY Zenon DEF GroupTransfers, IsMatch

\* Each value of such a function from what the next transfer leaves.
LEMMA MatchUnfolds ==
    ASSUME NEW m, NEW D, IsMatch(m, D), NEW o \in D
    PROVE  m[o] = IF Done(o) THEN {} ELSE {NextTransfer(o)} \cup m[After(o, NextTransfer(o))]
BY Zenon DEF IsMatch, Done

\* The transfer after stays within.
LEMMA AfterWithin ==
    ASSUME NEW g, g \subseteq Int, IsFiniteSet(g), NEW o \in [g -> Int], ~Done(o), NEW n,
           n = After(o, NextTransfer(o))
    PROVE  /\ n \in [g -> Int] /\ Items(n) \subseteq Items(o) /\ Items(n) # Items(o)
           /\ Items(o) \subseteq g
<1>1. NextFrom(g, o, NextTransfer(o), n)
    BY NextIs
<1>2. n \in [g -> Int]
    BY <1>1 DEF NextFrom
<1> QED BY <1>1, <1>2, NextLeaves

\* Two such functions agree on the balances that both are defined on.
LEMMA MatchesAgree ==
    ASSUME NEW g, Plain(g), NEW A, NEW B, NEW m, NEW k,
           IsMatch(m, Within(g, A)), IsMatch(k, Within(g, B)),
           NEW o \in [g -> Int], Items(o) \subseteq A, Items(o) \subseteq B
    PROVE  m[o] = k[o]
<1> DEFINE Same(T) == \A x \in [g -> Int] : Items(x) = T => m[x] = k[x]
           G == {T \in SUBSET Items(o) : Same(T)}
<1>1. ASSUME NEW T \in SUBSET Items(o), \A U \in SUBSET T : U # T => U \in G
      PROVE  T \in G
    <2>1. ASSUME NEW x \in [g -> Int], Items(x) = T
          PROVE  m[x] = k[x]
        <3>1. x \in Within(g, A) /\ x \in Within(g, B)
            BY <2>1 DEF Within
        <3>2. CASE Done(x)
            BY <3>1, <3>2, MatchUnfolds
        <3>3. CASE ~Done(x)
            <4> DEFINE n == After(x, NextTransfer(x))
            <4>1. n \in [g -> Int] /\ Items(n) \subseteq T /\ Items(n) # T
                BY <2>1, <3>3, AfterWithin DEF Plain
            <4>2. Same(Items(n))
                BY <1>1, <4>1
            <4>3. m[n] = k[n]
                BY <4>1, <4>2
            <4>4. m[x] = {NextTransfer(x)} \cup m[n] /\ k[x] = {NextTransfer(x)} \cup k[n]
                BY <3>1, <3>3, MatchUnfolds
            <4> QED BY <4>3, <4>4
        <3> QED BY <3>2, <3>3
    <2> QED BY <2>1
<1>2. IsFiniteSet(Items(o))
    <2>1. Items(o) \subseteq g
        BY DEF Items
    <2> QED BY <2>1, FS_Subset DEF Plain
<1>3. Items(o) \in G
    <2> HIDE DEF G
    <2> QED BY <1>1, <1>2, SubsetsInduction
<1> QED BY <1>3

\* There is such a function for all balances of a group.
LEMMA MatchExists ==
    ASSUME NEW g, Plain(g)
    PROVE  \E m : IsMatch(m, Within(g, g))
<1> DEFINE G == {T \in SUBSET g : \E m : IsMatch(m, Within(g, T))}
<1>1. ASSUME NEW T \in SUBSET g, \A U \in SUBSET T : U # T => U \in G
      PROVE  T \in G
    <2> DEFINE Chosen(U) == CHOOSE m : IsMatch(m, Within(g, U))
               Later(x) == After(x, NextTransfer(x))
               Value(x) == IF Done(x) THEN {}
                           ELSE {NextTransfer(x)} \cup Chosen(Items(Later(x)))[Later(x)]
               m == [x \in Within(g, T) |-> Value(x)]
    <2>1. \A U \in SUBSET T : U # T => IsMatch(Chosen(U), Within(g, U))
        BY <1>1
    <2> HIDE DEF Chosen
    <2>2. ASSUME NEW x \in Within(g, T), ~Done(x)
          PROVE  Later(x) \in Within(g, T) /\ Items(Later(x)) \subseteq Items(x) /\ Items(Later(x)) \subseteq T
                 /\ Items(Later(x)) # T /\ Later(x) \in [g -> Int] /\ Items(Later(x)) # Items(x)
        <3>1. x \in [g -> Int] /\ Items(x) \subseteq T
            BY DEF Within
        <3>2. Later(x) \in [g -> Int] /\ Items(Later(x)) \subseteq Items(x) /\ Items(Later(x)) # Items(x)
            BY <2>2, <3>1, AfterWithin DEF Plain
        <3> HIDE DEF Later
        <3> QED BY <3>1, <3>2 DEF Within
    <2> HIDE DEF Later
    <2>3. ASSUME NEW x \in [g -> Int], Items(x) \subseteq T, Items(x) # T
          PROVE  Chosen(Items(x))[x] = Value(x)
        <3>1. IsMatch(Chosen(Items(x)), Within(g, Items(x))) /\ x \in Within(g, Items(x)) /\ x \in Within(g, T)
            BY <2>1, <2>3 DEF Within
        <3>2. CASE Done(x)
            BY <3>1, <3>2, MatchUnfolds
        <3>3. CASE ~Done(x)
            <4>1. Chosen(Items(x))[x] = {NextTransfer(x)} \cup Chosen(Items(x))[Later(x)]
                BY <3>1, <3>3, MatchUnfolds DEF Later
            <4>2. Chosen(Items(x))[Later(x)] = Chosen(Items(Later(x)))[Later(x)]
                <5>1. IsMatch(Chosen(Items(Later(x))), Within(g, Items(Later(x))))
                    BY <2>1, <2>2, <3>1, <3>3
                <5>2. Later(x) \in [g -> Int] /\ Items(Later(x)) \subseteq Items(x)
                    BY <2>2, <3>1, <3>3
                <5> DEFINE k == Chosen(Items(x))
                           l == Chosen(Items(Later(x)))
                           A == Items(x)
                           B == Items(Later(x))
                           o == Later(x)
                <5>3. /\ IsMatch(k, Within(g, A)) /\ IsMatch(l, Within(g, B))
                      /\ o \in [g -> Int] /\ Items(o) \subseteq A /\ Items(o) \subseteq B
                    BY <3>1, <5>1, <5>2
                <5> HIDE DEF k, l, A, B, o
                <5>4. k[o] = l[o]
                    BY <5>3, MatchesAgree
                <5> QED BY <5>4 DEF k, l, o
            <4> QED BY <3>3, <4>1, <4>2
        <3> QED BY <3>2, <3>3
    <2>4. ASSUME NEW x \in Within(g, T)
          PROVE  m[x] = IF Debtors(x) = {} \/ Creditors(x) = {} THEN {}
                        ELSE {NextTransfer(x)} \cup m[After(x, NextTransfer(x))]
        <3>1. CASE Done(x)
            BY <3>1 DEF Done
        <3>2. CASE ~Done(x)
            <4>1. Chosen(Items(Later(x)))[Later(x)] = Value(Later(x))
                <5> HIDE DEF Value
                <5> QED BY <2>2, <2>3, <3>2
            <4>2. m[Later(x)] = Value(Later(x))
                <5> HIDE DEF Value
                <5> QED BY <2>2, <3>2
            <4>3. m[x] = {NextTransfer(x)} \cup Chosen(Items(Later(x)))[Later(x)]
                BY <3>2
            <4> HIDE DEF m, Value
            <4> QED BY <3>2, <4>1, <4>2, <4>3 DEF Done, Later
        <3> QED BY <3>1, <3>2
    <2>5. m = [x \in Within(g, T) |-> m[x]]
        <3> HIDE DEF Value
        <3> QED OBVIOUS
    <2>6. IsMatch(m, Within(g, T))
        <3> HIDE DEF m
        <3> QED BY <2>4, <2>5, Zenon DEF IsMatch
    <2> QED BY <2>6, Zenon
<1>2. g \in G
    <2> HIDE DEF G
    <2> QED BY <1>1, SubsetsInduction DEF Plain
<1> QED BY <1>2

\* The transfers of a group, from what each has left.
Matched(g, o) == (CHOOSE m : IsMatch(m, [g -> Int]))[o]

\* What is to be known of the plan of a group from its definition.
LEMMA MatchedIs ==
    ASSUME NEW g, Plain(g)
    PROVE  /\ \A o \in [g -> Int] : Done(o) => Matched(g, o) = {}
           /\ \A o \in [g -> Int] : ~Done(o) =>
                Matched(g, o) = {NextTransfer(o)} \cup Matched(g, After(o, NextTransfer(o)))
<1>1. Within(g, g) = [g -> Int]
    BY DEF Within, Items
<1>2. IsMatch(CHOOSE m : IsMatch(m, [g -> Int]), [g -> Int])
    BY <1>1, MatchExists, Zenon
<1> QED BY <1>2, MatchUnfolds, Zenon DEF Matched

\* The plan of a group is that of its own balances.
LEMMA GroupIsMatched ==
    ASSUME NEW o, NEW g
    PROVE  GroupTransfers(o, g) = Matched(g, [u \in g |-> o[u]])
BY MatchByChoice, Zenon DEF Matched

----------------------------------------------------------------------------
\* One step of the matching.
MatchStep(g, o, t, n) ==
    /\ NextFrom(g, o, t, n)
    /\ Matched(g, o) = {t} \cup Matched(g, n)

\* What holds when nothing is left to settle, and before a transfer when it
\* holds after it, holds of all balances of a group.
LEMMA MatchInduction ==
    ASSUME NEW g, Plain(g), NEW Good,
           \A o \in [g -> Int] : Done(o) /\ Matched(g, o) = {} => o \in Good,
           \A o \in [g -> Int], n \in [g -> Int] : \A t :
               ~Done(o) /\ MatchStep(g, o, t, n) /\ n \in Good => o \in Good,
           NEW o \in [g -> Int]
    PROVE  o \in Good
<1> DEFINE Fine(T) == \A x \in [g -> Int] : Items(x) = T => x \in Good
           G == {T \in SUBSET Items(o) : Fine(T)}
<1>1. ASSUME NEW T \in SUBSET Items(o), \A U \in SUBSET T : U # T => U \in G
      PROVE  T \in G
    <2>1. ASSUME NEW x \in [g -> Int], Items(x) = T
          PROVE  x \in Good
        <3>1. CASE Done(x)
            BY <3>1, MatchedIs DEF Plain
        <3>2. CASE ~Done(x)
            <4> DEFINE t == NextTransfer(x)
                       n == After(x, t)
            <4>1. n \in [g -> Int] /\ Items(n) \subseteq T /\ Items(n) # T
                BY <2>1, <3>2, AfterWithin DEF Plain
            <4>2. Fine(Items(n))
                BY <1>1, <4>1
            <4>3. NextFrom(g, x, t, n)
                BY <3>2, NextIs DEF Plain
            <4>4. Matched(g, x) = {t} \cup Matched(g, n)
                BY <3>2, MatchedIs DEF Plain
            <4> HIDE DEF t, n
            <4> QED BY <3>2, <4>1, <4>2, <4>3, <4>4 DEF MatchStep
        <3> QED BY <3>1, <3>2
    <2> QED BY <2>1
<1>2. IsFiniteSet(Items(o))
    <2>1. Items(o) \subseteq g
        BY DEF Items
    <2> QED BY <2>1, FS_Subset DEF Plain
<1>3. Items(o) \in G
    <2> HIDE DEF G
    <2> QED BY <1>1, <1>2, SubsetsInduction
<1> QED BY <1>3

(* The amounts of a set of transfers *)

Amount(P) == SumFunctionOnSet([t \in P |-> t.amount], P)

\* No transfers amount to nothing.
LEMMA AmountOfNone == Amount({}) = 0
BY SumOfNone DEF Amount

\* Transfers amount to an integer.
LEMMA AmountIsInt ==
    ASSUME NEW P, IsFiniteSet(P), \A t \in P : t.amount \in Int
    PROVE  Amount(P) \in Int
<1> DEFINE f == [t \in P |-> t.amount]
<1>1. \A t \in P : f[t] \in Int
    OBVIOUS
<1> HIDE DEF f
<1>2. SumFunctionOnSet(f, P) \in Int
    BY <1>1, SumIsInt
<1> QED BY <1>2 DEF Amount, f

\* One more transfer adds its amount.
LEMMA AmountAdds ==
    ASSUME NEW P, IsFiniteSet(P), \A t \in P : t.amount \in Int,
           NEW s, s.amount \in Int, s \notin P
    PROVE  Amount({s} \cup P) = s.amount + Amount(P)
<1> DEFINE Q == {s} \cup P
           f == [t \in Q |-> t.amount]
           h == [t \in P |-> t.amount]
<1>1. IsFiniteSet(Q)
    <2>1. Q = P \cup {s}
        OBVIOUS
    <2> QED BY <2>1, FS_AddElement
<1>2. /\ \A t \in Q : f[t] \in Int
      /\ \A t \in P : f[t] = h[t]
      /\ f[s] = s.amount /\ s \in Q /\ Q \ {s} = P
    OBVIOUS
<1> HIDE DEF Q, f, h
<1>3. SumFunctionOnSet(f, Q) = f[s] + SumFunctionOnSet(f, Q \ {s})
    BY <1>1, <1>2, SumTakes
<1>4. SumFunctionOnSet(f, P) = SumFunctionOnSet(h, P)
    BY <1>2, SumsSame
<1>5. Amount(Q) = SumFunctionOnSet(f, Q) /\ Amount(P) = SumFunctionOnSet(h, P)
    BY DEF Amount, f, h
<1>6. Amount(Q) = s.amount + Amount(P)
    BY <1>2, <1>3, <1>4, <1>5
<1> QED BY <1>6 DEF Q

Out(P, u) == Amount({t \in P : t.payer = u})
In(P, u) == Amount({t \in P : t.recipient = u})

\* One more transfer counts for its payer and its recipient.
LEMMA OneMore ==
    ASSUME NEW P, IsFiniteSet(P), \A t \in P : t.amount \in Int,
           NEW s, s.amount \in Int, s \notin P, NEW u
    PROVE  /\ Out({s} \cup P, u) = Out(P, u) + (IF s.payer = u THEN s.amount ELSE 0)
           /\ In({s} \cup P, u) = In(P, u) + (IF s.recipient = u THEN s.amount ELSE 0)
           /\ Out(P, u) \in Int /\ In(P, u) \in Int
<1> DEFINE A == {t \in P : t.payer = u}
           B == {t \in P : t.recipient = u}
           C == {t \in {s} \cup P : t.payer = u}
           D == {t \in {s} \cup P : t.recipient = u}
<1>1. /\ A \in SUBSET P /\ B \in SUBSET P /\ s \notin A /\ s \notin B
      /\ s.payer = u => C = {s} \cup A
      /\ s.payer # u => C = A
      /\ s.recipient = u => D = {s} \cup B
      /\ s.recipient # u => D = B
    OBVIOUS
<1>2. IsFiniteSet(A) /\ IsFiniteSet(B)
    BY <1>1, FS_Subset
<1>3. (\A t \in A : t.amount \in Int) /\ \A t \in B : t.amount \in Int
    OBVIOUS
<1>4. Out(P, u) = Amount(A) /\ In(P, u) = Amount(B)
    BY DEF Out, In
<1>5. Out({s} \cup P, u) = Amount(C) /\ In({s} \cup P, u) = Amount(D)
    BY DEF Out, In
<1> HIDE DEF A, B, C, D
<1>6. Amount(A) \in Int /\ Amount(B) \in Int
    BY <1>2, <1>3, AmountIsInt
<1>7. Amount({s} \cup A) = s.amount + Amount(A)
    BY <1>1, <1>2, <1>3, AmountAdds
<1>8. Amount({s} \cup B) = s.amount + Amount(B)
    BY <1>1, <1>2, <1>3, AmountAdds
<1>9. Amount(C) = Amount(A) + (IF s.payer = u THEN s.amount ELSE 0)
    <2>1. CASE s.payer = u
        <3>1. Amount(C) = s.amount + Amount(A)
            BY <1>1, <1>7, <2>1, Zenon
        <3> QED BY <1>6, <2>1, <3>1
    <2>2. CASE s.payer # u
        <3>1. Amount(C) = Amount(A)
            BY <1>1, <2>2, Zenon
        <3> QED BY <1>6, <2>2, <3>1
    <2> QED BY <2>1, <2>2
<1>10. Amount(D) = Amount(B) + (IF s.recipient = u THEN s.amount ELSE 0)
    <2>1. CASE s.recipient = u
        <3>1. Amount(D) = s.amount + Amount(B)
            BY <1>1, <1>8, <2>1, Zenon
        <3> QED BY <1>6, <2>1, <3>1
    <2>2. CASE s.recipient # u
        <3>1. Amount(D) = Amount(B)
            BY <1>1, <2>2, Zenon
        <3> QED BY <1>6, <2>2, <3>1
    <2> QED BY <2>1, <2>2
<1> QED BY <1>4, <1>5, <1>6, <1>9, <1>10

\* Without transfers nothing is sent or received.
LEMMA OutOfNone == \A u : Out({}, u) = 0 /\ In({}, u) = 0
<1>1. \A u : {t \in {} : t.payer = u} = {} /\ {t \in {} : t.recipient = u} = {}
    OBVIOUS
<1> QED BY <1>1, AmountOfNone DEF Out, In

(* Balances that add up to nothing *)

Level(g, o) == SumFunctionOnSet(o, g) = 0

\* Two people change by opposite amounts, which leaves the sum as it is.
LEMMA SumKept ==
    ASSUME NEW Z, IsFiniteSet(Z), NEW o, NEW n, \A u \in Z : o[u] \in Int /\ n[u] \in Int,
           NEW p \in Z, NEW r \in Z, p # r, o[p] + o[r] = n[p] + n[r],
           \A u \in Z : u # p /\ u # r => n[u] = o[u]
    PROVE  SumFunctionOnSet(o, Z) = SumFunctionOnSet(n, Z)
<1> DEFINE Y == Z \ {p}
           X == Y \ {r}
<1>1. /\ IsFiniteSet(Y) /\ IsFiniteSet(X) /\ r \in Y
      /\ \A u \in Y : o[u] \in Int /\ n[u] \in Int
      /\ \A u \in X : o[u] \in Int /\ n[u] \in Int /\ n[u] = o[u]
    BY FS_Subset
<1> HIDE DEF X, Y
<1>2. SumFunctionOnSet(o, Z) = o[p] + SumFunctionOnSet(o, Y)
    BY SumTakes DEF Y
<1>3. SumFunctionOnSet(n, Z) = n[p] + SumFunctionOnSet(n, Y)
    BY SumTakes DEF Y
<1>4. SumFunctionOnSet(o, Y) = o[r] + SumFunctionOnSet(o, X)
    BY <1>1, SumTakes DEF X
<1>5. SumFunctionOnSet(n, Y) = n[r] + SumFunctionOnSet(n, X)
    BY <1>1, SumTakes DEF X
<1>6. SumFunctionOnSet(o, X) = SumFunctionOnSet(n, X) /\ SumFunctionOnSet(o, X) \in Int
    BY <1>1, SumsSame, SumIsInt
<1>7. o[p] \in Int /\ o[r] \in Int /\ n[p] \in Int /\ n[r] \in Int
    OBVIOUS
<1> QED BY <1>2, <1>3, <1>4, <1>5, <1>6, <1>7

\* Balances that add up to nothing, none of them below or none above it, are nothing.
LEMMA LevelDone ==
    ASSUME NEW g, IsFiniteSet(g), NEW o \in [g -> Int], Level(g, o), Done(o)
    PROVE  Items(o) = {}
<1> DEFINE h == [u \in g |-> -o[u]]
           z == [u \in g |-> 0]
<1>1. DOMAIN o = g /\ \A u \in g : o[u] \in Int /\ h[u] \in Int /\ h[u] = -o[u] /\ z[u] = o[u] + h[u]
                                   /\ z[u] = 0
    OBVIOUS
<1> HIDE DEF h, z
<1>2. SumFunctionOnSet(z, g) = SumFunctionOnSet(o, g) + SumFunctionOnSet(h, g)
    BY <1>1, SumsAdd
<1>3. SumFunctionOnSet(z, g) = 0
    BY <1>1, SumOfZeroes
<1>4. SumFunctionOnSet(h, g) \in Int
    BY <1>1, SumIsInt
<1>5. SumFunctionOnSet(o, g) = 0 /\ SumFunctionOnSet(h, g) = 0
    BY <1>2, <1>3, <1>4 DEF Level
<1>6. CASE Debtors(o) = {}
    <2>1. \A u \in g : o[u] \in Nat
        BY <1>1, <1>6 DEF Debtors
    <2>2. \A u \in g : o[u] <= 0
        BY <1>5, <2>1, SumBounds
    <2>3. \A u \in g : o[u] = 0
        BY <1>1, <2>1, <2>2
    <2> QED BY <1>1, <2>3 DEF Items
<1>7. CASE Creditors(o) = {}
    <2>1. \A u \in g : h[u] \in Nat
        BY <1>1, <1>7 DEF Creditors
    <2>2. \A u \in g : h[u] <= 0
        BY <1>5, <2>1, SumBounds
    <2>3. \A u \in g : o[u] = 0
        BY <1>1, <2>1, <2>2
    <2> QED BY <1>1, <2>3 DEF Items
<1> QED BY <1>6, <1>7 DEF Done

(* The transfers of a group settle it *)

IsTransfer(o, t) ==
    /\ t.payer \in Debtors(o) /\ t.recipient \in Creditors(o) /\ t.amount \in Nat \ {0}
    /\ t = [payer |-> t.payer, recipient |-> t.recipient, amount |-> t.amount]

\* A plan has finitely many transfers, each from one who owes to one who is owed.
LEMMA MatchedTransfers ==
    ASSUME NEW g, Plain(g), NEW o \in [g -> Int]
    PROVE  IsFiniteSet(Matched(g, o)) /\ \A t \in Matched(g, o) : IsTransfer(o, t)
<1> DEFINE Good == {x \in [g -> Int] : IsFiniteSet(Matched(g, x)) /\ \A t \in Matched(g, x) : IsTransfer(x, t)}
<1>1. \A x \in [g -> Int] : Done(x) /\ Matched(g, x) = {} => x \in Good
    BY FS_EmptySet
<1>2. ASSUME NEW x \in [g -> Int], NEW n \in [g -> Int], NEW t, ~Done(x), MatchStep(g, x, t, n), n \in Good
      PROVE  x \in Good
    <2>1. NextFrom(g, x, t, n) /\ Matched(g, x) = {t} \cup Matched(g, n)
        BY <1>2 DEF MatchStep
    <2>2. Debtors(n) \subseteq Debtors(x) /\ Creditors(n) \subseteq Creditors(x)
        BY <2>1, NextLeaves
    <2>3. IsTransfer(x, t)
        BY <2>1 DEF NextFrom, IsTransfer
    <2>4. \A s \in Matched(g, n) : IsTransfer(x, s)
        BY <1>2, <2>2 DEF IsTransfer
    <2>5. IsFiniteSet(Matched(g, x))
        <3>1. Matched(g, x) = Matched(g, n) \cup {t}
            BY <2>1
        <3>2. IsFiniteSet(Matched(g, n))
            BY <1>2
        <3> QED BY <3>1, <3>2, FS_AddElement
    <2> QED BY <2>1, <2>3, <2>4, <2>5
<1>3. o \in Good
    <2> HIDE DEF Good
    <2> QED BY <1>1, <1>2, MatchInduction
<1> QED BY <1>3

\* No transfer is made twice.
LEMMA MatchedOnce ==
    ASSUME NEW g, Plain(g), NEW o \in [g -> Int], NEW n \in [g -> Int], NEW t, MatchStep(g, o, t, n)
    PROVE  t \notin Matched(g, n)
<1>1. NextFrom(g, o, t, n)
    BY DEF MatchStep
<1>2. t.payer \notin Debtors(n) \/ t.recipient \notin Creditors(n)
    BY <1>1, NextLeaves
<1>3. \A s \in Matched(g, n) : s.payer \in Debtors(n) /\ s.recipient \in Creditors(n)
    BY MatchedTransfers DEF IsTransfer
<1> QED BY <1>2, <1>3

\* A transfer leaves balances level that are, and makes none so that are not.
LEMMA StepKeepsLevel ==
    ASSUME NEW g, Plain(g), NEW o \in [g -> Int], NEW n \in [g -> Int], NEW t, NextFrom(g, o, t, n)
    PROVE  Level(g, o) <=> Level(g, n)
<1>1. PICK p \in g, r \in g :
          p # r /\ o[p] + o[r] = n[p] + n[r] /\ \A u \in g : u # p /\ u # r => n[u] = o[u]
    <2>1. t.payer \in g /\ t.recipient \in g /\ o[t.payer] \in Int /\ o[t.recipient] \in Int /\ t.amount \in Int
        BY DEF NextFrom
    <2>2. n[t.payer] = o[t.payer] + t.amount /\ n[t.recipient] = o[t.recipient] - t.amount /\ t.payer # t.recipient
          /\ \A u \in g : u # t.payer /\ u # t.recipient => n[u] = o[u]
        BY DEF NextFrom
    <2>3. n[t.payer] + n[t.recipient] = o[t.payer] + o[t.recipient]
        BY <2>1, <2>2
    <2> QED BY <2>1, <2>2, <2>3
<1>2. \A u \in g : o[u] \in Int /\ n[u] \in Int
    OBVIOUS
<1>3. SumFunctionOnSet(o, g) = SumFunctionOnSet(n, g)
    <2>1. IsFiniteSet(g)
        BY DEF Plain
    <2> QED BY <1>1, <1>2, <2>1, SumKept
<1> QED BY <1>3 DEF Level

Settled(g, o) == \A u \in g : o[u] + Out(Matched(g, o), u) - In(Matched(g, o), u) = 0

\* The plan of a level group settles it.
LEMMA MatchedSettles ==
    ASSUME NEW g, Plain(g), NEW o \in [g -> Int], Level(g, o)
    PROVE  Settled(g, o)
<1> DEFINE Good == {x \in [g -> Int] : Level(g, x) => Settled(g, x)}
<1>1. ASSUME NEW x \in [g -> Int], Done(x), Matched(g, x) = {}
      PROVE  x \in Good
    <2>1. ASSUME Level(g, x) PROVE Settled(g, x)
        <3>1. Items(x) = {}
            BY <1>1, <2>1, LevelDone DEF Plain
        <3>2. \A u \in g : x[u] = 0
            BY <3>1 DEF Items
        <3> QED BY <1>1, <3>2, OutOfNone DEF Settled
    <2> QED BY <2>1
<1>2. ASSUME NEW x \in [g -> Int], NEW n \in [g -> Int], NEW t, ~Done(x), MatchStep(g, x, t, n), n \in Good
      PROVE  x \in Good
    <2>1. ASSUME Level(g, x) PROVE Settled(g, x)
        <3> DEFINE P == Matched(g, n)
        <3>1. NextFrom(g, x, t, n) /\ Matched(g, x) = {t} \cup P
            BY <1>2 DEF MatchStep
        <3>2. Settled(g, n)
            BY <1>2, <2>1, <3>1, StepKeepsLevel
        <3>3. t \notin P
            BY <1>2, MatchedOnce
        <3>4. IsFiniteSet(P) /\ \A s \in P : s.amount \in Int
            BY MatchedTransfers DEF IsTransfer
        <3>5. t.amount \in Int
            BY <3>1 DEF NextFrom
        <3> HIDE DEF P
        <3>6. ASSUME NEW u \in g
              PROVE  x[u] + Out({t} \cup P, u) - In({t} \cup P, u) = 0
            <4> DEFINE a == Out(P, u)
                       b == In(P, u)
            <4>1. /\ Out({t} \cup P, u) = a + (IF t.payer = u THEN t.amount ELSE 0)
                  /\ In({t} \cup P, u) = b + (IF t.recipient = u THEN t.amount ELSE 0)
                  /\ a \in Int /\ b \in Int
                BY <3>3, <3>4, <3>5, OneMore
            <4>2. n[u] + a - b = 0
                BY <3>2 DEF Settled, P
            <4>3. /\ n[u] = x[u] + (IF t.payer = u THEN t.amount ELSE 0) - (IF t.recipient = u THEN t.amount ELSE 0)
                  /\ x[u] \in Int /\ n[u] \in Int
                BY <3>1, <3>5 DEF NextFrom
            <4> HIDE DEF a, b
            <4> QED BY <3>5, <4>1, <4>2, <4>3
        <3> QED BY <3>1, <3>6 DEF Settled
    <2> QED BY <2>1
<1>3. o \in Good
    <2> HIDE DEF Good
    <2> QED BY <1>1, <1>2, MatchInduction
<1> QED BY <1>3

----------------------------------------------------------------------------
(* A group of which no part settles on its own *)

Minimal(o) == \A Z \in SUBSET Items(o) : Z # {} /\ SumFunctionOnSet(o, Z) = 0 => Z = Items(o)

\* A transfer that settles both people is the last one.
LEMMA LastTransfer ==
    ASSUME NEW g, Plain(g), NEW o \in [g -> Int], NEW t, NEW n, NextFrom(g, o, t, n), Minimal(o),
           t.payer \notin Items(n), t.recipient \notin Items(n)
    PROVE  Items(o) = {t.payer, t.recipient} /\ Items(n) = {} /\ t.payer # t.recipient
<1> DEFINE p == t.payer
           r == t.recipient
<1>1. /\ p \in g /\ r \in g /\ p # r /\ o[p] \in Int /\ o[r] \in Int /\ t.amount \in Int
      /\ n[p] = o[p] + t.amount /\ n[r] = o[r] - t.amount /\ n \in [g -> Int]
    BY DEF NextFrom
<1>2. n[p] = 0 /\ n[r] = 0
    BY <1>1 DEF Items
<1>3. o[p] + o[r] = 0
    BY <1>1, <1>2
<1>4. p \in Items(o) /\ r \in Items(o) /\ Items(o) \ Items(n) \subseteq {p, r} /\ Items(n) \subseteq Items(o)
    BY NextLeaves
<1> HIDE DEF p, r
<1>5. SumFunctionOnSet(o, {p, r}) = 0
    <2> DEFINE Z == {p, r}
               Y == Z \ {p}
               X == Y \ {r}
    <2>1. Z = {p} \cup {r} /\ p \in Z /\ r \in Y /\ X = {} /\ Y \in SUBSET Z
        BY <1>1
    <2>2. IsFiniteSet(Z) /\ IsFiniteSet(Y)
        <3>1. IsFiniteSet({p})
            BY FS_Singleton
        <3>2. IsFiniteSet(Z)
            BY <2>1, <3>1, FS_AddElement
        <3> QED BY <2>1, <3>2, FS_Subset
    <2>3. (\A u \in Z : o[u] \in Int) /\ \A u \in Y : o[u] \in Int
        BY <1>1
    <2> HIDE DEF Z
    <2>4. SumFunctionOnSet(o, Z) = o[p] + SumFunctionOnSet(o, Y)
        BY <2>1, <2>2, <2>3, SumTakes
    <2> HIDE DEF Y
    <2>5. SumFunctionOnSet(o, Y) = o[r] + SumFunctionOnSet(o, X)
        BY <2>1, <2>2, <2>3, SumTakes
    <2>6. SumFunctionOnSet(o, X) = 0
        BY <2>1, SumOfNone, Zenon
    <2>7. SumFunctionOnSet(o, Z) = 0
        BY <1>1, <1>3, <2>4, <2>5, <2>6
    <2> QED BY <2>7 DEF Z
<1>6. {p, r} = Items(o)
    BY <1>4, <1>5 DEF Minimal
<1>7. p \notin Items(n) /\ r \notin Items(n)
    BY DEF p, r
<1>8. Items(n) = {}
    BY <1>4, <1>6, <1>7
<1> QED BY <1>1, <1>6, <1>8 DEF p, r

\* x is settled by the transfer, y takes over what is left.
LEMMA MinimalKept ==
    ASSUME NEW g, IsFiniteSet(g), NEW o \in [g -> Int], NEW n \in [g -> Int], Minimal(o),
           NEW x \in g, NEW y \in g, x # y, n[x] = 0, o[x] # 0, n[y] # 0, o[y] # 0,
           o[x] + o[y] = n[x] + n[y], \A u \in g : u # x /\ u # y => n[u] = o[u]
    PROVE  Minimal(n) /\ Items(n) = Items(o) \ {x} /\ x \in Items(o) /\ y \in Items(n)
<1>1. Items(n) = Items(o) \ {x} /\ x \in Items(o) /\ y \in Items(n)
    BY DEF Items
<1>2. ASSUME NEW Z \in SUBSET Items(n), Z # {}, SumFunctionOnSet(n, Z) = 0
      PROVE  Z = Items(n)
    <2>0. Z \subseteq g /\ x \notin Z /\ Z \in SUBSET Items(o)
        BY <1>1 DEF Items
    <2>1. \A u \in Z : o[u] \in Int /\ n[u] \in Int
        BY <2>0
    <2>2. IsFiniteSet(Z)
        BY <2>0, FS_Subset
    <2>3. CASE y \notin Z
        <3>1. \A u \in Z : o[u] = n[u]
            BY <2>0, <2>3
        <3>2. SumFunctionOnSet(o, Z) = SumFunctionOnSet(n, Z)
            BY <2>2, <3>1, SumsSame
        <3>3. SumFunctionOnSet(o, Z) = 0
            BY <1>2, <3>2
        <3>4. Z = Items(o)
            BY <1>2, <2>0, <3>3 DEF Minimal
        <3> QED BY <1>1, <2>0, <3>4
    <2>4. CASE y \in Z
        <3> DEFINE W == Z \cup {x}
        <3>1. /\ x \in W /\ y \in W /\ W \ {x} = Z
              /\ (\A u \in W : u # x /\ u # y => n[u] = o[u])
              /\ (\A u \in W : o[u] \in Int /\ n[u] \in Int)
            BY <2>0, <2>1, <2>4
        <3>2. IsFiniteSet(W)
            BY <2>2, FS_AddElement
        <3>3. W \in SUBSET Items(o) /\ W # {}
            BY <1>1, <2>0
        <3> HIDE DEF W
        <3>4. SumFunctionOnSet(o, W) = SumFunctionOnSet(n, W)
            BY <3>1, <3>2, SumKept
        <3>5. SumFunctionOnSet(n, W) = n[x] + SumFunctionOnSet(n, Z)
            <4>1. SumFunctionOnSet(n, W) = n[x] + SumFunctionOnSet(n, W \ {x})
                BY <3>1, <3>2, SumTakes
            <4> QED BY <3>1, <4>1, Zenon
        <3>6. SumFunctionOnSet(o, W) = 0
            BY <1>2, <3>4, <3>5
        <3>7. W = Items(o)
            BY <3>3, <3>6 DEF Minimal
        <3> QED BY <1>1, <3>1, <3>7
    <2> QED BY <2>3, <2>4
<1> QED BY <1>1, <1>2 DEF Minimal

\* As many transfers as people, less one.
OneLess(g, o) == Cardinality(Matched(g, o)) = Cardinality(Items(o)) - 1

\* Two people are two.
LEMMA TwoAreTwo == \A a, b : a # b => Cardinality({a, b}) = 2
<1> SUFFICES ASSUME NEW a, NEW b, a # b PROVE Cardinality({a, b}) = 2
    OBVIOUS
<1> DEFINE A == {a}
           B == A \cup {b}
<1>1. IsFiniteSet(A) /\ Cardinality(A) = 1 /\ b \notin A /\ B = {a, b}
    BY FS_Singleton
<1> HIDE DEF A
<1>2. Cardinality(A \cup {b}) = Cardinality(A) + 1
    BY <1>1, FS_AddElement
<1> QED BY <1>1, <1>2

\* A group no part of which settles on its own takes one transfer less than it
\* has people.
LEMMA MatchedCount ==
    ASSUME NEW g, Plain(g), NEW o \in [g -> Int], Level(g, o), Minimal(o), Items(o) # {}
    PROVE  OneLess(g, o)
<1> DEFINE Good == {x \in [g -> Int] : Level(g, x) /\ Minimal(x) /\ Items(x) # {} => OneLess(g, x)}
<1>1. ASSUME NEW x \in [g -> Int], Done(x), Matched(g, x) = {}
      PROVE  x \in Good
    BY <1>1, LevelDone DEF Plain
<1>2. ASSUME NEW x \in [g -> Int], NEW n \in [g -> Int], NEW t, ~Done(x), MatchStep(g, x, t, n), n \in Good
      PROVE  x \in Good
    <2>1. ASSUME Level(g, x), Minimal(x), Items(x) # {} PROVE OneLess(g, x)
        <3> DEFINE p == t.payer
                   r == t.recipient
                   P == Matched(g, n)
        <3>1. NextFrom(g, x, t, n) /\ Matched(g, x) = P \cup {t}
            BY <1>2 DEF MatchStep
        <3>2. Level(g, n)
            BY <2>1, <3>1, StepKeepsLevel
        <3>3. t \notin P
            BY <1>2, MatchedOnce
        <3>4. IsFiniteSet(P)
            BY MatchedTransfers
        <3>5. Cardinality(Matched(g, x)) = Cardinality(P) + 1
            <4> HIDE DEF P
            <4>1. Cardinality(P \cup {t}) = Cardinality(P) + 1
                BY <3>3, <3>4, FS_AddElement
            <4> QED BY <3>1, <4>1, Zenon
        <3>6. IsFiniteSet(Items(x)) /\ IsFiniteSet(g)
            <4>1. Items(x) \subseteq g
                BY DEF Items
            <4>2. IsFiniteSet(g)
                BY DEF Plain
            <4> QED BY <4>1, <4>2, FS_Subset
        <3>7. CASE p \notin Items(n) /\ r \notin Items(n)
            <4>1. Items(x) = {p, r} /\ Items(n) = {} /\ p # r
                BY <2>1, <3>1, <3>7, LastTransfer
            <4>2. Cardinality(Items(x)) = 2
                <5> HIDE DEF p, r
                <5> QED BY <4>1, TwoAreTwo, Zenon
            <4>3. Done(n)
                BY <4>1 DEF Done, Items, Debtors
            <4>4. P = {}
                BY <4>3, MatchedIs DEF Plain
            <4>5. Cardinality(P) = 0
                BY <4>4, FS_EmptySet, Zenon
            <4> QED BY <3>5, <4>2, <4>5 DEF OneLess
        <3>8. CASE p \in Items(n) \/ r \in Items(n)
            <4>1. PICK a \in g, b \in g :
                      /\ a # b /\ n[a] = 0 /\ n[b] # 0 /\ x[a] # 0 /\ x[b] # 0
                      /\ x[a] + x[b] = n[a] + n[b] /\ \A u \in g : u # a /\ u # b => n[u] = x[u]
                <5>1. /\ p \in g /\ r \in g /\ p # r /\ x[p] \in Int /\ x[r] \in Int /\ t.amount \in Int
                      /\ n[p] = x[p] + t.amount /\ n[r] = x[r] - t.amount
                      /\ (\A u \in g : u # p /\ u # r => n[u] = x[u])
                      /\ x[p] < 0 /\ x[r] > 0
                    BY <3>1 DEF NextFrom
                <5>2. t.amount = -x[p] \/ t.amount = x[r]
                    BY <3>1 DEF NextFrom
                <5>3. n[p] # 0 \/ n[r] # 0
                    BY <3>8 DEF Items
                <5> HIDE DEF p, r
                <5>4. n[p] + n[r] = x[p] + x[r] /\ n[r] + n[p] = x[r] + x[p] /\ x[p] # 0 /\ x[r] # 0
                    BY <5>1
                <5>5. n[p] = 0 \/ n[r] = 0
                    BY <5>1, <5>2
                <5> QED BY <5>1, <5>3, <5>4, <5>5
            <4>2. Minimal(n) /\ Items(n) = Items(x) \ {a} /\ a \in Items(x) /\ b \in Items(n)
                BY <2>1, <3>6, <4>1, MinimalKept
            <4>3. OneLess(g, n)
                BY <1>2, <3>2, <4>2
            <4>4. Cardinality(Items(n)) = Cardinality(Items(x)) - 1
                <5>1. Cardinality(Items(x) \ {a}) = Cardinality(Items(x)) - 1
                    BY <3>6, <4>2, FS_RemoveElement
                <5> QED BY <4>2, <5>1, Zenon
            <4>5. Cardinality(Items(x)) \in Int /\ Cardinality(P) = Cardinality(Items(n)) - 1
                BY <3>6, <4>3, FS_CardinalityType DEF OneLess
            <4> HIDE DEF P
            <4> QED BY <3>5, <4>4, <4>5 DEF OneLess
        <3> QED BY <3>7, <3>8
    <2> QED BY <2>1
<1>3. o \in Good
    <2> HIDE DEF Good
    <2> QED BY <1>1, <1>2, MatchInduction
<1> QED BY <1>3

----------------------------------------------------------------------------
\* A sum in two parts.
LEMMA SumParts ==
    ASSUME NEW f, NEW S, IsFiniteSet(S), \A x \in S : f[x] \in Int, NEW R \in SUBSET S
    PROVE  SumFunctionOnSet(f, S) = SumFunctionOnSet(f, R) + SumFunctionOnSet(f, S \ R)
<1> DEFINE h == [x \in S |-> IF x \in R THEN f[x] ELSE 0]
           k == [x \in S |-> IF x \in R THEN 0 ELSE f[x]]
           Q == S \ R
<1>1. /\ \A x \in S : h[x] \in Int /\ k[x] \in Int /\ f[x] = h[x] + k[x]
      /\ (\A x \in R : h[x] = f[x]) /\ (\A x \in S \ R : h[x] = 0)
      /\ (\A x \in Q : k[x] = f[x]) /\ (\A x \in S \ Q : k[x] = 0)
      /\ R \in SUBSET S /\ Q \in SUBSET S
    OBVIOUS
<1>2. IsFiniteSet(R) /\ IsFiniteSet(Q)
    BY <1>1, FS_Subset
<1> HIDE DEF h, k, Q
<1>3. SumFunctionOnSet(f, S) = SumFunctionOnSet(h, S) + SumFunctionOnSet(k, S)
    BY <1>1, SumsAdd
<1>4. SumFunctionOnSet(h, S) = SumFunctionOnSet(h, R)
    BY <1>1, SumDrops
<1>5. SumFunctionOnSet(k, S) = SumFunctionOnSet(k, Q)
    BY <1>1, SumDrops
<1>6. SumFunctionOnSet(h, R) = SumFunctionOnSet(f, R)
    BY <1>1, <1>2, SumsSame
<1>7. SumFunctionOnSet(k, Q) = SumFunctionOnSet(f, Q)
    BY <1>1, <1>2, SumsSame
<1>8. SumFunctionOnSet(f, S) = SumFunctionOnSet(f, R) + SumFunctionOnSet(f, Q)
    BY <1>3, <1>4, <1>5, <1>6, <1>7
<1> QED BY <1>8 DEF Q

(* The recursion of the partition *)

Firsts(f, rest) == {g \in SUBSET rest : Min(rest) \in g /\ ZeroSum(f, g)}
Chances(f, rest, b) == {{g} \cup b[rest \ g] : g \in Firsts(f, rest)}
Largest(C) == CHOOSE p \in C : \A q \in C : Cardinality(q) <= Cardinality(p)
BestFrom(f, rest, b) ==
    IF rest = {} THEN {}
    ELSE IF Firsts(f, rest) = {} THEN {rest}
    ELSE Largest(Chances(f, rest, b))

IsBest(b, f, S) == b = [rest \in SUBSET S |-> BestFrom(f, rest, b)]

\* The partition by the function its definition chooses.
LEMMA BestByChoice ==
    ASSUME NEW f, NEW S
    PROVE  MaxZeroSumPartition(f, S) = (CHOOSE b : IsBest(b, f, S))[S]
BY Zenon DEF MaxZeroSumPartition, IsBest, BestFrom, Firsts, Chances, Largest

\* Each value of such a function from smaller ones.
LEMMA BestUnfolds ==
    ASSUME NEW b, NEW f, NEW S, IsBest(b, f, S), NEW T \in SUBSET S
    PROVE  b[T] = BestFrom(f, T, b)
BY Zenon DEF IsBest

\* A group with the first of the rest leaves less to partition.
LEMMA FirstsLeaveLess ==
    ASSUME NEW f, NEW T, Plain(T), T # {}, NEW h \in Firsts(f, T)
    PROVE  T \ h \in SUBSET T /\ T \ h # T /\ h \in SUBSET T /\ h # {} /\ Min(T) \in h
<1>1. Min(T) \in T
    BY MinIsLeast DEF Plain
<1> QED BY <1>1 DEF Firsts

\* What is best for a set depends only on what is best for smaller ones.
LEMMA BestFromAgrees ==
    ASSUME NEW f, NEW T, Plain(T), NEW b, NEW c,
           \A U \in SUBSET T : U # T => b[U] = c[U]
    PROVE  BestFrom(f, T, b) = BestFrom(f, T, c)
<1>1. CASE T = {}
    BY <1>1 DEF BestFrom
<1>2. CASE T # {}
    <2>1. \A h \in Firsts(f, T) : b[T \ h] = c[T \ h]
        BY <1>2, FirstsLeaveLess
    <2>2. Chances(f, T, b) = Chances(f, T, c)
        BY <2>1 DEF Chances
    <2> QED BY <2>2, Zenon DEF BestFrom
<1> QED BY <1>1, <1>2

\* Two such functions agree on what both of them partition.
LEMMA BestsAgree ==
    ASSUME NEW f, NEW A, NEW B, NEW b, NEW c, IsBest(b, f, A), IsBest(c, f, B),
           NEW S, S \subseteq A, S \subseteq B, Plain(S)
    PROVE  b[S] = c[S]
<1> DEFINE G == {T \in SUBSET S : b[T] = c[T]}
<1>1. ASSUME NEW T \in SUBSET S, \A U \in SUBSET T : U # T => U \in G
      PROVE  T \in G
    <2>1. \A U \in SUBSET T : U # T => b[U] = c[U]
        BY <1>1
    <2>2. Plain(T)
        BY FS_Subset DEF Plain
    <2>3. T \in SUBSET A /\ T \in SUBSET B
        OBVIOUS
    <2>4. b[T] = BestFrom(f, T, b) /\ c[T] = BestFrom(f, T, c)
        BY <2>3, BestUnfolds
    <2>5. BestFrom(f, T, b) = BestFrom(f, T, c)
        BY <2>1, <2>2, BestFromAgrees
    <2> QED BY <2>4, <2>5
<1>2. S \in G
    <2>1. IsFiniteSet(S)
        BY DEF Plain
    <2> HIDE DEF G
    <2> QED BY <1>1, <2>1, SubsetsInduction
<1> QED BY <1>2

\* There is such a function for every finite set of numbers.
LEMMA BestExists ==
    ASSUME NEW f, NEW S, Plain(S)
    PROVE  \E b : IsBest(b, f, S)
<1> DEFINE G == {T \in SUBSET S : \E b : IsBest(b, f, T)}
<1>1. ASSUME NEW T \in SUBSET S, \A U \in SUBSET T : U # T => U \in G
      PROVE  T \in G
    <2> DEFINE Chosen(U) == CHOOSE b : IsBest(b, f, U)
               c == [U \in SUBSET T |-> Chosen(U)[U]]
               b == [U \in SUBSET T |-> BestFrom(f, U, c)]
    <2>1. \A U \in SUBSET T : U # T => IsBest(Chosen(U), f, U)
        BY <1>1
    <2>2. \A U \in SUBSET T : Plain(U)
        BY FS_Subset DEF Plain
    <2>3. \A U \in SUBSET T : c[U] = Chosen(U)[U] /\ b[U] = BestFrom(f, U, c)
        <3> HIDE DEF Chosen
        <3> QED OBVIOUS
    <2>4. b = [U \in SUBSET T |-> b[U]]
        <3> HIDE DEF c
        <3> QED OBVIOUS
    <2> HIDE DEF Chosen, c, b
    <2>5. ASSUME NEW U \in SUBSET T, U # T PROVE b[U] = c[U]
        <3> DEFINE e == Chosen(U)
        <3>1. IsBest(e, f, U) /\ Plain(U)
            BY <2>1, <2>2, <2>5
        <3>2. ASSUME NEW W \in SUBSET U, W # U PROVE e[W] = c[W]
            <4> DEFINE d == Chosen(W)
            <4>1. W \in SUBSET T /\ W # T
                BY <3>2
            <4>2. IsBest(d, f, W) /\ Plain(W) /\ c[W] = d[W]
                BY <2>1, <2>2, <2>3, <4>1
            <4> HIDE DEF d, e
            <4>3. W \subseteq U /\ W \subseteq W
                OBVIOUS
            <4>4. e[W] = d[W]
                BY <3>1, <4>2, <4>3, BestsAgree
            <4> QED BY <4>2, <4>4
        <3> HIDE DEF e
        <3>3. BestFrom(f, U, e) = BestFrom(f, U, c)
            BY <3>1, <3>2, BestFromAgrees
        <3>4. U \in SUBSET U
            OBVIOUS
        <3>5. e[U] = BestFrom(f, U, e)
            BY <3>1, <3>4, BestUnfolds
        <3>6. c[U] = e[U]
            BY <2>3 DEF e
        <3>7. b[U] = BestFrom(f, U, c)
            BY <2>3
        <3> QED BY <3>3, <3>5, <3>6, <3>7
    <2>6. ASSUME NEW U \in SUBSET T
          PROVE  b[U] = BestFrom(f, U, b)
        <3>1. \A W \in SUBSET U : W # U => b[W] = c[W]
            BY <2>5
        <3>2. BestFrom(f, U, b) = BestFrom(f, U, c)
            BY <2>2, <3>1, BestFromAgrees
        <3> QED BY <2>3, <3>2
    <2>7. IsBest(b, f, T)
        BY <2>4, <2>6, Zenon DEF IsBest
    <2> QED BY <2>7, Zenon
<1>2. S \in G
    <2>1. IsFiniteSet(S)
        BY DEF Plain
    <2> HIDE DEF G
    <2> QED BY <1>1, <2>1, SubsetsInduction
<1> QED BY <1>2

\* The partition is the value of such a function.
LEMMA BestIs ==
    ASSUME NEW f, NEW S, Plain(S)
    PROVE  \E b : IsBest(b, f, S) /\ MaxZeroSumPartition(f, S) = b[S]
BY BestExists, BestByChoice, Zenon

----------------------------------------------------------------------------
(* Groups that settle among themselves *)

Grouping(P, f, T) ==
    /\ \A h \in P : h \subseteq T /\ h # {} /\ ZeroSum(f, h)
    /\ \A h, k \in P : h # k => h \cap k = {}
    /\ \A x \in T : \E h \in P : x \in h

\* A grouping of a finite set is finite.
LEMMA GroupingIsFinite ==
    ASSUME NEW P, NEW f, NEW T, IsFiniteSet(T), Grouping(P, f, T)
    PROVE  IsFiniteSet(P) /\ Cardinality(P) \in Nat
<1>1. P \in SUBSET SUBSET T
    BY DEF Grouping
<1>2. IsFiniteSet(SUBSET T)
    BY FS_SUBSET
<1>3. IsFiniteSet(P)
    BY <1>1, <1>2, FS_Subset
<1> QED BY <1>3, FS_CardinalityType

\* A level group beside a grouping of the others makes a grouping of all.
LEMMA AddGroup ==
    ASSUME NEW P, NEW f, NEW T, IsFiniteSet(T), NEW h, h \subseteq T, h # {}, ZeroSum(f, h),
           Grouping(P, f, T \ h)
    PROVE  Grouping({h} \cup P, f, T) /\ Cardinality({h} \cup P) = Cardinality(P) + 1
<1>1. h \notin P
    BY DEF Grouping
<1>2. IsFiniteSet(T \ h)
    BY FS_Subset
<1>3. IsFiniteSet(P)
    BY <1>2, GroupingIsFinite
<1>4. Cardinality(P \cup {h}) = Cardinality(P) + 1
    BY <1>1, <1>3, FS_AddElement
<1>5. P \cup {h} = {h} \cup P
    OBVIOUS
<1>6. Grouping({h} \cup P, f, T)
    BY DEF Grouping
<1> QED BY <1>4, <1>5, <1>6, Zenon

\* A grouping without one of its groups is a grouping of the others.
LEMMA DropGroup ==
    ASSUME NEW P, NEW f, NEW T, IsFiniteSet(T), NEW h \in P, Grouping(P, f, T)
    PROVE  /\ Grouping(P \ {h}, f, T \ h) /\ Cardinality(P \ {h}) = Cardinality(P) - 1
           /\ h \subseteq T /\ h # {} /\ ZeroSum(f, h)
<1>1. IsFiniteSet(P)
    BY GroupingIsFinite
<1>2. Cardinality(P \ {h}) = Cardinality(P) - 1
    BY <1>1, FS_RemoveElement
<1>3. \A k \in P \ {h} : k \cap h = {}
    BY DEF Grouping
<1>4. Grouping(P \ {h}, f, T \ h)
    BY <1>3 DEF Grouping
<1> QED BY <1>2, <1>4 DEF Grouping

Greatest(P, f, T) == Grouping(P, f, T) /\ \A Q : Grouping(Q, f, T) => Cardinality(Q) <= Cardinality(P)

\* One of finitely many sets is the largest.
LEMMA LargestIs ==
    ASSUME NEW C, IsFiniteSet(C), C # {}, \A p \in C : Cardinality(p) \in Nat
    PROVE  Largest(C) \in C /\ \A q \in C : Cardinality(q) <= Cardinality(Largest(C))
<1> DEFINE R == {Cardinality(p) : p \in C}
           size == [p \in C |-> Cardinality(p)]
<1>1. size \in Surjection(C, R)
    <2>1. size \in [C -> R] /\ \A r \in R : \E p \in C : size[p] = r
        OBVIOUS
    <2> HIDE DEF size, R
    <2> QED BY <2>1 DEF Surjection
<1>2. R \subseteq Int /\ R # {}
    OBVIOUS
<1>3. IsFiniteSet(R)
    <2> HIDE DEF size, R
    <2> QED BY <1>1, FS_Surjection
<1>4. Max(R) \in R /\ \A y \in R : y <= Max(R)
    <2> HIDE DEF R
    <2> QED BY <1>2, <1>3, MaxIsGreatest
<1>5. PICK p \in C : Cardinality(p) = Max(R)
    BY <1>4
<1>6. \A q \in C : Cardinality(q) <= Cardinality(p)
    BY <1>4, <1>5
<1> QED BY <1>5, <1>6, Zenon DEF Largest

\* There are finitely many candidates to choose from.
LEMMA ChancesFinite ==
    ASSUME NEW f, NEW T, IsFiniteSet(T), NEW b
    PROVE  IsFiniteSet(Chances(f, T, b))
<1> DEFINE F == Firsts(f, T)
           C == Chances(f, T, b)
           c == [g \in F |-> {g} \cup b[T \ g]]
<1>1. F \in SUBSET SUBSET T
    BY DEF Firsts
<1>2. IsFiniteSet(F)
    <2> HIDE DEF F
    <2>1. IsFiniteSet(SUBSET T)
        BY FS_SUBSET
    <2> QED BY <1>1, <2>1, FS_Subset
<1>3. c \in [F -> C] /\ \A r \in C : \E g \in F : c[g] = r
    BY DEF Chances
<1>4. c \in Surjection(F, C)
    <2> HIDE DEF c, C, F
    <2> QED BY <1>3 DEF Surjection
<1> HIDE DEF c, C, F
<1>5. IsFiniteSet(C)
    BY <1>2, <1>4, FS_Surjection
<1> QED BY <1>5 DEF C

\* The recursion finds a largest grouping.
LEMMA BestIsGreatest ==
    ASSUME NEW S, Plain(S), NEW f, \A x \in S : f[x] \in Int, NEW b, IsBest(b, f, S), ZeroSum(f, S)
    PROVE  Greatest(b[S], f, S)
<1> DEFINE Holds(T) == ZeroSum(f, T) => Greatest(b[T], f, T)
           G == {T \in SUBSET S : Holds(T)}
<1>1. ASSUME NEW T \in SUBSET S, \A U \in SUBSET T : U # T => U \in G
      PROVE  T \in G
    <2>1. CASE T = {}
        <3>1. b[T] = {}
            <4>1. b[T] = BestFrom(f, T, b)
                BY BestUnfolds
            <4> QED BY <2>1, <4>1 DEF BestFrom
        <3>2. Grouping({}, f, T)
            BY <2>1 DEF Grouping
        <3>3. ASSUME NEW Q, Grouping(Q, f, T) PROVE Q = {}
            BY <2>1, <3>3 DEF Grouping
        <3>4. \A Q : Grouping(Q, f, T) => Cardinality(Q) = 0
            BY <3>3, FS_EmptySet
        <3>5. \A Q : Grouping(Q, f, T) => Cardinality(Q) <= Cardinality({})
            BY <3>4, FS_EmptySet
        <3> QED BY <3>1, <3>2, <3>5 DEF Greatest
    <2>2. CASE T # {}
        <3> SUFFICES ASSUME ZeroSum(f, T) PROVE Greatest(b[T], f, T)
            OBVIOUS
        <3> DEFINE F == Firsts(f, T)
                   C == Chances(f, T, b)
        <3>1. Plain(T) /\ IsFiniteSet(T) /\ \A x \in T : f[x] \in Int
            BY FS_Subset DEF Plain
        <3>2. T \in F
            <4>1. Min(T) \in T
                BY <2>2, <3>1, MinIsLeast DEF Plain
            <4> QED BY <4>1 DEF Firsts
        <3>3. ASSUME NEW h \in F
              PROVE  /\ h \subseteq T /\ h # {} /\ ZeroSum(f, h) /\ Min(T) \in h
                     /\ Greatest(b[T \ h], f, T \ h)
            <4>1. T \ h \in SUBSET T /\ T \ h # T /\ h \in SUBSET T /\ h # {} /\ Min(T) \in h
                BY <2>2, <3>1, FirstsLeaveLess
            <4>2. ZeroSum(f, h)
                BY DEF Firsts
            <4>3. SumFunctionOnSet(f, T) = SumFunctionOnSet(f, h) + SumFunctionOnSet(f, T \ h)
                BY <3>1, <4>1, SumParts
            <4>4. SumFunctionOnSet(f, T \ h) \in Int
                <5>1. IsFiniteSet(T \ h) /\ \A x \in T \ h : f[x] \in Int
                    BY <3>1, FS_Subset
                <5> QED BY <5>1, SumIsInt
            <4>5. ZeroSum(f, T \ h)
                BY <4>2, <4>3, <4>4 DEF ZeroSum
            <4>6. Holds(T \ h)
                BY <1>1, <4>1
            <4> QED BY <4>1, <4>2, <4>5, <4>6
        <3>4. ASSUME NEW h \in F
              PROVE  /\ Grouping({h} \cup b[T \ h], f, T)
                     /\ Cardinality({h} \cup b[T \ h]) = Cardinality(b[T \ h]) + 1
            BY <3>1, <3>3, AddGroup DEF Greatest
        <3>5. \A p \in C : Grouping(p, f, T) /\ Cardinality(p) \in Nat
            BY <3>1, <3>4, GroupingIsFinite DEF Chances
        <3>6. C # {} /\ IsFiniteSet(C)
            <4>1. {T} \cup b[T \ T] \in C
                BY <3>2 DEF Chances
            <4>2. IsFiniteSet(Chances(f, T, b))
                BY <3>1, ChancesFinite
            <4> QED BY <4>1, <4>2
        <3>7. b[T] = Largest(C)
            <4>1. b[T] = BestFrom(f, T, b)
                BY BestUnfolds
            <4>2. Firsts(f, T) # {}
                BY <3>2
            <4>3. BestFrom(f, T, b) = Largest(Chances(f, T, b))
                <5> HIDE DEF C, F
                <5> QED BY ONLY <2>2, <4>2, Zenon DEF BestFrom
            <4> QED BY <4>1, <4>3
        <3> HIDE DEF C
        <3>8. b[T] \in C /\ \A q \in C : Cardinality(q) <= Cardinality(b[T])
            BY <3>5, <3>6, <3>7, LargestIs
        <3>9. ASSUME NEW Q, Grouping(Q, f, T) PROVE Cardinality(Q) <= Cardinality(b[T])
            <4>1. Min(T) \in T
                BY <2>2, <3>1, MinIsLeast DEF Plain
            <4>2. PICK h \in Q : Min(T) \in h
                BY <3>9, <4>1 DEF Grouping
            <4>3. /\ Grouping(Q \ {h}, f, T \ h) /\ Cardinality(Q \ {h}) = Cardinality(Q) - 1
                  /\ h \subseteq T /\ h # {} /\ ZeroSum(f, h)
                BY <3>1, <3>9, DropGroup
            <4>4. h \in F
                BY <4>2, <4>3 DEF Firsts
            <4> HIDE DEF F
            <4>5. Cardinality(Q \ {h}) <= Cardinality(b[T \ h])
                BY <3>3, <4>3, <4>4 DEF Greatest
            <4>6. {h} \cup b[T \ h] \in C /\ Cardinality({h} \cup b[T \ h]) = Cardinality(b[T \ h]) + 1
                BY <3>4, <4>4 DEF C, Chances, F
            <4>7. Cardinality(b[T \ h]) + 1 <= Cardinality(b[T])
                BY <3>8, <4>6
            <4>8. /\ Cardinality(Q) \in Nat /\ Cardinality(b[T]) \in Nat /\ Cardinality(b[T \ h]) \in Nat
                <5>1. IsFiniteSet(T \ h)
                    BY <3>1, FS_Subset
                <5>2. Grouping(b[T \ h], f, T \ h)
                    BY <3>3, <4>4 DEF Greatest
                <5>3. Cardinality(b[T \ h]) \in Nat
                    BY <5>1, <5>2, GroupingIsFinite
                <5> QED BY <3>1, <3>5, <3>8, <3>9, <5>3, GroupingIsFinite
            <4> DEFINE i == Cardinality(Q)
                       j == Cardinality(Q \ {h})
                       k == Cardinality(b[T \ h])
                       l == Cardinality(b[T])
            <4>9. j = i - 1 /\ j <= k /\ k + 1 <= l /\ i \in Nat /\ k \in Nat /\ l \in Nat
                BY <4>3, <4>5, <4>7, <4>8
            <4> HIDE DEF i, j, k, l
            <4>10. i <= l
                BY <4>9
            <4> QED BY <4>10 DEF i, l
        <3> QED BY <3>5, <3>8, <3>9 DEF Greatest
    <2> QED BY <2>1, <2>2
<1>2. S \in G
    <2>1. IsFiniteSet(S)
        BY DEF Plain
    <2> HIDE DEF G
    <2> QED BY <1>1, <2>1, SubsetsInduction
<1> QED BY <1>2

\* No part of a group of a largest grouping settles on its own.
LEMMA GreatestIsMinimal ==
    ASSUME NEW T, IsFiniteSet(T), NEW f, \A x \in T : f[x] \in Int,
           NEW P, Greatest(P, f, T), NEW h \in P, NEW Z, Z \subseteq h, Z # {}, ZeroSum(f, Z)
    PROVE  Z = h
<1> SUFFICES ASSUME Z # h PROVE FALSE
    OBVIOUS
<1> DEFINE Y == h \ Z
           P1 == P \ {h}
           P2 == {Y} \cup P1
           P3 == {Z} \cup P2
<1>1. /\ Grouping(P1, f, T \ h) /\ Cardinality(P1) = Cardinality(P) - 1
      /\ h \subseteq T /\ ZeroSum(f, h)
    BY DropGroup DEF Greatest
<1>2. Y # {} /\ Y \subseteq T \ Z /\ (T \ Z) \ Y = T \ h /\ Z \subseteq T
    BY <1>1
<1>3. ZeroSum(f, Y)
    <2>1. IsFiniteSet(h) /\ \A x \in h : f[x] \in Int
        BY <1>1, FS_Subset
    <2>2. SumFunctionOnSet(f, h) = SumFunctionOnSet(f, Z) + SumFunctionOnSet(f, Y)
        BY <2>1, SumParts
    <2>3. IsFiniteSet(Y) /\ \A x \in Y : f[x] \in Int
        BY <2>1, FS_Subset
    <2> HIDE DEF Y
    <2>4. SumFunctionOnSet(f, Y) \in Int
        BY <2>3, SumIsInt
    <2> QED BY <1>1, <2>2, <2>4 DEF ZeroSum
<1>4. IsFiniteSet(T \ Z)
    BY FS_Subset
<1> HIDE DEF P1, P2, P3, Y
<1>5. Grouping(P2, f, T \ Z) /\ Cardinality(P2) = Cardinality(P1) + 1
    <2>1. Grouping(P1, f, (T \ Z) \ Y)
        BY <1>1, <1>2
    <2> DEFINE S == T \ Z
    <2> HIDE DEF S
    <2>2. Grouping({Y} \cup P1, f, S) /\ Cardinality({Y} \cup P1) = Cardinality(P1) + 1
        BY <1>2, <1>3, <1>4, <2>1, AddGroup DEF S
    <2> QED BY <2>2 DEF P2, S
<1>6. Grouping(P3, f, T) /\ Cardinality(P3) = Cardinality(P2) + 1
    BY <1>2, <1>5, AddGroup DEF P3
<1>7. Cardinality(P3) <= Cardinality(P)
    BY <1>6 DEF Greatest
<1>8. Cardinality(P) \in Nat
    BY GroupingIsFinite DEF Greatest
<1> QED BY <1>1, <1>5, <1>6, <1>7, <1>8

----------------------------------------------------------------------------
(* Counting transfers and groups *)

\* If each of disjoint groups takes one transfer less than its people, so do all
\* together, once per group.
LEMMA CountGroups ==
    ASSUME NEW P, IsFiniteSet(P), NEW m,
           \A h \in P : IsFiniteSet(h) /\ IsFiniteSet(m[h]) /\ Cardinality(m[h]) = Cardinality(h) - 1,
           \A h, k \in P : h # k => h \cap k = {} /\ m[h] \cap m[k] = {}
    PROVE  Cardinality(UNION {m[h] : h \in P}) = Cardinality(UNION P) - Cardinality(P)
<1> DEFINE M(Q) == UNION {m[h] : h \in Q}
           Counted(Q) == /\ IsFiniteSet(UNION Q) /\ IsFiniteSet(M(Q))
                         /\ Cardinality(M(Q)) = Cardinality(UNION Q) - Cardinality(Q)
           G == {Q \in SUBSET P : Counted(Q)}
<1>1. ASSUME NEW Q \in SUBSET P, \A R \in SUBSET Q : R # Q => R \in G
      PROVE  Q \in G
    <2>1. CASE Q = {}
        <3>1. UNION Q = {} /\ M(Q) = {}
            BY <2>1
        <3> HIDE DEF M
        <3>2. /\ IsFiniteSet(UNION Q) /\ IsFiniteSet(M(Q))
              /\ Cardinality(M(Q)) = 0 /\ Cardinality(UNION Q) = 0 /\ Cardinality(Q) = 0
            BY <2>1, <3>1, FS_EmptySet, Zenon
        <3> QED BY <3>2
    <2>2. CASE Q # {}
        <3>1. PICK h \in Q : TRUE
            BY <2>2
        <3> DEFINE R == Q \ {h}
                   A == UNION R
                   B == M(R)
        <3>2. Counted(R)
            <4>1. R \in SUBSET Q /\ R # Q
                BY <3>1
            <4> HIDE DEF Counted, R
            <4> QED BY <1>1, <4>1
        <3>3. /\ UNION Q = A \cup h /\ A \cap h = {}
              /\ M(Q) = B \cup m[h] /\ B \cap m[h] = {}
            <4>1. \A k \in R : k \cap h = {} /\ m[k] \cap m[h] = {}
                <5> TAKE k \in R
                <5>1. k \in P /\ h \in P /\ k # h
                    BY <3>1
                <5> QED BY <5>1
            <4>2. \A k \in Q : k \in R \/ k = h
                OBVIOUS
            <4>3. h \in Q /\ \A k \in R : k \in Q
                BY <3>1
            <4> HIDE DEF R
            <4>4. UNION Q = A \cup h
                BY <4>2, <4>3
            <4>5. M(Q) = B \cup m[h]
                BY <4>2, <4>3
            <4>6. A \cap h = {}
                BY <4>1
            <4>7. B \cap m[h] = {}
                BY <4>1
            <4> QED BY <4>4, <4>5, <4>6, <4>7
        <3>4. IsFiniteSet(Q)
            BY FS_Subset
        <3>5. Cardinality(R) = Cardinality(Q) - 1 /\ Cardinality(Q) \in Nat
            BY <3>1, <3>4, FS_RemoveElement, FS_CardinalityType
        <3>6. IsFiniteSet(h) /\ IsFiniteSet(m[h]) /\ Cardinality(m[h]) = Cardinality(h) - 1
            BY <3>1
        <3> DEFINE S == m[h]
        <3>7. IsFiniteSet(A) /\ IsFiniteSet(B) /\ Cardinality(B) = Cardinality(A) - Cardinality(R)
            BY <3>2
        <3> HIDE DEF A, B, S, R
        <3>8. IsFiniteSet(A \cup h) /\ Cardinality(A \cup h) = Cardinality(A) + Cardinality(h) - Cardinality(A \cap h)
            BY <3>6, <3>7, FS_Union
        <3>9. IsFiniteSet(B \cup S) /\ Cardinality(B \cup S) = Cardinality(B) + Cardinality(S) - Cardinality(B \cap S)
            BY <3>6, <3>7, FS_Union DEF S
        <3>10. Cardinality(A \cap h) = 0 /\ Cardinality(B \cap S) = 0
            <4>1. A \cap h = {} /\ B \cap S = {}
                BY <3>3 DEF S
            <4> QED BY <4>1, FS_EmptySet, Zenon
        <3>11. Cardinality(A) \in Nat /\ Cardinality(h) \in Nat
            BY <3>6, <3>7, FS_CardinalityType
        <3> DEFINE a == Cardinality(A)
                   b == Cardinality(B)
                   r == Cardinality(R)
                   q == Cardinality(Q)
                   i == Cardinality(h)
                   s == Cardinality(S)
                   u == Cardinality(A \cup h)
                   v == Cardinality(B \cup S)
        <3>12. /\ a \in Nat /\ i \in Nat /\ q \in Nat /\ r = q - 1 /\ b = a - r /\ s = i - 1
               /\ u = a + i - 0 /\ v = b + s - 0
            BY <3>5, <3>6, <3>7, <3>8, <3>9, <3>10, <3>11 DEF S
        <3> HIDE DEF a, b, r, q, i, s, u, v
        <3>13. v = u - q
            BY <3>12
        <3>14. Cardinality(B \cup S) = Cardinality(A \cup h) - Cardinality(Q)
            BY <3>13 DEF v, u, q
        <3>15. UNION Q = A \cup h /\ M(Q) = B \cup S
            BY <3>3 DEF S
        <3> HIDE DEF M
        <3>16. Counted(Q)
            BY <3>8, <3>9, <3>14, <3>15, Zenon
        <3> QED BY <3>16
    <2> QED BY <2>1, <2>2
<1>2. P \in G
    <2> HIDE DEF G
    <2> QED BY <1>1, SubsetsInduction
<1> QED BY <1>2

\* The numbers of groups in which people can be put that settle among themselves.
Counts(f, T) == {k \in 1 .. Cardinality(T) :
                   \E c \in [T -> 1 .. k] :
                       \A i \in 1 .. k : {u \in T : c[u] = i} # {} /\ ZeroSum(f, {u \in T : c[u] = i})}

\* An assignment of people to k level groups is a grouping into k.
LEMMA CountsAreGroupings ==
    ASSUME NEW T, IsFiniteSet(T), NEW f, NEW k \in Counts(f, T)
    PROVE  \E Q : Grouping(Q, f, T) /\ Cardinality(Q) = k
<1>1. PICK c \in [T -> 1 .. k] :
          \A i \in 1 .. k : {u \in T : c[u] = i} # {} /\ ZeroSum(f, {u \in T : c[u] = i})
    BY DEF Counts
<1> DEFINE fibre(i) == {u \in T : c[u] = i}
           Q == {fibre(i) : i \in 1 .. k}
           q == [i \in 1 .. k |-> fibre(i)]
<1>2. Grouping(Q, f, T)
    <2>1. \A i, j \in 1 .. k : i # j => fibre(i) \cap fibre(j) = {}
        OBVIOUS
    <2>2. \A x \in T : c[x] \in 1 .. k /\ x \in fibre(c[x])
        OBVIOUS
    <2>3. \A i \in 1 .. k : fibre(i) \subseteq T /\ fibre(i) # {} /\ ZeroSum(f, fibre(i))
        BY <1>1
    <2> HIDE DEF fibre
    <2> QED BY <2>1, <2>2, <2>3 DEF Grouping
<1>3. q \in Surjection(1 .. k, Q) /\ q \in Injection(1 .. k, Q)
    <2>1. \A i, j \in 1 .. k : fibre(i) = fibre(j) => i = j
        <3> TAKE i \in 1 .. k, j \in 1 .. k
        <3>1. PICK u \in T : c[u] = i
            BY <1>1
        <3> QED BY <3>1
    <2> HIDE DEF fibre
    <2>2. q \in [1 .. k -> Q] /\ (\A i \in 1 .. k : q[i] = fibre(i)) /\ \A r \in Q : \E i \in 1 .. k : q[i] = r
        OBVIOUS
    <2>3. \A i, j \in 1 .. k : q[i] = q[j] => i = j
        BY <2>1, <2>2
    <2> HIDE DEF q, Q
    <2> QED BY <2>2, <2>3 DEF Surjection, Injection, IsInjective
<1>4. k \in Nat \ {0}
    <2>1. Cardinality(T) \in Nat
        BY FS_CardinalityType
    <2> QED BY <2>1 DEF Counts
<1>5. IsFiniteSet(1 .. k) /\ Cardinality(1 .. k) = k
    <2>1. IsFiniteSet(1 .. k) /\ Cardinality(1 .. k) = IF 1 > k THEN 0 ELSE k - 1 + 1
        BY <1>4, FS_Interval
    <2> QED BY <1>4, <2>1
<1> HIDE DEF q, Q
<1>6. Cardinality(Q) = Cardinality(1 .. k)
    BY <1>3, <1>5, FS_Surjection
<1> QED BY <1>2, <1>5, <1>6

\* A grouping into k groups is an assignment of people to k.
LEMMA GroupingsAreCounts ==
    ASSUME NEW T, IsFiniteSet(T), T # {}, NEW f, NEW P, Grouping(P, f, T)
    PROVE  Cardinality(P) \in Counts(f, T)
<1> DEFINE k == Cardinality(P)
           n == Cardinality(T)
<1>1. IsFiniteSet(P) /\ k \in Nat /\ n \in Nat
    BY GroupingIsFinite, FS_CardinalityType
<1>2. k # 0
    <2>1. P # {}
        BY DEF Grouping
    <2> QED BY <1>1, <2>1, FS_EmptySet
<1>3. k <= n
    <2> DEFINE one == [h \in P |-> CHOOSE x \in h : TRUE]
    <2>1. \A h \in P : one[h] \in h
        BY DEF Grouping
    <2>2. one \in [P -> T]
        <3>1. \A h \in P : one[h] \in T
            BY <2>1 DEF Grouping
        <3> QED BY <3>1
    <2> HIDE DEF one
    <2>3. \A h, j \in P : one[h] = one[j] => h = j
        BY <2>1 DEF Grouping
    <2>4. one \in Injection(P, T)
        BY <2>2, <2>3 DEF Injection, IsInjective
    <2> QED BY <2>4, FS_Injection
<1>4. PICK w \in [1 .. k -> P] : /\ \A i, j \in 1 .. k : w[i] = w[j] => i = j
                                 /\ \A h \in P : \E i \in 1 .. k : w[i] = h
    <2>1. ExistsBijection(1 .. k, P)
        BY <1>1, FS_CardinalityType
    <2> HIDE DEF k
    <2> QED BY <2>1 DEF ExistsBijection, Bijection, Injection, Surjection, IsInjective
<1> DEFINE c == [u \in T |-> CHOOSE i \in 1 .. k : u \in w[i]]
<1> HIDE DEF k
<1>5. ASSUME NEW u \in T PROVE c[u] \in 1 .. k /\ u \in w[c[u]] /\ \A i \in 1 .. k : u \in w[i] => i = c[u]
    <2>1. \E i \in 1 .. k : u \in w[i]
        BY <1>4 DEF Grouping
    <2>2. c[u] \in 1 .. k /\ u \in w[c[u]]
        BY <2>1
    <2> HIDE DEF c
    <2>3. ASSUME NEW i \in 1 .. k, u \in w[i] PROVE i = c[u]
        <3>1. w[i] = w[c[u]]
            BY <2>2, <2>3 DEF Grouping
        <3> QED BY <1>4, <2>2, <3>1
    <2> QED BY <2>2, <2>3
<1>6. c \in [T -> 1 .. k]
    BY <1>5
<1> HIDE DEF c
<1>7. ASSUME NEW i \in 1 .. k PROVE {u \in T : c[u] = i} = w[i]
    <2>1. w[i] \subseteq T
        BY DEF Grouping
    <2> QED BY <1>5, <2>1
<1>8. \A i \in 1 .. k : w[i] # {} /\ ZeroSum(f, w[i])
    BY DEF Grouping
<1>9. \A i \in 1 .. k : {u \in T : c[u] = i} # {} /\ ZeroSum(f, {u \in T : c[u] = i})
    BY <1>7, <1>8, Zenon
<1>10. k \in 1 .. n
    BY <1>1, <1>2, <1>3
<1>11. k \in Counts(f, T)
    BY <1>6, <1>9, <1>10, Zenon DEF Counts, n
<1> QED BY <1>11 DEF k

\* The largest count is that of a largest grouping.
LEMMA GreatestCount ==
    ASSUME NEW T, IsFiniteSet(T), T # {}, NEW f, NEW P, Greatest(P, f, T)
    PROVE  Max(Counts(f, T)) = Cardinality(P)
<1> DEFINE S == Counts(f, T)
<1>1. Cardinality(P) \in S /\ Cardinality(P) \in Nat
    BY GroupingsAreCounts, GroupingIsFinite DEF Greatest
<1>2. \A k \in S : k <= Cardinality(P)
    BY CountsAreGroupings DEF Greatest
<1>3. S \subseteq Int /\ S # {} /\ IsFiniteSet(S)
    <2>1. Cardinality(T) \in Nat
        BY FS_CardinalityType
    <2>2. IsFiniteSet(1 .. Cardinality(T))
        <3>1. 1 \in Int /\ Cardinality(T) \in Int
            BY <2>1
        <3> QED BY <3>1, FS_Interval
    <2>3. S \in SUBSET (1 .. Cardinality(T))
        BY DEF Counts
    <2>4. IsFiniteSet(S)
        BY <2>2, <2>3, FS_Subset
    <2> QED BY <1>1, <2>3, <2>4
<1> HIDE DEF S
<1>4. Max(S) \in S /\ \A y \in S : y <= Max(S)
    BY <1>3, MaxIsGreatest
<1>5. Max(S) <= Cardinality(P) /\ Cardinality(P) <= Max(S) /\ Max(S) \in Int
    BY <1>1, <1>2, <1>3, <1>4
<1>6. Max(S) = Cardinality(P)
    BY <1>1, <1>5
<1> QED BY <1>6 DEF S

----------------------------------------------------------------------------
(* Debts and credits laid end to end *)

\* Two elements are finitely many.
LEMMA PairIsFinite == \A a, b : IsFiniteSet({a, b})
<1> TAKE a, b
<1>1. IsFiniteSet({a})
    BY FS_Singleton
<1>2. {a, b} = {a} \cup {b}
    OBVIOUS
<1> QED BY <1>1, <1>2, FS_AddElement

\* The least and the greatest of two integers.
LEMMA LeastOfTwo ==
    ASSUME NEW a \in Int, NEW b \in Int
    PROVE  /\ Min({a, b}) = IF a <= b THEN a ELSE b
           /\ Max({a, b}) = IF a <= b THEN b ELSE a
<1> DEFINE S == {a, b}
<1>1. S \subseteq Int /\ S # {} /\ IsFiniteSet(S)
    BY PairIsFinite
<1>2. Min(S) \in S /\ \A y \in S : Min(S) <= y
    <2> HIDE DEF S
    <2> QED BY <1>1, MinIsLeast
<1>3. Max(S) \in S /\ \A y \in S : y <= Max(S)
    <2> HIDE DEF S
    <2> QED BY <1>1, MaxIsGreatest
<1> DEFINE x == Min(S)
           y == Max(S)
<1>4. /\ (x = a \/ x = b) /\ x <= a /\ x <= b
      /\ (y = a \/ y = b) /\ a <= y /\ b <= y
    BY <1>2, <1>3
<1> HIDE DEF x, y
<1>5. x = (IF a <= b THEN a ELSE b) /\ y = (IF a <= b THEN b ELSE a)
    BY <1>4
<1> QED BY <1>5 DEF x, y

SumTo(g, f, x) == SumFunctionOnSet(f, {v \in g : v <= x})

Numbers(g, f) == \A v \in g : f[v] \in Nat

\* A sum up to x holds the value at x, and one before it if there is one.
LEMMA UpperPart ==
    ASSUME NEW g, Plain(g), NEW f, Numbers(g, f), NEW x \in g
    PROVE  /\ SumTo(g, f, x) \in Nat
           /\ (\A v \in g : v < x => f[v] = 0) => SumTo(g, f, x) = f[x]
           /\ \A y \in g : y < x => SumTo(g, f, x) >= f[x] + f[y]
<1> DEFINE A == {v \in g : v <= x}
           B == A \ {x}
<1>1. x \in Int /\ \A v \in g : v \in Int
    BY DEF Plain
<1>2. A \in SUBSET g /\ x \in A /\ (\A v \in B : v \in g /\ v < x) /\ \A v \in g : v < x => v \in B
    BY <1>1
<1>3. IsFiniteSet(A) /\ IsFiniteSet(B)
    <2>1. IsFiniteSet(g) /\ B \in SUBSET g
        BY DEF Plain
    <2> QED BY <1>2, <2>1, FS_Subset
<1>4. (\A v \in A : f[v] \in Nat /\ f[v] \in Int) /\ (\A v \in B : f[v] \in Nat) /\ f[x] \in Nat
    BY DEF Numbers
<1>5. SumTo(g, f, x) = SumFunctionOnSet(f, A)
    BY DEF SumTo
<1> HIDE DEF A
<1>6. SumFunctionOnSet(f, A) = f[x] + SumFunctionOnSet(f, B)
    BY <1>2, <1>3, <1>4, SumTakes
<1> HIDE DEF B
<1>7. SumFunctionOnSet(f, B) \in Nat /\ \A v \in B : f[v] <= SumFunctionOnSet(f, B)
    BY <1>3, <1>4, SumBounds
<1>8. ASSUME \A v \in g : v < x => f[v] = 0 PROVE SumFunctionOnSet(f, B) = 0
    BY <1>2, <1>3, <1>8, SumOfZeroes
<1>9. SumFunctionOnSet(f, A) \in Nat
    BY <1>4, <1>6, <1>7
<1>10. ASSUME NEW y \in g, y < x PROVE SumFunctionOnSet(f, A) >= f[x] + f[y]
    <2>1. f[y] <= SumFunctionOnSet(f, B) /\ f[y] \in Nat
        BY <1>2, <1>7, <1>10 DEF Numbers
    <2> QED BY <1>4, <1>6, <1>7, <2>1
<1>11. (\A v \in g : v < x => f[v] = 0) => SumFunctionOnSet(f, A) = f[x]
    BY <1>4, <1>6, <1>8
<1> QED BY <1>5, <1>9, <1>10, <1>11

\* What is less at x is less from there on.
LEMMA LessFrom ==
    ASSUME NEW g, Plain(g), NEW f, NEW h, Numbers(g, f), Numbers(g, h), NEW x \in g, NEW y \in g, x <= y,
           NEW a \in Int, h[x] = f[x] - a, \A v \in g : v # x => h[v] = f[v]
    PROVE  SumTo(g, h, y) = SumTo(g, f, y) - a
<1> DEFINE A == {v \in g : v <= y}
           B == A \ {x}
<1>1. A \in SUBSET g /\ x \in A /\ \A v \in B : h[v] = f[v]
    OBVIOUS
<1>2. IsFiniteSet(A) /\ IsFiniteSet(B)
    <2>1. IsFiniteSet(g) /\ B \in SUBSET g
        BY DEF Plain
    <2> QED BY <1>1, <2>1, FS_Subset
<1>3. /\ (\A v \in A : f[v] \in Int /\ h[v] \in Int) /\ (\A v \in B : f[v] \in Int /\ h[v] \in Int)
      /\ f[x] \in Int /\ h[x] \in Int
    BY DEF Numbers
<1>4. SumTo(g, f, y) = SumFunctionOnSet(f, A) /\ SumTo(g, h, y) = SumFunctionOnSet(h, A)
    BY DEF SumTo
<1> HIDE DEF A
<1>5. SumFunctionOnSet(f, A) = f[x] + SumFunctionOnSet(f, B)
    BY <1>1, <1>2, <1>3, SumTakes
<1>6. SumFunctionOnSet(h, A) = h[x] + SumFunctionOnSet(h, B)
    BY <1>1, <1>2, <1>3, SumTakes
<1> HIDE DEF B
<1>7. SumFunctionOnSet(h, B) = SumFunctionOnSet(f, B) /\ SumFunctionOnSet(f, B) \in Int
    BY <1>1, <1>2, <1>3, SumsSame, SumIsInt
<1> QED BY <1>3, <1>4, <1>5, <1>6, <1>7

Owing(o) == [v \in DOMAIN o |-> IF o[v] < 0 THEN -o[v] ELSE 0]
Owed(o) == [v \in DOMAIN o |-> IF o[v] > 0 THEN o[v] ELSE 0]

Lap(g, o, d, c) ==
    Min({SumTo(g, Owing(o), d), SumTo(g, Owed(o), c)})
    - Max({SumTo(g, Owing(o), d) + o[d], SumTo(g, Owed(o), c) - o[c]})

\* What the transfer of the first two does to the debt and credit up to others.
LEMMA FirstTransfer ==
    ASSUME NEW g, Plain(g), NEW o \in [g -> Int], NEW t, NEW n \in [g -> Int], NextFrom(g, o, t, n)
    PROVE  /\ \A d \in Debtors(o) :
                 /\ d \in g /\ o[d] \in Int /\ n[d] \in Int /\ SumTo(g, Owing(o), d) \in Int
                 /\ SumTo(g, Owing(n), d) = SumTo(g, Owing(o), d) - t.amount
                 /\ d = t.payer => SumTo(g, Owing(o), d) = -o[d] /\ n[d] = o[d] + t.amount
                 /\ d # t.payer => SumTo(g, Owing(o), d) + o[d] >= -o[t.payer] /\ n[d] = o[d]
           /\ \A c \in Creditors(o) :
                 /\ c \in g /\ o[c] \in Int /\ n[c] \in Int /\ SumTo(g, Owed(o), c) \in Int
                 /\ SumTo(g, Owed(n), c) = SumTo(g, Owed(o), c) - t.amount
                 /\ c = t.recipient => SumTo(g, Owed(o), c) = o[c] /\ n[c] = o[c] - t.amount
                 /\ c # t.recipient => SumTo(g, Owed(o), c) - o[c] >= o[t.recipient] /\ n[c] = o[c]
<1> DEFINE p == t.payer
           r == t.recipient
           a == t.amount
           f == Owing(o)
           h == Owing(n)
           e == Owed(o)
           k == Owed(n)
<1>1. /\ p \in g /\ r \in g /\ a \in Int /\ a > 0
      /\ p \in Debtors(o) /\ (\A u \in Debtors(o) : p <= u)
      /\ r \in Creditors(o) /\ (\A u \in Creditors(o) : r <= u)
      /\ o[p] < 0 /\ o[r] > 0 /\ p # r /\ a <= -o[p] /\ a <= o[r]
      /\ n[p] = o[p] + a /\ n[r] = o[r] - a
      /\ (\A u \in g : u # p /\ u # r => n[u] = o[u])
    BY DEF NextFrom
<1>2. DOMAIN o = g /\ DOMAIN n = g /\ \A u \in g : u \in Int /\ o[u] \in Int /\ n[u] \in Int
    BY DEF Plain
<1> HIDE DEF p, r, a
<1>3. /\ \A u \in g : /\ f[u] = (IF o[u] < 0 THEN -o[u] ELSE 0) /\ h[u] = (IF n[u] < 0 THEN -n[u] ELSE 0)
                      /\ e[u] = (IF o[u] > 0 THEN o[u] ELSE 0) /\ k[u] = (IF n[u] > 0 THEN n[u] ELSE 0)
    BY <1>2 DEF Owing, Owed
<1> HIDE DEF f, h, e, k
<1>4. Numbers(g, f) /\ Numbers(g, h) /\ Numbers(g, e) /\ Numbers(g, k)
    BY <1>2, <1>3 DEF Numbers
<1>5. /\ h[p] = f[p] - a /\ k[r] = e[r] - a /\ f[p] = -o[p] /\ e[r] = o[r]
      /\ (\A u \in g : u # p => h[u] = f[u]) /\ (\A u \in g : u # r => k[u] = e[u])
    BY <1>1, <1>2, <1>3
<1>6. (\A u \in g : u < p => f[u] = 0) /\ (\A u \in g : u < r => e[u] = 0)
    <2>1. \A u \in g : (o[u] < 0 => p <= u) /\ (o[u] > 0 => r <= u)
        BY <1>1, <1>2 DEF Debtors, Creditors
    <2> QED BY <1>1, <1>2, <1>3, <2>1
<1>7. ASSUME NEW d \in Debtors(o)
      PROVE  /\ d \in g /\ o[d] \in Int /\ n[d] \in Int /\ SumTo(g, f, d) \in Int
             /\ SumTo(g, h, d) = SumTo(g, f, d) - a
             /\ d = p => SumTo(g, f, d) = -o[d] /\ n[d] = o[d] + a
             /\ d # p => SumTo(g, f, d) + o[d] >= -o[p] /\ n[d] = o[d]
    <2>1. d \in g /\ o[d] < 0 /\ p <= d /\ d # r
        BY <1>1, <1>2 DEF Debtors
    <2>2. SumTo(g, f, d) \in Nat
        BY <1>4, <2>1, UpperPart
    <2>3. SumTo(g, h, d) = SumTo(g, f, d) - a
        BY <1>1, <1>4, <1>5, <2>1, LessFrom
    <2>4. d = p => SumTo(g, f, d) = f[p]
        BY <1>1, <1>4, <1>6, UpperPart
    <2>5. ASSUME d # p PROVE SumTo(g, f, d) + o[d] >= -o[p]
        <3>1. p < d /\ f[d] = -o[d] /\ o[d] \in Int /\ o[p] \in Int
            BY <1>1, <1>2, <1>3, <2>1, <2>5
        <3>2. SumTo(g, f, d) >= f[d] + f[p]
            BY <1>1, <1>4, <2>1, <3>1, UpperPart
        <3> QED BY <1>5, <2>2, <3>1, <3>2
    <2> QED BY <1>1, <1>2, <1>5, <2>1, <2>2, <2>3, <2>4, <2>5
<1>8. ASSUME NEW c \in Creditors(o)
      PROVE  /\ c \in g /\ o[c] \in Int /\ n[c] \in Int /\ SumTo(g, e, c) \in Int
             /\ SumTo(g, k, c) = SumTo(g, e, c) - a
             /\ c = r => SumTo(g, e, c) = o[c] /\ n[c] = o[c] - a
             /\ c # r => SumTo(g, e, c) - o[c] >= o[r] /\ n[c] = o[c]
    <2>1. c \in g /\ o[c] > 0 /\ r <= c /\ c # p
        BY <1>1, <1>2 DEF Creditors
    <2>2. SumTo(g, e, c) \in Nat
        BY <1>4, <2>1, UpperPart
    <2>3. SumTo(g, k, c) = SumTo(g, e, c) - a
        BY <1>1, <1>4, <1>5, <2>1, LessFrom
    <2>4. c = r => SumTo(g, e, c) = e[r]
        BY <1>1, <1>4, <1>6, UpperPart
    <2>5. ASSUME c # r PROVE SumTo(g, e, c) - o[c] >= o[r]
        <3>1. r < c /\ e[c] = o[c] /\ o[c] \in Int /\ o[r] \in Int
            BY <1>1, <1>2, <1>3, <2>1, <2>5
        <3>2. SumTo(g, e, c) >= e[c] + e[r]
            BY <1>1, <1>4, <2>1, <3>1, UpperPart
        <3> QED BY <1>5, <2>2, <3>1, <3>2
    <2> QED BY <1>1, <1>2, <1>5, <2>1, <2>2, <2>3, <2>4, <2>5
<1> QED BY <1>7, <1>8 DEF p, r, a, f, h, e, k

Overlaps(v, i, j, debt, credit) ==
    /\ v \in Int
    /\ v = (IF i <= j THEN i ELSE j)
           - (IF i + debt <= j - credit THEN j - credit ELSE i + debt)

\* What two intervals have in common, case by case.
LEMMA LapIs ==
    ASSUME NEW g, NEW o \in [g -> Int], NEW d \in g, NEW c \in g,
           SumTo(g, Owing(o), d) \in Int, SumTo(g, Owed(o), c) \in Int
    PROVE  Overlaps(Lap(g, o, d, c), SumTo(g, Owing(o), d), SumTo(g, Owed(o), c), o[d], o[c])
<1> DEFINE i == SumTo(g, Owing(o), d)
           j == SumTo(g, Owed(o), c)
           a == i + o[d]
           b == j - o[c]
<1>1. Lap(g, o, d, c) = Min({i, j}) - Max({a, b})
    BY Zenon DEF Lap
<1>2. i \in Int /\ j \in Int /\ a \in Int /\ b \in Int /\ o[d] \in Int /\ o[c] \in Int
    OBVIOUS
<1> HIDE DEF i, j
<1>3. Overlaps(Min({i, j}) - Max({a, b}), i, j, o[d], o[c])
    <2> HIDE DEF a, b
    <2>1. /\ Min({i, j}) = (IF i <= j THEN i ELSE j)
          /\ Max({a, b}) = (IF a <= b THEN b ELSE a)
        BY <1>2, LeastOfTwo
    <2> QED BY <1>2, <2>1 DEF Overlaps, a, b
<1> QED BY <1>1, <1>3, Zenon DEF i, j

Laps(g, o, d, c) == [payer |-> d, recipient |-> c, amount |-> Lap(g, o, d, c)]
Meeting(g, o) == {t \in {Laps(g, o, d, c) : d \in Debtors(o), c \in Creditors(o)} : t.amount > 0}

\* A transfer is what the first two have in common; the others keep what they have.
LEMMA LapsKept ==
    ASSUME NEW g, Plain(g), NEW o \in [g -> Int], NEW t, NEW n \in [g -> Int], NextFrom(g, o, t, n)
    PROVE  /\ Lap(g, o, t.payer, t.recipient) = t.amount
           /\ \A d \in Debtors(n), c \in Creditors(n) : Lap(g, n, d, c) = Lap(g, o, d, c)
           /\ \A d \in Debtors(o), c \in Creditors(o) :
                Lap(g, o, d, c) > 0 => \/ d = t.payer /\ c = t.recipient
                                       \/ d \in Debtors(n) /\ c \in Creditors(n)
<1> DEFINE p == t.payer
           r == t.recipient
           a == t.amount
<1>1. /\ p \in g /\ r \in g /\ a \in Int /\ a > 0 /\ p \in Debtors(o) /\ r \in Creditors(o) /\ p # r
      /\ o[p] \in Int /\ o[r] \in Int
      /\ o[p] < 0 /\ o[r] > 0 /\ a <= -o[p] /\ a <= o[r] /\ (a = -o[p] \/ a = o[r])
      /\ n[p] = o[p] + a /\ n[r] = o[r] - a
    BY DEF NextFrom
<1>2. /\ Debtors(n) \subseteq Debtors(o) /\ Creditors(n) \subseteq Creditors(o)
      /\ p \notin Debtors(n) \/ r \notin Creditors(n)
    BY NextLeaves
<1>3. /\ \A d \in Debtors(o) :
                 /\ d \in g /\ o[d] \in Int /\ n[d] \in Int /\ SumTo(g, Owing(o), d) \in Int
                 /\ SumTo(g, Owing(n), d) = SumTo(g, Owing(o), d) - a
                 /\ d = p => SumTo(g, Owing(o), d) = -o[d] /\ n[d] = o[d] + a
                 /\ d # p => SumTo(g, Owing(o), d) + o[d] >= -o[p] /\ n[d] = o[d]
      /\ \A c \in Creditors(o) :
                 /\ c \in g /\ o[c] \in Int /\ n[c] \in Int /\ SumTo(g, Owed(o), c) \in Int
                 /\ SumTo(g, Owed(n), c) = SumTo(g, Owed(o), c) - a
                 /\ c = r => SumTo(g, Owed(o), c) = o[c] /\ n[c] = o[c] - a
                 /\ c # r => SumTo(g, Owed(o), c) - o[c] >= o[r] /\ n[c] = o[c]
    BY FirstTransfer
<1> HIDE DEF p, r, a
<1>4. ASSUME NEW d \in Debtors(o), NEW c \in Creditors(o)
      PROVE  /\ d = p /\ c = r => Lap(g, o, d, c) = a
             /\ d # p \/ c # r => Lap(g, n, d, c) = Lap(g, o, d, c)
             /\ Lap(g, o, d, c) > 0 /\ (d # p \/ c # r) => n[d] < 0 /\ n[c] > 0
    <2> DEFINE i == SumTo(g, Owing(o), d)
               j == SumTo(g, Owed(o), c)
               k == SumTo(g, Owing(n), d)
               l == SumTo(g, Owed(n), c)
               x == Lap(g, o, d, c)
               y == Lap(g, n, d, c)
    <2>1. /\ i \in Int /\ j \in Int /\ k = i - a /\ l = j - a
          /\ o[d] \in Int /\ n[d] \in Int /\ o[c] \in Int /\ n[c] \in Int
          /\ d = p => i = -o[d] /\ n[d] = o[d] + a
          /\ d # p => i + o[d] >= -o[p] /\ n[d] = o[d]
          /\ c = r => j = o[c] /\ n[c] = o[c] - a
          /\ c # r => j - o[c] >= o[r] /\ n[c] = o[c]
        BY <1>3
    <2>2. k \in Int /\ l \in Int
        BY <1>1, <2>1
    <2>3. Overlaps(x, i, j, o[d], o[c]) /\ Overlaps(y, k, l, n[d], n[c])
        <3>1. d \in g /\ c \in g
            BY <1>3
        <3>2. Overlaps(x, i, j, o[d], o[c])
            BY <2>1, <3>1, LapIs
        <3>3. Overlaps(y, k, l, n[d], n[c])
            BY <2>2, <3>1, LapIs
        <3> QED BY <3>2, <3>3
    <2>4. o[d] < 0 /\ o[c] > 0
        BY <2>1 DEF Debtors, Creditors
    <2> HIDE DEF i, j, k, l, x, y
    <2> DEFINE debt == o[d]
               credit == o[c]
               left == n[d]
               due == n[c]
               z == -o[p]
               w == o[r]
    <2>5. /\ x = (IF i <= j THEN i ELSE j)
                 - (IF i + debt <= j - credit THEN j - credit ELSE i + debt)
          /\ y = (IF k <= l THEN k ELSE l)
                 - (IF k + left <= l - due THEN l - due ELSE k + left)
          /\ x \in Int /\ y \in Int
        BY <2>3 DEF Overlaps
    <2>6. /\ i \in Int /\ j \in Int /\ k = i - a /\ l = j - a /\ a \in Int /\ a > 0
          /\ debt \in Int /\ left \in Int /\ credit \in Int /\ due \in Int /\ z \in Int /\ w \in Int
          /\ debt < 0 /\ credit > 0 /\ a <= z /\ a <= w /\ (a = z \/ a = w)
          /\ d = p => i = -debt /\ left = debt + a /\ z = -debt
          /\ d # p => i + debt >= z /\ left = debt
          /\ c = r => j = credit /\ due = credit - a /\ w = credit
          /\ c # r => j - credit >= w /\ due = credit
        BY <1>1, <2>1, <2>4
    <2> HIDE DEF debt, credit, left, due, z, w
    <2>7. d = p /\ c = r => x = a
        BY <2>5, <2>6
    <2>8. d # p \/ c # r => y = x
        <3>1. CASE d # p /\ c # r
            <4>1. k + left = (i + debt) - a /\ l - due = (j - credit) - a
                BY <2>6, <3>1
            <4> QED BY <2>5, <2>6, <4>1
        <3>2. CASE d = p /\ c # r
            <4>1. i + debt = 0 /\ k + left = 0 /\ l - due = (j - credit) - a /\ j - credit >= a
                BY <2>6, <3>2
            <4> QED BY <2>5, <2>6, <4>1
        <3>3. CASE d # p /\ c = r
            <4>1. j - credit = 0 /\ l - due = 0 /\ k + left = (i + debt) - a /\ i + debt >= a
                BY <2>6, <3>3
            <4> QED BY <2>5, <2>6, <4>1
        <3> QED BY <3>1, <3>2, <3>3
    <2>9. x > 0 /\ (d # p \/ c # r) => left < 0 /\ due > 0
        BY <2>5, <2>6
    <2> QED BY <2>7, <2>8, <2>9 DEF x, y, left, due
<1>5. Lap(g, o, p, r) = a
    BY <1>1, <1>4
<1>6. \A d \in Debtors(n), c \in Creditors(n) : Lap(g, n, d, c) = Lap(g, o, d, c)
    BY <1>2, <1>4
<1>7. \A d \in Debtors(o), c \in Creditors(o) :
          Lap(g, o, d, c) > 0 => \/ d = p /\ c = r
                                 \/ d \in Debtors(n) /\ c \in Creditors(n)
    <2>1. DOMAIN n = g
        OBVIOUS
    <2> QED BY <1>3, <1>4, <2>1 DEF Debtors, Creditors
<1> QED BY <1>5, <1>6, <1>7 DEF p, r, a

\* The transfers of a group are those where debts and credits meet.
LEMMA MatchedMeet ==
    ASSUME NEW g, Plain(g), NEW o \in [g -> Int]
    PROVE  Matched(g, o) = Meeting(g, o)
<1> DEFINE Good == {x \in [g -> Int] : Matched(g, x) = Meeting(g, x)}
<1>1. ASSUME NEW x \in [g -> Int], Done(x), Matched(g, x) = {}
      PROVE  x \in Good
    BY <1>1 DEF Done, Meeting
<1>2. ASSUME NEW x \in [g -> Int], NEW n \in [g -> Int], NEW t, ~Done(x), MatchStep(g, x, t, n), n \in Good
      PROVE  x \in Good
    <2>1. NextFrom(g, x, t, n) /\ Matched(g, x) = {t} \cup Meeting(g, n)
        BY <1>2 DEF MatchStep
    <2>2. /\ Lap(g, x, t.payer, t.recipient) = t.amount
          /\ \A d \in Debtors(n), c \in Creditors(n) : Lap(g, n, d, c) = Lap(g, x, d, c)
          /\ \A d \in Debtors(x), c \in Creditors(x) :
                Lap(g, x, d, c) > 0 => \/ d = t.payer /\ c = t.recipient
                                       \/ d \in Debtors(n) /\ c \in Creditors(n)
        BY <2>1, LapsKept
    <2>3. Debtors(n) \subseteq Debtors(x) /\ Creditors(n) \subseteq Creditors(x)
        BY <2>1, NextLeaves
    <2>4. /\ t.payer \in Debtors(x) /\ t.recipient \in Creditors(x) /\ t.amount > 0
          /\ t = [payer |-> t.payer, recipient |-> t.recipient, amount |-> t.amount]
        BY <2>1 DEF NextFrom
    <2>5. t = Laps(g, x, t.payer, t.recipient)
        BY <2>2, <2>4 DEF Laps
    <2>6. t \in Meeting(g, x)
        BY <2>4, <2>5 DEF Meeting
    <2>7. ASSUME NEW s \in Meeting(g, n) PROVE s \in Meeting(g, x)
        <3>1. PICK d \in Debtors(n), c \in Creditors(n) : s = Laps(g, n, d, c)
            BY DEF Meeting
        <3>2. s = Laps(g, x, d, c)
            BY <2>2, <3>1 DEF Laps
        <3>3. s.amount > 0
            BY DEF Meeting
        <3> QED BY <2>3, <3>2, <3>3 DEF Meeting
    <2>8. ASSUME NEW s \in Meeting(g, x), s # t PROVE s \in Meeting(g, n)
        <3>1. PICK d \in Debtors(x), c \in Creditors(x) : s = Laps(g, x, d, c)
            BY DEF Meeting
        <3>2. s.amount > 0
            BY DEF Meeting
        <3>3. Lap(g, x, d, c) > 0
            BY <3>1, <3>2 DEF Laps
        <3>4. d \in Debtors(n) /\ c \in Creditors(n)
            BY <2>2, <2>5, <2>8, <3>1, <3>3
        <3>5. s = Laps(g, n, d, c)
            BY <2>2, <3>1, <3>4 DEF Laps
        <3> QED BY <3>2, <3>4, <3>5 DEF Meeting
    <2>9. Meeting(g, x) = {t} \cup Meeting(g, n)
        BY <2>6, <2>7, <2>8
    <2> QED BY <2>1, <2>9
<1>3. o \in Good
    <2> HIDE DEF Good
    <2> QED BY <1>1, <1>2, MatchInduction
<1> QED BY <1>3

----------------------------------------------------------------------------
(* The plan of all balances *)

On(f, g) == [u \in g |-> f[u]]

\* A part of finitely many numbers is one too.
LEMMA PartIsPlain ==
    ASSUME NEW U, Plain(U), NEW Z \in SUBSET U
    PROVE  IsFiniteSet(Z) /\ Plain(Z)
BY FS_Subset DEF Plain

\* The balances of a group are those of its members.
LEMMA GroupBalances ==
    ASSUME NEW U, Plain(U), NEW f \in [U -> Int], NEW g \in SUBSET Items(f)
    PROVE  /\ Plain(g) /\ g \subseteq U /\ On(f, g) \in [g -> Int]
           /\ Items(On(f, g)) = g
           /\ Debtors(On(f, g)) = g \cap Debtors(f) /\ Creditors(On(f, g)) = g \cap Creditors(f)
           /\ \A Z \in SUBSET g : SumFunctionOnSet(On(f, g), Z) = SumFunctionOnSet(f, Z)
           /\ GroupTransfers(f, g) = Matched(g, On(f, g))
<1>1. g \subseteq U
    BY DEF Items
<1>2. IsFiniteSet(g) /\ Plain(g)
    BY <1>1, PartIsPlain
<1>3. DOMAIN f = U /\ \A u \in g : u \in U /\ f[u] \in Int /\ f[u] # 0
    BY <1>1 DEF Items
<1> DEFINE o == On(f, g)
<1>4. o \in [g -> Int] /\ DOMAIN o = g /\ \A u \in g : o[u] = f[u]
    BY <1>3 DEF On
<1> HIDE DEF o
<1>5. Items(o) = g /\ Debtors(o) = g \cap Debtors(f) /\ Creditors(o) = g \cap Creditors(f)
    BY <1>3, <1>4 DEF Items, Debtors, Creditors
<1>6. ASSUME NEW Z \in SUBSET g
      PROVE  SumFunctionOnSet(o, Z) = SumFunctionOnSet(f, Z)
    <2>1. IsFiniteSet(Z) /\ \A u \in Z : o[u] = f[u]
        BY <1>2, <1>4, FS_Subset
    <2> QED BY <2>1, SumsSame
<1>7. GroupTransfers(f, g) = Matched(g, On(f, g))
    BY GroupIsMatched, Zenon DEF On
<1> QED BY <1>1, <1>2, <1>4, <1>5, <1>6, <1>7 DEF o

GroupSettles(f, g, P) ==
    /\ IsFiniteSet(P)
    /\ \A t \in P : /\ t.payer \in g /\ t.payer \in Debtors(f)
                    /\ t.recipient \in g /\ t.recipient \in Creditors(f) /\ t.amount \in Nat \ {0}
    /\ \A u \in g : f[u] + Out(P, u) - In(P, u) = 0

\* The plan of one group of a grouping settles that group.
LEMMA GroupIsSettled ==
    ASSUME NEW U, Plain(U), NEW f \in [U -> Int], NEW g \in SUBSET Items(f), ZeroSum(f, g)
    PROVE  GroupSettles(f, g, GroupTransfers(f, g))
<1> DEFINE o == On(f, g)
           P == Matched(g, o)
<1>1. /\ Plain(g) /\ o \in [g -> Int] /\ GroupTransfers(f, g) = P
      /\ Debtors(o) = g \cap Debtors(f) /\ Creditors(o) = g \cap Creditors(f)
      /\ SumFunctionOnSet(o, g) = SumFunctionOnSet(f, g)
    BY GroupBalances
<1>2. \A u \in g : o[u] = f[u]
    BY DEF On
<1> HIDE DEF o
<1>3. Level(g, o)
    BY <1>1 DEF Level, ZeroSum
<1>4. Settled(g, o)
    BY <1>1, <1>3, MatchedSettles
<1>5. IsFiniteSet(P) /\ \A t \in P : IsTransfer(o, t)
    BY <1>1, MatchedTransfers
<1>6. \A u \in g : f[u] + Out(P, u) - In(P, u) = 0
    BY <1>2, <1>4 DEF Settled
<1> HIDE DEF P
<1>7. GroupSettles(f, g, P)
    BY <1>1, <1>5, <1>6 DEF GroupSettles, IsTransfer
<1> QED BY <1>1, <1>7

\* In a largest grouping no group needs as many transfers as it has people.
LEMMA GroupIsCounted ==
    ASSUME NEW U, Plain(U), NEW f \in [U -> Int], NEW T, T \subseteq Items(f), NEW Q, Greatest(Q, f, T), NEW h \in Q
    PROVE  Cardinality(GroupTransfers(f, h)) = Cardinality(h) - 1
<1> DEFINE o == On(f, h)
<1>1. h \subseteq T /\ h # {} /\ ZeroSum(f, h) /\ h \in SUBSET Items(f)
    BY DEF Greatest, Grouping
<1>2. /\ Plain(h) /\ o \in [h -> Int] /\ Items(o) = h /\ GroupTransfers(f, h) = Matched(h, o)
      /\ \A Z \in SUBSET h : SumFunctionOnSet(o, Z) = SumFunctionOnSet(f, Z)
    BY <1>1, GroupBalances
<1> HIDE DEF o
<1>3. Level(h, o)
    BY <1>1, <1>2 DEF Level, ZeroSum
<1>4. IsFiniteSet(T) /\ \A x \in T : f[x] \in Int
    <2>1. T \in SUBSET U
        BY DEF Items
    <2> QED BY <2>1, PartIsPlain
<1>5. Minimal(o)
    <2> SUFFICES ASSUME NEW Z \in SUBSET h, Z # {}, SumFunctionOnSet(o, Z) = 0 PROVE Z = h
        BY <1>2 DEF Minimal
    <2>1. ZeroSum(f, Z)
        BY <1>2 DEF ZeroSum
    <2> QED BY <1>4, <2>1, GreatestIsMinimal
<1>6. OneLess(h, o)
    BY <1>1, <1>2, <1>3, <1>5, MatchedCount
<1> QED BY <1>2, <1>6, Zenon DEF OneLess

PlanOf(f, Q) == UNION {GroupTransfers(f, h) : h \in Q}

\* The balances that are not 0 add up to nothing as all of them do.
LEMMA ItemsAreLevel ==
    ASSUME NEW U, Plain(U), NEW f \in [U -> Int], ZeroSum(f, U)
    PROVE  /\ ZeroSum(f, Items(f)) /\ Items(f) \in SUBSET U /\ Plain(Items(f))
           /\ \A u \in U : u \notin Items(f) => f[u] = 0
<1>1. Items(f) \in SUBSET U /\ \A u \in U : u \notin Items(f) => f[u] = 0
    BY DEF Items
<1>2. IsFiniteSet(U) /\ (\A u \in U : f[u] \in Int) /\ \A u \in U \ Items(f) : f[u] = 0
    BY <1>1 DEF Plain
<1>3. SumFunctionOnSet(f, U) = SumFunctionOnSet(f, Items(f))
    BY <1>1, <1>2, SumDrops
<1>4. Plain(Items(f))
    BY <1>1, PartIsPlain
<1> QED BY <1>1, <1>3, <1>4 DEF ZeroSum

\* The plan is that of a grouping, of a largest one up to the limit.
LEMMA PlanIsGrouped ==
    ASSUME NEW U, Plain(U), NEW f \in [U -> Int], ZeroSum(f, U)
    PROVE  \E Q : /\ Grouping(Q, f, Items(f)) /\ BuildTransfers(f) = PlanOf(f, Q)
                  /\ Cardinality(Items(f)) <= MaxOptimal => Greatest(Q, f, Items(f))
                  /\ Cardinality(Items(f)) > MaxOptimal => Q = {Items(f)}
<1> DEFINE T == Items(f)
           n == Cardinality(T)
<1>1. ZeroSum(f, T) /\ Plain(T) /\ IsFiniteSet(T) /\ \A x \in T : f[x] \in Int
    BY ItemsAreLevel DEF Plain
<1>2. n \in Nat /\ MaxOptimal \in Nat
    BY <1>1, FS_CardinalityType, MaxOptimalAssumption
<1> HIDE DEF T, n
<1>3. CASE n > MaxOptimal
    <2>1. T # {}
        BY <1>2, <1>3, FS_EmptySet DEF n
    <2>2. Grouping({T}, f, T)
        BY <1>1, <2>1 DEF Grouping
    <2>3. BuildTransfers(f) = GroupTransfers(f, T)
        BY <1>3, Zenon DEF BuildTransfers, n, T
    <2>4. PlanOf(f, {T}) = GroupTransfers(f, T)
        BY DEF PlanOf
    <2>5. ~(n <= MaxOptimal)
        BY <1>2, <1>3
    <2> QED BY <2>2, <2>3, <2>4, <2>5 DEF n, T
<1>4. CASE ~(n > MaxOptimal)
    <2>1. PICK b : IsBest(b, f, T) /\ MaxZeroSumPartition(f, T) = b[T]
        BY <1>1, BestIs
    <2>2. Greatest(b[T], f, T)
        BY <1>1, <2>1, BestIsGreatest
    <2>3. BuildTransfers(f) = PlanOf(f, b[T])
        <3>1. BuildTransfers(f) = PlanOf(f, MaxZeroSumPartition(f, T))
            BY <1>4, Zenon DEF BuildTransfers, PlanOf, n, T
        <3> QED BY <2>1, <3>1, Zenon
    <2> QED BY <1>4, <2>2, <2>3 DEF n, T, Greatest
<1> QED BY <1>3, <1>4

PlanSettles(f, P) ==
    /\ \A t \in P : t.amount > 0 /\ t.payer \in Debtors(f) /\ t.recipient \in Creditors(f)
    /\ \A u \in DOMAIN f : f[u] + Out(P, u) - In(P, u) = 0

\* The transfers of a plan settle every balance (build_settlement_transfers).
LEMMA PlanIsSettled ==
    ASSUME NEW U, Plain(U), NEW f \in [U -> Int], ZeroSum(f, U)
    PROVE  PlanSettles(f, BuildTransfers(f))
<1>1. PICK Q : Grouping(Q, f, Items(f)) /\ BuildTransfers(f) = PlanOf(f, Q)
    BY PlanIsGrouped
<1> DEFINE P == PlanOf(f, Q)
           m(h) == GroupTransfers(f, h)
<1>2. \A h \in Q : GroupSettles(f, h, m(h))
    <2> TAKE h \in Q
    <2>1. h \in SUBSET Items(f) /\ ZeroSum(f, h)
        BY <1>1 DEF Grouping
    <2> QED BY <2>1, GroupIsSettled
<1>3. P = UNION {m(h) : h \in Q}
    BY DEF PlanOf
<1> HIDE DEF P, m
<1>4. \A t \in P : \E h \in Q : t \in m(h) /\ t.payer \in h /\ t.recipient \in h
    BY <1>2, <1>3 DEF GroupSettles
<1>5. ASSUME NEW t \in P
      PROVE  t.amount > 0 /\ t.payer \in Debtors(f) /\ t.recipient \in Creditors(f)
    BY <1>2, <1>3 DEF GroupSettles
<1>6. ASSUME NEW u \in U
      PROVE  f[u] + Out(P, u) - In(P, u) = 0
    <2>1. CASE u \in Items(f)
        <3>1. PICK h \in Q : u \in h
            BY <1>1, <2>1 DEF Grouping
        <3>2. \A k \in Q : u \in k => k = h
            BY <1>1, <3>1 DEF Grouping
        <3>3. {t \in P : t.payer = u} = {t \in m(h) : t.payer = u}
            BY <1>3, <1>4, <3>1, <3>2
        <3>4. {t \in P : t.recipient = u} = {t \in m(h) : t.recipient = u}
            BY <1>3, <1>4, <3>1, <3>2
        <3>5. Out(P, u) = Out(m(h), u) /\ In(P, u) = In(m(h), u)
            BY <3>3, <3>4, Zenon DEF Out, In
        <3> QED BY <1>2, <3>1, <3>5 DEF GroupSettles
    <2>2. CASE u \notin Items(f)
        <3>1. \A t \in P : t.payer # u /\ t.recipient # u
            BY <1>1, <1>4, <2>2 DEF Grouping
        <3>2. {t \in P : t.payer = u} = {} /\ {t \in P : t.recipient = u} = {}
            BY <3>1
        <3>3. Out(P, u) = 0 /\ In(P, u) = 0
            BY <3>2, AmountOfNone, Zenon DEF Out, In
        <3>4. f[u] = 0
            BY <2>2, ItemsAreLevel
        <3> QED BY <3>3, <3>4
    <2> QED BY <2>1, <2>2
<1>7. PlanSettles(f, P)
    BY <1>5, <1>6 DEF PlanSettles
<1> QED BY <1>1, <1>7 DEF P

\* Up to the limit no grouping of the people needs fewer transfers.
LEMMA PlanIsFewest ==
    ASSUME NEW U, Plain(U), NEW f \in [U -> Int], ZeroSum(f, U), Cardinality(Items(f)) <= MaxOptimal,
           BuildTransfers(f) # {}
    PROVE  Cardinality(BuildTransfers(f)) = Cardinality(Items(f)) - Max(Counts(f, Items(f)))
<1> DEFINE T == Items(f)
<1>1. PICK Q : Grouping(Q, f, T) /\ BuildTransfers(f) = PlanOf(f, Q) /\ Greatest(Q, f, T)
    BY PlanIsGrouped
<1>2. IsFiniteSet(T) /\ T \in SUBSET Items(f)
    BY ItemsAreLevel DEF Plain
<1>3. T # {}
    <2> SUFFICES ASSUME T = {} PROVE FALSE
        OBVIOUS
    <2> HIDE DEF T
    <2>1. Q = {}
        BY <1>1 DEF Grouping
    <2>2. PlanOf(f, Q) = {}
        BY <2>1 DEF PlanOf
    <2> QED BY <1>1, <2>2
<1> DEFINE m == [h \in Q |-> GroupTransfers(f, h)]
<1> HIDE DEF T
<1>4. IsFiniteSet(Q)
    BY <1>1, <1>2, GroupingIsFinite
<1>5. ASSUME NEW h \in Q
      PROVE  /\ IsFiniteSet(h) /\ m[h] = GroupTransfers(f, h) /\ GroupSettles(f, h, m[h])
             /\ Cardinality(m[h]) = Cardinality(h) - 1
    <2>1. h \in SUBSET T /\ ZeroSum(f, h) /\ h \in SUBSET Items(f)
        BY <1>1, <1>2 DEF Grouping
    <2>2. IsFiniteSet(h)
        BY <1>2, <2>1, FS_Subset
    <2>3. m[h] = GroupTransfers(f, h)
        OBVIOUS
    <2>4. GroupSettles(f, h, GroupTransfers(f, h))
        BY <2>1, GroupIsSettled
    <2>5. Cardinality(GroupTransfers(f, h)) = Cardinality(h) - 1
        BY <1>1, <1>2, GroupIsCounted
    <2> HIDE DEF m
    <2> QED BY <2>2, <2>3, <2>4, <2>5
<1> HIDE DEF m
<1>6. \A h \in Q : IsFiniteSet(h) /\ IsFiniteSet(m[h]) /\ Cardinality(m[h]) = Cardinality(h) - 1
    BY <1>5 DEF GroupSettles
<1>7. \A h, k \in Q : h # k => h \cap k = {} /\ m[h] \cap m[k] = {}
    <2> TAKE h, k \in Q
    <2> HAVE h # k
    <2>1. h \cap k = {}
        BY <1>1 DEF Grouping
    <2>2. (\A t \in m[h] : t.payer \in h) /\ \A t \in m[k] : t.payer \in k
        BY <1>5 DEF GroupSettles
    <2> QED BY <2>1, <2>2
<1>8. Cardinality(UNION {m[h] : h \in Q}) = Cardinality(UNION Q) - Cardinality(Q)
    BY <1>4, <1>6, <1>7, CountGroups
<1>9. UNION Q = T
    BY <1>1 DEF Grouping
<1>10. UNION {m[h] : h \in Q} = PlanOf(f, Q)
    BY <1>5 DEF PlanOf
<1>11. Max(Counts(f, T)) = Cardinality(Q)
    BY <1>1, <1>2, <1>3, GreatestCount
<1>12. Cardinality(PlanOf(f, Q)) = Cardinality(T) - Cardinality(Q)
    BY <1>8, <1>9, <1>10, Zenon
<1> QED BY <1>1, <1>11, <1>12, Zenon DEF T

\* Upto, Overlap and GroupCounts of balances f.
UptoIn(f, u, sign) == SumFunctionOnSet([v \in People |-> IF sign * f[v] > 0 THEN sign * f[v] ELSE 0],
                                       {v \in People : v <= u})
OverlapIn(f, d, c) == Min({UptoIn(f, d, -1), UptoIn(f, c, 1)})
                      - Max({UptoIn(f, d, -1) + f[d], UptoIn(f, c, 1) - f[c]})

\* Those whose balance is 0 add nothing to the sums up to u.
LEMMA UptoIsSumTo ==
    ASSUME NEW f \in [People -> Int], NEW o, o = On(f, Items(f)), NEW u
    PROVE  /\ UptoIn(f, u, -1) = SumTo(Items(f), Owing(o), u)
           /\ UptoIn(f, u, 1) = SumTo(Items(f), Owed(o), u)
<1> DEFINE T == Items(f)
           A == {v \in People : v <= u}
           R == {v \in T : v <= u}
           x == [v \in People |-> IF -1 * f[v] > 0 THEN -1 * f[v] ELSE 0]
           y == [v \in People |-> IF 1 * f[v] > 0 THEN 1 * f[v] ELSE 0]
           p == Owing(o)
           q == Owed(o)
<1>1. /\ T \subseteq People /\ (\A v \in People : v \notin T => f[v] = 0) /\ DOMAIN o = T
      /\ \A v \in T : o[v] = f[v]
    BY DEF Items, On
<1>2. \A v \in People : f[v] \in Int
    OBVIOUS
<1>3. \A v \in People : /\ x[v] = (IF f[v] < 0 THEN -f[v] ELSE 0)
                        /\ y[v] = (IF f[v] > 0 THEN f[v] ELSE 0)
    BY <1>2
<1>4. \A v \in T : /\ p[v] = (IF f[v] < 0 THEN -f[v] ELSE 0)
                   /\ q[v] = (IF f[v] > 0 THEN f[v] ELSE 0)
    BY <1>1 DEF Owing, Owed
<1>5. /\ UptoIn(f, u, -1) = SumFunctionOnSet(x, A) /\ UptoIn(f, u, 1) = SumFunctionOnSet(y, A)
      /\ SumTo(T, p, u) = SumFunctionOnSet(p, R) /\ SumTo(T, q, u) = SumFunctionOnSet(q, R)
    BY DEF UptoIn, SumTo
<1> HIDE DEF T, x, y, p, q
<1>6. /\ A \in SUBSET People /\ R \in SUBSET A /\ R \in SUBSET T
      /\ \A v \in A \ R : v \in People /\ v \notin T
    BY <1>1
<1>7. IsFiniteSet(A) /\ IsFiniteSet(R)
    <2>1. IsFiniteSet(A)
        BY <1>6, PeopleAssumption, FS_Subset
    <2> QED BY <1>6, <2>1, FS_Subset
<1> HIDE DEF A, R
<1>8. /\ \A v \in A : x[v] \in Int /\ y[v] \in Int
      /\ \A v \in A \ R : x[v] = 0 /\ y[v] = 0
      /\ \A v \in R : x[v] = p[v] /\ y[v] = q[v]
    BY <1>1, <1>2, <1>3, <1>4, <1>6
<1>9. SumFunctionOnSet(x, A) = SumFunctionOnSet(x, R) /\ SumFunctionOnSet(y, A) = SumFunctionOnSet(y, R)
    BY <1>6, <1>7, <1>8, SumDrops
<1>10. SumFunctionOnSet(x, R) = SumFunctionOnSet(p, R) /\ SumFunctionOnSet(y, R) = SumFunctionOnSet(q, R)
    BY <1>7, <1>8, SumsSame
<1> QED BY <1>5, <1>9, <1>10 DEF T, p, q

Meets(f, d, c) == [payer |-> d, recipient |-> c, amount |-> OverlapIn(f, d, c)]

Met(f) == {t \in {Meets(f, d, c) : d \in Debtors(f), c \in Creditors(f)} : t.amount > 0}

\* People are finitely many numbers.
LEMMA PeoplePlain == Plain(People)
BY PeopleAssumption DEF Plain

\* Above the limit debts meet credits in the order of the people.
LEMMA PlanMeets ==
    ASSUME NEW f \in [People -> Int], ZeroSum(f, People), Cardinality(Items(f)) > MaxOptimal
    PROVE  BuildTransfers(f) = Met(f)
<1> DEFINE T == Items(f)
           o == On(f, T)
<1>1. PICK Q : BuildTransfers(f) = PlanOf(f, Q) /\ Q = {T}
    BY PeoplePlain, PlanIsGrouped
<1>2. BuildTransfers(f) = GroupTransfers(f, T)
    BY <1>1 DEF PlanOf
<1>3. /\ Plain(T) /\ o \in [T -> Int] /\ GroupTransfers(f, T) = Matched(T, o)
      /\ Debtors(o) = T \cap Debtors(f) /\ Creditors(o) = T \cap Creditors(f)
    <2>1. T \in SUBSET Items(f)
        OBVIOUS
    <2> QED BY <2>1, PeoplePlain, GroupBalances
<1>4. Debtors(o) = Debtors(f) /\ Creditors(o) = Creditors(f)
    <2>1. \A u \in People : f[u] \in Int
        OBVIOUS
    <2>2. Debtors(f) \subseteq T /\ Creditors(f) \subseteq T
        BY <2>1 DEF Debtors, Creditors, Items
    <2> QED BY <1>3, <2>2
<1>5. Matched(T, o) = Meeting(T, o)
    <2> HIDE DEF T, o
    <2> QED BY <1>3, MatchedMeet
<1>6. ASSUME NEW d \in Debtors(o), NEW c \in Creditors(o)
      PROVE  Laps(T, o, d, c) = Meets(f, d, c)
    <2>1. o[d] = f[d] /\ o[c] = f[c]
        BY <1>3 DEF On
    <2>2. /\ UptoIn(f, d, -1) = SumTo(T, Owing(o), d)
          /\ UptoIn(f, c, 1) = SumTo(T, Owed(o), c)
        BY UptoIsSumTo
    <2> HIDE DEF T, o
    <2>3. Lap(T, o, d, c) = OverlapIn(f, d, c)
        BY <2>1, <2>2, Zenon DEF Lap, OverlapIn
    <2> QED BY <2>3, Zenon DEF Laps, Meets
<1> HIDE DEF T, o
<1>7. Meeting(T, o) = Met(f)
    <2>1. ASSUME NEW t \in Meeting(T, o) PROVE t \in Met(f)
        BY <1>4, <1>6 DEF Meeting, Met
    <2>2. ASSUME NEW t \in Met(f) PROVE t \in Meeting(T, o)
        BY <1>4, <1>6 DEF Meeting, Met
    <2> QED BY <2>1, <2>2
<1> QED BY <1>2, <1>3, <1>5, <1>7, Zenon

(* The arithmetic on every input *)

PlanInv ==
    /\ balance \in [People -> Int] /\ ZeroSum(balance, People) /\ total \in Nat
    /\ planned = {} \/ planned = BuildTransfers(balance)
    /\ \/ shares = <<>>
       \/ shares = SplitEvenly(total, Items(balance)) /\ Items(balance) # {}

\* Each step on the arithmetic keeps its invariant.
LEMMA PlanInvKept == PlanInv /\ [SumNext]_sumVars => PlanInv'
<1> SUFFICES ASSUME PlanInv, [SumNext]_sumVars PROVE PlanInv'
    OBVIOUS
<1>1. CASE UNCHANGED planVars
    BY <1>1 DEF PlanInv, planVars
<1>2. CASE ComputeTransfers
    BY <1>2 DEF PlanInv, ComputeTransfers
<1>3. CASE ComputeSplit
    BY <1>3 DEF PlanInv, ComputeSplit
<1> QED BY <1>1, <1>2, <1>3 DEF SumNext, PlanNext, sumVars

\* The inputs satisfy the invariant.
LEMMA PlanInvStarts == SumInit => PlanInv
<1> SUFFICES ASSUME SumInit PROVE PlanInv
    OBVIOUS
<1>1. PlanInit
    BY DEF SumInit
<1>2. balance \in [People -> Int] /\ ZeroSum(balance, People)
    BY <1>1, InputsAssumption DEF PlanInit
<1>3. total \in Nat
    <2>1. total \in 1 .. MaxTotal
        BY <1>1 DEF PlanInit
    <2> QED BY <2>1, InputsAssumption
<1> QED BY <1>1, <1>2, <1>3 DEF PlanInit, PlanInv

\* The invariant holds of every behaviour.
LEMMA PlanAlways == SumSpec => []PlanInv
BY PlanInvStarts, PlanInvKept, PTL DEF SumSpec

\* What was planned settles the balances.
LEMMA PlanInvSettles == PlanInv => TransfersSettle
<1> SUFFICES ASSUME PlanInv, planned # {} PROVE TransfersSettle
    BY DEF TransfersSettle
<1>1. planned = BuildTransfers(balance) /\ balance \in [People -> Int] /\ ZeroSum(balance, People)
    BY DEF PlanInv
<1>2. PlanSettles(balance, planned)
    BY <1>1, PeoplePlain, PlanIsSettled
<1>3. \A u \in People : Sent(u) = Out(planned, u) /\ Received(u) = In(planned, u)
    BY Zenon DEF Sent, Received, SumOf, Out, In, Amount, SumFunction
<1>4. \A u \in People : balance[u] + Sent(u) - Received(u) = 0
    BY <1>1, <1>2, <1>3 DEF PlanSettles
<1>5. \A t \in planned : t.amount > 0 /\ balance[t.payer] < 0 /\ balance[t.recipient] > 0
    BY <1>2 DEF PlanSettles, Debtors, Creditors
<1> QED BY <1>4, <1>5 DEF TransfersSettle

\* What was planned takes as few transfers as there can be.
LEMMA PlanInvFewest == PlanInv => FewestTransfers
<1> SUFFICES ASSUME PlanInv, planned # {}, Cardinality(Items(balance)) <= MaxOptimal
             PROVE  Cardinality(planned) = Cardinality(Items(balance)) - Max(GroupCounts(Items(balance)))
    BY Zenon DEF FewestTransfers
<1>1. planned = BuildTransfers(balance) /\ balance \in [People -> Int] /\ ZeroSum(balance, People)
    BY DEF PlanInv
<1>2. Cardinality(planned) = Cardinality(Items(balance)) - Max(Counts(balance, Items(balance)))
    BY <1>1, PeoplePlain, PlanIsFewest
<1>3. GroupCounts(Items(balance)) = Counts(balance, Items(balance))
    BY Zenon DEF GroupCounts, Counts
<1> QED BY <1>2, <1>3, Zenon

\* What was planned is where debts and credits meet.
LEMMA PlanInvMeets == PlanInv => MeetInOrder
<1> DEFINE Meetings == {t \in {[payer |-> d, recipient |-> c, amount |-> Overlap(d, c)] :
                                   d \in Debtors(balance), c \in Creditors(balance)} : t.amount > 0}
<1>1. \A d, c : Meets(balance, d, c) = [payer |-> d, recipient |-> c, amount |-> Overlap(d, c)]
    BY Zenon DEF Meets, OverlapIn, UptoIn, Overlap, Upto
<1>2. Met(balance) = Meetings
    <2>1. ASSUME NEW t \in Met(balance) PROVE t \in Meetings
        BY <1>1 DEF Met
    <2>2. ASSUME NEW t \in Meetings PROVE t \in Met(balance)
        BY <1>1 DEF Met
    <2> QED BY <2>1, <2>2
<1>3. ASSUME PlanInv, planned # {}, Cardinality(Items(balance)) > MaxOptimal
      PROVE  planned = Met(balance)
    <2>1. planned = BuildTransfers(balance) /\ balance \in [People -> Int] /\ ZeroSum(balance, People)
        BY <1>3 DEF PlanInv
    <2> QED BY <1>3, <2>1, PlanMeets
<1>4. ASSUME planned # {} /\ Cardinality(Items(balance)) > MaxOptimal => planned = Meetings
      PROVE  MeetInOrder
    BY <1>4 DEF MeetInOrder
<1> HIDE DEF Meetings
<1> QED BY <1>2, <1>3, <1>4

\* The plan of a settlement moves every balance to 0, from those who owe to
\* those who are owed; with as few transfers as any grouping of the people
\* allows up to MaxOptimal of them, and where debts and credits meet in order
\* above it (build_settlement_transfers).
THEOREM TransfersStayPlanned == SumSpec => []TransfersPlanned
<1>1. PlanInv => TransfersPlanned
    BY PlanInvSettles, PlanInvFewest, PlanInvMeets DEF TransfersPlanned
<1> QED BY <1>1, PlanAlways, PTL

\* A split adds up to the amount, its shares differ by a unit at most, the
\* larger ones first (split_amount_evenly).
THEOREM SplitStaysFair == SumSpec => []SplitIsFair
<1>1. PlanInv => SplitIsFair
    <2> SUFFICES ASSUME PlanInv, shares # <<>> PROVE SplitIsFair
        BY DEF SplitIsFair
    <2> DEFINE people == Items(balance)
    <2>1. /\ shares = SplitEvenly(total, people) /\ people # {} /\ total \in Nat
          /\ balance \in [People -> Int] /\ ZeroSum(balance, People)
        BY DEF PlanInv
    <2>2. people \subseteq Int /\ IsFiniteSet(people)
        BY <2>1, PeoplePlain, ItemsAreLevel DEF Plain
    <2> HIDE DEF people
    <2>3. /\ shares \in [people -> Nat] /\ SumFunction(shares) = total
          /\ \A u, v \in people : u < v => shares[u] - shares[v] \in {0, 1}
        BY <2>1, <2>2, SplitAdds
    <2> QED BY <2>3 DEF SplitIsFair
<1> QED BY <1>1, PlanAlways, PTL

\* The split of the code is one that adds up, so that FundedStaysBalanced
\* holds of it.
LEMMA EvenSplitsAddUp ==
    ASSUME Users \subseteq Int,
           \A price \in Totals, people \in (SUBSET Users) \ {{}} :
               Split(price, people) = SplitEvenly(price, people)
    PROVE  SplitsAddUp
<1> SUFFICES ASSUME NEW price \in Totals, NEW people \in (SUBSET Users) \ {{}}
             PROVE  SumFunction(Split(price, people)) = price
    BY DEF SplitsAddUp
<1>1. price \in Nat /\ people \subseteq Int /\ people # {} /\ IsFiniteSet(people)
    BY AmountsAssumption, UsersAssumption, FS_Subset
<1>2. SumFunction(SplitEvenly(price, people)) = price
    BY <1>1, SplitAdds
<1> QED BY <1>2

----------------------------------------------------------------------------
(* No settlement is shorter *)

\* Balances that are equal have the same groupings.
LEMMA GroupingSame ==
    ASSUME NEW T, IsFiniteSet(T), NEW f, NEW n, \A x \in T : n[x] = f[x], NEW P, Grouping(P, n, T)
    PROVE  Grouping(P, f, T)
<1>1. ASSUME NEW h \in P PROVE ZeroSum(f, h)
    <2>1. h \subseteq T /\ ZeroSum(n, h)
        BY DEF Grouping
    <2>2. IsFiniteSet(h) /\ \A x \in h : n[x] = f[x]
        BY <2>1, FS_Subset
    <2>3. SumFunctionOnSet(n, h) = SumFunctionOnSet(f, h)
        BY <2>2, SumsSame
    <2> QED BY <2>1, <2>3 DEF ZeroSum
<1> QED BY <1>1 DEF Grouping

\* Two people change by opposite amounts: their groups become one.
LEMMA MergeGroups ==
    ASSUME NEW T, IsFiniteSet(T), NEW f, NEW n, \A x \in T : f[x] \in Int /\ n[x] \in Int,
           NEW Q, Grouping(Q, n, T), NEW p \in T, NEW r \in T, p # r, f[p] + f[r] = n[p] + n[r],
           \A u \in T : u # p /\ u # r => n[u] = f[u]
    PROVE  \E R : Grouping(R, f, T) /\ Cardinality(R) + 1 >= Cardinality(Q)
<1>1. PICK A \in Q : p \in A
    BY DEF Grouping
<1>2. PICK B \in Q : r \in B
    BY DEF Grouping
<1> DEFINE M == A \cup B
           W == T \ M
<1>3. /\ Grouping(Q \ {A}, n, T \ A) /\ Cardinality(Q \ {A}) = Cardinality(Q) - 1
      /\ A \subseteq T /\ ZeroSum(n, A)
    BY DropGroup
<1>4. Cardinality(Q) \in Nat
    BY GroupingIsFinite
<1>5. \E R : Grouping(R, n, W) /\ Cardinality(R) + 2 >= Cardinality(Q) /\ ZeroSum(n, M) /\ M \subseteq T
    <2>1. CASE A = B
        <3>1. M = A
            BY <2>1
        <3>2. Cardinality(Q \ {A}) + 2 >= Cardinality(Q)
            BY <1>3, <1>4
        <3> QED BY <1>3, <3>1, <3>2
    <2>2. CASE A # B
        <3> DEFINE S == T \ A
                   P == Q \ {A}
        <3>1. B \in P /\ IsFiniteSet(S)
            BY <2>2, FS_Subset
        <3>2. Grouping(P, n, S) /\ Cardinality(P) = Cardinality(Q) - 1
            BY <1>3
        <3>3. /\ Grouping(P \ {B}, n, S \ B) /\ Cardinality(P \ {B}) = Cardinality(P) - 1
              /\ B \subseteq S /\ ZeroSum(n, B)
            <4> HIDE DEF S, P
            <4> QED BY <3>1, <3>2, DropGroup
        <3>4. S \ B = W /\ M \ A = B /\ M \subseteq T /\ A \in SUBSET M
            BY <1>3, <3>3
        <3>5. IsFiniteSet(M) /\ \A x \in M : n[x] \in Int
            BY <3>4, FS_Subset
        <3>6. SumFunctionOnSet(n, M) = SumFunctionOnSet(n, A) + SumFunctionOnSet(n, M \ A)
            <4> HIDE DEF M
            <4> QED BY <3>4, <3>5, SumParts
        <3>7. SumFunctionOnSet(n, A) = 0 /\ SumFunctionOnSet(n, M \ A) = 0
            BY <1>3, <3>3, <3>4 DEF ZeroSum
        <3>8. ZeroSum(n, M)
            <4> HIDE DEF M
            <4> QED BY <3>6, <3>7 DEF ZeroSum
        <3>9. Cardinality(P \ {B}) + 2 >= Cardinality(Q)
            <4> HIDE DEF P
            <4> QED BY <1>4, <3>2, <3>3
        <3> HIDE DEF S, P, M, W
        <3> QED BY <3>3, <3>4, <3>8, <3>9
    <2> QED BY <2>1, <2>2
<1>6. PICK R : Grouping(R, n, W) /\ Cardinality(R) + 2 >= Cardinality(Q) /\ ZeroSum(n, M) /\ M \subseteq T
    BY <1>5
<1>7. p \in M /\ r \in M /\ M # {} /\ W = T \ M
    BY <1>1, <1>2
<1> HIDE DEF M, W
<1>8. IsFiniteSet(M) /\ IsFiniteSet(W)
    BY <1>6, <1>7, FS_Subset
<1>9. Grouping(R, f, W)
    <2>1. \A x \in W : n[x] = f[x]
        BY <1>7
    <2> QED BY <1>6, <1>8, <2>1, GroupingSame
<1>10. ZeroSum(f, M)
    <2>1. \A u \in M : f[u] \in Int /\ n[u] \in Int
        BY <1>6
    <2>2. \A u \in M : u # p /\ u # r => n[u] = f[u]
        BY <1>6
    <2>3. SumFunctionOnSet(f, M) = SumFunctionOnSet(n, M)
        BY <1>7, <1>8, <2>1, <2>2, SumKept
    <2> QED BY <1>6, <2>3 DEF ZeroSum
<1>11. Grouping({M} \cup R, f, T) /\ Cardinality({M} \cup R) = Cardinality(R) + 1
    BY <1>6, <1>7, <1>9, <1>10, AddGroup
<1>12. Cardinality(R) \in Nat
    BY <1>6, <1>8, GroupingIsFinite
<1>13. Cardinality({M} \cup R) + 1 >= Cardinality(Q)
    BY <1>4, <1>6, <1>11, <1>12
<1> QED BY <1>11, <1>13

\* People without a balance are a group each.
LEMMA SingleGroups ==
    ASSUME NEW T, IsFiniteSet(T), NEW f, \A x \in T : f[x] = 0
    PROVE  \E Q : Grouping(Q, f, T) /\ Cardinality(Q) = Cardinality(T)
<1> DEFINE G == {S \in SUBSET T : \E Q : Grouping(Q, f, S) /\ Cardinality(Q) = Cardinality(S)}
<1>1. ASSUME NEW S \in SUBSET T, \A U \in SUBSET S : U # S => U \in G
      PROVE  S \in G
    <2>1. CASE S = {}
        <3>1. Grouping({}, f, S)
            BY <2>1 DEF Grouping
        <3> QED BY <2>1, <3>1
    <2>2. CASE S # {}
        <3>1. PICK u \in S : TRUE
            BY <2>2
        <3> DEFINE U == S \ {u}
        <3>2. IsFiniteSet(S) /\ U \in SUBSET S /\ U # S
            BY <3>1, FS_Subset
        <3>3. PICK Q : Grouping(Q, f, U) /\ Cardinality(Q) = Cardinality(U)
            BY <1>1, <3>2
        <3>4. ZeroSum(f, {u})
            <4>1. IsFiniteSet({u}) /\ \A x \in {u} : f[x] = 0
                BY FS_Singleton
            <4> QED BY <4>1, SumOfZeroes DEF ZeroSum
        <3>5. Grouping({{u}} \cup Q, f, S) /\ Cardinality({{u}} \cup Q) = Cardinality(Q) + 1
            <4> DEFINE h == {u}
            <4>1. h \subseteq S /\ h # {} /\ ZeroSum(f, h) /\ Grouping(Q, f, S \ h)
                BY <3>3, <3>4
            <4> HIDE DEF h
            <4>2. Grouping({h} \cup Q, f, S) /\ Cardinality({h} \cup Q) = Cardinality(Q) + 1
                BY <3>2, <4>1, AddGroup
            <4> QED BY <4>2 DEF h
        <3>6. Cardinality(U) = Cardinality(S) - 1 /\ Cardinality(S) \in Nat
            BY <3>1, <3>2, FS_RemoveElement, FS_CardinalityType
        <3> HIDE DEF U
        <3>7. Cardinality({{u}} \cup Q) = Cardinality(S)
            BY <3>3, <3>5, <3>6
        <3> QED BY <3>5, <3>7
    <2> QED BY <2>1, <2>2
<1>2. T \in G
    <2> HIDE DEF G
    <2> QED BY <1>1, SubsetsInduction
<1> QED BY <1>2

\* Transfers among the people of f, in any directions and amounts, that settle f.
Settling(f, P) ==
    /\ IsFiniteSet(P)
    /\ \A t \in P : t.payer \in DOMAIN f /\ t.recipient \in DOMAIN f /\ t.amount \in Int
    /\ \A u \in DOMAIN f : f[u] + Out(P, u) - In(P, u) = 0

Grouped(U, f, k) == \E Q : Grouping(Q, f, U) /\ Cardinality(Q) + k >= Cardinality(U)

\* Each transfer connects at most two groups.
LEMMA SettlingGroups ==
    ASSUME NEW U, IsFiniteSet(U), NEW f \in [U -> Int], NEW P, Settling(f, P)
    PROVE  Grouped(U, f, Cardinality(P))
<1> DEFINE Holds(R) == \A x \in [U -> Int] : Settling(x, R) => Grouped(U, x, Cardinality(R))
           G == {R \in SUBSET P : Holds(R)}
<1>0. IsFiniteSet(P) /\ Cardinality(U) \in Nat
    BY FS_CardinalityType DEF Settling
<1>1. ASSUME NEW R \in SUBSET P, \A V \in SUBSET R : V # R => V \in G
      PROVE  R \in G
    <2> SUFFICES ASSUME NEW x \in [U -> Int], Settling(x, R) PROVE Grouped(U, x, Cardinality(R))
        OBVIOUS
    <2>1. IsFiniteSet(R) /\ Cardinality(R) \in Nat /\ \A u \in U : x[u] \in Int
        BY FS_CardinalityType DEF Settling
    <2>2. CASE R = {}
        <3>1. \A u \in U : x[u] = 0
            <4> TAKE u \in U
            <4>1. x[u] + Out({}, u) - In({}, u) = 0 /\ x[u] \in Int
                BY <2>2 DEF Settling
            <4> QED BY <4>1, OutOfNone
        <3>2. PICK Q : Grouping(Q, x, U) /\ Cardinality(Q) = Cardinality(U)
            BY <3>1, SingleGroups
        <3>3. Cardinality(R) = 0
            BY <2>2, FS_EmptySet
        <3>4. Cardinality(Q) + Cardinality(R) >= Cardinality(U)
            BY <1>0, <3>2, <3>3
        <3> QED BY <3>2, <3>4 DEF Grouped
    <2>3. CASE R # {}
        <3>1. PICK s \in R : TRUE
            BY <2>3
        <3> DEFINE V == R \ {s}
                   p == s.payer
                   r == s.recipient
                   a == s.amount
                   n == [u \in U |-> x[u] + (IF p = u THEN a ELSE 0) - (IF r = u THEN a ELSE 0)]
        <3>2. /\ V \in SUBSET R /\ V # R /\ s \notin V /\ R = {s} \cup V
              /\ IsFiniteSet(V) /\ Cardinality(V) = Cardinality(R) - 1
            BY <2>1, <3>1, FS_RemoveElement, FS_Subset
        <3>3. p \in U /\ r \in U /\ a \in Int /\ \A t \in V : t.amount \in Int
            BY <3>1 DEF Settling
        <3>4. n \in [U -> Int] /\ DOMAIN n = U
            BY <2>1, <3>3
        <3>5. ASSUME NEW u \in U PROVE n[u] + Out(V, u) - In(V, u) = 0
            <4>1. /\ Out({s} \cup V, u) = Out(V, u) + (IF s.payer = u THEN s.amount ELSE 0)
                  /\ In({s} \cup V, u) = In(V, u) + (IF s.recipient = u THEN s.amount ELSE 0)
                  /\ Out(V, u) \in Int /\ In(V, u) \in Int
                <5> HIDE DEF V
                <5> QED BY <3>2, <3>3, OneMore
            <4>2. x[u] + Out(R, u) - In(R, u) = 0 /\ x[u] \in Int
                BY <2>1 DEF Settling
            <4>3. x[u] + Out({s} \cup V, u) - In({s} \cup V, u) = 0
                BY <3>2, <4>2
            <4>4. n[u] = x[u] + (IF p = u THEN a ELSE 0) - (IF r = u THEN a ELSE 0)
                OBVIOUS
            <4> HIDE DEF n, V
            <4> QED BY <3>3, <4>1, <4>2, <4>3, <4>4
        <3>6. Settling(n, V)
            <4>1. \A t \in V : t.payer \in U /\ t.recipient \in U /\ t.amount \in Int
                BY DEF Settling
            <4> HIDE DEF n, V
            <4> QED BY <3>2, <3>4, <3>5, <4>1 DEF Settling
        <3>7. Grouped(U, n, Cardinality(V))
            <4>1. Holds(V)
                <5> HIDE DEF V, Holds
                <5> QED BY <1>1, <3>2
            <4> HIDE DEF n, V
            <4> QED BY <3>4, <3>6, <4>1
        <3>8. PICK Q : Grouping(Q, n, U) /\ Cardinality(Q) + Cardinality(V) >= Cardinality(U)
            BY <3>7 DEF Grouped
        <3>9. Cardinality(Q) \in Nat
            BY <3>8, GroupingIsFinite
        <3>10. \E W : Grouping(W, x, U) /\ Cardinality(W) + 1 >= Cardinality(Q)
            <4>1. CASE p = r
                <5>1. \A u \in U : n[u] = x[u]
                    BY <2>1, <3>3, <4>1
                <5>2. Grouping(Q, x, U)
                    <6> HIDE DEF n
                    <6> QED BY <3>8, <5>1, GroupingSame
                <5>3. Cardinality(Q) + 1 >= Cardinality(Q)
                    BY <3>9
                <5> QED BY <5>2, <5>3
            <4>2. CASE p # r
                <5>1. n[p] = x[p] + a /\ n[r] = x[r] - a /\ \A u \in U : u # p /\ u # r => n[u] = x[u]
                    BY <2>1, <3>3, <4>2
                <5>2. \A u \in U : x[u] \in Int /\ n[u] \in Int
                    BY <2>1, <3>4
                <5> HIDE DEF n, p, r, a
                <5>3. x[p] + x[r] = n[p] + n[r]
                    BY <3>3, <5>1, <5>2
                <5> QED BY <3>3, <3>8, <4>2, <5>1, <5>2, <5>3, MergeGroups
            <4> QED BY <4>1, <4>2
        <3>11. PICK W : Grouping(W, x, U) /\ Cardinality(W) + 1 >= Cardinality(Q)
            BY <3>10
        <3>12. Cardinality(W) \in Nat
            BY <3>11, GroupingIsFinite
        <3> HIDE DEF V, n
        <3>13. Cardinality(W) + Cardinality(R) >= Cardinality(U)
            BY <1>0, <2>1, <3>2, <3>8, <3>9, <3>11, <3>12
        <3> QED BY <3>11, <3>13 DEF Grouped
    <2> QED BY <2>2, <2>3
<1>2. P \in G
    <2> HIDE DEF G
    <2> QED BY <1>0, <1>1, SubsetsInduction
<1> QED BY <1>2

\* Whoever has no balance may be left out, and leaves at most one group less.
LEMMA LeaveOne ==
    ASSUME NEW T, IsFiniteSet(T), NEW f, \A x \in T : f[x] \in Int, NEW z \in T, f[z] = 0,
           NEW Q, Grouping(Q, f, T)
    PROVE  \E R : Grouping(R, f, T \ {z}) /\ Cardinality(R) + 1 >= Cardinality(Q)
<1>1. PICK h \in Q : z \in h
    BY DEF Grouping
<1>2. /\ Grouping(Q \ {h}, f, T \ h) /\ Cardinality(Q \ {h}) = Cardinality(Q) - 1
      /\ h \subseteq T /\ ZeroSum(f, h)
    BY DropGroup
<1>3. Cardinality(Q) \in Nat
    BY GroupingIsFinite
<1> DEFINE P == Q \ {h}
           k == h \ {z}
           S == T \ {z}
<1>4. CASE k = {}
    <2>1. T \ h = S
        BY <1>1, <1>4
    <2>2. Cardinality(P) + 1 >= Cardinality(Q)
        BY <1>2, <1>3
    <2> QED BY <1>2, <2>1, <2>2
<1>5. CASE k # {}
    <2>1. T \ h = S \ k /\ k \subseteq S
        BY <1>1, <1>2
    <2>2. IsFiniteSet(S) /\ IsFiniteSet(h) /\ \A x \in h : f[x] \in Int
        BY <1>2, FS_Subset
    <2>3. SumFunctionOnSet(f, h) = f[z] + SumFunctionOnSet(f, k)
        BY <1>1, <2>2, SumTakes
    <2>4. SumFunctionOnSet(f, k) \in Int
        <3>1. IsFiniteSet(k) /\ \A x \in k : f[x] \in Int
            BY <2>2, FS_Subset
        <3> HIDE DEF k
        <3> QED BY <3>1, SumIsInt
    <2>5. ZeroSum(f, k)
        <3> HIDE DEF k
        <3> QED BY <1>2, <2>3, <2>4 DEF ZeroSum
    <2>6. Grouping(P, f, S \ k)
        BY <1>2, <2>1
    <2> HIDE DEF k, S
    <2>7. Grouping({k} \cup P, f, S) /\ Cardinality({k} \cup P) = Cardinality(P) + 1
        <3> HIDE DEF P
        <3> QED BY <1>5, <2>1, <2>2, <2>5, <2>6, AddGroup
    <2>8. Cardinality({k} \cup P) + 1 >= Cardinality(Q)
        BY <1>2, <1>3, <2>7
    <2> HIDE DEF P
    <2> QED BY <2>7, <2>8 DEF S
<1> QED BY <1>4, <1>5

\* So may all of them.
LEMMA LeaveAll ==
    ASSUME NEW T, IsFiniteSet(T), NEW Z, IsFiniteSet(Z), T \cap Z = {}, NEW f,
           \A x \in T \cup Z : f[x] \in Int, \A x \in Z : f[x] = 0,
           NEW Q, Grouping(Q, f, T \cup Z)
    PROVE  \E R : Grouping(R, f, T) /\ Cardinality(R) + Cardinality(Z) >= Cardinality(Q)
<1> DEFINE Left(Y) == \A P : Grouping(P, f, T \cup Y) =>
                          \E R : Grouping(R, f, T) /\ Cardinality(R) + Cardinality(Y) >= Cardinality(P)
           G == {Y \in SUBSET Z : Left(Y)}
<1>1. ASSUME NEW Y \in SUBSET Z, \A V \in SUBSET Y : V # Y => V \in G
      PROVE  Y \in G
    <2> SUFFICES ASSUME NEW P, Grouping(P, f, T \cup Y)
                 PROVE  \E R : Grouping(R, f, T) /\ Cardinality(R) + Cardinality(Y) >= Cardinality(P)
        OBVIOUS
    <2>1. IsFiniteSet(Y) /\ IsFiniteSet(T \cup Y) /\ Cardinality(Y) \in Nat
        BY FS_Subset, FS_Union, FS_CardinalityType
    <2>2. Cardinality(P) \in Nat
        BY <2>1, GroupingIsFinite
    <2>3. CASE Y = {}
        <3>1. T \cup Y = T /\ Cardinality(Y) = 0
            BY <2>3, FS_EmptySet
        <3>2. Cardinality(P) + Cardinality(Y) >= Cardinality(P)
            BY <2>2, <3>1
        <3> QED BY <3>1, <3>2
    <2>4. CASE Y # {}
        <3>1. PICK z \in Y : TRUE
            BY <2>4
        <3> DEFINE V == Y \ {z}
                   S == T \cup Y
        <3>2. V \in SUBSET Y /\ V # Y /\ S \ {z} = T \cup V /\ z \in S /\ f[z] = 0
            BY <3>1
        <3>3. Cardinality(V) = Cardinality(Y) - 1 /\ Cardinality(V) \in Nat
            BY <2>1, <3>1, <3>2, FS_RemoveElement, FS_Subset, FS_CardinalityType
        <3>4. PICK R : Grouping(R, f, S \ {z}) /\ Cardinality(R) + 1 >= Cardinality(P)
            <4>1. IsFiniteSet(S) /\ (\A x \in S : f[x] \in Int) /\ Grouping(P, f, S)
                BY <2>1
            <4> HIDE DEF S
            <4> QED BY <3>2, <4>1, LeaveOne
        <3>5. PICK W : Grouping(W, f, T) /\ Cardinality(W) + Cardinality(V) >= Cardinality(R)
            <4>1. Left(V)
                <5> HIDE DEF Left, V
                <5> QED BY <1>1, <3>2
            <4> HIDE DEF V, S
            <4> QED BY <3>2, <3>4, <4>1
        <3>6. Cardinality(R) \in Nat /\ Cardinality(W) \in Nat
            <4>1. IsFiniteSet(S \ {z})
                BY <2>1, FS_Subset
            <4> QED BY <3>4, <3>5, <4>1, GroupingIsFinite
        <3> HIDE DEF V, S
        <3>7. Cardinality(W) + Cardinality(Y) >= Cardinality(P)
            BY <2>1, <2>2, <3>3, <3>4, <3>5, <3>6
        <3> QED BY <3>5, <3>7
    <2> QED BY <2>3, <2>4
<1>2. Z \in G
    <2> HIDE DEF G
    <2> QED BY <1>1, SubsetsInduction
<1> QED BY <1>2

\* No transfers that settle the balances are fewer than the plan.
Shortest(f, P) == \A S : Settling(f, S) => Cardinality(P) <= Cardinality(S)

\* Up to the limit the plan is as short as any set of transfers can be.
LEMMA PlanIsShortest ==
    ASSUME NEW U, Plain(U), NEW f \in [U -> Int], ZeroSum(f, U), Cardinality(Items(f)) <= MaxOptimal
    PROVE  Shortest(f, BuildTransfers(f))
<1> SUFFICES ASSUME NEW P, Settling(f, P) PROVE Cardinality(BuildTransfers(f)) <= Cardinality(P)
    BY DEF Shortest
<1> DEFINE T == Items(f)
           Z == U \ T
<1>1. /\ IsFiniteSet(U) /\ T \in SUBSET U /\ IsFiniteSet(T) /\ IsFiniteSet(Z)
      /\ T \cap Z = {} /\ T \cup Z = U
    <2>1. IsFiniteSet(U) /\ T \in SUBSET U /\ IsFiniteSet(T)
        BY ItemsAreLevel DEF Plain
    <2> QED BY <2>1, FS_Subset
<1>2. \A x \in Z : f[x] = 0
    BY DEF Items
<1> HIDE DEF T, Z
<1>3. Cardinality(P) \in Nat /\ IsFiniteSet(P)
    BY FS_CardinalityType DEF Settling
<1>4. PICK Q : Grouping(Q, f, U) /\ Cardinality(Q) + Cardinality(P) >= Cardinality(U)
    BY <1>1, SettlingGroups DEF Grouped
<1>5. PICK R : Grouping(R, f, T) /\ Cardinality(R) + Cardinality(Z) >= Cardinality(Q)
    <2>1. \A x \in T \cup Z : f[x] \in Int
        BY <1>1
    <2>2. Grouping(Q, f, T \cup Z)
        BY <1>1, <1>4
    <2> QED BY <1>1, <1>2, <2>1, <2>2, LeaveAll
<1>6. /\ Cardinality(Z) \in Nat /\ Cardinality(T) \in Nat
      /\ Cardinality(Q) \in Nat /\ Cardinality(R) \in Nat
    BY <1>1, <1>4, <1>5, GroupingIsFinite, FS_CardinalityType
<1>7. Cardinality(U) = Cardinality(T) + Cardinality(Z)
    <2>1. Cardinality(T \cup Z) = Cardinality(T) + Cardinality(Z) - Cardinality(T \cap Z)
        BY <1>1, FS_Union
    <2>2. Cardinality(T \cap Z) = 0
        BY <1>1, FS_EmptySet
    <2> QED BY <1>1, <1>6, <2>1, <2>2
<1>8. Cardinality(R) + Cardinality(P) >= Cardinality(T)
    BY <1>3, <1>4, <1>5, <1>6, <1>7
<1>9. CASE BuildTransfers(f) = {}
    BY <1>3, <1>9, FS_EmptySet
<1>10. CASE BuildTransfers(f) # {}
    <2>1. Cardinality(BuildTransfers(f)) = Cardinality(T) - Max(Counts(f, T))
        BY <1>10, PlanIsFewest DEF T
    <2>2. PICK B : Greatest(B, f, T) /\ BuildTransfers(f) = PlanOf(f, B)
        BY PlanIsGrouped DEF T
    <2>3. T # {}
        <3> SUFFICES ASSUME T = {} PROVE FALSE
            OBVIOUS
        <3>1. B = {}
            BY <2>2 DEF Greatest, Grouping
        <3> QED BY <1>10, <2>2, <3>1 DEF PlanOf
    <2>4. Max(Counts(f, T)) = Cardinality(B)
        BY <1>1, <2>2, <2>3, GreatestCount
    <2>5. Cardinality(R) <= Cardinality(B) /\ Cardinality(B) \in Nat
        BY <1>1, <1>5, <2>2, GroupingIsFinite DEF Greatest
    <2> QED BY <1>3, <1>6, <1>8, <2>1, <2>4, <2>5
<1> QED BY <1>9, <1>10

----------------------------------------------------------------------------
(* The settlement in force settles the trip *)

\* The plan is the plan of build_settlement_transfers.
PlansAsBuilt == Users \subseteq Int /\ \A b \in [Users -> Int] : Plan(b) = BuildTransfers(b)

\* finalize_settlement refuses balances that do not add up to nothing, and while
\* the settlement is in force they do not change.
FinalIsLevel == active => SumFunction(Balances) = 0

Due == {t.payment : t \in InForce}

\* With every payment that is due made, nobody owes or is owed anything; and
\* only those who owe pay, and only those who are owed are paid.
DueSettles == active => PlanSettles(Balances, Due)

\* And there are as few of them as can be.
DueIsShortest == active /\ Cardinality(Items(Balances)) <= MaxOptimal => Shortest(Balances, Due)

\* What an expense adds to a balance is an integer.
LEMMA NetIsInt ==
    ASSUME Inv, NEW e \in Live
    PROVE  \A u \in Users : Net(e, u) \in Int
<1> DEFINE people == expense[e].people
           paid == expense[e].paid
           share == expense[e].share
<1>1. /\ people \subseteq Users
      /\ paid \in [people -> Nat] /\ share \in [people -> Nat] /\ expense[e].total \in Nat
    <2>1. expense[e] \in Bills
        BY LiveBill DEF Inv, Types, ExpensesOK
    <2> QED BY <2>1, AmountsAssumption DEF Inv, Types, Bills, AmountsOf
<1>2. IsFiniteSet(people)
    BY <1>1, UsersAssumption, FS_Subset
<1>3. Paid(e) = SumFunctionOnSet(paid, people)
    <2>1. DOMAIN paid = people
        BY <1>1
    <2> QED BY <2>1 DEF Paid, SumFunction
<1>4. Surplus(e) \in Nat
    <2>1. Paid(e) \in Nat
        BY <1>1, <1>2, <1>3, SumBounds
    <2> QED BY <1>1, <2>1 DEF Surplus, Positive
<1> QED BY <1>1, <1>4 DEF Net

\* The balances of a trip are integers.
LEMMA BalancesAreInt == ASSUME Inv PROVE Balances \in [Users -> Int]
<1>1. IsFiniteSet(Live)
    BY ExpensesAssumption, FS_Subset DEF Live
<1>2. ASSUME NEW u \in Users PROVE SumFunction([e \in Live |-> Net(e, u)]) \in Int
    <2> DEFINE net == [e \in Live |-> Net(e, u)]
    <2>1. \A e \in Live : net[e] \in Int
        BY NetIsInt
    <2>2. DOMAIN net = Live
        OBVIOUS
    <2> HIDE DEF net
    <2>3. SumFunctionOnSet(net, Live) \in Int
        BY <1>1, <2>1, SumIsInt
    <2>4. SumFunction(net) \in Int
        BY <2>2, <2>3 DEF SumFunction
    <2> QED BY <2>4 DEF net
<1> QED BY <1>2, Zenon DEF Balances

\* Level balances are finalized and nothing else, and while they are final they stay.
LEMMA FinalStaysLevel == Inv /\ FinalIsLevel /\ [Next]_vars => FinalIsLevel'
<1> SUFFICES ASSUME Inv, FinalIsLevel, [Next]_vars PROVE FinalIsLevel'
    OBVIOUS
<1>1. ASSUME UNCHANGED <<expense, active, settled, transfers>> PROVE FinalIsLevel'
    <2>1. Balances' = Balances /\ active' = active
        BY <1>1, SameBook
    <2> QED BY <2>1 DEF FinalIsLevel
<1>2. CASE Membership
    BY <1>1, <1>2 DEF Membership, Join, Leave, Close
<1>3. CASE Book
    <2>1. ~active
        BY <1>3 DEF Book, CreateExpense, UpdateExpense, DeleteExpense, SetContribution, Editable,
                    Inv, LockedWhileFinal, Live
    <2>2. active' = active
        BY <1>3 DEF Book, CreateExpense, UpdateExpense, DeleteExpense, SetContribution
    <2> QED BY <2>1, <2>2 DEF FinalIsLevel
<1>4. CASE Finalize
    <2>1. ExpensesOK /\ expense' = Lock(TRUE)
        BY <1>4 DEF Inv, Types, ExpensesOK, Finalize
    <2>2. Balances' = Balances
        BY <2>1, LockKeepsBalances
    <2>3. SumFunction(Balances) = 0
        BY <1>4 DEF Finalize
    <2> QED BY <2>2, <2>3 DEF FinalIsLevel
<1>5. CASE Reopen
    BY <1>5 DEF Reopen, FinalIsLevel
<1>6. CASE \E t \in transfers : MarkSent(t) \/ ConfirmReceived(t)
    BY <1>1, <1>6 DEF MarkSent, ConfirmReceived
<1>7. CASE UNCHANGED vars
    BY <1>1, <1>7 DEF vars
<1> QED BY <1>2, <1>3, <1>4, <1>5, <1>6, <1>7 DEF Next, Settle

\* What is due is the plan.
LEMMA DueIsPlan == ASSUME Inv, active PROVE Due = Plan(Balances)
<1>1. InForce = Issue(settled, Plan(Balances))
    BY DEF Inv, PlanCurrent
<1> DEFINE P == Plan(Balances)
<1> HIDE DEF P
<1>2. InForce = {[settlement |-> settled, payment |-> p] : p \in P}
    BY <1>1, Zenon DEF Issue, P
<1>3. ASSUME NEW p \in P PROVE p \in Due
    <2>1. [settlement |-> settled, payment |-> p] \in InForce
        BY <1>2
    <2>2. [settlement |-> settled, payment |-> p].payment = p
        OBVIOUS
    <2> QED BY <2>1, <2>2, Zenon DEF Due
<1>4. ASSUME NEW p \in Due PROVE p \in P
    <2>1. PICK t \in InForce : p = t.payment
        BY <1>4 DEF Due
    <2>2. PICK q \in P : t = [settlement |-> settled, payment |-> q]
        BY <1>2, <2>1
    <2> QED BY <2>1, <2>2
<1> QED BY <1>3, <1>4 DEF P

\* A plan for level balances settles them, and is the shortest up to the limit.
LEMMA LevelIsSettled == PlansAsBuilt /\ Inv /\ FinalIsLevel => DueSettles /\ DueIsShortest
<1> SUFFICES ASSUME PlansAsBuilt, Inv, FinalIsLevel, active
             PROVE  /\ PlanSettles(Balances, Due)
                    /\ Cardinality(Items(Balances)) <= MaxOptimal => Shortest(Balances, Due)
    BY DEF DueSettles, DueIsShortest
<1>1. Balances \in [Users -> Int] /\ SumFunction(Balances) = 0
    BY BalancesAreInt DEF FinalIsLevel
<1>2. Due = BuildTransfers(Balances)
    BY <1>1, DueIsPlan DEF PlansAsBuilt
<1>3. Plain(Users)
    BY UsersAssumption DEF Plain, PlansAsBuilt
<1>4. ZeroSum(Balances, Users)
    <2>1. DOMAIN Balances = Users
        BY <1>1
    <2> QED BY <1>1, <2>1 DEF ZeroSum, SumFunction
<1>5. \A f \in [Users -> Int] : ZeroSum(f, Users) => PlanSettles(f, BuildTransfers(f))
    BY <1>3, PlanIsSettled
<1>6. \A f \in [Users -> Int] : ZeroSum(f, Users) /\ Cardinality(Items(f)) <= MaxOptimal =>
          Shortest(f, BuildTransfers(f))
    BY <1>3, PlanIsShortest
<1> QED BY <1>1, <1>2, <1>4, <1>5, <1>6

\* As long as a settlement is in force, whoever joins, leaves, closes the trip or
\* marks a transfer, its transfers settle the balances as they are now: made in
\* full they leave nobody with a debt or a credit (finalize_settlement,
\* build_settlement_transfers).
THEOREM SettlementSettles == PlansAsBuilt => (Spec => []DueSettles)
<1>1. Init => FinalIsLevel
    BY DEF Init, FinalIsLevel
<1> SUFFICES ASSUME PlansAsBuilt PROVE Spec => []DueSettles
    OBVIOUS
<1>2. Inv /\ FinalIsLevel => DueSettles
    BY LevelIsSettled
<1> QED BY <1>1, <1>2, FinalStaysLevel, Invariance, PTL DEF Spec

\* Up to the limit of the partition there are also no fewer payments that would
\* settle the trip: no set of transfers among its users, in whatever directions
\* and amounts, does with less (finalize_settlement, _max_zero_sum_partition).
THEOREM SettlementIsShortest == PlansAsBuilt => (Spec => []DueIsShortest)
<1>1. Init => FinalIsLevel
    BY DEF Init, FinalIsLevel
<1> SUFFICES ASSUME PlansAsBuilt PROVE Spec => []DueIsShortest
    OBVIOUS
<1>2. Inv /\ FinalIsLevel => DueIsShortest
    BY LevelIsSettled
<1> QED BY <1>1, <1>2, FinalStaysLevel, Invariance, PTL DEF Spec
=============================================================================
