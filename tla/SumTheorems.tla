-------- MODULE SumTheorems --------
(***************************************************************************)
(* Sums over finite sets, for the proofs about money.  SumFunctionOnSet is *)
(* a fold, which chooses the elements of the set one after the other; the  *)
(* theorems at the end make it a sum: what is added first does not matter. *)
(*                                                                         *)
(* Induction is over a set of subsets, "Good", instead of a predicate: a   *)
(* smallest set outside it exists as inclusion of finite sets is           *)
(* well-founded.                                                           *)
(***************************************************************************)
EXTENDS FiniteSetsExt, FiniteSetTheorems, TLAPS

\* A family of subsets of a finite set has a smallest member.
LEMMA SmallestSubset ==
  ASSUME NEW S, IsFiniteSet(S), NEW Bad, Bad \subseteq SUBSET S, Bad # {}
  PROVE  \E T \in Bad : \A U \in Bad : U \subseteq T => U = T
<1>1. IsWellFoundedOn(StrictSubsetOrdering(S), SUBSET S)
  BY FS_FiniteSubsetsOfFinite, FS_StrictSubsetOrderingWellFounded, Zenon
<1>2. \E T \in Bad : \A U \in Bad : ~(<<U, T>> \in StrictSubsetOrdering(S))
  BY <1>1, WFMin
<1>3. QED BY <1>2 DEF StrictSubsetOrdering

\* A family that holds every subset whose proper subsets it holds, holds
\* all subsets of a finite set.
LEMMA SubsetInduction ==
  ASSUME NEW S, IsFiniteSet(S), NEW Good \in SUBSET SUBSET S,
         \A T \in SUBSET S : (\A U \in SUBSET T : U # T => U \in Good) => T \in Good
  PROVE  SUBSET S \subseteq Good
<1> DEFINE Bad == (SUBSET S) \ Good
<1>1. SUFFICES ASSUME Bad # {} PROVE FALSE
  OBVIOUS
<1>2. PICK T \in Bad : \A U \in Bad : U \subseteq T => U = T
  <2>1. Bad \subseteq SUBSET S
    OBVIOUS
  <2> HIDE DEF Bad
  <2>2. QED BY <1>1, <2>1, SmallestSubset
<1>3. QED BY <1>2

\* The element that the fold takes from T.
Picked(T) == CHOOSE x \in T : TRUE

\* g sums f over the subsets of S, in the order of the fold.
Sums(f, S, g) ==
  g = [T \in SUBSET S |-> IF T = {} THEN 0 ELSE f[Picked(T)] + g[T \ {Picked(T)}]]

\* The element taken is one of the set.
LEMMA PickedIn == ASSUME NEW T, T # {} PROVE Picked(T) \in T
BY DEF Picked

\* What the library computes is the last value of such a function.
LEMMA FoldIsSum ==
  ASSUME NEW f, NEW S
  PROVE  SumFunctionOnSet(f, S) = (CHOOSE g : Sums(f, S, g))[S]
BY DEF SumFunctionOnSet, FoldFunctionOnSet, MapThenFoldSet, Sums, Picked

\* Two such functions agree.
LEMMA SumsUnique ==
  ASSUME NEW f, NEW S, IsFiniteSet(S), NEW R \in SUBSET S, NEW g, NEW h,
         Sums(f, S, g), Sums(f, R, h)
  PROVE  \A T \in SUBSET R : g[T] = h[T]
<1> DEFINE Good == {T \in SUBSET R : g[T] = h[T]}
<1>1. IsFiniteSet(R)
  BY FS_Subset
<1>2. ASSUME NEW T \in SUBSET R, \A U \in SUBSET T : U # T => U \in Good
      PROVE  T \in Good
  <2>1. CASE T = {}
    BY <2>1 DEF Sums
  <2>2. CASE T # {}
    <3> DEFINE U == T \ {Picked(T)}
    <3>1. Picked(T) \in T
      BY <2>2, PickedIn
    <3>2. U \in SUBSET T /\ U # T
      BY <3>1
    <3>3. g[U] = h[U]
      BY <1>2, <3>2
    <3>4. g[T] = f[Picked(T)] + g[U] /\ h[T] = f[Picked(T)] + h[U]
      BY <2>2 DEF Sums
    <3>5. QED BY <3>3, <3>4
  <2>3. QED BY <2>1, <2>2
<1>3. Good \in SUBSET SUBSET R
  OBVIOUS
<1> HIDE DEF Good
<1>4. SUBSET R \subseteq Good
  BY <1>1, <1>2, <1>3, SubsetInduction
<1>5. QED BY <1>4 DEF Good

\* There is one: the sum of T is put together from those of its parts.
LEMMA SumsExist ==
  ASSUME NEW f, NEW S, IsFiniteSet(S)
  PROVE  \E g : Sums(f, S, g)
<1> DEFINE Good == {T \in SUBSET S : \E g : Sums(f, T, g)}
<1> DEFINE Of(T) == CHOOSE g : Sums(f, T, g)
<1>1. ASSUME NEW T \in SUBSET S, \A U \in SUBSET T : U # T => U \in Good
      PROVE  T \in Good
  <2> DEFINE New(U) == IF U = {} THEN 0 ELSE f[Picked(U)] + Of(U \ {Picked(U)})[U \ {Picked(U)}]
  <2>1. ASSUME NEW U \in SUBSET T, U # T PROVE Sums(f, U, Of(U))
    BY <1>1, <2>1
  <2>2. ASSUME NEW U \in SUBSET T, U # T PROVE Of(U)[U] = New(U)
    <3>1. Sums(f, U, Of(U))
      BY <2>2, <2>1
    <3>2. CASE U = {}
      BY <3>1, <3>2 DEF Sums
    <3>3. CASE U # {}
      <4> DEFINE V == U \ {Picked(U)}
      <4>1. Picked(U) \in U
        BY <3>3, PickedIn
      <4>2. V \in SUBSET U /\ V \in SUBSET T /\ V # T
        BY <4>1
      <4>3. Sums(f, V, Of(V))
        BY <2>1, <4>2
      <4>4. IsFiniteSet(U)
        BY FS_Subset
      <4>5. Of(U)[V] = Of(V)[V]
        BY <3>1, <4>2, <4>3, <4>4, SumsUnique
      <4>6. Of(U)[U] = f[Picked(U)] + Of(U)[V]
        BY <3>1, <3>3 DEF Sums
      <4>7. QED BY <3>3, <4>5, <4>6
    <3>4. QED BY <3>2, <3>3
  <2> DEFINE whole == [U \in SUBSET T |-> New(U)]
  <2>3. ASSUME NEW U \in SUBSET T, U # {}
        PROVE  Of(U \ {Picked(U)})[U \ {Picked(U)}] = whole[U \ {Picked(U)}]
    <3> DEFINE V == U \ {Picked(U)}
    <3>1. Picked(U) \in U
      BY <2>3, PickedIn
    <3>2. V \in SUBSET T /\ V # T
      BY <3>1
    <3>3. Of(V)[V] = New(V)
      BY <3>2, <2>2
    <3> HIDE DEF V, New, Of
    <3>4. whole[V] = New(V)
      BY <3>2
    <3>5. QED BY <3>3, <3>4 DEF V
  <2>4. whole = [U \in SUBSET T |-> IF U = {} THEN 0 ELSE f[Picked(U)] + whole[U \ {Picked(U)}]]
    <3> HIDE DEF Of
    <3>1. \A U \in SUBSET T : New(U) = IF U = {} THEN 0 ELSE f[Picked(U)] + whole[U \ {Picked(U)}]
      <4> HIDE DEF whole
      <4>1. QED BY <2>3
    <3> DEFINE other == [U \in SUBSET T |-> IF U = {} THEN 0 ELSE f[Picked(U)] + whole[U \ {Picked(U)}]]
    <3> HIDE DEF New
    <3>2. \A U \in SUBSET T : whole[U] = other[U]
      BY <3>1
    <3>3. QED BY <3>2
  <2>5. Sums(f, T, whole)
    <3> HIDE DEF whole
    <3>1. QED BY <2>4 DEF Sums
  <2>6. QED BY <2>5
<1>2. Good \in SUBSET SUBSET S
  OBVIOUS
<1> HIDE DEF Good
<1>3. SUBSET S \subseteq Good
  BY <1>1, <1>2, SubsetInduction
<1>4. QED BY <1>3 DEF Good

\* Any such function gives the library's sum of every subset.
LEMMA FoldSums ==
  ASSUME NEW f, NEW S, IsFiniteSet(S), NEW g, Sums(f, S, g), NEW T \in SUBSET S
  PROVE  SumFunctionOnSet(f, T) = g[T]
<1>1. IsFiniteSet(T)
  BY FS_Subset
<1> DEFINE part == CHOOSE h : Sums(f, T, h)
<1>2. Sums(f, T, part)
  BY <1>1, SumsExist
<1>3. SumFunctionOnSet(f, T) = part[T]
  BY FoldIsSum
<1> HIDE DEF part
<1>4. g[T] = part[T]
  BY <1>2, SumsUnique
<1>5. QED BY <1>3, <1>4

\* All terms are integers.
IntegerOn(f, S) == \A s \in S : f[s] \in Int

\* Each subset has an integer sum, from which any term can be split off.
Splits(f, S, g) ==
  \A T \in SUBSET S : g[T] \in Int /\ \A x \in T : g[T] = f[x] + g[T \ {x}]

\* The fold takes one term first; by induction it could have been any.
LEMMA SumsSplit ==
  ASSUME NEW f, NEW S, IsFiniteSet(S), IntegerOn(f, S), NEW g, Sums(f, S, g)
  PROVE  Splits(f, S, g)
<1> USE DEF IntegerOn
<1> DEFINE Good == {T \in SUBSET S : g[T] \in Int /\ \A x \in T : g[T] = f[x] + g[T \ {x}]}
<1>1. ASSUME NEW T \in SUBSET S, \A U \in SUBSET T : U # T => U \in Good
      PROVE  T \in Good
  <2>1. CASE T = {}
    BY <2>1 DEF Sums
  <2>2. CASE T # {}
    <3> DEFINE c == Picked(T)
    <3>1. c \in T /\ f[c] \in Int
      BY <2>2, PickedIn
    <3>2. g[T] = f[c] + g[T \ {c}]
      BY <2>2 DEF Sums
    <3> HIDE DEF c
    <3>3. T \ {c} \in Good
      BY <1>1, <3>1
    <3>4. g[T] \in Int
      BY <3>1, <3>2, <3>3
    <3>5. ASSUME NEW x \in T, x # c PROVE g[T] = f[x] + g[T \ {x}]
      <4>1. T \ {x} \in Good
        BY <1>1
      <4> DEFINE rest == (T \ {c}) \ {x}
      <4>2. rest = (T \ {x}) \ {c}
        OBVIOUS
      <4>3. rest \in Good
        BY <1>1, <3>1
      <4>4. f[x] \in Int /\ g[rest] \in Int
        BY <4>3
      <4>5. g[T \ {x}] = f[c] + g[rest]
        BY <3>1, <3>5, <4>1, <4>2
      <4>6. g[T \ {c}] = f[x] + g[rest]
        BY <3>3, <3>5
      <4> HIDE DEF rest
      <4>7. g[T] = f[c] + (f[x] + g[rest])
        BY <3>2, <4>6
      <4>8. f[c] + (f[x] + g[rest]) = f[x] + (f[c] + g[rest])
        BY <3>1, <4>4
      <4>9. QED BY <4>5, <4>7, <4>8
    <3>6. QED BY <3>2, <3>4, <3>5
  <2>3. QED BY <2>1, <2>2
<1>2. Good \in SUBSET SUBSET S
  OBVIOUS
<1> HIDE DEF Good
<1>3. SUBSET S \subseteq Good
  BY <1>1, <1>2, SubsetInduction
<1>4. QED BY <1>3 DEF Good, Splits

----------------

\* The sum over nothing is zero.
THEOREM SumEmpty == ASSUME NEW f PROVE SumFunctionOnSet(f, {}) = 0
<1>1. PICK g : Sums(f, {}, g)
  BY FS_EmptySet, SumsExist
<1>2. SumFunctionOnSet(f, {}) = g[{}]
  BY <1>1, FS_EmptySet, FoldSums
<1>3. QED BY <1>1, <1>2 DEF Sums

\* The sum of zeros is zero.
THEOREM SumZero ==
  ASSUME NEW f, NEW S, IsFiniteSet(S), \A s \in S : f[s] = 0
  PROVE  SumFunctionOnSet(f, S) = 0
<1>1. PICK g : Sums(f, S, g)
  BY SumsExist
<1> DEFINE zero == [T \in SUBSET S |-> 0]
<1>2. Sums(f, S, zero)
  <2>1. \A T \in SUBSET S : T # {} => f[Picked(T)] = 0
    BY PickedIn
  <2> DEFINE all == [T \in SUBSET S |-> IF T = {} THEN 0 ELSE f[Picked(T)] + zero[T \ {Picked(T)}]]
  <2>2. \A T \in SUBSET S : zero[T] = all[T]
    BY <2>1
  <2>3. zero = all
    BY <2>2
  <2> QED BY <2>3 DEF Sums
<1>3. SumFunctionOnSet(f, S) = zero[S]
  BY <1>2, FoldSums
<1> QED BY <1>3

\* Any element can be added first: the order of the fold does not matter.
THEOREM SumSplit ==
  ASSUME NEW f, NEW S, IsFiniteSet(S), IntegerOn(f, S)
  PROVE  /\ SumFunctionOnSet(f, S) \in Int
         /\ \A x \in S : SumFunctionOnSet(f, S) = f[x] + SumFunctionOnSet(f, S \ {x})
<1>1. PICK g : Sums(f, S, g)
  BY SumsExist
<1>2. \A T \in SUBSET S : SumFunctionOnSet(f, T) = g[T]
  BY <1>1, FoldSums
<1>3. Splits(f, S, g)
  BY <1>1, SumsSplit
<1>4. QED BY <1>2, <1>3 DEF Splits

\* Functions that agree on a set have the same sum over it.
THEOREM SumSame ==
  ASSUME NEW f, NEW h, NEW S, IsFiniteSet(S), \A s \in S : f[s] = h[s]
  PROVE  SumFunctionOnSet(f, S) = SumFunctionOnSet(h, S)
<1>1. PICK g : Sums(f, S, g)
  BY SumsExist
<1>2. Sums(h, S, g)
  <2>1. \A T \in SUBSET S : T # {} => f[Picked(T)] = h[Picked(T)]
    BY PickedIn
  <2> DEFINE one == [T \in SUBSET S |-> IF T = {} THEN 0 ELSE f[Picked(T)] + g[T \ {Picked(T)}]]
             two == [T \in SUBSET S |-> IF T = {} THEN 0 ELSE h[Picked(T)] + g[T \ {Picked(T)}]]
  <2>2. \A T \in SUBSET S : one[T] = two[T]
    BY <2>1
  <2>3. one = two
    BY <2>2
  <2>4. QED BY <1>1, <2>3 DEF Sums
<1>3. QED BY <1>1, <1>2, FoldSums

\* Changing one term changes the sum by as much.
THEOREM SumChange ==
  ASSUME NEW f, NEW h, NEW S, IsFiniteSet(S), NEW x \in S,
         IntegerOn(f, S), IntegerOn(h, S),
         \A s \in S \ {x} : f[s] = h[s]
  PROVE  SumFunctionOnSet(h, S) = SumFunctionOnSet(f, S) + h[x] - f[x]
<1>1. IsFiniteSet(S \ {x})
  BY FS_Subset
<1>2. SumFunctionOnSet(f, S \ {x}) = SumFunctionOnSet(h, S \ {x})
  BY <1>1, SumSame
<1>3. SumFunctionOnSet(f, S \ {x}) \in Int
  <2>1. IntegerOn(f, S \ {x})
    BY DEF IntegerOn
  <2>2. QED BY <1>1, <2>1, SumSplit
<1>4. SumFunctionOnSet(f, S) = f[x] + SumFunctionOnSet(f, S \ {x})
  BY SumSplit
<1>5. SumFunctionOnSet(h, S) = h[x] + SumFunctionOnSet(h, S \ {x})
  BY SumSplit
<1>6. QED BY <1>2, <1>3, <1>4, <1>5 DEF IntegerOn

\* A sum of natural numbers is one.
THEOREM SumNat ==
  ASSUME NEW f, NEW S, IsFiniteSet(S), \A s \in S : f[s] \in Nat
  PROVE  SumFunctionOnSet(f, S) \in Nat
<1> DEFINE Good == {T \in SUBSET S : SumFunctionOnSet(f, T) \in Nat}
<1>1. ASSUME NEW T \in SUBSET S, \A U \in SUBSET T : U # T => U \in Good PROVE T \in Good
  <2>1. CASE T = {}
    BY <2>1, SumEmpty
  <2>2. CASE T # {}
    <3>1. PICK x \in T : TRUE
      BY <2>2
    <3>2. T \ {x} \in SUBSET T /\ T \ {x} # T
      BY <3>1
    <3>3. SumFunctionOnSet(f, T \ {x}) \in Nat
      BY <1>1, <3>2
    <3>4. IsFiniteSet(T) /\ IntegerOn(f, T)
      BY FS_Subset DEF IntegerOn
    <3>5. SumFunctionOnSet(f, T) = f[x] + SumFunctionOnSet(f, T \ {x})
      BY <3>1, <3>4, SumSplit
    <3>6. QED BY <3>3, <3>5
  <2>3. QED BY <2>1, <2>2
<1> HIDE DEF Good
<1>2. SUBSET S \subseteq Good
  <2>1. Good \in SUBSET SUBSET S
    BY DEF Good
  <2>2. QED BY <1>1, <2>1, SubsetInduction
<1>3. QED BY <1>2 DEF Good

\* The sum of two functions is the sum of their sums.
THEOREM SumAdd ==
  ASSUME NEW f, NEW g, NEW h, NEW S, IsFiniteSet(S), IntegerOn(f, S), IntegerOn(g, S),
         \A s \in S : h[s] = f[s] + g[s]
  PROVE  SumFunctionOnSet(h, S) = SumFunctionOnSet(f, S) + SumFunctionOnSet(g, S)
<1> DEFINE Good == {T \in SUBSET S :
      SumFunctionOnSet(h, T) = SumFunctionOnSet(f, T) + SumFunctionOnSet(g, T)}
<1>1. ASSUME NEW T \in SUBSET S, \A U \in SUBSET T : U # T => U \in Good PROVE T \in Good
  <2>1. CASE T = {}
    BY <2>1, SumEmpty
  <2>2. CASE T # {}
    <3>1. PICK x \in T : TRUE
      BY <2>2
    <3> DEFINE R == T \ {x}
    <3>2. R \in SUBSET T /\ R # T
      BY <3>1
    <3>3. SumFunctionOnSet(h, R) = SumFunctionOnSet(f, R) + SumFunctionOnSet(g, R)
      BY <1>1, <3>2
    <3>4. IsFiniteSet(T) /\ IsFiniteSet(R)
      BY FS_Subset
    <3>5. /\ IntegerOn(f, T) /\ IntegerOn(g, T) /\ IntegerOn(h, T)
          /\ IntegerOn(f, R) /\ IntegerOn(g, R) /\ IntegerOn(h, R)
      BY DEF IntegerOn
    <3>6. /\ SumFunctionOnSet(f, R) \in Int /\ SumFunctionOnSet(g, R) \in Int
      BY <3>4, <3>5, SumSplit
    <3>7. /\ SumFunctionOnSet(f, T) = f[x] + SumFunctionOnSet(f, R)
          /\ SumFunctionOnSet(g, T) = g[x] + SumFunctionOnSet(g, R)
          /\ SumFunctionOnSet(h, T) = h[x] + SumFunctionOnSet(h, R)
      BY <3>1, <3>4, <3>5, SumSplit
    <3>8. f[x] \in Int /\ g[x] \in Int /\ h[x] = f[x] + g[x]
      BY <3>1 DEF IntegerOn
    <3> HIDE DEF R
    <3>9. SumFunctionOnSet(h, T) = SumFunctionOnSet(f, T) + SumFunctionOnSet(g, T)
      BY <3>3, <3>6, <3>7, <3>8
    <3>10. QED BY <3>9
  <2>3. QED BY <2>1, <2>2
<1> HIDE DEF Good
<1>2. SUBSET S \subseteq Good
  <2>1. Good \in SUBSET SUBSET S
    BY DEF Good
  <2>2. QED BY <1>1, <2>1, SubsetInduction
<1>3. QED BY <1>2 DEF Good

================
