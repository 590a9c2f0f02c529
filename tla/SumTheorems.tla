----------------------------- MODULE SumTheorems -----------------------------
(***************************************************************************)
(* Lemmas about the sums that balances are made of: the amounts of a set   *)
(* of events, and a function's values on a set.  Both are folds, which go  *)
(* through a finite set in an order of their own; the lemmas show that the *)
(* order does not matter.                                                  *)
(***************************************************************************)
EXTENDS Integers, FiniteSetsExt, FiniteSetTheorems, TLAPS

\* The element that a fold takes next.
Pick(s) == CHOOSE x \in s : TRUE

\* g is the function by which the fold of f goes through the subsets of S.
SumsUp(g, f, S) ==
  g = [s \in SUBSET S |-> IF s = {} THEN 0 ELSE f[Pick(s)] + g[s \ {Pick(s)}]]

\* The element a fold takes is in the set.
LEMMA PickIn == ASSUME NEW s, s # {} PROVE Pick(s) \in s
BY DEF Pick

\* A set of subsets of a finite set has a member with no other inside.
LEMMA LeastSubset ==
  ASSUME NEW S, IsFiniteSet(S), NEW T, T \subseteq SUBSET S, T # {}
  PROVE  \E U \in T : \A V \in T : V \subseteq U => V = U
<1>1. IsWellFoundedOn(StrictSubsetOrdering(S), SUBSET S)
  BY FS_StrictSubsetOrderingWellFounded, FS_FiniteSubsetsOfFinite
<1>2. PICK U \in T : \A V \in T : <<V, U>> \notin StrictSubsetOrdering(S)
  BY <1>1, WFMin
<1>3. ASSUME NEW V \in T, V \subseteq U PROVE V = U
  BY <1>2, <1>3 DEF StrictSubsetOrdering
<1> QED BY <1>3

\* Two folds of functions that agree on a set give it one sum.
LEMMA SumsAgree ==
  ASSUME NEW S, IsFiniteSet(S), NEW T, NEW f, NEW k, NEW g, NEW h,
         SumsUp(g, f, S), SumsUp(h, k, T),
         NEW U, U \subseteq S, U \subseteq T, \A x \in U : f[x] = k[x]
  PROVE  g[U] = h[U]
<1> DEFINE Bad == {V \in SUBSET U : g[V] # h[V]}
<1>1. SUFFICES ASSUME Bad # {} PROVE FALSE
  OBVIOUS
<1>2. IsFiniteSet(U)
  BY FS_Subset
<1>3. PICK V \in Bad : \A W \in Bad : W \subseteq V => W = V
  <2> Bad \subseteq SUBSET U
    OBVIOUS
  <2> HIDE DEF Bad
  <2> QED BY <1>1, <1>2, LeastSubset
<1>4. V \subseteq S /\ V \subseteq T
  OBVIOUS
<1>5. /\ g[V] = IF V = {} THEN 0 ELSE f[Pick(V)] + g[V \ {Pick(V)}]
      /\ h[V] = IF V = {} THEN 0 ELSE k[Pick(V)] + h[V \ {Pick(V)}]
  BY <1>4 DEF SumsUp
<1>6. V # {}
  BY <1>5
<1>7. Pick(V) \in V
  BY <1>6, PickIn
<1>8. g[V \ {Pick(V)}] = h[V \ {Pick(V)}]
  BY <1>3, <1>7
<1> QED BY <1>5, <1>6, <1>7, <1>8

\* A finite set has the fold.
LEMMA SumsExist ==
  ASSUME NEW S, IsFiniteSet(S), NEW f
  PROVE  \E g : SumsUp(g, f, S)
<1> DEFINE Bad == {V \in SUBSET S : ~ \E g : SumsUp(g, f, V)}
           G(s) == CHOOSE g : SumsUp(g, f, s)
<1>1. SUFFICES ASSUME Bad # {} PROVE FALSE
  OBVIOUS
<1>2. PICK U \in Bad : \A W \in Bad : W \subseteq U => W = U
  <2> Bad \subseteq SUBSET S
    OBVIOUS
  <2> HIDE DEF Bad
  <2> QED BY <1>1, LeastSubset
<1>3. ASSUME NEW s \in SUBSET U, s # U
      PROVE  SumsUp(G(s), f, s) /\ IsFiniteSet(s)
  <2>1. \E g : SumsUp(g, f, s)
    BY <1>2, <1>3
  <2>2. IsFiniteSet(s)
    <3> s \in SUBSET S
      OBVIOUS
    <3> QED BY FS_Subset
  <2> HIDE DEF G
  <2>3. G(s) = CHOOSE g : SumsUp(g, f, s)
    BY DEF G
  <2> QED BY <2>1, <2>2, <2>3
<1> HIDE DEF G
<1> DEFINE h == [s \in SUBSET U |->
                   IF s = U THEN IF U = {} THEN 0
                                 ELSE f[Pick(U)] + G(U \ {Pick(U)})[U \ {Pick(U)}]
                   ELSE G(s)[s]]
<1>4. ASSUME NEW s \in SUBSET U, s # U
      PROVE  h[s] = IF s = {} THEN 0 ELSE f[Pick(s)] + h[s \ {Pick(s)}]
  <2>1. SumsUp(G(s), f, s) /\ IsFiniteSet(s)
    BY <1>3, <1>4
  <2>2. G(s)[s] = IF s = {} THEN 0 ELSE f[Pick(s)] + G(s)[s \ {Pick(s)}]
    BY <2>1 DEF SumsUp
  <2>3. ASSUME s # {} PROVE G(s)[s \ {Pick(s)}] = h[s \ {Pick(s)}]
    <3> DEFINE r == s \ {Pick(s)}
    <3>1. r \in SUBSET U /\ r # U /\ r \subseteq s
      BY <1>4
    <3>2. SumsUp(G(r), f, r)
      BY <1>3, <3>1
    <3> HIDE DEF r
    <3>3. G(s)[r] = G(r)[r]
      BY <2>1, <3>1, <3>2, SumsAgree
    <3>4. h[r] = G(r)[r]
      BY <3>1
    <3> HIDE DEF h
    <3> QED BY <3>3, <3>4 DEF r
  <2>4. h[s] = G(s)[s]
    BY <1>4
  <2> HIDE DEF h
  <2> QED BY <2>2, <2>3, <2>4
<1>5. h[U] = IF U = {} THEN 0 ELSE f[Pick(U)] + h[U \ {Pick(U)}]
  <2>1. ASSUME U # {} PROVE U \ {Pick(U)} # U
    BY <2>1, PickIn
  <2> QED BY <2>1
<1>6. \A s \in SUBSET U : h[s] = IF s = {} THEN 0 ELSE f[Pick(s)] + h[s \ {Pick(s)}]
  <2> HIDE DEF h
  <2> QED BY <1>4, <1>5
<1>7. SumsUp(h, f, U)
  <2>1. h = [s \in SUBSET U |-> h[s]]
    OBVIOUS
  <2> HIDE DEF h
  <2> QED BY <1>6, <2>1 DEF SumsUp
<1> QED BY <1>2, <1>7

\* What a fold of integers gives is an integer, and the order does not matter: any
\* element may be taken first.
LEMMA SumsRemove ==
  ASSUME NEW S, IsFiniteSet(S), NEW f, NEW g, SumsUp(g, f, S),
         \A x \in S : f[x] \in Int
  PROVE  /\ g[{}] = 0
         /\ \A U \in SUBSET S : g[U] \in Int
         /\ \A U \in SUBSET S : \A x \in U : g[U] = f[x] + g[U \ {x}]
<1>1. \A U \in SUBSET S : g[U] = IF U = {} THEN 0 ELSE f[Pick(U)] + g[U \ {Pick(U)}]
  BY DEF SumsUp
<1>2. \A U \in SUBSET S : g[U] \in Int
  <2> DEFINE Bad == {V \in SUBSET S : g[V] \notin Int}
  <2>1. SUFFICES ASSUME Bad # {} PROVE FALSE
    OBVIOUS
  <2>2. PICK V \in Bad : \A W \in Bad : W \subseteq V => W = V
    <3> Bad \subseteq SUBSET S
      OBVIOUS
    <3> HIDE DEF Bad
    <3> QED BY <2>1, LeastSubset
  <2>3. V \in SUBSET S /\ g[V] \notin Int
    OBVIOUS
  <2>4. V # {} /\ g[V] = f[Pick(V)] + g[V \ {Pick(V)}]
    <3>1. 0 \in Int
      OBVIOUS
    <3> HIDE DEF Bad
    <3> QED BY <1>1, <2>3, <3>1
  <2>5. Pick(V) \in V /\ f[Pick(V)] \in Int
    BY <2>3, <2>4, PickIn
  <2>6. g[V \ {Pick(V)}] \in Int
    BY <2>2, <2>5
  <2> HIDE DEF Bad
  <2> QED BY <2>3, <2>4, <2>5, <2>6
<1>3. \A U \in SUBSET S : \A x \in U : g[U] = f[x] + g[U \ {x}]
  <2> DEFINE Bad == {V \in SUBSET S : \E x \in V : g[V] # f[x] + g[V \ {x}]}
  <2>1. SUFFICES ASSUME Bad # {} PROVE FALSE
    OBVIOUS
  <2>2. PICK V \in Bad : \A W \in Bad : W \subseteq V => W = V
    <3> Bad \subseteq SUBSET S
      OBVIOUS
    <3> HIDE DEF Bad
    <3> QED BY <2>1, LeastSubset
  <2>3. PICK x \in V : g[V] # f[x] + g[V \ {x}]
    OBVIOUS
  <2> DEFINE y == Pick(V)
  <2>4. y \in V /\ g[V] = f[y] + g[V \ {y}]
    BY <1>1, <2>3, PickIn
  <2> HIDE DEF y
  <2>5. x # y
    BY <2>3, <2>4
  <2> DEFINE W == (V \ {x}) \ {y}
  <2>6. V \ {y} \notin Bad /\ V \ {x} \notin Bad
    BY <2>2, <2>4
  <2>7. g[V \ {y}] = f[x] + g[(V \ {y}) \ {x}] /\ g[V \ {x}] = f[y] + g[W]
    BY <2>4, <2>5, <2>6
  <2>8. (V \ {y}) \ {x} = W
    OBVIOUS
  <2>9. f[x] \in Int /\ f[y] \in Int /\ g[W] \in Int
    BY <1>2, <2>4
  <2> HIDE DEF W, Bad
  <2>10. g[V] = f[y] + (f[x] + g[W])
    BY <2>4, <2>7, <2>8
  <2>11. f[x] + g[V \ {x}] = f[x] + (f[y] + g[W])
    BY <2>7
  <2>12. f[y] + (f[x] + g[W]) = f[x] + (f[y] + g[W])
    BY <2>9
  <2> QED BY <2>3, <2>10, <2>11, <2>12
<1> QED BY <1>1, <1>2, <1>3

-----------------------------------------------------------------------------
(* The amounts of a set of events.                                         *)

AmountSum(S) == MapThenSumSet(LAMBDA e : e.amount, S)

\* They are summed up by a fold.
LEMMA AmountsFold ==
  ASSUME NEW S, IsFiniteSet(S)
  PROVE  \E g : SumsUp(g, [e \in S |-> e.amount], S) /\ AmountSum(S) = g[S]
<1> DEFINE f == [e \in S |-> e.amount]
           Fold(g) == g = [s \in SUBSET S |->
                             IF s = {} THEN 0
                             ELSE (CHOOSE x \in s : TRUE).amount
                                    + g[s \ {CHOOSE x \in s : TRUE}]]
           iter == CHOOSE g : Fold(g)
<1>1. PICK g : SumsUp(g, f, S)
  <2> HIDE DEF f
  <2> QED BY SumsExist
<1>2. \A k : SumsUp(k, f, S) <=> Fold(k)
  <2>1. \A s \in SUBSET S : s # {} => f[Pick(s)] = Pick(s).amount
    BY PickIn
  <2>2. ASSUME NEW k
        PROVE  [s \in SUBSET S |-> IF s = {} THEN 0 ELSE f[Pick(s)] + k[s \ {Pick(s)}]]
               = [s \in SUBSET S |-> IF s = {} THEN 0
                                    ELSE Pick(s).amount + k[s \ {Pick(s)}]]
    <3> HIDE DEF f
    <3> QED BY <2>1
  <2> HIDE DEF f
  <2> QED BY <2>2 DEF SumsUp, Pick
<1>3. AmountSum(S) = iter[S]
  BY DEF AmountSum, MapThenSumSet, MapThenFoldSet
<1>4. Fold(iter)
  <2> HIDE DEF f, Fold
  <2> QED BY <1>1, <1>2
<1> HIDE DEF f, Fold, iter
<1> QED BY <1>2, <1>3, <1>4 DEF f

\* No events, no amount.
LEMMA AmountsEmpty == AmountSum({}) = 0
BY AmountsFold, FS_EmptySet DEF SumsUp

\* Integer amounts add up to an integer.
LEMMA AmountsInt ==
  ASSUME NEW S, IsFiniteSet(S), \A e \in S : e.amount \in Int
  PROVE  AmountSum(S) \in Int
<1>1. PICK g : SumsUp(g, [e \in S |-> e.amount], S) /\ AmountSum(S) = g[S]
  BY AmountsFold
<1> QED BY <1>1, SumsRemove

\* One more event adds its amount.
LEMMA AmountsAdd ==
  ASSUME NEW S, IsFiniteSet(S), NEW x, x \notin S,
         \A e \in S \cup {x} : e.amount \in Int
  PROVE  AmountSum(S \cup {x}) = AmountSum(S) + x.amount
<1> DEFINE T == S \cup {x}
<1>1. IsFiniteSet(T)
  BY FS_AddElement
<1>2. PICK g : SumsUp(g, [e \in T |-> e.amount], T) /\ AmountSum(T) = g[T]
  BY <1>1, AmountsFold
<1>3. PICK h : SumsUp(h, [e \in S |-> e.amount], S) /\ AmountSum(S) = h[S]
  BY AmountsFold
<1>4. g[T] = x.amount + g[T \ {x}]
  BY <1>1, <1>2, SumsRemove
<1>5. T \ {x} = S
  OBVIOUS
<1>6. g[S] = h[S]
  BY <1>1, <1>2, <1>3, SumsAgree
<1>7. x.amount \in Int /\ h[S] \in Int
  BY <1>3, AmountsInt
<1>8. AmountSum(T) = AmountSum(S) + x.amount
  <2> HIDE DEF T
  <2>1. AmountSum(T) = x.amount + AmountSum(S)
    BY <1>2, <1>3, <1>4, <1>5, <1>6
  <2> QED BY <1>3, <1>7, <2>1
<1> QED BY <1>8

-----------------------------------------------------------------------------
(* The values of a function on a set: what calls ask for, for instance.    *)

WeightSum(f, S) == MapThenSumSet(LAMBDA x : f[x], S)

\* They are summed up by a fold.
LEMMA WeightsFold ==
  ASSUME NEW S, NEW f, IsFiniteSet(S)
  PROVE  \E g : SumsUp(g, f, S) /\ WeightSum(f, S) = g[S]
<1> DEFINE Fold(g) == g = [s \in SUBSET S |->
                             IF s = {} THEN 0
                             ELSE f[CHOOSE x \in s : TRUE]
                                    + g[s \ {CHOOSE x \in s : TRUE}]]
           iter == CHOOSE g : Fold(g)
<1>1. PICK g : SumsUp(g, f, S)
  BY SumsExist
<1>2. \A k : SumsUp(k, f, S) <=> Fold(k)
  BY DEF SumsUp, Pick
<1>3. WeightSum(f, S) = iter[S]
  BY DEF WeightSum, MapThenSumSet, MapThenFoldSet
<1>4. Fold(iter)
  <2> HIDE DEF Fold
  <2> QED BY <1>1, <1>2
<1> HIDE DEF Fold, iter
<1> QED BY <1>2, <1>3, <1>4

\* A sum of integers is an integer, that of nothing is zero, and any element may be
\* taken out of it.
LEMMA WeightsRemove ==
  ASSUME NEW S, NEW f, IsFiniteSet(S), \A x \in S : f[x] \in Int
  PROVE  /\ WeightSum(f, {}) = 0
         /\ WeightSum(f, S) \in Int
         /\ \A x \in S : WeightSum(f, S) = f[x] + WeightSum(f, S \ {x})
<1>1. PICK g : SumsUp(g, f, S) /\ WeightSum(f, S) = g[S]
  BY WeightsFold
<1>2. /\ g[{}] = 0
      /\ \A U \in SUBSET S : g[U] \in Int
      /\ \A U \in SUBSET S : \A x \in U : g[U] = f[x] + g[U \ {x}]
  BY <1>1, SumsRemove
<1>3. ASSUME NEW U \in SUBSET S PROVE WeightSum(f, U) = g[U]
  <2>1. IsFiniteSet(U)
    BY FS_Subset
  <2>2. PICK h : SumsUp(h, f, U) /\ WeightSum(f, U) = h[U]
    BY <2>1, WeightsFold
  <2>3. g[U] = h[U]
    BY <1>1, <2>2, SumsAgree
  <2> QED BY <2>2, <2>3
<1>4. {} \in SUBSET S /\ S \in SUBSET S
  OBVIOUS
<1>5. \A x \in S : S \ {x} \in SUBSET S
  OBVIOUS
<1> QED BY <1>1, <1>2, <1>3, <1>4, <1>5

\* One more element adds its value.
LEMMA WeightsAdd ==
  ASSUME NEW S, NEW f, IsFiniteSet(S), NEW x, x \notin S,
         \A y \in S \cup {x} : f[y] \in Int
  PROVE  WeightSum(f, S \cup {x}) = WeightSum(f, S) + f[x]
<1>1. IsFiniteSet(S \cup {x})
  BY FS_AddElement
<1>2. (S \cup {x}) \ {x} = S /\ x \in S \cup {x}
  OBVIOUS
<1>3. WeightSum(f, S \cup {x}) = f[x] + WeightSum(f, (S \cup {x}) \ {x})
  BY <1>1, <1>2, WeightsRemove
<1>4. WeightSum(f, S) \in Int /\ f[x] \in Int
  BY WeightsRemove
<1>5. WeightSum(f, S \cup {x}) = f[x] + WeightSum(f, S)
  BY <1>2, <1>3
<1>6. f[x] + WeightSum(f, S) = WeightSum(f, S) + f[x]
  BY <1>4
<1> QED BY <1>5, <1>6

\* The sum of two sets that have nothing in common.
LEMMA WeightsUnion ==
  ASSUME NEW S, NEW T, NEW f, IsFiniteSet(S), IsFiniteSet(T), S \cap T = {},
         \A x \in S \cup T : f[x] \in Int
  PROVE  WeightSum(f, S \cup T) = WeightSum(f, S) + WeightSum(f, T)
<1> DEFINE Bad == {U \in SUBSET T :
                     WeightSum(f, S \cup U) # WeightSum(f, S) + WeightSum(f, U)}
<1>1. SUFFICES ASSUME Bad # {} PROVE FALSE
  OBVIOUS
<1>2. PICK U \in Bad : \A V \in Bad : V \subseteq U => V = U
  <2> Bad \subseteq SUBSET T
    OBVIOUS
  <2> HIDE DEF Bad
  <2> QED BY <1>1, LeastSubset
<1>3. U \in SUBSET T /\ WeightSum(f, S \cup U) # WeightSum(f, S) + WeightSum(f, U)
  OBVIOUS
<1>4. IsFiniteSet(U)
  BY <1>3, FS_Subset
<1>5. WeightSum(f, S) \in Int /\ WeightSum(f, {}) = 0
  BY WeightsRemove
<1>6. U # {}
  <2>1. ASSUME U = {} PROVE FALSE
    <3>1. S \cup U = S
      BY <2>1
    <3>2. WeightSum(f, S \cup U) = WeightSum(f, S) /\ WeightSum(f, U) = 0
      BY <1>5, <2>1, <3>1
    <3> HIDE DEF Bad
    <3> QED BY <1>3, <1>5, <3>2
  <2> QED BY <2>1
<1>7. PICK x : x \in U
  BY <1>6
<1> DEFINE V == U \ {x}
<1>8. V \in SUBSET T /\ V \notin Bad
  BY <1>2, <1>3, <1>7
<1>9. WeightSum(f, S \cup V) = WeightSum(f, S) + WeightSum(f, V)
  BY <1>8
<1> HIDE DEF Bad
<1>10. IsFiniteSet(V) /\ IsFiniteSet(S \cup V)
  BY <1>4, FS_RemoveElement, FS_Union
<1>11. /\ x \notin V /\ x \notin S \cup V
       /\ V \cup {x} = U /\ (S \cup V) \cup {x} = S \cup U
  BY <1>3, <1>7
<1>12. /\ \A y \in V \cup {x} : f[y] \in Int
       /\ \A y \in (S \cup V) \cup {x} : f[y] \in Int
  BY <1>3, <1>7
<1> HIDE DEF V
<1>13. WeightSum(f, V \cup {x}) = WeightSum(f, V) + f[x]
  BY <1>10, <1>11, <1>12, WeightsAdd
<1>14. WeightSum(f, (S \cup V) \cup {x}) = WeightSum(f, S \cup V) + f[x]
  BY <1>10, <1>11, <1>12, WeightsAdd
<1>15. WeightSum(f, V) \in Int /\ f[x] \in Int
  BY <1>10, <1>12, WeightsRemove
<1>16. /\ WeightSum(f, U) = WeightSum(f, V) + f[x]
       /\ WeightSum(f, S \cup U) = (WeightSum(f, S) + WeightSum(f, V)) + f[x]
  BY <1>9, <1>11, <1>13, <1>14
<1>17. (WeightSum(f, S) + WeightSum(f, V)) + f[x] = WeightSum(f, S) + (WeightSum(f, V) + f[x])
  BY <1>5, <1>15
<1> QED BY <1>3, <1>16, <1>17

\* A sum of natural numbers is one, and that of a part is no greater.
LEMMA WeightsMonotone ==
  ASSUME NEW S, NEW T, NEW f, IsFiniteSet(T), S \subseteq T,
         \A x \in T : f[x] \in Nat
  PROVE  /\ WeightSum(f, S) \in Nat /\ WeightSum(f, T) \in Nat
         /\ WeightSum(f, S) <= WeightSum(f, T)
<1>1. ASSUME NEW U \in SUBSET T PROVE WeightSum(f, U) \in Nat
  <2> DEFINE Bad == {V \in SUBSET U : WeightSum(f, V) \notin Nat}
  <2>1. SUFFICES ASSUME Bad # {} PROVE FALSE
    OBVIOUS
  <2>2. IsFiniteSet(U)
    BY FS_Subset
  <2>3. PICK V \in Bad : \A W \in Bad : W \subseteq V => W = V
    <3> Bad \subseteq SUBSET U
      OBVIOUS
    <3> HIDE DEF Bad
    <3> QED BY <2>1, <2>2, LeastSubset
  <2>4. V \in SUBSET U /\ WeightSum(f, V) \notin Nat
    OBVIOUS
  <2>5. IsFiniteSet(V)
    BY <2>2, <2>4, FS_Subset
  <2>6. \A x \in V : f[x] \in Nat /\ f[x] \in Int
    BY <2>4
  <2>7. /\ WeightSum(f, {}) = 0
        /\ \A x \in V : WeightSum(f, V) = f[x] + WeightSum(f, V \ {x})
    BY <2>5, <2>6, WeightsRemove
  <2>8. V # {}
    <3>1. 0 \in Nat
      OBVIOUS
    <3> HIDE DEF Bad
    <3> QED BY <2>4, <2>7, <3>1
  <2>9. PICK x : x \in V
    BY <2>8
  <2>10. WeightSum(f, V \ {x}) \in Nat
    BY <2>3, <2>4, <2>9
  <2> HIDE DEF Bad
  <2> QED BY <2>4, <2>6, <2>7, <2>9, <2>10
<1>2. /\ S \in SUBSET T /\ T \in SUBSET T /\ T \ S \in SUBSET T
      /\ S \cup (T \ S) = T /\ S \cap (T \ S) = {}
  OBVIOUS
<1>3. IsFiniteSet(S) /\ IsFiniteSet(T \ S)
  BY <1>2, FS_Subset
<1>4. \A x \in S \cup (T \ S) : f[x] \in Int
  OBVIOUS
<1>5. WeightSum(f, T) = WeightSum(f, S) + WeightSum(f, T \ S)
  BY <1>2, <1>3, <1>4, WeightsUnion
<1>6. WeightSum(f, S) \in Nat /\ WeightSum(f, T) \in Nat /\ WeightSum(f, T \ S) \in Nat
  BY <1>1, <1>2
<1> QED BY <1>5, <1>6

\* A sum may be taken over the images of its elements instead, when no two have
\* the same.
LEMMA WeightsRename ==
  ASSUME NEW S, NEW f, NEW h, NEW k, IsFiniteSet(S),
         \A x \in S : f[x] \in Int /\ f[x] = k[h[x]],
         \A x, y \in S : h[x] = h[y] => x = y
  PROVE  /\ IsFiniteSet({h[x] : x \in S})
         /\ WeightSum(f, S) = WeightSum(k, {h[x] : x \in S})
<1> DEFINE Image(U) == {h[x] : x \in U}
           Good(U) == IsFiniteSet(Image(U)) /\ WeightSum(f, U) = WeightSum(k, Image(U))
           Bad == {U \in SUBSET S : ~Good(U)}
<1>1. SUFFICES ASSUME Bad # {} PROVE FALSE
  <2>1. S \in SUBSET S
    OBVIOUS
  <2> QED BY <2>1
<1>2. PICK U \in Bad : \A V \in Bad : V \subseteq U => V = U
  <2> Bad \subseteq SUBSET S
    OBVIOUS
  <2> HIDE DEF Bad
  <2> QED BY <1>1, LeastSubset
<1> HIDE DEF Good
<1>3. U \in SUBSET S /\ ~Good(U)
  OBVIOUS
<1>4. IsFiniteSet(U)
  BY <1>3, FS_Subset
<1>5. WeightSum(f, {}) = 0 /\ WeightSum(k, {}) = 0
  BY FS_EmptySet, WeightsRemove
<1>6. Good({})
  <2>1. Image({}) = {} /\ IsFiniteSet({})
    BY FS_EmptySet
  <2> HIDE DEF Image
  <2> QED BY <1>5, <2>1 DEF Good
<1>7. PICK x : x \in U
  <2>1. U # {}
    BY <1>3, <1>6
  <2> QED BY <2>1
<1> DEFINE V == U \ {x}
<1>8. V \in SUBSET S /\ Good(V)
  BY <1>2, <1>3, <1>7
<1> HIDE DEF Bad
<1>9. IsFiniteSet(V) /\ x \notin V /\ V \cup {x} = U /\ x \in S
  BY <1>3, <1>4, <1>7, FS_RemoveElement
<1>10. Image(U) = Image(V) \cup {h[x]} /\ h[x] \notin Image(V)
  BY <1>3, <1>7
<1>11. /\ \A y \in V \cup {x} : f[y] \in Int
       /\ \A y \in Image(V) \cup {h[x]} : k[y] \in Int
  BY <1>8, <1>9
<1> HIDE DEF V, Image
<1>12. IsFiniteSet(Image(V)) /\ WeightSum(f, V) = WeightSum(k, Image(V))
  BY <1>8 DEF Good
<1>13. IsFiniteSet(Image(U))
  BY <1>10, <1>12, FS_AddElement
<1>14. WeightSum(f, V \cup {x}) = WeightSum(f, V) + f[x]
  BY <1>9, <1>11, WeightsAdd
<1>15. WeightSum(k, Image(V) \cup {h[x]}) = WeightSum(k, Image(V)) + k[h[x]]
  BY <1>10, <1>11, <1>12, WeightsAdd
<1>16. f[x] = k[h[x]]
  BY <1>9
<1> QED BY <1>3, <1>9, <1>10, <1>12, <1>13, <1>14, <1>15, <1>16 DEF Good

\* The amounts of events are such values.
LEMMA AmountsAreWeights ==
  ASSUME NEW S, NEW T, IsFiniteSet(T), S \subseteq T
  PROVE  AmountSum(S) = WeightSum([e \in T |-> e.amount], S)
<1> DEFINE f == [e \in T |-> e.amount]
<1>1. IsFiniteSet(S)
  <2> S \in SUBSET T
    OBVIOUS
  <2> QED BY FS_Subset
<1>2. PICK g : SumsUp(g, [e \in S |-> e.amount], S) /\ AmountSum(S) = g[S]
  BY <1>1, AmountsFold
<1>3. PICK h : SumsUp(h, f, S) /\ WeightSum(f, S) = h[S]
  <2> HIDE DEF f
  <2> QED BY <1>1, WeightsFold
<1>4. \A x \in S : [e \in S |-> e.amount][x] = f[x]
  OBVIOUS
<1> DEFINE k == [e \in S |-> e.amount]
<1> HIDE DEF f, k
<1>5. g[S] = h[S]
  BY <1>1, <1>2, <1>3, <1>4, SumsAgree DEF k
<1> QED BY <1>2, <1>3, <1>5 DEF f

\* The amounts of two sets of events that have nothing in common.
LEMMA AmountsUnion ==
  ASSUME NEW S, NEW T, IsFiniteSet(S), IsFiniteSet(T), S \cap T = {},
         \A e \in S \cup T : e.amount \in Nat
  PROVE  /\ AmountSum(S \cup T) = AmountSum(S) + AmountSum(T)
         /\ AmountSum(S) \in Nat /\ AmountSum(T) \in Nat
         /\ AmountSum(S \cup T) \in Nat
<1> DEFINE U == S \cup T
           f == [e \in U |-> e.amount]
<1>1. IsFiniteSet(U) /\ S \subseteq U /\ T \subseteq U /\ U \subseteq U
  BY FS_Union
<1>2. \A x \in U : f[x] \in Nat /\ f[x] \in Int
  OBVIOUS
<1>3. S \cup T = U
  OBVIOUS
<1> HIDE DEF U
<1>4. /\ AmountSum(S) = WeightSum(f, S) /\ AmountSum(T) = WeightSum(f, T)
      /\ AmountSum(U) = WeightSum(f, U)
  BY <1>1, AmountsAreWeights
<1> HIDE DEF f
<1>5. WeightSum(f, S \cup T) = WeightSum(f, S) + WeightSum(f, T)
  BY <1>2, <1>3, WeightsUnion
<1>6. WeightSum(f, S) \in Nat /\ WeightSum(f, T) \in Nat /\ WeightSum(f, U) \in Nat
  BY <1>1, <1>2, WeightsMonotone
<1> QED BY <1>3, <1>4, <1>5, <1>6

\* The amounts of a part of a set of events are no greater.
LEMMA AmountsMonotone ==
  ASSUME NEW S, NEW T, IsFiniteSet(T), S \subseteq T, \A e \in T : e.amount \in Nat
  PROVE  /\ AmountSum(S) \in Nat /\ AmountSum(T) \in Nat
         /\ AmountSum(S) <= AmountSum(T)
<1> DEFINE f == [e \in T |-> e.amount]
<1>1. \A x \in T : f[x] \in Nat
  OBVIOUS
<1>2. AmountSum(S) = WeightSum(f, S) /\ AmountSum(T) = WeightSum(f, T)
  BY AmountsAreWeights
<1> HIDE DEF f
<1>3. /\ WeightSum(f, S) \in Nat /\ WeightSum(f, T) \in Nat
      /\ WeightSum(f, S) <= WeightSum(f, T)
  BY <1>1, WeightsMonotone
<1> QED BY <1>2, <1>3

\* The values of two functions that agree on a set have the same sum.
LEMMA WeightsAgree ==
  ASSUME NEW S, NEW f, NEW g, IsFiniteSet(S), \A x \in S : f[x] \in Int /\ f[x] = g[x]
  PROVE  WeightSum(f, S) = WeightSum(g, S)
<1> DEFINE h == [x \in S |-> x]
<1>1. \A x \in S : h[x] = x
  OBVIOUS
<1>2. {h[x] : x \in S} = S
  OBVIOUS
<1> HIDE DEF h
<1>3. WeightSum(f, S) = WeightSum(g, {h[x] : x \in S})
  <2>1. \A x \in S : f[x] \in Int /\ f[x] = g[h[x]]
    BY <1>1
  <2>2. \A x, y \in S : h[x] = h[y] => x = y
    BY <1>1
  <2> QED BY <2>1, <2>2, WeightsRename
<1> QED BY <1>2, <1>3

\* When one value changes, the sum changes by as much.
LEMMA WeightsChange ==
  ASSUME NEW S, NEW f, NEW g, NEW x \in S, IsFiniteSet(S),
         \A y \in S : f[y] \in Int /\ g[y] \in Int,
         \A y \in S \ {x} : g[y] = f[y]
  PROVE  WeightSum(g, S) = WeightSum(f, S) + (g[x] - f[x])
<1>1. IsFiniteSet(S \ {x})
  BY FS_RemoveElement
<1>2. WeightSum(f, S) = f[x] + WeightSum(f, S \ {x})
  BY WeightsRemove
<1>3. WeightSum(g, S) = g[x] + WeightSum(g, S \ {x})
  BY WeightsRemove
<1>4. WeightSum(f, S \ {x}) = WeightSum(g, S \ {x})
  BY <1>1, WeightsAgree
<1>5. WeightSum(f, S \ {x}) \in Int
  BY <1>1, WeightsRemove
<1>6. f[x] \in Int /\ g[x] \in Int
  OBVIOUS
<1> DEFINE a == WeightSum(f, S \ {x})
<1>7. a \in Int /\ WeightSum(f, S) = f[x] + a /\ WeightSum(g, S) = g[x] + a
  BY <1>2, <1>3, <1>4, <1>5
<1> HIDE DEF a
<1>8. g[x] + a = (f[x] + a) + (g[x] - f[x])
  BY <1>6, <1>7
<1> QED BY <1>7, <1>8
=============================================================================
