----------------------------- MODULE Sums_proofs -----------------------------
(***************************************************************************)
(* What is true of the sums in Sums, for every finite set of arguments.    *)
(* The fold behind SumOf is a choice of a function that satisfies a        *)
(* recursive equation; that there is one, and that two of them agree, is   *)
(* shown by taking a smallest set for which it fails and removing one of   *)
(* its members. The same argument gives everything else.                   *)
(***************************************************************************)
EXTENDS Sums, FiniteSetTheorems, TLAPS

\* Among subsets of a finite set there is one that no other lies inside.
LEMMA LeastSet ==
  ASSUME NEW S, IsFiniteSet(S), NEW T \in SUBSET SUBSET S, T # {}
  PROVE  \E t \in T : \A s \in T : ~(s \subseteq t /\ s # t)
<1>1. IsWellFoundedOn(StrictSubsetOrdering(S), FiniteSubsetsOf(S))
  BY FS_StrictSubsetOrderingWellFounded
<1>2. T \subseteq FiniteSubsetsOf(S)
  BY FS_Subset DEF FiniteSubsetsOf
<1>3. PICK t \in T : \A s \in T : ~(<<s, t>> \in StrictSubsetOrdering(S))
  BY <1>1, <1>2, WFMin
<1> QED BY <1>3 DEF StrictSubsetOrdering

\* Numbers between bounds have a least and a greatest one.
LEMMA Extremes ==
  ASSUME NEW n \in Nat, NEW S, S # {}, S \subseteq 0 .. n
  PROVE  /\ \E x \in S : \A y \in S : x <= y
         /\ \E x \in S : \A y \in S : y <= x
<1>1. PICK F : F = 0 .. n OBVIOUS
<1>2. IsFiniteSet(F) BY <1>1, FS_Interval
<1>3. \E x \in S : \A y \in S : x <= y
  <2> DEFINE Below == {0 .. x : x \in S}
  <2>0. \A x \in S : 0 .. x \in SUBSET F BY <1>1
  <2>1. Below \in SUBSET SUBSET F /\ Below # {} BY <2>0
  <2> HIDE DEF Below
  <2>2. PICK t \in Below : \A s \in Below : ~(s \subseteq t /\ s # t) BY <1>2, <2>1, LeastSet
  <2>3. PICK x \in S : t = 0 .. x BY <2>2 DEF Below
  <2>4. ASSUME NEW y \in S, y < x PROVE FALSE
    <3>1. x \in Nat /\ y \in Nat OBVIOUS
    <3>2. 0 .. y \in Below BY DEF Below
    <3>3. 0 .. y \subseteq 0 .. x /\ x \in 0 .. x /\ x \notin 0 .. y BY <2>4, <3>1
    <3> QED BY <2>2, <2>3, <3>2, <3>3
  <2> QED BY <2>4
<1>4. \E x \in S : \A y \in S : y <= x
  <2> DEFINE Above == {x .. n : x \in S}
  <2>0. \A x \in S : x .. n \in SUBSET F BY <1>1
  <2>1. Above \in SUBSET SUBSET F /\ Above # {} BY <2>0
  <2> HIDE DEF Above
  <2>2. PICK t \in Above : \A s \in Above : ~(s \subseteq t /\ s # t) BY <1>2, <2>1, LeastSet
  <2>3. PICK x \in S : t = x .. n BY <2>2 DEF Above
  <2>4. ASSUME NEW y \in S, x < y PROVE FALSE
    <3>1. x \in Nat /\ y \in Nat /\ x <= n OBVIOUS
    <3>2. y .. n \in Above BY DEF Above
    <3>3. y .. n \subseteq x .. n /\ x \in x .. n /\ x \notin y .. n BY <2>4, <3>1
    <3> QED BY <2>2, <2>3, <3>2, <3>3
  <2> QED BY <2>4
<1> QED BY <1>3, <1>4

\* g sums f over every subset of S, taking out one chosen member after the other.
Unfolds(f, S, g) ==
  g = [s \in SUBSET S |-> IF s = {} THEN 0
                          ELSE f[CHOOSE x \in s : TRUE] + g[s \ {CHOOSE x \in s : TRUE}]]

\* The fold of the library is such a function.
LEMMA SumIs ==
  ASSUME NEW f, NEW S
  PROVE  SumOf(f, S) = (CHOOSE g : Unfolds(f, S, g))[S]
BY DEF SumOf, MapThenSumSet, MapThenFoldSet, Unfolds

\* The member that is taken out first.
Pick(s) == CHOOSE x \in s : TRUE

\* The recursive equation, at one set.
LEMMA UnfoldsAt ==
  ASSUME NEW f, NEW S, NEW g, Unfolds(f, S, g), NEW s \in SUBSET S
  PROVE  /\ s = {} => g[s] = 0
         /\ s # {} => Pick(s) \in s /\ g[s] = f[Pick(s)] + g[s \ {Pick(s)}]
<1>1. g[s] = IF s = {} THEN 0 ELSE f[CHOOSE x \in s : TRUE] + g[s \ {CHOOSE x \in s : TRUE}]
  BY DEF Unfolds
<1>2. s # {} => (CHOOSE x \in s : TRUE) \in s
  OBVIOUS
<1> QED BY <1>1, <1>2 DEF Pick

\* Two such functions agree wherever what they sum does.
LEMMA UnfoldsAgree ==
  ASSUME NEW f, NEW h, NEW S, NEW T, NEW g, NEW k, Unfolds(f, S, g), Unfolds(h, T, k),
         NEW R, IsFiniteSet(R), R \subseteq S, R \subseteq T, \A x \in R : f[x] = h[x]
  PROVE  g[R] = k[R]
<1> DEFINE Bad == {s \in SUBSET R : g[s] # k[s]}
<1>1. SUFFICES ASSUME Bad # {} PROVE FALSE
  OBVIOUS
<1>2. PICK s \in Bad : \A t \in Bad : ~(t \subseteq s /\ t # s)
  <2>1. Bad \in SUBSET SUBSET R OBVIOUS
  <2> HIDE DEF Bad
  <2> QED BY <1>1, <2>1, LeastSet
<1>3. s \in SUBSET S /\ s \in SUBSET T /\ s \in SUBSET R /\ g[s] # k[s]
  BY <1>2
<1>4. s # {}
  BY <1>3, UnfoldsAt
<1>5. /\ Pick(s) \in s /\ g[s] = f[Pick(s)] + g[s \ {Pick(s)}]
      /\ k[s] = h[Pick(s)] + k[s \ {Pick(s)}]
  BY <1>3, <1>4, UnfoldsAt
<1>6. s \ {Pick(s)} \notin Bad
  BY <1>2, <1>5
<1>7. g[s \ {Pick(s)}] = k[s \ {Pick(s)}]
  BY <1>3, <1>6
<1>8. f[Pick(s)] = h[Pick(s)]
  BY <1>3, <1>5
<1> QED BY <1>3, <1>5, <1>7, <1>8

\* Over a finite set there is one.
LEMMA UnfoldsExists ==
  ASSUME NEW f, NEW S, IsFiniteSet(S)
  PROVE  \E g : Unfolds(f, S, g)
<1> DEFINE Bad == {T \in SUBSET S : ~\E g : Unfolds(f, T, g)}
<1>1. SUFFICES ASSUME Bad # {} PROVE FALSE
  OBVIOUS
<1>2. PICK T \in Bad : \A t \in Bad : ~(t \subseteq T /\ t # T)
  <2>1. Bad \in SUBSET SUBSET S OBVIOUS
  <2> HIDE DEF Bad
  <2> QED BY <1>1, <2>1, LeastSet
<1>3. \A t \in SUBSET T : t # T => \E g : Unfolds(f, t, g)
  BY <1>2
<1> DEFINE G(t) == CHOOSE g : Unfolds(f, t, g)
           V(s) == IF s = {} THEN 0 ELSE f[Pick(s)] + G(s \ {Pick(s)})[s \ {Pick(s)}]
           k == [s \in SUBSET T |-> V(s)]
<1>4. ASSUME NEW t \in SUBSET T, t # T PROVE Unfolds(f, t, G(t))
  BY <1>3, <1>4
<1>5. ASSUME NEW s \in SUBSET T PROVE s # {} => Pick(s) \in s
  BY DEF Pick
<1>6. ASSUME NEW t \in SUBSET T, t # T PROVE k[t] = G(t)[t]
  <2>1. Unfolds(f, t, G(t)) BY <1>4, <1>6
  <2>2. CASE t = {} BY <2>1, <2>2, UnfoldsAt
  <2>3. CASE t # {}
    <3> DEFINE u == t \ {Pick(t)}
    <3>1. Pick(t) \in t BY <1>5, <2>3
    <3>2. u \in SUBSET T /\ u # T /\ u \in SUBSET t BY <3>1
    <3>3. Unfolds(f, u, G(u)) BY <1>4, <3>2
    <3>4. IsFiniteSet(u) BY <3>2, FS_Subset
    <3> HIDE DEF G, u
    <3>5. G(u)[u] = G(t)[u] BY <2>1, <3>2, <3>3, <3>4, UnfoldsAgree
    <3>6. G(t)[t] = f[Pick(t)] + G(t)[u] BY <2>1, <2>3, UnfoldsAt DEF u
    <3>7. k[t] = f[Pick(t)] + G(u)[u] BY <2>3 DEF u
    <3> QED BY <3>5, <3>6, <3>7
  <2> QED BY <2>2, <2>3
<1>7. ASSUME NEW s \in SUBSET T PROVE k[s] = IF s = {} THEN 0 ELSE f[Pick(s)] + k[s \ {Pick(s)}]
  <2>1. CASE s = {} BY <2>1
  <2>2. CASE s # {}
    <3> DEFINE u == s \ {Pick(s)}
    <3>1. Pick(s) \in s BY <1>5, <2>2
    <3>2. u \in SUBSET T /\ u # T BY <3>1
    <3>3. k[u] = G(u)[u] BY <1>6, <3>2
    <3> HIDE DEF G
    <3> QED BY <2>2, <3>3
  <2> QED BY <2>1, <2>2
<1>8. Unfolds(f, T, k)
  <2> HIDE DEF G
  <2>1. k = [s \in SUBSET T |-> V(s)] OBVIOUS
  <2> HIDE DEF k, V
  <2> QED BY <1>7, <2>1 DEF Unfolds, Pick
<1> QED BY <1>2, <1>8

\* So the sum over a finite set satisfies the equation.
LEMMA SumUnfolds ==
  ASSUME NEW f, NEW S, IsFiniteSet(S)
  PROVE  \E g : Unfolds(f, S, g) /\ SumOf(f, S) = g[S]
<1> DEFINE g == CHOOSE g : Unfolds(f, S, g)
<1>1. Unfolds(f, S, g) BY UnfoldsExists
<1>2. SumOf(f, S) = g[S] BY SumIs
<1> QED BY <1>1, <1>2

\* Only the values inside the set count.
LEMMA SumSame ==
  ASSUME NEW f, NEW h, NEW S, IsFiniteSet(S), \A x \in S : f[x] = h[x]
  PROVE  SumOf(f, S) = SumOf(h, S)
<1>1. PICK g : Unfolds(f, S, g) /\ SumOf(f, S) = g[S] BY SumUnfolds
<1>2. PICK k : Unfolds(h, S, k) /\ SumOf(h, S) = k[S] BY SumUnfolds
<1> QED BY <1>1, <1>2, UnfoldsAgree

\* Nothing comes to nothing.
LEMMA SumEmpty ==
  ASSUME NEW f PROVE SumOf(f, {}) = 0
<1>1. PICK g : Unfolds(f, {}, g) /\ SumOf(f, {}) = g[{}] BY SumUnfolds, FS_EmptySet
<1> QED BY <1>1, UnfoldsAt

\* A sum is its first member and the rest.
LEMMA SumPick ==
  ASSUME NEW f, NEW S, IsFiniteSet(S), S # {}
  PROVE  Pick(S) \in S /\ SumOf(f, S) = f[Pick(S)] + SumOf(f, S \ {Pick(S)})
<1> DEFINE T == S \ {Pick(S)}
<1>1. IsFiniteSet(T) /\ T \subseteq S BY FS_RemoveElement
<1>2. PICK g : Unfolds(f, S, g) /\ SumOf(f, S) = g[S] BY SumUnfolds
<1>3. PICK k : Unfolds(f, T, k) /\ SumOf(f, T) = k[T] BY <1>1, SumUnfolds
<1> HIDE DEF T
<1>4. g[T] = k[T] BY <1>1, <1>2, <1>3, UnfoldsAgree
<1> QED BY <1>2, <1>3, <1>4, UnfoldsAt DEF T

\* Whole numbers come to a whole number.
LEMMA SumType ==
  ASSUME NEW f, NEW S, IsFiniteSet(S), \A x \in S : f[x] \in Int
  PROVE  SumOf(f, S) \in Int
<1> DEFINE Bad == {T \in SUBSET S : SumOf(f, T) \notin Int}
<1>1. SUFFICES ASSUME Bad # {} PROVE FALSE
  OBVIOUS
<1>2. PICK T \in Bad : \A t \in Bad : ~(t \subseteq T /\ t # T)
  <2>1. Bad \in SUBSET SUBSET S OBVIOUS
  <2> HIDE DEF Bad
  <2> QED BY <1>1, <2>1, LeastSet
<1>3. T \in SUBSET S /\ IsFiniteSet(T) /\ SumOf(f, T) \notin Int
  BY <1>2, FS_Subset
<1>4. T # {} BY <1>3, SumEmpty
<1>5. Pick(T) \in T /\ SumOf(f, T) = f[Pick(T)] + SumOf(f, T \ {Pick(T)})
  BY <1>3, <1>4, SumPick
<1>6. SumOf(f, T \ {Pick(T)}) \in Int
  BY <1>2, <1>3, <1>5
<1> QED BY <1>3, <1>5, <1>6

\* What is nowhere negative does not come to less than nothing.
LEMMA SumNat ==
  ASSUME NEW f, NEW S, IsFiniteSet(S), \A x \in S : f[x] \in Nat
  PROVE  SumOf(f, S) \in Nat
<1> DEFINE Bad == {T \in SUBSET S : SumOf(f, T) \notin Nat}
<1>1. SUFFICES ASSUME Bad # {} PROVE FALSE
  OBVIOUS
<1>2. PICK T \in Bad : \A t \in Bad : ~(t \subseteq T /\ t # T)
  <2>1. Bad \in SUBSET SUBSET S OBVIOUS
  <2> HIDE DEF Bad
  <2> QED BY <1>1, <2>1, LeastSet
<1>3. T \in SUBSET S /\ IsFiniteSet(T) /\ SumOf(f, T) \notin Nat
  BY <1>2, FS_Subset
<1>4. T # {} BY <1>3, SumEmpty
<1>5. Pick(T) \in T /\ SumOf(f, T) = f[Pick(T)] + SumOf(f, T \ {Pick(T)})
  BY <1>3, <1>4, SumPick
<1>6. SumOf(f, T \ {Pick(T)}) \in Nat
  BY <1>2, <1>3, <1>5
<1> QED BY <1>3, <1>5, <1>6

\* Nothing anywhere comes to nothing.
LEMMA SumZero ==
  ASSUME NEW f, NEW S, IsFiniteSet(S), \A x \in S : f[x] = 0
  PROVE  SumOf(f, S) = 0
<1> DEFINE Bad == {T \in SUBSET S : SumOf(f, T) # 0}
<1>1. SUFFICES ASSUME Bad # {} PROVE FALSE
  OBVIOUS
<1>2. PICK T \in Bad : \A t \in Bad : ~(t \subseteq T /\ t # T)
  <2>1. Bad \in SUBSET SUBSET S OBVIOUS
  <2> HIDE DEF Bad
  <2> QED BY <1>1, <2>1, LeastSet
<1>3. T \in SUBSET S /\ IsFiniteSet(T) /\ SumOf(f, T) # 0
  BY <1>2, FS_Subset
<1>4. T # {} BY <1>3, SumEmpty
<1>5. Pick(T) \in T /\ SumOf(f, T) = f[Pick(T)] + SumOf(f, T \ {Pick(T)})
  BY <1>3, <1>4, SumPick
<1>6. SumOf(f, T \ {Pick(T)}) = 0
  BY <1>2, <1>3, <1>5
<1> QED BY <1>3, <1>5, <1>6

\* Any member may be taken out first.
LEMMA SumRemove ==
  ASSUME NEW f, NEW S, IsFiniteSet(S), \A x \in S : f[x] \in Int, NEW a \in S
  PROVE  SumOf(f, S) = f[a] + SumOf(f, S \ {a})
<1> DEFINE Bad == {T \in SUBSET S : \E x \in T : SumOf(f, T) # f[x] + SumOf(f, T \ {x})}
<1>1. SUFFICES ASSUME Bad # {} PROVE FALSE
  OBVIOUS
<1>2. PICK T \in Bad : \A t \in Bad : ~(t \subseteq T /\ t # T)
  <2>1. Bad \in SUBSET SUBSET S OBVIOUS
  <2> HIDE DEF Bad
  <2> QED BY <1>1, <2>1, LeastSet
<1>3. T \in SUBSET S /\ IsFiniteSet(T) BY <1>2, FS_Subset
<1>4. PICK x \in T : SumOf(f, T) # f[x] + SumOf(f, T \ {x}) BY <1>2
<1> DEFINE p == Pick(T)
           U == T \ {p}
           V == T \ {x}
           W == T \ {p, x}
<1>5. p \in T /\ SumOf(f, T) = f[p] + SumOf(f, U) BY <1>3, <1>4, SumPick
<1>6. p # x BY <1>4, <1>5
<1>7. U \in SUBSET S /\ V \in SUBSET S /\ W \in SUBSET S BY <1>3
<1>8. U \notin Bad /\ V \notin Bad BY <1>2, <1>4, <1>5
<1>9. SumOf(f, U) = f[x] + SumOf(f, W)
  <2>1. x \in U /\ U \ {x} = W BY <1>4, <1>6
  <2> QED BY <1>7, <1>8, <2>1
<1>10. SumOf(f, V) = f[p] + SumOf(f, W)
  <2>1. p \in V /\ V \ {p} = W BY <1>5, <1>6
  <2> HIDE DEF p
  <2> QED BY <1>7, <1>8, <2>1
<1>11. IsFiniteSet(W) BY <1>7, FS_Subset
<1>12. SumOf(f, W) \in Int
  <2> HIDE DEF W
  <2> QED BY <1>7, <1>11, SumType
<1>13. f[p] \in Int /\ f[x] \in Int BY <1>3, <1>4, <1>5
<1> HIDE DEF p, U, V, W
<1> QED BY <1>4, <1>5, <1>9, <1>10, <1>12, <1>13 DEF V

\* One member more.
LEMMA SumAdd ==
  ASSUME NEW f, NEW S, IsFiniteSet(S), NEW a, a \notin S, \A x \in S \cup {a} : f[x] \in Int
  PROVE  SumOf(f, S \cup {a}) = f[a] + SumOf(f, S)
<1>1. IsFiniteSet(S \cup {a}) BY FS_AddElement
<1>2. (S \cup {a}) \ {a} = S OBVIOUS
<1> QED BY <1>1, <1>2, SumRemove

\* One member of a sum changes.
LEMMA SumChange ==
  ASSUME NEW f, NEW h, NEW S, IsFiniteSet(S), NEW a \in S,
         \A x \in S : f[x] \in Int /\ h[x] \in Int, \A x \in S \ {a} : f[x] = h[x]
  PROVE  SumOf(h, S) = SumOf(f, S) + h[a] - f[a]
<1> DEFINE T == S \ {a}
<1>1. IsFiniteSet(T) BY FS_RemoveElement
<1>2. SumOf(f, S) = f[a] + SumOf(f, T) /\ SumOf(h, S) = h[a] + SumOf(h, T)
  BY SumRemove
<1>3. SumOf(f, T) = SumOf(h, T) /\ SumOf(f, T) \in Int
  <2> HIDE DEF T
  <2>1. \A x \in T : f[x] = h[x] /\ f[x] \in Int BY DEF T
  <2> QED BY <1>1, <2>1, SumSame, SumType
<1> HIDE DEF T
<1> QED BY <1>2, <1>3

\* One member gives way to another of the same value.
LEMMA SumSwap ==
  ASSUME NEW f, NEW h, NEW S, IsFiniteSet(S), NEW a \in S, NEW b, b \notin S \ {a},
         \A x \in S : f[x] \in Int, h[b] = f[a], \A x \in S \ {a} : h[x] = f[x]
  PROVE  SumOf(h, (S \ {a}) \cup {b}) = SumOf(f, S)
<1> DEFINE T == S \ {a}
<1>1. IsFiniteSet(T) BY FS_RemoveElement
<1>2. SumOf(f, S) = f[a] + SumOf(f, T) BY SumRemove
<1>3. \A x \in T : f[x] = h[x] /\ h[x] \in Int OBVIOUS
<1>4. h[b] \in Int /\ b \notin T OBVIOUS
<1> HIDE DEF T
<1>5. SumOf(h, T \cup {b}) = h[b] + SumOf(h, T) BY <1>1, <1>3, <1>4, SumAdd
<1>6. SumOf(f, T) = SumOf(h, T) BY <1>1, <1>3, SumSame
<1> QED BY <1>2, <1>5, <1>6 DEF T

\* Two sets that share nothing.
LEMMA SumUnion ==
  ASSUME NEW f, NEW S, NEW T, IsFiniteSet(S), IsFiniteSet(T), S \cap T = {}, \A x \in S \cup T : f[x] \in Int
  PROVE  SumOf(f, S \cup T) = SumOf(f, S) + SumOf(f, T)
<1> DEFINE Bad == {U \in SUBSET T : SumOf(f, S \cup U) # SumOf(f, S) + SumOf(f, U)}
<1>1. SUFFICES ASSUME Bad # {} PROVE FALSE
  OBVIOUS
<1>2. PICK U \in Bad : \A u \in Bad : ~(u \subseteq U /\ u # U)
  <2>1. Bad \in SUBSET SUBSET T OBVIOUS
  <2> HIDE DEF Bad
  <2> QED BY <1>1, <2>1, LeastSet
<1>3. /\ U \in SUBSET T /\ IsFiniteSet(U) /\ SumOf(f, S \cup U) # SumOf(f, S) + SumOf(f, U)
      /\ SumOf(f, S) \in Int
  <2>1. SumOf(f, S) \in Int BY SumType
  <2> QED BY <1>2, <2>1, FS_Subset
<1>4. U # {}
  <2>1. S \cup {} = S /\ SumOf(f, {}) = 0 BY SumEmpty
  <2>2. SumOf(f, S \cup {}) = SumOf(f, S) + SumOf(f, {}) BY <1>3, <2>1
  <2> QED BY <1>3, <2>2
<1>5. PICK a \in U : TRUE BY <1>4
<1> DEFINE V == U \ {a}
<1>6. V \in SUBSET T /\ V \subseteq U /\ V # U /\ IsFiniteSet(V) BY <1>3, <1>5, FS_Subset
<1>7. SumOf(f, S \cup V) = SumOf(f, S) + SumOf(f, V)
  <2>1. V \notin Bad BY <1>2, <1>6
  <2> QED BY <1>6, <2>1
<1>8. SumOf(f, U) = f[a] + SumOf(f, V)
  <2>1. \A x \in U : f[x] \in Int BY <1>3
  <2> QED BY <1>3, <1>5, <2>1, SumRemove
<1>9. SumOf(f, S \cup U) = f[a] + SumOf(f, S \cup V)
  <2>1. IsFiniteSet(S \cup U) BY <1>3, FS_Union
  <2>2. \A x \in S \cup U : f[x] \in Int BY <1>3
  <2>3. a \in S \cup U /\ (S \cup U) \ {a} = S \cup V BY <1>3, <1>5
  <2> HIDE DEF V
  <2> QED BY <2>1, <2>2, <2>3, SumRemove
<1>10. f[a] \in Int /\ SumOf(f, V) \in Int
  <2>1. \A x \in V : f[x] \in Int BY <1>6
  <2>2. f[a] \in Int BY <1>3, <1>5
  <2> HIDE DEF V
  <2> QED BY <1>6, <2>1, <2>2, SumType
<1> HIDE DEF V
<1> QED BY <1>3, <1>7, <1>8, <1>9, <1>10

\* A sum over other names for the same things.
LEMMA SumRenamed ==
  ASSUME NEW f, NEW k, NEW S, NEW T, IsFiniteSet(S), IsFiniteSet(T), NEW b \in [S -> T],
         \A x, y \in S : b[x] = b[y] => x = y, \A y \in T : \E x \in S : b[x] = y,
         \A x \in S : f[x] \in Int /\ f[x] = k[b[x]]
  PROVE  SumOf(f, S) = SumOf(k, T)
<1> DEFINE Image(U) == {b[x] : x \in U}
           Bad == {U \in SUBSET S : SumOf(f, U) # SumOf(k, Image(U))}
<1>1. Image(S) = T BY DEF Image
<1>2. SUFFICES ASSUME Bad # {} PROVE FALSE
  BY <1>1
<1>3. PICK U \in Bad : \A u \in Bad : ~(u \subseteq U /\ u # U)
  <2>1. Bad \in SUBSET SUBSET S OBVIOUS
  <2> HIDE DEF Bad
  <2> QED BY <1>2, <2>1, LeastSet
<1>4. U \in SUBSET S /\ IsFiniteSet(U) /\ SumOf(f, U) # SumOf(k, Image(U)) BY <1>3, FS_Subset
<1>5. U # {}
  <2>1. Image({}) = {} OBVIOUS
  <2>2. SumOf(f, {}) = 0 /\ SumOf(k, {}) = 0 BY SumEmpty
  <2> QED BY <1>4, <2>1, <2>2
<1>6. PICK a \in U : TRUE BY <1>5
<1> DEFINE V == U \ {a}
<1>7. V \in SUBSET S /\ V \subseteq U /\ V # U /\ IsFiniteSet(V) BY <1>4, <1>6, FS_Subset
<1>8. SumOf(f, V) = SumOf(k, Image(V))
  <2>1. V \notin Bad BY <1>3, <1>7
  <2> QED BY <1>7, <2>1
<1>9. SumOf(f, U) = f[a] + SumOf(f, V)
  <2>1. \A x \in U : f[x] \in Int BY <1>4
  <2> QED BY <1>4, <1>6, <2>1, SumRemove
<1>10. SumOf(k, Image(U)) = k[b[a]] + SumOf(k, Image(V))
  <2>1. Image(U) = Image(V) \cup {b[a]} /\ b[a] \notin Image(V) BY <1>4, <1>6
  <2>2. Image(V) \in SUBSET T /\ IsFiniteSet(Image(V))
    <3>1. Image(V) \in SUBSET T BY <1>7
    <3> QED BY <3>1, FS_Subset
  <2>3. \A y \in Image(V) \cup {b[a]} : k[y] \in Int BY <1>4, <1>6
  <2> HIDE DEF Image, V
  <2> QED BY <2>1, <2>2, <2>3, SumAdd
<1>11. f[a] = k[b[a]] BY <1>4, <1>6
<1> QED BY <1>4, <1>8, <1>9, <1>10, <1>11

\* Larger values, larger sum.
LEMMA SumAtMost ==
  ASSUME NEW f, NEW h, NEW S, IsFiniteSet(S), \A x \in S : f[x] \in Int /\ h[x] \in Int /\ f[x] <= h[x]
  PROVE  SumOf(f, S) <= SumOf(h, S)
<1> DEFINE Bad == {T \in SUBSET S : ~(SumOf(f, T) <= SumOf(h, T))}
<1>1. SUFFICES ASSUME Bad # {} PROVE FALSE
  OBVIOUS
<1>2. PICK T \in Bad : \A t \in Bad : ~(t \subseteq T /\ t # T)
  <2>1. Bad \in SUBSET SUBSET S OBVIOUS
  <2> HIDE DEF Bad
  <2> QED BY <1>1, <2>1, LeastSet
<1>3. T \in SUBSET S /\ IsFiniteSet(T) /\ ~(SumOf(f, T) <= SumOf(h, T)) BY <1>2, FS_Subset
<1>4. T # {}
  <2>1. SumOf(f, {}) = 0 /\ SumOf(h, {}) = 0 BY SumEmpty
  <2> QED BY <1>3, <2>1
<1>5. PICK a \in T : TRUE BY <1>4
<1> DEFINE U == T \ {a}
<1>6. U \in SUBSET S /\ U \subseteq T /\ U # T /\ IsFiniteSet(U) BY <1>3, <1>5, FS_Subset
<1>7. SumOf(f, U) <= SumOf(h, U)
  <2>1. U \notin Bad BY <1>2, <1>6
  <2> QED BY <1>6, <2>1
<1>8. SumOf(f, T) = f[a] + SumOf(f, U) /\ SumOf(h, T) = h[a] + SumOf(h, U)
  <2>1. \A x \in T : f[x] \in Int /\ h[x] \in Int BY <1>3
  <2> QED BY <1>3, <1>5, <2>1, SumRemove
<1>9. SumOf(f, U) \in Int /\ SumOf(h, U) \in Int
  <2>1. \A x \in U : f[x] \in Int /\ h[x] \in Int BY <1>6
  <2> HIDE DEF U
  <2> QED BY <1>6, <2>1, SumType
<1> HIDE DEF U
<1>10. f[a] \in Int /\ h[a] \in Int /\ f[a] <= h[a] BY <1>3, <1>5
<1> QED BY <1>3, <1>7, <1>8, <1>9, <1>10
-----------------------------------------------------------------------------
(* Sums over a sequence: one value more at the end, the first and the      *)
(* rest, one sequence after another.                                       *)

LEMMA SumLast ==
  ASSUME NEW n \in Nat, NEW f, NEW h, \A i \in 1..n : f[i] \in Int /\ h[i] = f[i], h[n + 1] \in Int
  PROVE  SumOf(h, 1..(n + 1)) = SumOf(f, 1..n) + h[n + 1]
<1>1. IsFiniteSet(1..n) BY FS_Interval
<1>2. 1..(n + 1) = (1..n) \cup {n + 1} /\ n + 1 \notin 1..n OBVIOUS
<1>3. \A x \in (1..n) \cup {n + 1} : h[x] \in Int OBVIOUS
<1>4. SumOf(h, 1..(n + 1)) = h[n + 1] + SumOf(h, 1..n) BY <1>1, <1>2, <1>3, SumAdd
<1>5. SumOf(h, 1..n) = SumOf(f, 1..n) BY <1>1, SumSame
<1>6. SumOf(f, 1..n) \in Int BY <1>1, SumType
<1> QED BY <1>4, <1>5, <1>6

\* The values of f over S, counted from m + 1, are those of h.
Shifted(f, S, m, h, n) ==
  /\ m \in Nat /\ n \in Nat /\ S = (m + 1)..(m + n)
  /\ \A i \in 1..n : f[m + i] \in Int /\ h[i] = f[m + i]

LEMMA SumShifted ==
  ASSUME NEW f, NEW S, NEW m, NEW h, NEW n, Shifted(f, S, m, h, n)
  PROVE  SumOf(f, S) = SumOf(h, 1..n)
<1>1. PICK T : T = 1..n OBVIOUS
<1>2. PICK b : b = [i \in T |-> m + i] OBVIOUS
<1>3. IsFiniteSet(S) /\ IsFiniteSet(T) BY <1>1, FS_Interval DEF Shifted
<1>4. b \in [T -> S] BY <1>1, <1>2 DEF Shifted
<1>5. \A x, y \in T : b[x] = b[y] => x = y BY <1>1, <1>2 DEF Shifted
<1>6. \A y \in S : \E x \in T : b[x] = y
  <2> TAKE y \in S
  <2>1. y - m \in T /\ m + (y - m) = y BY <1>1 DEF Shifted
  <2> QED BY <1>2, <2>1
<1>7. \A x \in T : h[x] \in Int /\ h[x] = f[b[x]] BY <1>1, <1>2 DEF Shifted
<1>8. SumOf(h, T) = SumOf(f, S) BY ONLY <1>3, <1>4, <1>5, <1>6, <1>7, SumRenamed
<1> QED BY <1>1, <1>8

LEMMA SumFirst ==
  ASSUME NEW n \in Nat \ {0}, NEW f, NEW h,
         \A i \in 1..n : f[i] \in Int, \A i \in 1..(n - 1) : h[i] = f[i + 1]
  PROVE  SumOf(f, 1..n) = f[1] + SumOf(h, 1..(n - 1)) /\ SumOf(h, 1..(n - 1)) \in Int
<1>1. IsFiniteSet(1..n) /\ IsFiniteSet(1..(n - 1)) BY FS_Interval
<1>2. 1 \in 1..n /\ (1..n) \ {1} = (1 + 1)..(1 + (n - 1)) OBVIOUS
<1>3. SumOf(f, 1..n) = f[1] + SumOf(f, (1..n) \ {1}) BY <1>1, <1>2, SumRemove
<1>4. Shifted(f, (1..n) \ {1}, 1, h, n - 1) BY <1>2 DEF Shifted
<1>5. SumOf(f, (1..n) \ {1}) = SumOf(h, 1..(n - 1)) BY ONLY <1>4, SumShifted
<1>6. \A i \in 1..(n - 1) : h[i] \in Int OBVIOUS
<1> QED BY <1>1, <1>3, <1>5, <1>6, SumType

\* The values of h are n values of f, and then k values of g.
Joined(f, n, g, k, h) ==
  /\ n \in Nat /\ k \in Nat
  /\ \A i \in 1..n : f[i] \in Int /\ h[i] = f[i]
  /\ \A i \in 1..k : g[i] \in Int /\ h[n + i] = g[i]

LEMMA SumJoined ==
  ASSUME NEW f, NEW n, NEW g, NEW k, NEW h, Joined(f, n, g, k, h)
  PROVE  SumOf(h, 1..(n + k)) = SumOf(f, 1..n) + SumOf(g, 1..k)
<1> USE DEF Joined
<1>1. IsFiniteSet(1..n) /\ IsFiniteSet((n + 1)..(n + k)) BY FS_Interval
<1>2. 1..(n + k) = (1..n) \cup ((n + 1)..(n + k)) /\ (1..n) \cap ((n + 1)..(n + k)) = {} OBVIOUS
<1>3. \A x \in (1..n) \cup ((n + 1)..(n + k)) : h[x] \in Int
  <2>1. \A x \in (n + 1)..(n + k) : x - n \in 1..k /\ x = n + (x - n) OBVIOUS
  <2>2. \A x \in (n + 1)..(n + k) : h[x] \in Int BY <2>1
  <2> QED BY <2>2
<1>4. SumOf(h, 1..(n + k)) = SumOf(h, 1..n) + SumOf(h, (n + 1)..(n + k))
  BY <1>1, <1>2, <1>3, SumUnion
<1>5. SumOf(h, 1..n) = SumOf(f, 1..n) BY <1>1, SumSame
<1>6. Shifted(h, (n + 1)..(n + k), n, g, k) BY DEF Shifted
<1> HIDE DEF Joined
<1>7. SumOf(h, (n + 1)..(n + k)) = SumOf(g, 1..k) BY ONLY <1>6, SumShifted
<1> QED BY <1>4, <1>5, <1>7
-----------------------------------------------------------------------------
(* Sums over parts.                                                        *)
\* The members with one label.
PartOf(S, lab, t) == {x \in S : lab[x] = t}

\* The parts of a sum, by what a label says of its members, come to all of it.
LEMMA SumParts ==
  ASSUME NEW f, NEW S, IsFiniteSet(S), \A x \in S : f[x] \in Int, NEW T, IsFiniteSet(T),
         NEW lab, \A x \in S : lab[x] \in T,
         NEW g, \A t \in T : g[t] = SumOf(f, PartOf(S, lab, t))
  PROVE  SumOf(g, T) = SumOf(f, S)
<1> DEFINE Part(U) == {x \in S : lab[x] \in U}
           Bad == {U \in SUBSET T : SumOf(g, U) # SumOf(f, Part(U))}
<1>1. SUFFICES ASSUME Bad # {} PROVE FALSE
  <2>1. Part(T) = S OBVIOUS
  <2>2. SUFFICES ASSUME SumOf(g, T) # SumOf(f, Part(T)) PROVE FALSE BY <2>1
  <2>3. T \in Bad BY <2>2
  <2> QED BY <1>1, <2>3
<1>2. PICK U \in Bad : \A u \in Bad : ~(u \subseteq U /\ u # U)
  <2>1. Bad \in SUBSET SUBSET T OBVIOUS
  <2> HIDE DEF Bad
  <2> QED BY <1>1, <2>1, LeastSet
<1>3. U \in SUBSET T /\ IsFiniteSet(U) /\ SumOf(g, U) # SumOf(f, Part(U)) BY <1>2, FS_Subset
<1>4. U # {}
  <2>1. Part({}) = {} OBVIOUS
  <2>2. SumOf(f, {}) = 0 /\ SumOf(g, {}) = 0 BY SumEmpty
  <2> QED BY <1>3, <2>1, <2>2
<1>5. PICK a \in U : TRUE BY <1>4
<1> DEFINE V == U \ {a}
<1>6. V \in SUBSET T /\ V \subseteq U /\ V # U /\ IsFiniteSet(V) BY <1>3, <1>5, FS_Subset
<1>7. SumOf(g, V) = SumOf(f, Part(V))
  <2>1. V \notin Bad BY <1>2, <1>6
  <2> QED BY <1>6, <2>1
<1>8. \A W \in SUBSET T : IsFiniteSet(Part(W)) /\ SumOf(f, Part(W)) \in Int
  <2> TAKE W \in SUBSET T
  <2>1. IsFiniteSet(Part(W)) /\ \A x \in Part(W) : f[x] \in Int BY FS_Subset
  <2> HIDE DEF Part
  <2> QED BY <2>1, SumType
<1>9. PartOf(S, lab, a) = Part({a}) /\ {a} \in SUBSET T /\ a \in T BY <1>3, <1>5 DEF PartOf
<1>10. g[a] = SumOf(f, Part({a})) BY <1>9
<1>11. SumOf(f, Part(U)) = SumOf(f, Part({a})) + SumOf(f, Part(V))
  <2>1. Part(U) = Part({a}) \cup Part(V) /\ Part({a}) \cap Part(V) = {} BY <1>5
  <2>2. \A x \in Part({a}) \cup Part(V) : f[x] \in Int OBVIOUS
  <2>3. IsFiniteSet(Part({a})) /\ IsFiniteSet(Part(V)) BY <1>6, <1>8, <1>9
  <2>4. PICK A, B : A = Part({a}) /\ B = Part(V) OBVIOUS
  <2>5. (\A x \in A \cup B : f[x] \in Int) /\ IsFiniteSet(A) /\ IsFiniteSet(B) /\ A \cap B = {}
    BY <2>1, <2>2, <2>3, <2>4
  <2>6. SumOf(f, A \cup B) = SumOf(f, A) + SumOf(f, B) BY ONLY <2>5, SumUnion
  <2> HIDE DEF Part, V
  <2> QED BY <2>1, <2>4, <2>6
<1>12. SumOf(g, U) = g[a] + SumOf(g, V)
  <2>1. \A t \in U : g[t] \in Int
    <3> TAKE t \in U
    <3>1. PartOf(S, lab, t) = Part({t}) /\ {t} \in SUBSET T /\ t \in T BY <1>3 DEF PartOf
    <3>2. SumOf(f, Part({t})) \in Int BY <1>8, <3>1
    <3>3. g[t] = SumOf(f, Part({t})) BY <3>1
    <3> QED BY ONLY <3>2, <3>3
  <2> HIDE DEF Part, Bad
  <2> QED BY <1>3, <1>5, <2>1, SumRemove
<1> HIDE DEF Part, V, Bad
<1> QED BY <1>3, <1>7, <1>10, <1>11, <1>12

\* The sum of two values at each member is the sum of both sums.
LEMMA SumPlus ==
  ASSUME NEW f, NEW h, NEW k, NEW S, IsFiniteSet(S), \A x \in S : f[x] \in Int /\ h[x] \in Int,
         \A x \in S : k[x] = f[x] + h[x]
  PROVE  SumOf(k, S) = SumOf(f, S) + SumOf(h, S)
<1> DEFINE Bad == {T \in SUBSET S : SumOf(k, T) # SumOf(f, T) + SumOf(h, T)}
<1>1. SUFFICES ASSUME Bad # {} PROVE FALSE
  OBVIOUS
<1>2. PICK T \in Bad : \A t \in Bad : ~(t \subseteq T /\ t # T)
  <2>1. Bad \in SUBSET SUBSET S OBVIOUS
  <2> HIDE DEF Bad
  <2> QED BY <1>1, <2>1, LeastSet
<1>3. T \in SUBSET S /\ IsFiniteSet(T) /\ SumOf(k, T) # SumOf(f, T) + SumOf(h, T) BY <1>2, FS_Subset
<1>4. T # {}
  <2> SUFFICES ASSUME T = {} PROVE FALSE OBVIOUS
  <2>1. SumOf(f, {}) = 0 /\ SumOf(h, {}) = 0 /\ SumOf(k, {}) = 0 BY SumEmpty
  <2>2. SumOf(f, T) = 0 /\ SumOf(h, T) = 0 /\ SumOf(k, T) = 0 BY <2>1
  <2> QED BY <1>3, <2>2
<1>5. PICK a \in T : TRUE BY <1>4
<1> DEFINE U == T \ {a}
<1>6. U \in SUBSET S /\ U \subseteq T /\ U # T /\ IsFiniteSet(U) BY <1>3, <1>5, FS_Subset
<1>7. SumOf(k, U) = SumOf(f, U) + SumOf(h, U)
  <2>1. U \notin Bad BY <1>2, <1>6
  <2> QED BY <1>6, <2>1
<1>8. SumOf(f, T) = f[a] + SumOf(f, U) /\ SumOf(h, T) = h[a] + SumOf(h, U) /\ SumOf(k, T) = k[a] + SumOf(k, U)
  <2>1. \A x \in T : f[x] \in Int /\ h[x] \in Int /\ k[x] \in Int BY <1>3
  <2> QED BY <1>3, <1>5, <2>1, SumRemove
<1>9. SumOf(f, U) \in Int /\ SumOf(h, U) \in Int
  <2>1. \A x \in U : f[x] \in Int /\ h[x] \in Int BY <1>6
  <2> HIDE DEF U
  <2> QED BY <1>6, <2>1, SumType
<1> HIDE DEF U
<1>10. f[a] \in Int /\ h[a] \in Int /\ k[a] = f[a] + h[a] BY <1>3, <1>5
<1> QED BY <1>3, <1>7, <1>8, <1>9, <1>10
=============================================================================
