------------------------------ MODULE WindowProofs ------------------------------
(***************************************************************************)
(* Theorems about the two parts of a window whose definitions recurse: the *)
(* health view, with the tree of locks it draws of a reading of the        *)
(* server, and the query tabs, with the scripts that a list of columns     *)
(* writes.                                                                 *)
(*                                                                         *)
(* The module first proves what recursion needs: a set of natural numbers  *)
(* has a least one, and a body that asks for values only at points of a    *)
(* smaller measure has a function that solves it.  What a definition finds *)
(* then holds at all points, there being no least one where it fails.      *)
(***************************************************************************)
EXTENDS HealthView, QueryTabs, FiniteSetTheorems, SequenceTheorems, WellFoundedInduction, TLAPS

-----------------------------------------------------------------------------
(* Least numbers and bounds.                                               *)

\* A set of natural numbers that is not empty has a least one.
LEMMA LeastNat ==
    ASSUME NEW T, T \subseteq Nat, T # {}
    PROVE  \E n \in T : \A k \in T : n <= k
<1>. DEFINE less == OpToRel(LAMBDA x, y : x < y, Nat)
<1>1. IsWellFoundedOn(less, Nat)
  BY NatLessThanWellFounded
<1>2. \A x, y \in Nat : y < x => <<y, x>> \in less
  BY Zenon DEF OpToRel
<1>. HIDE DEF less
<1>3. PICK n \in T : \A k \in T : <<k, n>> \notin less
  BY <1>1, WFMin
<1>4. ASSUME NEW k \in T PROVE n <= k
  <2>1. n \in Nat /\ k \in Nat /\ ~(k < n)
    BY <1>2, <1>3
  <2>. QED BY <2>1
<1>. QED BY <1>4

\* The numbers found for the members of a finite set have a bound.
LEMMA Bounded ==
    ASSUME NEW S, IsFiniteSet(S), NEW f \in [S -> Nat]
    PROVE  \E k \in Nat : \A x \in S : f[x] <= k
<1>. DEFINE Bound(X) == \E k \in Nat : \A x \in X : f[x] <= k
            bad == {X \in SUBSET S : ~Bound(X)}
            sizes == {Cardinality(X) : X \in bad}
<1>1. SUFFICES ASSUME bad # {} PROVE FALSE
  BY Zenon
<1>2. \A X \in SUBSET S : IsFiniteSet(X) /\ Cardinality(X) \in Nat
  BY FS_Subset, FS_CardinalityType
<1>3. sizes \subseteq Nat /\ sizes # {}
  BY <1>1, <1>2
<1>4. PICK n \in sizes : \A k \in sizes : n <= k
  BY <1>3, LeastNat
<1>5. PICK X \in bad : Cardinality(X) = n
  BY <1>4
<1>6. X # {}
  BY <1>5
<1>7. PICK x \in X : TRUE
  BY <1>6
<1>8. Cardinality(X \ {x}) = n - 1 /\ X \ {x} \in SUBSET S /\ n \in Nat
  BY <1>2, <1>5, <1>7, FS_RemoveElement
<1>9. X \ {x} \notin bad
  BY <1>4, <1>8
<1>10. PICK k \in Nat : \A y \in X \ {x} : f[y] <= k
  BY <1>8, <1>9
<1>11. f[x] \in Nat /\ \A y \in X : f[y] \in Nat
  BY <1>5, <1>7
<1>12. PICK m \in Nat : k <= m /\ f[x] <= m
  BY <1>10, <1>11
<1>13. \A y \in X : f[y] <= m
  BY <1>10, <1>11, <1>12
<1>14. Bound(X)
  BY <1>12, <1>13
<1>. QED BY <1>5, <1>14

-----------------------------------------------------------------------------
(* Functions defined by recursion: E[<<g, d>>] is the value at d of the    *)
(* body in which g stands for the function.                                *)

\* The body gives values, and asks only for those at points of a smaller measure.
Descends(D, R, m, E) ==
    /\ R # {} /\ m \in [D -> Nat] /\ E \in [[D -> R] \X D -> R]
    /\ \A d \in D : \A g, h \in [D -> R] :
          (\A c \in D : m[c] < m[d] => g[c] = h[c]) => E[<<g, d>>] = E[<<h, d>>]

\* g solves the recursion below a measure.
Solves(D, R, m, E, n, g) == g \in [D -> R] /\ \A d \in D : m[d] < n => g[d] = E[<<g, d>>]

LEMMA SolutionsAgree ==
    ASSUME NEW D, NEW R, NEW m \in [D -> Nat], NEW E, Descends(D, R, m, E),
           NEW n \in Nat, NEW k \in Nat, NEW g, NEW h,
           Solves(D, R, m, E, n, g), Solves(D, R, m, E, k, h)
    PROVE  \A d \in D : m[d] < n /\ m[d] < k => g[d] = h[d]
<1>. DEFINE bad == {d \in D : m[d] < n /\ m[d] < k /\ g[d] # h[d]}
            at == {m[d] : d \in bad}
<1>1. SUFFICES ASSUME bad # {} PROVE FALSE
  OBVIOUS
<1>2. at \subseteq Nat /\ at # {}
  BY <1>1
<1>3. PICK a \in at : \A b \in at : a <= b
  BY <1>2, LeastNat
<1>4. PICK d \in bad : m[d] = a
  BY <1>3
<1>5. ASSUME NEW c \in D, m[c] < m[d] PROVE g[c] = h[c]
  <2>1. m[c] \in Nat /\ m[d] \in Nat /\ m[d] < n /\ m[d] < k
    BY <1>4
  <2>2. m[c] < n /\ m[c] < k
    BY <1>5, <2>1
  <2>3. m[c] \notin at
    BY <1>3, <1>4, <1>5, <2>1
  <2>. QED BY <2>2, <2>3
<1>6. g[d] = E[<<g, d>>] /\ h[d] = E[<<h, d>>] /\ g \in [D -> R] /\ h \in [D -> R]
  BY <1>4 DEF Solves
<1>7. E[<<g, d>>] = E[<<h, d>>]
  BY <1>4, <1>5, <1>6 DEF Descends
<1>. QED BY <1>4, <1>6, <1>7

\* g is the function defined.
Solution(D, R, E, g) == g \in [D -> R] /\ \A d \in D : g[d] = E[<<g, d>>]

\* A recursion that descends has a solution.
LEMMA RecursionExists ==
    ASSUME NEW D, NEW R, NEW m, NEW E, Descends(D, R, m, E)
    PROVE  \E g : Solution(D, R, E, g)
<1>. SUFFICES ASSUME R # {}, m \in [D -> Nat], E \in [[D -> R] \X D -> R]
              PROVE  \E g : Solution(D, R, E, g)
  BY DEF Descends
<1>. DEFINE Solved(n) == \E g : Solves(D, R, m, E, n, g)
            bad == {n \in Nat : ~Solved(n)}
<1>1. ASSUME bad # {} PROVE FALSE
  <2>1. PICK n \in bad : \A k \in bad : n <= k
    BY <1>1, LeastNat
  <2>2. n # 0
    <3>1. PICK r \in R : TRUE
      OBVIOUS
    <3>2. [d \in D |-> r] \in [D -> R]
      BY <3>1
    <3>3. \A d \in D : ~(m[d] < 0)
      OBVIOUS
    <3>4. Solves(D, R, m, E, 0, [d \in D |-> r])
      BY <3>2, <3>3, Zenon DEF Solves
    <3>. QED BY <3>4, <2>1
  <2>3. n - 1 \in Nat /\ n - 1 \notin bad /\ n \in Nat
    BY <2>1, <2>2
  <2>4. PICK g : Solves(D, R, m, E, n - 1, g)
    BY <2>3
  <2>5. g \in [D -> R] /\ \A d \in D : m[d] < n - 1 => g[d] = E[<<g, d>>]
    BY <2>4, Zenon DEF Solves
  <2>. DEFINE h == [d \in D |-> IF m[d] < n THEN E[<<g, d>>] ELSE g[d]]
  <2>6. h \in [D -> R]
    BY <2>5
  <2>7. ASSUME NEW d \in D, m[d] < n PROVE h[d] = E[<<h, d>>]
    <3>1. ASSUME NEW c \in D, m[c] < m[d] PROVE g[c] = h[c]
      <4>1. m[c] \in Nat /\ m[d] \in Nat
        OBVIOUS
      <4>2. m[c] < n - 1 /\ m[c] < n
        BY <2>3, <2>7, <3>1, <4>1
      <4>. QED BY <2>5, <4>2
    <3>2. h[d] = E[<<g, d>>]
      BY <2>7
    <3>. HIDE DEF h
    <3>3. E[<<g, d>>] = E[<<h, d>>]
      BY <2>5, <2>6, <3>1 DEF Descends
    <3>. QED BY <3>2, <3>3
  <2>. HIDE DEF h
  <2>8. Solves(D, R, m, E, n, h)
    BY <2>6, <2>7, Zenon DEF Solves
  <2>. QED BY <2>1, <2>8
<1>. DEFINE of == [n \in Nat |-> CHOOSE g : Solves(D, R, m, E, n, g)]
            f == [d \in D |-> of[m[d] + 1][d]]
<1>2. ASSUME NEW n \in Nat PROVE Solves(D, R, m, E, n, of[n])
  <2>1. Solved(n)
    BY <1>1
  <2>. QED BY <2>1, Zenon
<1>. HIDE DEF of
<1>3. ASSUME NEW d \in D
      PROVE  /\ f[d] = of[m[d] + 1][d] /\ m[d] \in Nat /\ m[d] + 1 \in Nat /\ m[d] < m[d] + 1
             /\ Solves(D, R, m, E, m[d] + 1, of[m[d] + 1])
             /\ of[m[d] + 1] \in [D -> R] /\ of[m[d] + 1][d] = E[<<of[m[d] + 1], d>>]
  <2>1. m[d] \in Nat /\ m[d] + 1 \in Nat /\ m[d] < m[d] + 1
    OBVIOUS
  <2>2. Solves(D, R, m, E, m[d] + 1, of[m[d] + 1])
    BY <1>2, <2>1
  <2>. QED BY <2>1, <2>2 DEF Solves
<1>4. f \in [D -> R]
  BY <1>3
<1>. HIDE DEF f
<1>5. ASSUME NEW d \in D PROVE f[d] = E[<<f, d>>]
  <2>1. ASSUME NEW c \in D, m[c] < m[d] PROVE of[m[d] + 1][c] = f[c]
    <3>1. m[c] < m[d] + 1 /\ m[c] < m[c] + 1
      BY <1>3, <2>1
    <3>2. /\ m[c] + 1 \in Nat /\ m[d] + 1 \in Nat
          /\ Solves(D, R, m, E, m[d] + 1, of[m[d] + 1])
          /\ Solves(D, R, m, E, m[c] + 1, of[m[c] + 1])
      BY <1>3
    <3>3. \A x \in D : m[x] < m[d] + 1 /\ m[x] < m[c] + 1 => of[m[d] + 1][x] = of[m[c] + 1][x]
      BY <3>2, SolutionsAgree
    <3>. QED BY <1>3, <3>1, <3>3
  <2>2. E[<<of[m[d] + 1], d>>] = E[<<f, d>>]
    BY <1>3, <1>4, <2>1 DEF Descends
  <2>. QED BY <1>3, <2>2
<1>. QED BY <1>4, <1>5 DEF Solution

-----------------------------------------------------------------------------
(* Sums over a finite set of sessions.                                     *)

\* g sums over the subsets of S, as Together does.
Sums(w, S, g) ==
    g = [s \in SUBSET S |-> IF s = {} THEN 0
                            ELSE LET x == CHOOSE x \in s : TRUE IN (1 + w[x]) + g[s \ {x}]]

LEMMA SumsAgree ==
    ASSUME NEW w, NEW v, NEW S, NEW T, NEW g, NEW h, Sums(w, S, g), Sums(v, T, h),
           NEW X, IsFiniteSet(X), X \subseteq S, X \subseteq T, \A x \in X : w[x] = v[x]
    PROVE  g[X] = h[X]
<1>. DEFINE bad == {s \in SUBSET X : g[s] # h[s]}
            sizes == {Cardinality(s) : s \in bad}
<1>1. SUFFICES ASSUME bad # {} PROVE FALSE
  OBVIOUS
<1>2. \A s \in SUBSET X : IsFiniteSet(s) /\ Cardinality(s) \in Nat
  BY FS_Subset, FS_CardinalityType
<1>3. PICK n \in sizes : \A k \in sizes : n <= k
  <2>1. sizes \subseteq Nat /\ sizes # {}
    BY <1>1, <1>2
  <2>. QED BY <2>1, LeastNat
<1>4. PICK s \in bad : Cardinality(s) = n
  BY <1>3
<1>5. s \in SUBSET S /\ s \in SUBSET T
  BY <1>4
<1>6. s # {}
  <2>1. CASE s = {}
    <3>1. g[s] = 0 /\ h[s] = 0
      BY <1>5, <2>1, Zenon DEF Sums
    <3>. QED BY <1>4, <3>1
  <2>. QED BY <2>1
<1>. DEFINE x == CHOOSE x \in s : TRUE
<1>7. x \in s
  BY <1>6
<1>8. g[s] = (1 + w[x]) + g[s \ {x}] /\ h[s] = (1 + v[x]) + h[s \ {x}]
  BY <1>5, <1>6, Zenon DEF Sums
<1>. HIDE DEF x
<1>9. s \ {x} \in SUBSET X /\ Cardinality(s \ {x}) = n - 1 /\ n \in Nat
  BY <1>2, <1>4, <1>7, FS_RemoveElement
<1>10. g[s \ {x}] = h[s \ {x}]
  <2>1. s \ {x} \notin bad
    BY <1>3, <1>9
  <2>. QED BY <1>9, <2>1
<1>11. w[x] = v[x]
  BY <1>4, <1>7
<1>. QED BY <1>4, <1>8, <1>10, <1>11

LEMMA SumsExist ==
    ASSUME NEW S, IsFiniteSet(S), NEW w, \A x \in S : w[x] \in Nat
    PROVE  \E g \in [SUBSET S -> Nat] : Sums(w, S, g)
<1>. DEFINE D == SUBSET S
            m == [s \in D |-> Cardinality(s)]
            Body(g, s) == IF s = {} THEN 0
                          ELSE LET x == CHOOSE x \in s : TRUE IN (1 + w[x]) + g[s \ {x}]
            E == [a \in [D -> Nat] \X D |-> Body(a[1], a[2])]
<1>1. \A s \in D : IsFiniteSet(s) /\ Cardinality(s) \in Nat
  BY FS_Subset, FS_CardinalityType
<1>2. m \in [D -> Nat]
  BY <1>1
<1>3. ASSUME NEW s \in D, s # {}
      PROVE  LET x == CHOOSE x \in s : TRUE
             IN  x \in s /\ s \ {x} \in D /\ m[s \ {x}] < m[s]
  <2>. DEFINE x == CHOOSE x \in s : TRUE
  <2>1. x \in s
    BY <1>3
  <2>. HIDE DEF x
  <2>2. s \ {x} \in D
    OBVIOUS
  <2>3. Cardinality(s \ {x}) = Cardinality(s) - 1 /\ Cardinality(s) \in Nat
    BY <1>1, <2>1, FS_RemoveElement
  <2>4. m[s \ {x}] < m[s]
    BY <2>2, <2>3
  <2>. QED BY <2>1, <2>2, <2>4 DEF x
<1>4. \A g \in [D -> Nat], s \in D : E[<<g, s>>] = Body(g, s)
  <2>. SUFFICES ASSUME NEW g \in [D -> Nat], NEW s \in D PROVE E[<<g, s>>] = Body(g, s)
    OBVIOUS
  <2>1. <<g, s>> \in [D -> Nat] \X D /\ <<g, s>>[1] = g /\ <<g, s>>[2] = s
    OBVIOUS
  <2>. HIDE DEF Body
  <2>. QED BY <2>1
<1>5. ASSUME NEW g \in [D -> Nat], NEW s \in D PROVE Body(g, s) \in Nat
  <2>1. CASE s = {}
    BY <2>1
  <2>2. CASE s # {}
    <3>. DEFINE x == CHOOSE x \in s : TRUE
    <3>1. Body(g, s) = (1 + w[x]) + g[s \ {x}]
      BY <2>2
    <3>2. x \in s /\ s \ {x} \in D
      BY <1>3, <2>2
    <3>. HIDE DEF x, Body
    <3>3. w[x] \in Nat /\ g[s \ {x}] \in Nat
      BY <3>2
    <3>. QED BY <3>1, <3>3
  <2>. QED BY <2>1, <2>2
<1>6. E \in [[D -> Nat] \X D -> Nat]
  BY <1>5
<1>7. Descends(D, Nat, m, E)
  <2>1. ASSUME NEW s \in D, NEW g \in [D -> Nat], NEW h \in [D -> Nat],
               \A c \in D : m[c] < m[s] => g[c] = h[c]
        PROVE  E[<<g, s>>] = E[<<h, s>>]
    <3>1. CASE s = {}
      BY <1>4, <3>1
    <3>2. CASE s # {}
      <4>. DEFINE x == CHOOSE x \in s : TRUE
      <4>1. Body(g, s) = (1 + w[x]) + g[s \ {x}] /\ Body(h, s) = (1 + w[x]) + h[s \ {x}]
        BY <3>2
      <4>2. g[s \ {x}] = h[s \ {x}]
        BY <1>3, <2>1, <3>2
      <4>. HIDE DEF x, Body, E
      <4>. QED BY <1>4, <4>1, <4>2
    <3>. QED BY <3>1, <3>2
  <2>. HIDE DEF m, E
  <2>2. Nat # {}
    OBVIOUS
  <2>. QED BY <1>2, <1>6, <2>1, <2>2 DEF Descends
<1>. HIDE DEF m, E
<1>8. PICK g : Solution(D, Nat, E, g)
  BY <1>7, RecursionExists, Zenon
<1>9. g \in [D -> Nat] /\ \A s \in D : g[s] = Body(g, s)
  BY <1>4, <1>8 DEF Solution
<1>10. g = [s \in D |-> Body(g, s)]
  <2>. HIDE DEF Body
  <2>. QED BY <1>9
<1>. QED BY <1>9, <1>10, Zenon DEF Sums

\* Together finds what any sum finds.
LEMMA TogetherIs ==
    ASSUME NEW S, IsFiniteSet(S), NEW w, \A x \in S : w[x] \in Nat,
           NEW T, S \subseteq T, NEW h, Sums(w, T, h)
    PROVE  Together(w, S) = h[S]
<1>1. PICK g \in [SUBSET S -> Nat] : Sums(w, S, g)
  BY SumsExist
<1>2. \E f : Sums(w, S, f) /\ Together(w, S) = f[S]
  <2>1. g = [s \in SUBSET S |-> IF s = {} THEN 0
                               ELSE LET x == CHOOSE x \in s : TRUE IN (1 + w[x]) + g[s \ {x}]]
    BY <1>1, Zenon DEF Sums
  <2>2. \E f : /\ f = [s \in SUBSET S |->
                            IF s = {} THEN 0
                            ELSE LET x == CHOOSE x \in s : TRUE IN (1 + w[x]) + f[s \ {x}]]
               /\ Together(w, S) = f[S]
    BY <2>1, Zenon DEF Together, MapThenSumSet, MapThenFoldSet
  <2>. QED BY <2>2, Zenon DEF Sums
<1>. QED BY <1>2, SumsAgree

LEMMA TogetherTyped ==
    ASSUME NEW S, IsFiniteSet(S), NEW w, \A x \in S : w[x] \in Nat
    PROVE  Together(w, S) \in Nat /\ (S = {} => Together(w, S) = 0)
<1>1. PICK g \in [SUBSET S -> Nat] : Sums(w, S, g)
  BY SumsExist
<1>2. Together(w, S) = g[S]
  BY <1>1, TogetherIs
<1>3. S = {} => g[S] = 0
  BY <1>1, Zenon DEF Sums
<1>. QED BY <1>2, <1>3

\* Only what it says of the members counts.
LEMMA TogetherAgree ==
    ASSUME NEW S, IsFiniteSet(S), NEW w, NEW v, \A x \in S : w[x] \in Nat /\ v[x] = w[x]
    PROVE  Together(w, S) = Together(v, S)
<1>1. PICK g \in [SUBSET S -> Nat] : Sums(w, S, g)
  BY SumsExist
<1>2. PICK h \in [SUBSET S -> Nat] : Sums(v, S, h)
  BY SumsExist
<1>3. Together(w, S) = g[S] /\ Together(v, S) = h[S]
  BY <1>1, <1>2, TogetherIs
<1>. QED BY <1>1, <1>2, <1>3, SumsAgree

\* Any member may be taken out first.
LEMMA TogetherWithout ==
    ASSUME NEW S, IsFiniteSet(S), NEW w, \A x \in S : w[x] \in Nat, NEW x \in S
    PROVE  Together(w, S) = 1 + w[x] + Together(w, S \ {x})
<1>1. PICK g \in [SUBSET S -> Nat] : Sums(w, S, g)
  BY SumsExist
<1>2. \A s \in SUBSET S : IsFiniteSet(s) /\ Cardinality(s) \in Nat
  BY FS_Subset, FS_CardinalityType
<1>. DEFINE Fair(s) == \A y \in s : g[s] = 1 + w[y] + g[s \ {y}]
            bad == {s \in SUBSET S : ~Fair(s)}
            sizes == {Cardinality(s) : s \in bad}
<1>3. ASSUME bad # {} PROVE FALSE
  <2>1. sizes \subseteq Nat /\ sizes # {}
    <3>. HIDE DEF bad
    <3>1. bad \subseteq SUBSET S
      BY DEF bad
    <3>. QED BY <1>2, <1>3, <3>1
  <2>. HIDE DEF sizes
  <2>2. PICK n \in sizes : \A k \in sizes : n <= k
    BY <2>1, LeastNat
  <2>3. PICK s \in bad : Cardinality(s) = n
    BY <2>2 DEF sizes
  <2>4. PICK y \in s : g[s] # 1 + w[y] + g[s \ {y}]
    BY <2>3
  <2>. DEFINE z == CHOOSE z \in s : TRUE
  <2>5. z \in s
    BY <2>4
  <2>6. g[s] = (1 + w[z]) + g[s \ {z}]
    BY <1>1, <2>3, <2>4, Zenon DEF Sums
  <2>. HIDE DEF z
  <2>7. y # z
    <3>1. w[z] \in Nat /\ g[s \ {z}] \in Nat
      BY <1>1, <2>3, <2>5
    <3>. QED BY <2>4, <2>6, <3>1
  <2>8. ASSUME NEW u \in s PROVE s \ {u} \in SUBSET S /\ Fair(s \ {u})
    <3>1. Cardinality(s \ {u}) = n - 1 /\ s \ {u} \in SUBSET S /\ n \in Nat
      BY <1>2, <2>3, FS_RemoveElement
    <3>2. s \ {u} \notin bad
      <4>1. ~(n <= Cardinality(s \ {u}))
        BY <3>1
      <4>. QED BY <2>2, <4>1 DEF sizes
    <3>. QED BY <3>1, <3>2
  <2>9. g[s \ {z}] = 1 + w[y] + g[(s \ {z}) \ {y}] /\ g[s \ {y}] = 1 + w[z] + g[(s \ {y}) \ {z}]
    BY <2>4, <2>5, <2>7, <2>8
  <2>10. (s \ {z}) \ {y} = (s \ {y}) \ {z}
    OBVIOUS
  <2>11. w[y] \in Nat /\ w[z] \in Nat /\ g[(s \ {y}) \ {z}] \in Nat
    <3>1. y \in S /\ z \in S /\ (s \ {y}) \ {z} \in SUBSET S
      BY <2>3, <2>4, <2>5
    <3>. QED BY <1>1, <3>1
  <2>12. g[s] = (1 + w[z]) + (1 + w[y] + g[(s \ {y}) \ {z}])
    BY <2>6, <2>9, <2>10
  <2>13. 1 + w[y] + g[s \ {y}] = 1 + w[y] + (1 + w[z] + g[(s \ {y}) \ {z}])
    BY <2>9
  <2>. QED BY <2>4, <2>11, <2>12, <2>13
<1>4. S \in SUBSET S /\ S \notin bad
  BY <1>3
<1>5. g[S] = 1 + w[x] + g[S \ {x}]
  BY <1>4
<1>6. Together(w, S) = g[S] /\ Together(w, S \ {x}) = g[S \ {x}]
  <2>1. IsFiniteSet(S \ {x})
    BY <1>2
  <2>. QED BY <1>1, <2>1, TogetherIs
<1>. QED BY <1>5, <1>6

\* The sum over two sets that share nothing.
LEMMA TogetherUnion ==
    ASSUME NEW S, NEW U, IsFiniteSet(S), IsFiniteSet(U), S \cap U = {},
           NEW w, \A x \in S \union U : w[x] \in Nat
    PROVE  Together(w, S \union U) = Together(w, S) + Together(w, U)
<1>. DEFINE Fair(s) == Together(w, s \union U) = Together(w, s) + Together(w, U)
            bad == {s \in SUBSET S : ~Fair(s)}
            sizes == {Cardinality(s) : s \in bad}
<1>1. \A s \in SUBSET S : IsFiniteSet(s) /\ Cardinality(s) \in Nat /\ IsFiniteSet(s \union U)
  BY FS_Subset, FS_CardinalityType, FS_Union
<1>2. \A s \in SUBSET S : Together(w, s) \in Nat
  BY <1>1, TogetherTyped
<1>3. Together(w, U) \in Nat
  BY TogetherTyped
<1>4. ASSUME bad # {} PROVE FALSE
  <2>1. sizes \subseteq Nat /\ sizes # {}
    <3>. HIDE DEF bad
    <3>1. bad \subseteq SUBSET S
      BY DEF bad
    <3>. QED BY <1>1, <1>4, <3>1
  <2>. HIDE DEF sizes
  <2>2. PICK n \in sizes : \A k \in sizes : n <= k
    BY <2>1, LeastNat
  <2>3. PICK s \in bad : Cardinality(s) = n
    BY <2>2 DEF sizes
  <2>4. s # {}
    <3>1. CASE s = {}
      <4>1. Together(w, s) = 0 /\ s \union U = U
        BY <1>1, <3>1, TogetherTyped
      <4>. QED BY <1>3, <2>3, <4>1
    <3>. QED BY <3>1
  <2>5. PICK y \in s : TRUE
    BY <2>4
  <2>6. s \ {y} \in SUBSET S /\ Cardinality(s \ {y}) = n - 1 /\ n \in Nat
    BY <1>1, <2>3, <2>5, FS_RemoveElement
  <2>7. Fair(s \ {y})
    <3>1. ~(n <= Cardinality(s \ {y}))
      BY <2>6
    <3>2. s \ {y} \notin bad
      BY <2>2, <3>1 DEF sizes
    <3>. QED BY <2>6, <3>2
  <2>8. (s \union U) \ {y} = (s \ {y}) \union U
    BY <2>3, <2>5
  <2>9. Together(w, s) = 1 + w[y] + Together(w, s \ {y})
    BY <1>1, <2>3, <2>5, TogetherWithout
  <2>10. Together(w, s \union U) = 1 + w[y] + Together(w, (s \union U) \ {y})
    <3>1. IsFiniteSet(s \union U) /\ y \in s \union U /\ \A x \in s \union U : w[x] \in Nat
      BY <1>1, <2>3, <2>5
    <3>. QED BY <3>1, TogetherWithout
  <2>11. w[y] \in Nat /\ Together(w, s \ {y}) \in Nat
    BY <1>2, <2>3, <2>5, <2>6
  <2>. QED BY <1>3, <2>3, <2>7, <2>8, <2>9, <2>10, <2>11
<1>5. S \in SUBSET S /\ S \notin bad
  BY <1>4
<1>. QED BY <1>5

-----------------------------------------------------------------------------
(* The walk up from the sessions.                                          *)

BlockersOf(by, q) == ToSet(by[q].blockedBy)

\* The sessions of a tree: finitely many, and whom they wait for is among them.
Complete(by) ==
    /\ IsFiniteSet(DOMAIN by)
    /\ \A p \in DOMAIN by : by[p].blockedBy \in Seq(DOMAIN by)

Finding(P) == [height : Int, known : Walk(P)]

\* The visits that a visit makes.
VisitAbove(by, at) ==
    [pids |-> by[Head(at.pids)].blockedBy, path |-> at.path \union {Head(at.pids)}, known |-> at.known]
VisitRest(at, known) == [at EXCEPT !.pids = Tail(@), !.known = known]

\* The body of visit.
VisitBody(by, go, at) ==
    IF at.pids = <<>> THEN [height |-> 0, known |-> at.known]
    ELSE LET first == VisitFirst(by, go, at)
             rest == go[[at EXCEPT !.pids = Tail(@), !.known = first.known]]
         IN  [rest EXCEPT !.height = IF first.height < @ THEN @ ELSE first.height + 1]

LEMMA VisitTyped ==
    ASSUME NEW P, NEW at \in Visits(P)
    PROVE  at.pids \in Seq(P) /\ at.path \in SUBSET P /\ at.known \in Walk(P)
BY DEF Visits

LEMMA HeadAndTail ==
    ASSUME NEW P, NEW q \in Seq(P), q # <<>>
    PROVE  /\ Head(q) \in P /\ Tail(q) \in Seq(P) /\ Len(Tail(q)) = Len(q) - 1 /\ Len(q) \in Nat
           /\ ToSet(q) = {Head(q)} \union ToSet(Tail(q))
<1>1. Len(q) \in Nat /\ Len(q) # 0 /\ DOMAIN q = 1..Len(q) /\ \A i \in 1..Len(q) : q[i] \in P
  BY EmptySeq, LenProperties, ElementOfSeq
<1>2. Head(q) = q[1] /\ Tail(q) \in Seq(P) /\ Len(Tail(q)) = Len(q) - 1
      /\ \A i \in 1..Len(Tail(q)) : Tail(q)[i] = q[i + 1]
  BY HeadTailProperties
<1>3. DOMAIN Tail(q) = 1..(Len(q) - 1)
  BY <1>2, LenProperties
<1>4. ToSet(q) \subseteq {Head(q)} \union ToSet(Tail(q))
  <2>1. ASSUME NEW i \in 1..Len(q), i # 1 PROVE q[i] \in ToSet(Tail(q))
    <3>1. i - 1 \in 1..(Len(q) - 1) /\ (i - 1) + 1 = i
      BY <1>1, <2>1
    <3>2. Tail(q)[i - 1] = q[i]
      BY <1>2, <3>1
    <3>. QED BY <1>3, <3>1, <3>2 DEF ToSet
  <2>. QED BY <1>1, <1>2, <2>1 DEF ToSet
<1>5. ToSet(Tail(q)) \subseteq ToSet(q)
  <2>1. ASSUME NEW i \in 1..(Len(q) - 1) PROVE Tail(q)[i] \in ToSet(q)
    <3>1. i + 1 \in 1..Len(q) /\ Tail(q)[i] = q[i + 1]
      BY <1>1, <1>2
    <3>. QED BY <1>1, <3>1 DEF ToSet
  <2>. QED BY <1>3, <2>1 DEF ToSet
<1>6. Head(q) \in ToSet(q) /\ Head(q) \in P
  <2>1. 1 \in 1..Len(q)
    BY <1>1
  <2>. QED BY <1>1, <1>2, <2>1 DEF ToSet
<1>. QED BY <1>1, <1>2, <1>4, <1>5, <1>6

LEMMA AboveIsVisit ==
    ASSUME NEW by, Complete(by), NEW at \in Visits(DOMAIN by), at.pids # <<>>
    PROVE  /\ VisitAbove(by, at) \in Visits(DOMAIN by)
           /\ VisitAbove(by, at).pids = by[Head(at.pids)].blockedBy
           /\ VisitAbove(by, at).path = at.path \union {Head(at.pids)}
           /\ VisitAbove(by, at).known = at.known
<1>1. at.pids \in Seq(DOMAIN by) /\ at.path \in SUBSET DOMAIN by /\ at.known \in Walk(DOMAIN by)
  BY VisitTyped
<1>2. Head(at.pids) \in DOMAIN by
  BY <1>1, HeadAndTail
<1>3. by[Head(at.pids)].blockedBy \in Seq(DOMAIN by)
  BY <1>2 DEF Complete
<1>. QED BY <1>1, <1>2, <1>3 DEF VisitAbove, Visits

LEMMA RestIsVisit ==
    ASSUME NEW P, NEW at \in Visits(P), at.pids # <<>>, NEW known \in Walk(P)
    PROVE  /\ VisitRest(at, known) \in Visits(P)
           /\ VisitRest(at, known).pids = Tail(at.pids)
           /\ VisitRest(at, known).path = at.path
           /\ VisitRest(at, known).known = known
<1>1. at.pids \in Seq(P) /\ at.path \in SUBSET P
  BY VisitTyped
<1>2. Tail(at.pids) \in Seq(P)
  BY <1>1, HeadAndTail
<1>. QED BY <1>1, <1>2 DEF VisitRest, Visits

\* What a visit finds of the first session, by cases.
LEMMA FirstIs ==
    ASSUME NEW by, NEW go, NEW at \in Visits(DOMAIN by), at.pids # <<>>,
           NEW p, p = Head(at.pids)
    PROVE  /\ at.known.depth[p] # Unknown =>
                 VisitFirst(by, go, at) = [height |-> at.known.depth[p], known |-> at.known]
           /\ at.known.depth[p] = Unknown /\ p \in at.path =>
                 VisitFirst(by, go, at)
                     = [height |-> 0, known |-> [at.known EXCEPT !.cycle = @ \union at.path]]
           /\ at.known.depth[p] = Unknown /\ p \notin at.path =>
                 VisitFirst(by, go, at)
                     = [go[VisitAbove(by, at)] EXCEPT !.known.depth[p] = go[VisitAbove(by, at)].height]
BY Zenon DEF VisitFirst, VisitAbove

LEMMA DepthFound ==
    ASSUME NEW P, NEW p \in P, NEW f \in Finding(P), NEW r,
           r = [f EXCEPT !.known.depth[p] = f.height]
    PROVE  /\ r \in Finding(P) /\ r.height = f.height
           /\ r.known.cycle = f.known.cycle
           /\ \A q \in P : r.known.depth[q] = IF q = p THEN f.height ELSE f.known.depth[q]
BY DEF Finding, Walk

LEMMA CycleFound ==
    ASSUME NEW P, NEW k \in Walk(P), NEW path \in SUBSET P, NEW r,
           r = [height |-> 0, known |-> [k EXCEPT !.cycle = @ \union path]]
    PROVE  /\ r \in Finding(P) /\ r.height = 0
           /\ r.known.cycle = k.cycle \union path /\ r.known.depth = k.depth
BY DEF Finding, Walk

LEMMA FirstTyped ==
    ASSUME NEW by, Complete(by), NEW go \in [Visits(DOMAIN by) -> Finding(DOMAIN by)],
           NEW at \in Visits(DOMAIN by), at.pids # <<>>
    PROVE  VisitFirst(by, go, at) \in Finding(DOMAIN by)
<1>. DEFINE p == Head(at.pids)
<1>1. at.known \in Walk(DOMAIN by) /\ at.path \in SUBSET DOMAIN by /\ p \in DOMAIN by
  BY VisitTyped, HeadAndTail
<1>. HIDE DEF p
<1>2. CASE at.known.depth[p] # Unknown
  <2>1. at.known.depth[p] \in Int
    BY <1>1 DEF Walk
  <2>2. VisitFirst(by, go, at) = [height |-> at.known.depth[p], known |-> at.known]
    BY <1>2, FirstIs DEF p
  <2>. QED BY <1>1, <2>1, <2>2 DEF Finding
<1>3. CASE at.known.depth[p] = Unknown /\ p \in at.path
  <2>. DEFINE r == VisitFirst(by, go, at)
  <2>1. r = [height |-> 0, known |-> [at.known EXCEPT !.cycle = @ \union at.path]]
    BY <1>3, FirstIs DEF p
  <2>. HIDE DEF r
  <2>2. PICK k \in Walk(DOMAIN by), path \in SUBSET DOMAIN by : k = at.known /\ path = at.path
    BY <1>1
  <2>3. r = [height |-> 0, known |-> [k EXCEPT !.cycle = @ \union path]]
    BY <2>1, <2>2
  <2>4. r \in Finding(DOMAIN by)
    BY <2>3, CycleFound
  <2>. QED BY <2>4 DEF r
<1>4. CASE at.known.depth[p] = Unknown /\ p \notin at.path
  <2>1. go[VisitAbove(by, at)] \in Finding(DOMAIN by)
    BY AboveIsVisit
  <2>. QED BY <1>1, <1>4, <2>1, FirstIs, DepthFound DEF p
<1>. QED BY <1>2, <1>3, <1>4

\* The body, in the words of the proof.
LEMMA BodyIs ==
    ASSUME NEW by, Complete(by), NEW go \in [Visits(DOMAIN by) -> Finding(DOMAIN by)],
           NEW at \in Visits(DOMAIN by), NEW r, r = VisitBody(by, go, at)
    PROVE  /\ r \in Finding(DOMAIN by)
           /\ at.pids = <<>> => r.height = 0 /\ r.known = at.known
           /\ at.pids # <<>> =>
                 LET first == VisitFirst(by, go, at)
                     rest == go[VisitRest(at, first.known)]
                 IN  /\ first \in Finding(DOMAIN by) /\ rest \in Finding(DOMAIN by)
                     /\ VisitRest(at, first.known) \in Visits(DOMAIN by)
                     /\ r.known = rest.known
                     /\ r.height = IF first.height < rest.height THEN rest.height ELSE first.height + 1
<1>1. CASE at.pids = <<>>
  <2>1. r = [height |-> 0, known |-> at.known]
    BY <1>1, Zenon DEF VisitBody
  <2>2. at.known \in Walk(DOMAIN by)
    BY VisitTyped
  <2>. QED BY <1>1, <2>1, <2>2 DEF Finding
<1>2. CASE at.pids # <<>>
  <2>. DEFINE first == VisitFirst(by, go, at)
              rest == go[VisitRest(at, first.known)]
  <2>1. first \in Finding(DOMAIN by)
    BY <1>2, FirstTyped
  <2>2. r = [rest EXCEPT !.height = IF first.height < @ THEN @ ELSE first.height + 1]
    BY <1>2, Zenon DEF VisitBody, VisitRest
  <2>. HIDE DEF first
  <2>3. first.known \in Walk(DOMAIN by) /\ first.height \in Int
    BY <2>1 DEF Finding
  <2>4. VisitRest(at, first.known) \in Visits(DOMAIN by)
    BY <1>2, <2>3, RestIsVisit
  <2>5. rest \in Finding(DOMAIN by)
    BY <2>4
  <2>. HIDE DEF rest
  <2>6. /\ r \in Finding(DOMAIN by) /\ r.known = rest.known
        /\ r.height = IF first.height < rest.height THEN rest.height ELSE first.height + 1
    BY <2>2, <2>3, <2>5 DEF Finding
  <2>. QED BY <1>2, <2>1, <2>4, <2>5, <2>6 DEF first, rest
<1>. QED BY <1>1, <1>2

\* The measure of a visit: sessions not yet on the path, then sessions to visit.
LEMMA VisitDescends ==
    ASSUME NEW by, Complete(by)
    PROVE  \E m \in [Visits(DOMAIN by) -> Nat] : \A at \in Visits(DOMAIN by) : at.pids # <<>> =>
              /\ Head(at.pids) \notin at.path => m[VisitAbove(by, at)] < m[at]
              /\ \A known \in Walk(DOMAIN by) : m[VisitRest(at, known)] < m[at]
<1>. DEFINE P == DOMAIN by
            len == [p \in P |-> Len(by[p].blockedBy)]
<1>1. PICK K \in Nat : \A p \in P : Len(by[p].blockedBy) <= K
  <2>1. len \in [P -> Nat]
    BY LenProperties DEF Complete
  <2>2. IsFiniteSet(P)
    BY DEF Complete
  <2>3. PICK K \in Nat : \A p \in P : len[p] <= K
    BY <2>1, <2>2, Bounded
  <2>. QED BY <2>3
<1>. DEFINE left(at) == Cardinality(P \ at.path)
            m == [at \in Visits(P) |-> left(at) * (K + 1) + Len(at.pids)]
<1>2. \A S \in SUBSET P : IsFiniteSet(S) /\ Cardinality(S) \in Nat
  BY FS_Subset, FS_CardinalityType DEF Complete
<1>3. ASSUME NEW at \in Visits(P)
      PROVE  left(at) \in Nat /\ Len(at.pids) \in Nat /\ left(at) * (K + 1) \in Nat
             /\ m[at] = left(at) * (K + 1) + Len(at.pids)
  <2>1. P \ at.path \in SUBSET P /\ at.pids \in Seq(P)
    BY VisitTyped
  <2>2. left(at) \in Nat
    BY <1>2, <2>1
  <2>3. Len(at.pids) \in Nat
    BY <2>1, LenProperties
  <2>. HIDE DEF left
  <2>4. left(at) * (K + 1) \in Nat
    BY <2>2
  <2>. QED BY <2>2, <2>3, <2>4
<1>4. m \in [Visits(P) -> Nat]
  BY <1>3
<1>. HIDE DEF m
<1>5. ASSUME NEW at \in Visits(P), at.pids # <<>>, Head(at.pids) \notin at.path
      PROVE  m[VisitAbove(by, at)] < m[at]
  <2>. DEFINE p == Head(at.pids)
              up == VisitAbove(by, at)
  <2>1. p \in P /\ at.path \in SUBSET P
    BY <1>5, VisitTyped, HeadAndTail
  <2>2. /\ up \in Visits(P) /\ up.pids = by[p].blockedBy /\ up.path = at.path \union {p}
    BY <1>5, AboveIsVisit
  <2>. HIDE DEF p, up
  <2>3. P \ up.path = (P \ at.path) \ {p} /\ p \in P \ at.path
    BY <1>5, <2>1, <2>2 DEF p
  <2>4. left(up) = left(at) - 1
    <3>1. IsFiniteSet(P \ at.path) /\ P \ at.path \in SUBSET P
      BY <1>2
    <3>2. Cardinality((P \ at.path) \ {p}) = Cardinality(P \ at.path) - 1
      BY <2>3, <3>1, FS_RemoveElement
    <3>. QED BY <2>3, <3>2
  <2>5. left(at) \in Nat /\ Len(at.pids) \in Nat /\ Len(up.pids) <= K /\ Len(up.pids) \in Nat
        /\ m[up] = left(up) * (K + 1) + Len(up.pids) /\ m[at] = left(at) * (K + 1) + Len(at.pids)
    BY <1>1, <1>3, <2>1, <2>2
  <2>. HIDE DEF left
  <2>6. PICK c, k, l, n \in Int : c = left(at) /\ k = K /\ l = Len(up.pids) /\ n = Len(at.pids)
    BY <2>5
  <2>7. k >= 0 /\ c >= 0 /\ l <= k /\ n >= 0
    BY <2>5, <2>6
  <2>8. (c - 1) * (k + 1) = c * (k + 1) - (k + 1)
    BY <2>6
  <2>9. (c - 1) * (k + 1) + l < c * (k + 1) + n
    <3>1. PICK e \in Int : e = c * (k + 1)
      BY <2>6
    <3>2. (c - 1) * (k + 1) = e - (k + 1)
      BY <2>8, <3>1
    <3>3. e - (k + 1) + l < e + n
      BY <2>6, <2>7
    <3>. QED BY <3>1, <3>2, <3>3
  <2>. QED BY <2>4, <2>5, <2>6, <2>9 DEF up
<1>6. ASSUME NEW at \in Visits(P), at.pids # <<>>, NEW known \in Walk(P)
      PROVE  m[VisitRest(at, known)] < m[at]
  <2>. DEFINE rest == VisitRest(at, known)
  <2>1. rest \in Visits(P) /\ rest.pids = Tail(at.pids) /\ rest.path = at.path
    BY <1>6, RestIsVisit
  <2>2. Len(Tail(at.pids)) = Len(at.pids) - 1
    BY <1>6, VisitTyped, HeadAndTail
  <2>. HIDE DEF rest
  <2>3. left(rest) = left(at)
    BY <2>1
  <2>4. m[rest] = left(at) * (K + 1) + Len(rest.pids) /\ m[at] = left(at) * (K + 1) + Len(at.pids)
        /\ left(at) * (K + 1) \in Nat /\ Len(at.pids) \in Nat
    BY <1>3, <2>1, <2>3
  <2>. HIDE DEF left
  <2>. QED BY <2>1, <2>2, <2>4 DEF rest
<1>. QED BY <1>4, <1>5, <1>6

\* Two functions that agree on the visits that a visit makes find the same.
LEMMA BodyAgrees ==
    ASSUME NEW by, Complete(by), NEW at \in Visits(DOMAIN by),
           NEW g \in [Visits(DOMAIN by) -> Finding(DOMAIN by)], NEW h,
           at.pids # <<>> =>
               /\ Head(at.pids) \notin at.path => g[VisitAbove(by, at)] = h[VisitAbove(by, at)]
               /\ \A known \in Walk(DOMAIN by) : g[VisitRest(at, known)] = h[VisitRest(at, known)]
    PROVE  VisitBody(by, g, at) = VisitBody(by, h, at)
<1>1. CASE at.pids = <<>>
  BY <1>1, Zenon DEF VisitBody
<1>2. CASE at.pids # <<>>
  <2>. DEFINE p == Head(at.pids)
              first == VisitFirst(by, g, at)
  <2>1. first = VisitFirst(by, h, at)
    <3>1. CASE at.known.depth[p] # Unknown
      BY <1>2, <3>1, FirstIs
    <3>2. CASE at.known.depth[p] = Unknown /\ p \in at.path
      <4>1. first = [height |-> 0, known |-> [at.known EXCEPT !.cycle = @ \union at.path]]
        BY <1>2, <3>2, FirstIs
      <4>2. VisitFirst(by, h, at)
                = [height |-> 0, known |-> [at.known EXCEPT !.cycle = @ \union at.path]]
        BY <1>2, <3>2, FirstIs
      <4>. QED BY <4>1, <4>2, Zenon
    <3>3. CASE at.known.depth[p] = Unknown /\ p \notin at.path
      <4>1. g[VisitAbove(by, at)] = h[VisitAbove(by, at)]
        BY <1>2, <3>3
      <4>2. first = [g[VisitAbove(by, at)] EXCEPT !.known.depth[p] = g[VisitAbove(by, at)].height]
        BY <1>2, <3>3, FirstIs
      <4>3. VisitFirst(by, h, at)
                = [h[VisitAbove(by, at)] EXCEPT !.known.depth[p] = h[VisitAbove(by, at)].height]
        BY <1>2, <3>3, FirstIs
      <4>. HIDE DEF first, p
      <4>. QED BY <4>1, <4>2, <4>3
    <3>. QED BY <3>1, <3>2, <3>3
  <2>2. first.known \in Walk(DOMAIN by)
    BY <1>2, FirstTyped DEF Finding
  <2>. HIDE DEF first
  <2>3. g[VisitRest(at, first.known)] = h[VisitRest(at, first.known)]
    BY <1>2, <2>2
  <2>4. /\ VisitBody(by, g, at) = [g[VisitRest(at, first.known)] EXCEPT !.height =
               IF first.height < @ THEN @ ELSE first.height + 1]
        /\ VisitBody(by, h, at) = [h[VisitRest(at, first.known)] EXCEPT !.height =
               IF first.height < @ THEN @ ELSE first.height + 1]
    BY <1>2, <2>1, Zenon DEF VisitBody, VisitRest, first
  <2>. QED BY <2>3, <2>4
<1>. QED BY <1>1, <1>2

\* The walk ends: visit finds what its body says.
LEMMA VisitIs ==
    ASSUME NEW by, Complete(by)
    PROVE  /\ visit(by) \in [Visits(DOMAIN by) -> Finding(DOMAIN by)]
           /\ \A at \in Visits(DOMAIN by) : visit(by)[at] = VisitBody(by, visit(by), at)
<1>. DEFINE D == Visits(DOMAIN by)
            R == Finding(DOMAIN by)
            E == [a \in [D -> R] \X D |-> VisitBody(by, a[1], a[2])]
<1>1. PICK m \in [D -> Nat] : \A at \in D : at.pids # <<>> =>
              /\ Head(at.pids) \notin at.path => m[VisitAbove(by, at)] < m[at]
              /\ \A known \in Walk(DOMAIN by) : m[VisitRest(at, known)] < m[at]
  BY VisitDescends
<1>2. \A g \in [D -> R], at \in D : E[<<g, at>>] = VisitBody(by, g, at) /\ E[<<g, at>>] \in R
  <2>. SUFFICES ASSUME NEW g \in [D -> R], NEW at \in D
                PROVE  E[<<g, at>>] = VisitBody(by, g, at) /\ E[<<g, at>>] \in R
    OBVIOUS
  <2>1. VisitBody(by, g, at) \in R
    BY BodyIs
  <2>2. <<g, at>> \in [D -> R] \X D /\ <<g, at>>[1] = g /\ <<g, at>>[2] = at
    OBVIOUS
  <2>. HIDE DEF D, R
  <2>. QED BY <2>1, <2>2
<1>3. E \in [[D -> R] \X D -> R]
  <2>1. \A a \in [D -> R] \X D : a = <<a[1], a[2]>> /\ a[1] \in [D -> R] /\ a[2] \in D
    <3>. HIDE DEF D, R
    <3>. QED OBVIOUS
  <2>2. \A a \in [D -> R] \X D : VisitBody(by, a[1], a[2]) \in R
    <3>. HIDE DEF E
    <3>1. \A g \in [D -> R], at \in D : VisitBody(by, g, at) \in R
      BY <1>2
    <3>. QED BY <2>1, <3>1
  <2>. HIDE DEF D, R
  <2>. QED BY <2>2
<1>. HIDE DEF E
<1>4. Descends(D, R, m, E)
  <2>1. ASSUME NEW at \in D, NEW g \in [D -> R], NEW h \in [D -> R],
               \A c \in D : m[c] < m[at] => g[c] = h[c]
        PROVE  E[<<g, at>>] = E[<<h, at>>]
    <3>1. ASSUME at.pids # <<>>, Head(at.pids) \notin at.path
          PROVE  g[VisitAbove(by, at)] = h[VisitAbove(by, at)]
      BY <1>1, <2>1, <3>1, AboveIsVisit
    <3>2. ASSUME at.pids # <<>>, NEW known \in Walk(DOMAIN by)
          PROVE  g[VisitRest(at, known)] = h[VisitRest(at, known)]
      BY <1>1, <2>1, <3>2, RestIsVisit
    <3>3. VisitBody(by, g, at) = VisitBody(by, h, at)
      BY <3>1, <3>2, BodyAgrees
    <3>. QED BY <1>2, <3>3
  <2>2. R # {}
    <3>1. [depth |-> [p \in DOMAIN by |-> 0], cycle |-> {}] \in Walk(DOMAIN by)
      BY DEF Walk
    <3>2. [height |-> 0, known |-> [depth |-> [p \in DOMAIN by |-> 0], cycle |-> {}]] \in R
      BY <3>1 DEF Finding
    <3>. QED BY <3>2
  <2>. HIDE DEF D, R
  <2>. QED BY <1>1, <1>3, <2>1, <2>2, Zenon DEF Descends
<1>5. PICK g : Solution(D, R, E, g)
  BY <1>4, RecursionExists, Zenon
<1>6. g \in [D -> R] /\ \A at \in D : g[at] = VisitBody(by, g, at)
  BY <1>2, <1>5 DEF Solution
<1>7. g = [at \in D |-> VisitBody(by, g, at)]
  <2>. HIDE DEF D, R
  <2>. QED BY <1>6
<1>8. visit(by) = [at \in D |-> VisitBody(by, visit(by), at)]
  <2>1. visit(by) = CHOOSE go : go = [at \in D |-> VisitBody(by, go, at)]
    BY Zenon DEF visit, VisitBody
  <2>. HIDE DEF D
  <2>. QED BY <1>7, <2>1, Zenon
<1>. DEFINE v == visit(by)
<1>9. v = [at \in D |-> VisitBody(by, v, at)]
  BY <1>8
<1>. HIDE DEF v
<1>10. \A at \in D : v[at] = VisitBody(by, v, at)
  <2>. HIDE DEF D
  <2>. QED BY <1>9
<1>. DEFINE bad == {at \in D : g[at] # v[at]}
            measures == {m[at] : at \in bad}
<1>11. ASSUME bad # {} PROVE FALSE
  <2>1. measures \subseteq Nat /\ measures # {}
    <3>. HIDE DEF D
    <3>. QED BY <1>1, <1>11
  <2>2. PICK n \in measures : \A k \in measures : n <= k
    BY <2>1, LeastNat
  <2>3. PICK at \in bad : m[at] = n
    BY <2>2
  <2>4. ASSUME NEW c \in D, m[c] < m[at] PROVE g[c] = v[c]
    <3>1. m[c] \in Nat /\ n \in Nat /\ ~(n <= m[c])
      BY <2>1, <2>2, <2>3, <2>4
    <3>. HIDE DEF D
    <3>. QED BY <2>2, <2>4, <3>1
  <2>5. ASSUME at.pids # <<>>, Head(at.pids) \notin at.path
        PROVE  g[VisitAbove(by, at)] = v[VisitAbove(by, at)]
    BY <1>1, <2>3, <2>4, <2>5, AboveIsVisit
  <2>6. ASSUME at.pids # <<>>, NEW known \in Walk(DOMAIN by)
        PROVE  g[VisitRest(at, known)] = v[VisitRest(at, known)]
    BY <1>1, <2>3, <2>4, <2>6, RestIsVisit
  <2>7. VisitBody(by, g, at) = VisitBody(by, v, at)
    BY <1>6, <2>3, <2>5, <2>6, BodyAgrees
  <2>. QED BY <1>6, <1>10, <2>3, <2>7
<1>12. v = g
  <2>. HIDE DEF D, R
  <2>1. \A at \in D : g[at] = v[at]
    BY <1>11
  <2>. QED BY <1>6, <1>9, <2>1
<1>. QED BY <1>6, <1>10, <1>12 DEF v

-----------------------------------------------------------------------------
(* What the walk knows is right at every point of it.                      *)

\* Sessions that each wait for one of them.
Locked(by, S) == S # {} /\ \A p \in S : BlockersOf(by, p) \cap S # {}

\* A blocker is less deep, or both are in a cycle.
IsAbove(k, b, q) == {b, q} \subseteq k.cycle \/ (k.depth[b] # Unknown /\ k.depth[b] < k.depth[q])

\* While the path is walked, the depths on it are not known; all the blockers of a session
\* whose depth is known are above it and known, or on the path; a cycle is one.
SettledAt(by, path, k) ==
    /\ k \in Walk(DOMAIN by)
    /\ \A q \in DOMAIN by : k.depth[q] = Unknown \/ k.depth[q] \in Nat
    /\ \A q \in path : k.depth[q] = Unknown
    /\ \A q \in DOMAIN by : k.depth[q] # Unknown =>
          \A b \in BlockersOf(by, q) : IsAbove(k, b, q) /\ (k.depth[b] # Unknown \/ b \in path)
    /\ k.cycle # {} => \E S \in SUBSET DOMAIN by : Locked(by, S)

\* Every session on the path waits for one on it or for the one to visit.
ReadyAt(by, at) ==
    /\ at \in Visits(DOMAIN by)
    /\ SettledAt(by, at.path, at.known)
    /\ \A p \in ToSet(at.pids) : \A q \in at.path : BlockersOf(by, q) \cap (at.path \union {p}) # {}

\* What was known stays.
KeptBy(by, k, l) ==
    /\ k.cycle \subseteq l.cycle
    /\ \A q \in DOMAIN by : k.depth[q] # Unknown => l.depth[q] = k.depth[q]

\* A session visited closes a cycle, or its depth is known and below the height.
VisitedAt(at, p, r) ==
    \/ p \in at.path /\ at.path \subseteq r.known.cycle
    \/ r.known.depth[p] # Unknown /\ r.known.depth[p] < r.height

DoneAt(by, at, r) ==
    /\ r \in Finding(DOMAIN by) /\ r.height \in Nat
    /\ SettledAt(by, at.path, r.known)
    /\ KeptBy(by, at.known, r.known)
    /\ \A p \in ToSet(at.pids) : VisitedAt(at, p, r)

\* The same of the first session, whose depth is the height found.
FirstDoneAt(by, at, r) ==
    /\ r \in Finding(DOMAIN by) /\ r.height \in Nat
    /\ SettledAt(by, at.path, r.known)
    /\ KeptBy(by, at.known, r.known)
    /\ \/ Head(at.pids) \in at.path /\ at.path \subseteq r.known.cycle
       \/ r.known.depth[Head(at.pids)] = r.height

LEMMA BlockersOfIs ==
    ASSUME NEW by, Complete(by), NEW p \in DOMAIN by
    PROVE  BlockersOf(by, p) \subseteq DOMAIN by
<1>1. by[p].blockedBy \in Seq(DOMAIN by)
  BY DEF Complete
<1>2. \A i \in DOMAIN by[p].blockedBy : by[p].blockedBy[i] \in DOMAIN by
  BY <1>1, ElementOfSeq, LenProperties
<1>. QED BY <1>2 DEF BlockersOf, ToSet

\* The walk goes up from a session: what is asked of its blockers holds.
LEMMA ReadyAbove ==
    ASSUME NEW by, Complete(by), NEW at, ReadyAt(by, at), at.pids # <<>>,
           Head(at.pids) \notin at.path, at.known.depth[Head(at.pids)] = Unknown
    PROVE  ReadyAt(by, VisitAbove(by, at))
<1>. DEFINE p == Head(at.pids)
            up == VisitAbove(by, at)
            k == at.known
<1>1. at \in Visits(DOMAIN by) /\ SettledAt(by, at.path, k)
  BY DEF ReadyAt
<1>2. /\ up \in Visits(DOMAIN by) /\ up.pids = by[p].blockedBy /\ up.path = at.path \union {p}
      /\ up.known = k
  BY <1>1, AboveIsVisit
<1>3. p \in DOMAIN by /\ p \in ToSet(at.pids) /\ at.path \in SUBSET DOMAIN by
  BY <1>1, VisitTyped, HeadAndTail
<1>. HIDE DEF up
<1>4. SettledAt(by, up.path, up.known)
  BY <1>1, <1>2 DEF SettledAt
<1>5. ASSUME NEW b \in ToSet(up.pids), NEW q \in up.path
      PROVE  BlockersOf(by, q) \cap (up.path \union {b}) # {}
  <2>1. CASE q = p
    BY <1>2, <1>5, <2>1 DEF BlockersOf
  <2>2. CASE q \in at.path
    <3>1. BlockersOf(by, q) \cap (at.path \union {p}) # {}
      BY <1>3, <2>2 DEF ReadyAt
    <3>. QED BY <1>2, <3>1
  <2>. QED BY <1>2, <1>5, <2>1, <2>2
<1>. QED BY <1>2, <1>4, <1>5 DEF up, ReadyAt

LEMMA FirstIsDone ==
    ASSUME NEW by, Complete(by), NEW go \in [Visits(DOMAIN by) -> Finding(DOMAIN by)],
           NEW at, ReadyAt(by, at), at.pids # <<>>,
           Head(at.pids) \notin at.path /\ at.known.depth[Head(at.pids)] = Unknown =>
               DoneAt(by, VisitAbove(by, at), go[VisitAbove(by, at)])
    PROVE  FirstDoneAt(by, at, VisitFirst(by, go, at))
<1>. DEFINE P == DOMAIN by
            p == Head(at.pids)
            k == at.known
            r == VisitFirst(by, go, at)
<1>1. at \in Visits(P) /\ SettledAt(by, at.path, k) /\ k \in Walk(P)
  BY DEF ReadyAt, SettledAt
<1>2. p \in P /\ p \in ToSet(at.pids) /\ at.path \in SUBSET P
  BY <1>1, VisitTyped, HeadAndTail
<1>3. r \in Finding(P)
  BY <1>1, FirstTyped
<1>4. CASE k.depth[p] # Unknown
  <2>1. r = [height |-> k.depth[p], known |-> k]
    BY <1>1, <1>4, FirstIs
  <2>. HIDE DEF r
  <2>2. r.height = k.depth[p] /\ r.known = k
    BY <2>1
  <2>3. r.height \in Nat
    BY <1>1, <1>2, <1>4, <2>2 DEF SettledAt
  <2>4. KeptBy(by, k, k)
    BY DEF KeptBy
  <2>. QED BY <1>1, <1>3, <2>2, <2>3, <2>4 DEF FirstDoneAt, r
<1>5. CASE k.depth[p] = Unknown /\ p \in at.path
  <2>1. r = [height |-> 0, known |-> [k EXCEPT !.cycle = @ \union at.path]]
    BY <1>1, <1>5, FirstIs
  <2>. HIDE DEF r
  <2>2. r.height = 0 /\ r.known.cycle = k.cycle \union at.path /\ r.known.depth = k.depth
        /\ r.known \in Walk(P)
    <3>1. r.height = 0 /\ r.known.cycle = k.cycle \union at.path /\ r.known.depth = k.depth
      BY <1>1, <2>1 DEF Walk
    <3>. QED BY <1>3, <3>1 DEF Finding
  <2>3. Locked(by, at.path)
    <3>1. \A q \in at.path : BlockersOf(by, q) \cap (at.path \union {p}) # {}
      BY <1>2 DEF ReadyAt
    <3>. QED BY <1>5, <3>1 DEF Locked
  <2>4. KeptBy(by, k, r.known)
    BY <2>2 DEF KeptBy
  <2>5. SettledAt(by, at.path, r.known)
    <3>1. ASSUME NEW q \in P, k.depth[q] # Unknown, NEW b \in BlockersOf(by, q)
          PROVE  IsAbove(r.known, b, q) /\ (k.depth[b] # Unknown \/ b \in at.path)
      <4>1. IsAbove(k, b, q) /\ (k.depth[b] # Unknown \/ b \in at.path)
        BY <1>1, <3>1 DEF SettledAt
      <4>. QED BY <2>2, <4>1 DEF IsAbove
    <3>. QED BY <1>1, <1>2, <2>2, <2>3, <3>1 DEF SettledAt
  <2>. QED BY <1>3, <1>5, <2>2, <2>4, <2>5 DEF FirstDoneAt, r
<1>6. CASE k.depth[p] = Unknown /\ p \notin at.path
  <2>. DEFINE up == VisitAbove(by, at)
              f == go[up]
              l == f.known
  <2>1. r = [f EXCEPT !.known.depth[p] = f.height]
    BY <1>1, <1>6, FirstIs
  <2>2. /\ up \in Visits(P) /\ up.pids = by[p].blockedBy /\ up.path = at.path \union {p}
        /\ up.known = k
    BY <1>1, AboveIsVisit
  <2>3. f \in Finding(P) /\ f.height \in Nat /\ SettledAt(by, up.path, l) /\ KeptBy(by, k, l)
        /\ \A b \in ToSet(up.pids) : VisitedAt(up, b, f)
    BY <1>6, <2>2 DEF DoneAt
  <2>. HIDE DEF r, f, up
  <2>4. /\ r.height = f.height /\ r.known.cycle = l.cycle
        /\ \A q \in P : r.known.depth[q] = IF q = p THEN f.height ELSE l.depth[q]
    <3>1. p \in P /\ f \in Finding(P) /\ r = [f EXCEPT !.known.depth[p] = f.height]
      BY <1>2, <2>1, <2>3
    <3>. HIDE DEF p, P
    <3>. QED BY <3>1 DEF Finding, Walk
  <2>5. l.depth[p] = Unknown /\ \A q \in at.path : l.depth[q] = Unknown
    BY <2>2, <2>3 DEF SettledAt
  <2>6. KeptBy(by, k, r.known)
    BY <1>6, <2>3, <2>4 DEF KeptBy
  <2>7. f.height # Unknown
    BY <2>3 DEF Unknown
  <2>8. SettledAt(by, at.path, r.known)
    <3>1. ASSUME NEW q \in P, r.known.depth[q] # Unknown, NEW b \in BlockersOf(by, q)
          PROVE  IsAbove(r.known, b, q) /\ (r.known.depth[b] # Unknown \/ b \in at.path)
      <4>1. b \in P
        BY <3>1, BlockersOfIs
      <4>2. CASE q = p
        <5>1. VisitedAt(up, b, f)
          BY <2>2, <2>3, <3>1, <4>2 DEF BlockersOf
        <5>2. CASE b \in up.path /\ up.path \subseteq l.cycle
          <6>1. {b, q} \subseteq r.known.cycle
            BY <2>2, <2>4, <4>2, <5>2
          <6>2. b = p \/ b \in at.path
            BY <2>2, <5>2
          <6>. QED BY <1>2, <2>4, <2>7, <6>1, <6>2 DEF IsAbove
        <5>3. CASE l.depth[b] # Unknown /\ l.depth[b] < f.height
          <6>1. b # p
            BY <2>5, <5>3
          <6>2. r.known.depth[b] = l.depth[b] /\ r.known.depth[q] = f.height
            BY <1>2, <2>4, <4>1, <4>2, <6>1
          <6>. QED BY <5>3, <6>2 DEF IsAbove
        <5>. QED BY <5>1, <5>2, <5>3 DEF VisitedAt
      <4>3. CASE q # p
        <5>1. r.known.depth[q] = l.depth[q]
          BY <2>4, <4>3
        <5>2. IsAbove(l, b, q) /\ (l.depth[b] # Unknown \/ b \in up.path)
          BY <2>3, <3>1, <5>1 DEF SettledAt
        <5>3. l.depth[b] # Unknown => b # p /\ r.known.depth[b] = l.depth[b]
          BY <2>4, <2>5, <4>1
        <5>4. IsAbove(r.known, b, q)
          BY <2>4, <5>1, <5>2, <5>3 DEF IsAbove
        <5>5. r.known.depth[b] # Unknown \/ b \in at.path
          <6>1. CASE b = p
            BY <1>2, <2>4, <2>7, <6>1
          <6>. QED BY <2>2, <5>2, <5>3, <6>1
        <5>. QED BY <5>4, <5>5
      <4>. QED BY <4>2, <4>3
    <3>2. r.known \in Walk(P)
      BY <1>3 DEF Finding, r
    <3>3. \A q \in P : r.known.depth[q] = Unknown \/ r.known.depth[q] \in Nat
      BY <2>3, <2>4 DEF SettledAt
    <3>4. \A q \in at.path : r.known.depth[q] = Unknown
      BY <1>2, <1>6, <2>4, <2>5
    <3>5. r.known.cycle # {} => \E S \in SUBSET P : Locked(by, S)
      BY <2>3, <2>4 DEF SettledAt
    <3>. QED BY <3>1, <3>2, <3>3, <3>4, <3>5 DEF SettledAt
  <2>9. r.known.depth[p] = r.height /\ r.height \in Nat
    BY <1>2, <2>3, <2>4
  <2>. QED BY <1>3, <2>6, <2>8, <2>9 DEF FirstDoneAt, r
<1>. QED BY <1>4, <1>5, <1>6

\* After the first the rest is visited.
LEMMA ReadyRest ==
    ASSUME NEW by, Complete(by), NEW at, ReadyAt(by, at), at.pids # <<>>,
           NEW f, FirstDoneAt(by, at, f)
    PROVE  ReadyAt(by, VisitRest(at, f.known))
<1>. DEFINE rest == VisitRest(at, f.known)
<1>1. at \in Visits(DOMAIN by) /\ f.known \in Walk(DOMAIN by) /\ SettledAt(by, at.path, f.known)
  BY DEF ReadyAt, FirstDoneAt, Finding
<1>2. rest \in Visits(DOMAIN by) /\ rest.pids = Tail(at.pids) /\ rest.path = at.path
      /\ rest.known = f.known
  BY <1>1, RestIsVisit
<1>3. ToSet(rest.pids) \subseteq ToSet(at.pids)
  BY <1>1, <1>2, VisitTyped, HeadAndTail
<1>. HIDE DEF rest
<1>4. \A p \in ToSet(at.pids) : \A q \in at.path : BlockersOf(by, q) \cap (at.path \union {p}) # {}
  BY DEF ReadyAt
<1>5. ReadyAt(by, rest)
  BY <1>1, <1>2, <1>3, <1>4 DEF ReadyAt
<1>. QED BY <1>5 DEF rest

LEMMA RestIsDone ==
    ASSUME NEW by, Complete(by), NEW at, ReadyAt(by, at), at.pids # <<>>,
           NEW f, FirstDoneAt(by, at, f),
           NEW g, DoneAt(by, VisitRest(at, f.known), g),
           NEW r \in Finding(DOMAIN by), r.known = g.known,
           r.height = IF f.height < g.height THEN g.height ELSE f.height + 1
    PROVE  DoneAt(by, at, r)
<1>. DEFINE p == Head(at.pids)
            rest == VisitRest(at, f.known)
<1>1. at \in Visits(DOMAIN by) /\ f.known \in Walk(DOMAIN by)
  BY DEF ReadyAt, FirstDoneAt, Finding
<1>2. rest \in Visits(DOMAIN by) /\ rest.pids = Tail(at.pids) /\ rest.path = at.path
      /\ rest.known = f.known
  BY <1>1, RestIsVisit
<1>3. ToSet(at.pids) = {p} \union ToSet(rest.pids) /\ p \in DOMAIN by
  BY <1>1, <1>2, VisitTyped, HeadAndTail
<1>4. /\ f.height \in Nat /\ KeptBy(by, at.known, f.known)
      /\ \/ p \in at.path /\ at.path \subseteq f.known.cycle
         \/ f.known.depth[p] = f.height
  BY DEF FirstDoneAt
<1>. HIDE DEF rest, p
<1>5. /\ g.height \in Nat /\ SettledAt(by, at.path, g.known) /\ KeptBy(by, f.known, g.known)
      /\ \A b \in ToSet(rest.pids) : VisitedAt(rest, b, g)
  BY <1>2 DEF DoneAt, rest
<1>6. r.height \in Nat /\ f.height < r.height /\ g.height <= r.height
  BY <1>4, <1>5
<1>7. KeptBy(by, at.known, r.known)
  BY <1>4, <1>5 DEF KeptBy
<1>8. ASSUME NEW b \in ToSet(at.pids) PROVE VisitedAt(at, b, r)
  <2>1. CASE b = p
    <3>1. CASE p \in at.path /\ at.path \subseteq f.known.cycle
      BY <1>5, <2>1, <3>1 DEF VisitedAt, KeptBy
    <3>2. CASE f.known.depth[p] = f.height
      <4>1. f.known.depth[p] # Unknown
        BY <1>4, <3>2 DEF Unknown
      <4>2. r.known.depth[p] = f.height
        BY <1>3, <1>5, <3>2, <4>1 DEF KeptBy
      <4>. QED BY <1>6, <2>1, <3>2, <4>1, <4>2 DEF VisitedAt
    <3>. QED BY <1>4, <3>1, <3>2
  <2>2. CASE b \in ToSet(rest.pids)
    <3>1. VisitedAt(rest, b, g)
      BY <1>5, <2>2
    <3>2. CASE b \in at.path /\ at.path \subseteq g.known.cycle
      BY <3>2 DEF VisitedAt
    <3>3. CASE g.known.depth[b] # Unknown /\ g.known.depth[b] < g.height
      <4>1. b \in DOMAIN by
        <5>1. rest.pids \in Seq(DOMAIN by)
          BY <1>2, VisitTyped
        <5>2. \A i \in DOMAIN rest.pids : rest.pids[i] \in DOMAIN by
          BY <5>1, ElementOfSeq, LenProperties
        <5>. QED BY <2>2, <5>2 DEF ToSet
      <4>2. g.known.depth[b] \in Nat
        BY <1>5, <3>3, <4>1 DEF SettledAt
      <4>3. g.known.depth[b] < r.height
        BY <1>5, <1>6, <3>3, <4>2
      <4>. QED BY <3>3, <4>3 DEF VisitedAt
    <3>. QED BY <1>2, <3>1, <3>2, <3>3 DEF VisitedAt
  <2>. QED BY <1>3, <2>1, <2>2
<1>. QED BY <1>5, <1>6, <1>7, <1>8 DEF DoneAt

\* Whatever is visited, what is known then is right.
LEMMA VisitIsDone ==
    ASSUME NEW by, Complete(by), NEW at, ReadyAt(by, at)
    PROVE  DoneAt(by, at, visit(by)[at])
<1>. DEFINE P == DOMAIN by
            D == Visits(P)
            v == visit(by)
            bad == {x \in D : ReadyAt(by, x) /\ ~DoneAt(by, x, v[x])}
<1>1. PICK m \in [D -> Nat] : \A x \in D : x.pids # <<>> =>
              /\ Head(x.pids) \notin x.path => m[VisitAbove(by, x)] < m[x]
              /\ \A known \in Walk(P) : m[VisitRest(x, known)] < m[x]
  BY VisitDescends
<1>2. v \in [D -> Finding(P)] /\ \A x \in D : v[x] = VisitBody(by, v, x)
  BY VisitIs
<1>. HIDE DEF v
<1>. DEFINE measures == {m[x] : x \in bad}
<1>3. ASSUME bad # {} PROVE FALSE
  <2>1. measures \subseteq Nat /\ measures # {}
    <3>. HIDE DEF D
    <3>. QED BY <1>1, <1>3
  <2>2. PICK n \in measures : \A k \in measures : n <= k
    BY <2>1, LeastNat
  <2>3. PICK x \in bad : m[x] = n
    BY <2>2
  <2>4. x \in D /\ ReadyAt(by, x) /\ ~DoneAt(by, x, v[x])
    BY <2>3
  <2>5. ASSUME NEW c \in D, ReadyAt(by, c), m[c] < m[x] PROVE DoneAt(by, c, v[c])
    <3>1. m[c] \in Nat /\ n \in Nat /\ ~(n <= m[c])
      BY <1>1, <2>1, <2>2, <2>3, <2>5
    <3>. HIDE DEF D
    <3>. QED BY <2>2, <2>5, <3>1
  <2>6. /\ v[x] \in Finding(P)
        /\ x.pids = <<>> => v[x].height = 0 /\ v[x].known = x.known
        /\ x.pids # <<>> =>
              LET first == VisitFirst(by, v, x)
                  rest == v[VisitRest(x, first.known)]
              IN  /\ VisitRest(x, first.known) \in Visits(P)
                  /\ v[x].known = rest.known
                  /\ v[x].height = IF first.height < rest.height THEN rest.height ELSE first.height + 1
    BY <1>2, <2>4, BodyIs
  <2>7. CASE x.pids = <<>>
    <3>1. ToSet(x.pids) = {}
      BY <2>7, EmptySeq DEF ToSet
    <3>2. KeptBy(by, x.known, v[x].known)
      BY <2>6, <2>7 DEF KeptBy
    <3>. QED BY <2>4, <2>6, <2>7, <3>1, <3>2 DEF DoneAt, ReadyAt
  <2>8. CASE x.pids # <<>>
    <3>. DEFINE f == VisitFirst(by, v, x)
    <3>1. FirstDoneAt(by, x, f)
      <4>1. ASSUME Head(x.pids) \notin x.path, x.known.depth[Head(x.pids)] = Unknown
            PROVE  DoneAt(by, VisitAbove(by, x), v[VisitAbove(by, x)])
        <5>1. ReadyAt(by, VisitAbove(by, x))
          BY <2>4, <2>8, <4>1, ReadyAbove
        <5>2. VisitAbove(by, x) \in D /\ m[VisitAbove(by, x)] < m[x]
          BY <1>1, <2>4, <2>8, <4>1, <5>1 DEF ReadyAt
        <5>. QED BY <2>5, <5>1, <5>2
      <4>. QED BY <1>2, <2>4, <2>8, <4>1, FirstIsDone
    <3>. HIDE DEF f
    <3>2. ReadyAt(by, VisitRest(x, f.known)) /\ f.known \in Walk(P)
      BY <2>4, <2>8, <3>1, ReadyRest DEF FirstDoneAt, Finding
    <3>3. VisitRest(x, f.known) \in D /\ m[VisitRest(x, f.known)] < m[x]
      BY <1>1, <2>4, <2>8, <3>2 DEF ReadyAt
    <3>4. DoneAt(by, VisitRest(x, f.known), v[VisitRest(x, f.known)])
      BY <2>5, <3>2, <3>3
    <3>5. /\ v[x].known = v[VisitRest(x, f.known)].known
          /\ v[x].height = IF f.height < v[VisitRest(x, f.known)].height
                           THEN v[VisitRest(x, f.known)].height ELSE f.height + 1
      BY <2>6, <2>8 DEF f
    <3>6. DoneAt(by, x, v[x])
      BY <2>4, <2>6, <2>8, <3>1, <3>4, <3>5, RestIsDone
    <3>. QED BY <2>4, <3>6
  <2>. QED BY <2>7, <2>8
<1>4. at \in D
  BY DEF ReadyAt
<1>. QED BY <1>3, <1>4 DEF v

-----------------------------------------------------------------------------
(* The tree: what hangs where, and how much hangs below.                   *)

\* Whatever hangs below a session is deeper.
Planted(t) ==
    /\ IsFiniteSet(Placed(t)) /\ Nobody \notin Placed(t)
    /\ t.depth \in [Placed(t) -> Nat]
    /\ \A p \in Placed(t) :
          t.parent[p] = Nobody \/ (t.parent[p] \in Placed(t) /\ t.depth[t.parent[p]] < t.depth[p])

LEMMA ChildrenAre ==
    ASSUME NEW t, Planted(t), NEW p \in Placed(t)
    PROVE  /\ Children(t, p) \in SUBSET Placed(t) /\ IsFiniteSet(Children(t, p))
           /\ \A c \in Children(t, p) : t.parent[c] = p /\ t.depth[p] < t.depth[c]
<1>1. Children(t, p) \in SUBSET Placed(t)
  BY DEF Children
<1>2. IsFiniteSet(Children(t, p))
  BY <1>1, FS_Subset DEF Planted
<1>3. \A c \in Children(t, p) : t.parent[c] = p
  BY DEF Children
<1>4. p # Nobody
  BY DEF Planted
<1>5. \A c \in Children(t, p) : t.depth[p] < t.depth[c]
  BY <1>1, <1>3, <1>4 DEF Planted
<1>. QED BY <1>1, <1>2, <1>3, <1>5

\* The count of each session is that of those that hang below it.
LEMMA BlockedIs ==
    ASSUME NEW t, Planted(t)
    PROVE  /\ Blocked(t) \in [Placed(t) -> Nat]
           /\ \A p \in Placed(t) : Blocked(t)[p] = Together(Blocked(t), Children(t, p))
<1>. DEFINE D == Placed(t)
            E == [a \in [D -> Nat] \X D |-> Together(a[1], Children(t, a[2]))]
<1>1. IsFiniteSet(D) /\ t.depth \in [D -> Nat]
  BY DEF Planted
<1>2. PICK K \in Nat : \A p \in D : t.depth[p] <= K
  BY <1>1, Bounded
<1>. DEFINE m == [p \in D |-> K - t.depth[p]]
<1>. HIDE DEF D
<1>3. m \in [D -> Nat]
  BY <1>1, <1>2
<1>4. ASSUME NEW p \in D, NEW c \in Children(t, p) PROVE c \in D /\ m[c] < m[p]
  <2>1. c \in D /\ t.depth[p] < t.depth[c]
    BY <1>4, ChildrenAre DEF D
  <2>. QED BY <1>1, <1>2, <2>1
<1>. HIDE DEF m
<1>5. ASSUME NEW g \in [D -> Nat], NEW p \in D
      PROVE  E[<<g, p>>] = Together(g, Children(t, p)) /\ Together(g, Children(t, p)) \in Nat
  <2>1. <<g, p>> \in [D -> Nat] \X D /\ <<g, p>>[1] = g /\ <<g, p>>[2] = p
    OBVIOUS
  <2>2. IsFiniteSet(Children(t, p)) /\ \A x \in Children(t, p) : g[x] \in Nat
    BY <1>4, ChildrenAre DEF D
  <2>3. Together(g, Children(t, p)) \in Nat
    BY <2>2, TogetherTyped
  <2>. QED BY <2>1, <2>3
<1>6. E \in [[D -> Nat] \X D -> Nat]
  <2>1. \A a \in [D -> Nat] \X D : a[1] \in [D -> Nat] /\ a[2] \in D
    OBVIOUS
  <2>2. \A a \in [D -> Nat] \X D : Together(a[1], Children(t, a[2])) \in Nat
    BY <1>5, <2>1
  <2>. QED BY <2>2
<1>. HIDE DEF E
<1>7. Descends(D, Nat, m, E)
  <2>1. ASSUME NEW p \in D, NEW g \in [D -> Nat], NEW h \in [D -> Nat],
               \A c \in D : m[c] < m[p] => g[c] = h[c]
        PROVE  E[<<g, p>>] = E[<<h, p>>]
    <3>1. IsFiniteSet(Children(t, p)) /\ \A x \in Children(t, p) : g[x] \in Nat /\ h[x] = g[x]
      BY <1>4, <2>1, ChildrenAre DEF D
    <3>2. Together(g, Children(t, p)) = Together(h, Children(t, p))
      BY <3>1, TogetherAgree
    <3>. QED BY <1>5, <3>2
  <2>2. Nat # {}
    OBVIOUS
  <2>. QED BY <1>3, <1>6, <2>1, <2>2, Zenon DEF Descends
<1>8. PICK g : Solution(D, Nat, E, g)
  BY <1>7, RecursionExists, Zenon
<1>9. g \in [D -> Nat] /\ \A p \in D : g[p] = Together(g, Children(t, p))
  BY <1>5, <1>8 DEF Solution
<1>10. g = [p \in D |-> Together(g, Children(t, p))]
  BY <1>9
<1>. DEFINE b == Blocked(t)
<1>11. b = [p \in D |-> Together(b, Children(t, p))]
  <2>1. b = CHOOSE f : f = [p \in Placed(t) |-> Together(f, Children(t, p))]
    BY Zenon DEF Blocked
  <2>. QED BY <1>10, <2>1, Zenon DEF D
<1>. HIDE DEF b
<1>12. \A p \in D : b[p] = Together(b, Children(t, p))
  BY <1>11
<1>. DEFINE bad == {p \in D : g[p] # b[p]}
            measures == {m[p] : p \in bad}
<1>13. ASSUME bad # {} PROVE FALSE
  <2>1. measures \subseteq Nat /\ measures # {}
    BY <1>3, <1>13
  <2>2. PICK n \in measures : \A k \in measures : n <= k
    BY <2>1, LeastNat
  <2>3. PICK p \in bad : m[p] = n
    BY <2>2
  <2>4. ASSUME NEW c \in Children(t, p) PROVE b[c] = g[c] /\ g[c] \in Nat
    <3>1. c \in D /\ m[c] \in Nat /\ n \in Nat /\ m[c] < n
      BY <1>3, <1>4, <2>1, <2>2, <2>3
    <3>2. ~(n <= m[c])
      BY <3>1
    <3>. QED BY <1>9, <2>2, <3>1, <3>2
  <2>5. Together(g, Children(t, p)) = Together(b, Children(t, p))
    <3>1. IsFiniteSet(Children(t, p))
      BY <2>3, ChildrenAre DEF D
    <3>. QED BY <2>4, <3>1, TogetherAgree
  <2>. QED BY <1>9, <1>12, <2>3, <2>5
<1>14. b = g
  <2>1. \A p \in D : g[p] = b[p]
    BY <1>13
  <2>. QED BY <1>9, <1>11, <2>1
<1>. QED BY <1>9, <1>12, <1>14 DEF b, D

\* The sessions of a set that hang below none of it.
TopsOf(t, U) == {p \in U : t.parent[p] \notin U}

\* Where with each session all below it belong to the set, its tops and those below them
\* are the set, each counted once.
LEMMA TopsCountAll ==
    ASSUME NEW t, Planted(t), NEW b \in [Placed(t) -> Nat],
           \A p \in Placed(t) : b[p] = Together(b, Children(t, p)),
           NEW W \in SUBSET Placed(t), \A p \in W : Children(t, p) \subseteq W
    PROVE  Together(b, TopsOf(t, W)) = Cardinality(W)
<1>. DEFINE P == Placed(t)
            Whole(U) == \A p \in U : Children(t, p) \subseteq U
            bad == {U \in SUBSET P : Whole(U) /\ Together(b, TopsOf(t, U)) # Cardinality(U)}
            sizes == {Cardinality(U) : U \in bad}
<1>1. \A U \in SUBSET P : IsFiniteSet(U) /\ Cardinality(U) \in Nat
  BY FS_Subset, FS_CardinalityType DEF Planted
<1>2. ASSUME bad # {} PROVE FALSE
  <2>1. sizes \subseteq Nat /\ sizes # {}
    <3>1. bad \subseteq SUBSET P
      OBVIOUS
    <3>. HIDE DEF bad
    <3>. QED BY <1>1, <1>2, <3>1
  <2>. HIDE DEF sizes
  <2>2. PICK n \in sizes : \A k \in sizes : n <= k
    BY <2>1, LeastNat
  <2>3. PICK U \in bad : Cardinality(U) = n
    BY <2>2 DEF sizes
  <2>4. U \in SUBSET P /\ Whole(U) /\ Together(b, TopsOf(t, U)) # n
    BY <2>3
  <2>5. U # {}
    <3>1. CASE U = {}
      <4>1. TopsOf(t, U) = {} /\ n = 0
        BY <2>3, <3>1, FS_EmptySet DEF TopsOf
      <4>2. IsFiniteSet(TopsOf(t, U)) /\ \A x \in TopsOf(t, U) : b[x] \in Nat
        BY <4>1, FS_EmptySet
      <4>3. Together(b, TopsOf(t, U)) = 0
        BY <4>1, <4>2, TogetherTyped
      <4>. QED BY <2>4, <4>1, <4>3
    <3>. QED BY <3>1
  <2>6. PICK p \in U : \A q \in U : t.depth[p] <= t.depth[q]
    <3>. DEFINE depths == {t.depth[q] : q \in U}
    <3>1. depths \subseteq Nat /\ depths # {}
      BY <2>4, <2>5 DEF Planted
    <3>2. PICK d \in depths : \A e \in depths : d <= e
      BY <3>1, LeastNat
    <3>. QED BY <3>2
  <2>7. p \in P /\ t.parent[p] \notin U
    <3>1. p \in P /\ Nobody \notin P
      BY <2>4 DEF Planted
    <3>2. ASSUME t.parent[p] \in U PROVE FALSE
      <4>1. t.parent[p] \in P /\ t.depth[t.parent[p]] < t.depth[p]
        BY <2>4, <3>1, <3>2 DEF Planted
      <4>2. t.depth[t.parent[p]] \in Nat /\ t.depth[p] \in Nat
        BY <3>1, <4>1 DEF Planted
      <4>. QED BY <2>6, <3>2, <4>1, <4>2
    <3>. QED BY <3>1, <3>2
  <2>. DEFINE V == U \ {p}
              C == Children(t, p)
              A == TopsOf(t, U) \ {p}
  <2>8. V \in SUBSET P /\ Whole(V)
    <3>1. ASSUME NEW q \in V, NEW c \in Children(t, q) PROVE c \in V
      <4>1. c \in U /\ t.parent[c] = q
        BY <2>4, <3>1 DEF Children
      <4>2. c # p
        BY <2>7, <3>1, <4>1
      <4>. QED BY <4>1, <4>2
    <3>. QED BY <2>4, <3>1
  <2>9. Cardinality(V) = n - 1 /\ n \in Nat
    BY <1>1, <2>3, <2>4, <2>6, FS_RemoveElement
  <2>10. Together(b, TopsOf(t, V)) = n - 1
    <3>1. ~(n <= Cardinality(V))
      BY <2>9
    <3>2. V \notin bad
      BY <2>2, <3>1 DEF sizes
    <3>. QED BY <2>8, <2>9, <3>2
  <2>11. C \in SUBSET P /\ IsFiniteSet(C) /\ \A c \in C : t.parent[c] = p
    BY <2>7, ChildrenAre
  <2>12. TopsOf(t, V) = A \union C /\ A \cap C = {} /\ p \in TopsOf(t, U)
    <3>1. C \subseteq V
      <4>1. C \subseteq U
        BY <2>4, <2>6
      <4>. QED BY <2>7, <2>11, <4>1
    <3>2. \A q \in V : t.parent[q] = p <=> q \in C
      BY <2>8, <2>11 DEF Children
    <3>3. ASSUME NEW q \in V PROVE t.parent[q] \notin V <=> t.parent[q] \notin U \/ q \in C
      BY <3>2
    <3>4. ASSUME NEW q \in C PROVE t.parent[q] \in U
      BY <2>6, <2>11
    <3>. HIDE DEF C
    <3>. QED BY <2>6, <2>7, <3>1, <3>3, <3>4 DEF TopsOf
  <2>13. TopsOf(t, U) \in SUBSET P /\ A \in SUBSET P
    BY <2>4 DEF TopsOf
  <2>14. Together(b, TopsOf(t, U)) = 1 + b[p] + Together(b, A)
    <3>1. IsFiniteSet(TopsOf(t, U)) /\ \A x \in TopsOf(t, U) : b[x] \in Nat
      BY <1>1, <2>13
    <3>. QED BY <2>12, <3>1, TogetherWithout
  <2>15. Together(b, A \union C) = Together(b, A) + Together(b, C)
    <3>. HIDE DEF A, C
    <3>1. IsFiniteSet(A) /\ \A x \in A \union C : b[x] \in Nat
      BY <1>1, <2>11, <2>13
    <3>. QED BY <2>11, <2>12, <3>1, TogetherUnion
  <2>16. Together(b, C) = b[p] /\ b[p] \in Nat
    BY <2>7
  <2>17. Together(b, A) \in Nat
    <3>1. IsFiniteSet(A) /\ \A x \in A : b[x] \in Nat
      BY <1>1, <2>13
    <3>. QED BY <3>1, TogetherTyped
  <2>18. Together(b, A) + b[p] = n - 1
    BY <2>10, <2>12, <2>15, <2>16
  <2>. HIDE DEF A
  <2>. QED BY <2>4, <2>9, <2>14, <2>16, <2>17, <2>18
<1>3. W \notin bad
  BY <1>2
<1>. QED BY <1>3

-----------------------------------------------------------------------------
(* The tree of a reading of the server.                                    *)

\* A reading lists every session once.
Reading(given) ==
    /\ given \in Seq(Row)
    /\ \A i, j \in DOMAIN given : i # j => given[i].pid # given[j].pid

LEMMA RowIs ==
    ASSUME NEW given, Reading(given), NEW i \in DOMAIN given
    PROVE  given[i].pid \in Pids /\ given[i].blockedBy \in Seq(Pids)
<1>1. given[i] \in Row
  BY ElementOfSeq, LenProperties DEF Reading
<1>. QED BY <1>1 DEF Row

LEMMA InSet ==
    ASSUME NEW S, NEW q \in Seq(S)
    PROVE  ToSet(q) \in SUBSET S /\ IsFiniteSet(ToSet(q)) /\ q \in Seq(ToSet(q))
<1>1. DOMAIN q = 1..Len(q) /\ Len(q) \in Nat /\ \A i \in 1..Len(q) : q[i] \in S
  BY ElementOfSeq, LenProperties
<1>2. q \in [1..Len(q) -> ToSet(q)]
  <2>1. \A i \in 1..Len(q) : q[i] \in ToSet(q)
    BY <1>1 DEF ToSet
  <2>2. q = [i \in 1..Len(q) |-> q[i]]
    BY <1>1
  <2>. QED BY <2>1, <2>2
<1>3. ToSet(q) \in SUBSET S
  BY <1>1 DEF ToSet
<1>4. q \in Surjection(1..Len(q), ToSet(q))
  BY <1>1, <1>2 DEF ToSet, Surjection
<1>5. IsFiniteSet(1..Len(q))
  BY <1>1, FS_Interval
<1>6. IsFiniteSet(ToSet(q))
  BY <1>4, <1>5, FS_Surjection DEF ExistsSurjection
<1>7. q \in Seq(ToSet(q))
  BY <1>1, <1>2, SeqDef
<1>. QED BY <1>3, <1>6, <1>7

\* What is found for each member of a finite set is a finite set.
LEMMA FiniteImage ==
    ASSUME NEW S, IsFiniteSet(S), NEW f, DOMAIN f = S
    PROVE  IsFiniteSet({f[x] : x \in S})
<1>1. [x \in S |-> f[x]] \in Surjection(S, {f[x] : x \in S})
  BY DEF Surjection
<1>. QED BY <1>1, FS_Surjection DEF ExistsSurjection

LEMMA SessionsAre ==
    ASSUME NEW given, Reading(given), NEW by, by = Sessions(given)
    PROVE  /\ Complete(by) /\ DOMAIN by \in SUBSET Pids
           /\ \A i \in DOMAIN given : given[i].pid \in DOMAIN by /\ by[given[i].pid] = given[i]
           /\ \A p \in DOMAIN by : by[p].pid = p
           /\ \A p \in DOMAIN by : (\A i \in DOMAIN given : given[i].pid # p) =>
                 by[p].blockedBy = <<>> /\ \E i \in DOMAIN given : p \in BlockersOf(by, given[i].pid)
<1>. DEFINE listed == {given[i].pid : i \in DOMAIN given}
            lists == {ToSet(given[i].blockedBy) : i \in DOMAIN given}
            named == UNION lists
            Of(p) == CHOOSE i \in DOMAIN given : given[i].pid = p
            unseen(p) == [pid |-> p, blockedBy |-> <<>>, state |-> "unseen"]
<1>1. by = [p \in listed \union named |-> IF p \in listed THEN given[Of(p)] ELSE unseen(p)]
  BY Zenon DEF Sessions
<1>2. DOMAIN by = listed \union named
  BY <1>1
<1>3. IsFiniteSet(DOMAIN given)
  <2>1. DOMAIN given = 1..Len(given) /\ Len(given) \in Nat
    BY LenProperties DEF Reading
  <2>. QED BY <2>1, FS_Interval
<1>4. IsFiniteSet(listed)
  <2>. DEFINE f == [i \in DOMAIN given |-> given[i].pid]
  <2>1. IsFiniteSet({f[i] : i \in DOMAIN given})
    <3>1. DOMAIN f = DOMAIN given
      OBVIOUS
    <3>. HIDE DEF f
    <3>. QED BY <1>3, <3>1, FiniteImage
  <2>2. {f[i] : i \in DOMAIN given} = listed
    OBVIOUS
  <2>. QED BY <2>1, <2>2
<1>5. IsFiniteSet(lists)
  <2>. DEFINE f == [i \in DOMAIN given |-> ToSet(given[i].blockedBy)]
  <2>1. IsFiniteSet({f[i] : i \in DOMAIN given})
    <3>1. DOMAIN f = DOMAIN given
      OBVIOUS
    <3>. HIDE DEF f
    <3>. QED BY <1>3, <3>1, FiniteImage
  <2>2. {f[i] : i \in DOMAIN given} = lists
    OBVIOUS
  <2>. QED BY <2>1, <2>2
<1>6. \A i \in DOMAIN given :
         /\ IsFiniteSet(ToSet(given[i].blockedBy)) /\ ToSet(given[i].blockedBy) \in SUBSET Pids
         /\ given[i].blockedBy \in Seq(ToSet(given[i].blockedBy))
  BY RowIs, InSet
<1>7. IsFiniteSet(named)
  <2>1. \A T \in lists : IsFiniteSet(T)
    BY <1>6
  <2>. HIDE DEF lists
  <2>. QED BY <1>5, <2>1, FS_UNION
<1>8. IsFiniteSet(DOMAIN by)
  <2>. HIDE DEF listed, named
  <2>. QED BY <1>2, <1>4, <1>7, FS_Union
<1>9. DOMAIN by \in SUBSET Pids
  BY <1>2, <1>6, RowIs
<1>10. ASSUME NEW i \in DOMAIN given PROVE given[i].pid \in DOMAIN by /\ by[given[i].pid] = given[i]
  <2>. DEFINE p == given[i].pid
  <2>1. p \in listed
    OBVIOUS
  <2>2. Of(p) \in DOMAIN given /\ given[Of(p)].pid = p
    BY <2>1
  <2>3. Of(p) = i
    BY <2>2 DEF Reading
  <2>4. by[p] = given[Of(p)]
    BY <1>1, <2>1
  <2>. QED BY <1>2, <2>1, <2>3, <2>4
<1>11. ASSUME NEW p \in DOMAIN by, p \notin listed
       PROVE  by[p] = unseen(p) /\ \E i \in DOMAIN given : p \in BlockersOf(by, given[i].pid)
  <2>1. by[p] = unseen(p) /\ p \in named
    BY <1>1, <1>2, <1>11
  <2>2. PICK i \in DOMAIN given : p \in ToSet(given[i].blockedBy)
    BY <2>1
  <2>3. p \in BlockersOf(by, given[i].pid)
    BY <1>10, <2>2 DEF BlockersOf
  <2>. QED BY <2>1, <2>3
<1>12. ASSUME NEW p \in DOMAIN by PROVE by[p].pid = p /\ by[p].blockedBy \in Seq(DOMAIN by)
  <2>1. CASE p \in listed
    <3>1. PICK i \in DOMAIN given : given[i].pid = p
      BY <2>1
    <3>2. by[p] = given[i]
      BY <1>10, <3>1
    <3>3. ToSet(given[i].blockedBy) \subseteq DOMAIN by
      BY <1>2
    <3>4. given[i].blockedBy \in Seq(DOMAIN by)
      <4>1. PICK T : T = ToSet(given[i].blockedBy) /\ T \subseteq DOMAIN by
        BY <3>3
      <4>2. given[i].blockedBy \in Seq(T)
        BY <1>6, <3>1, <4>1
      <4>. HIDE DEF listed, named
      <4>. QED BY <4>1, <4>2
    <3>. QED BY <3>1, <3>2, <3>4
  <2>2. CASE p \notin listed
    <3>1. by[p] = unseen(p)
      BY <1>11, <2>2
    <3>2. by[p].pid = p /\ by[p].blockedBy = <<>>
      BY <3>1
    <3>. QED BY <3>2, EmptySeq
  <2>. QED BY <2>1, <2>2
<1>13. Complete(by)
  BY <1>8, <1>12 DEF Complete
<1>14. ASSUME NEW p \in DOMAIN by, \A i \in DOMAIN given : given[i].pid # p
       PROVE  by[p].blockedBy = <<>> /\ \E i \in DOMAIN given : p \in BlockersOf(by, given[i].pid)
  BY <1>11, <1>14
<1>. QED BY <1>9, <1>10, <1>12, <1>13, <1>14

\* All depths are known, and a blocker is above whom it blocks.
LEMMA WalkedIs ==
    ASSUME NEW given, Reading(given), NEW by, by = Sessions(given), NEW w, w = Walked(given)
    PROVE  /\ w \in Walk(DOMAIN by) /\ w.depth \in [DOMAIN by -> Nat]
           /\ \A q \in DOMAIN by : \A b \in BlockersOf(by, q) :
                 {b, q} \subseteq w.cycle \/ w.depth[b] < w.depth[q]
           /\ w.cycle # {} => \E S \in SUBSET DOMAIN by : Locked(by, S)
<1>. DEFINE P == DOMAIN by
            nothing == [depth |-> [p \in P |-> Unknown], cycle |-> {}]
            inOrder == [i \in DOMAIN given |-> given[i].pid]
            at == [pids |-> inOrder, path |-> {}, known |-> nothing]
<1>1. w = visit(by)[at].known
  BY Zenon DEF Walked
<1>2. Complete(by) /\ \A i \in DOMAIN given : given[i].pid \in P
  BY SessionsAre
<1>3. inOrder \in Seq(P) /\ DOMAIN inOrder = DOMAIN given
  <2>1. DOMAIN given = 1..Len(given) /\ Len(given) \in Nat
    BY LenProperties DEF Reading
  <2>2. inOrder \in [1..Len(given) -> P]
    BY <1>2, <2>1
  <2>. HIDE DEF inOrder, P
  <2>3. inOrder \in Seq(P) /\ DOMAIN inOrder = 1..Len(given)
    BY <2>1, <2>2, SeqDef
  <2>. QED BY <2>1, <2>3
<1>4. nothing \in Walk(P) /\ \A p \in P : nothing.depth[p] = Unknown
  BY DEF Walk, Unknown
<1>5. nothing.cycle = {}
  OBVIOUS
<1>. HIDE DEF nothing
<1>6. at \in Visits(P) /\ at.pids = inOrder /\ at.path = {} /\ at.known = nothing
  <2>. HIDE DEF inOrder
  <2>. QED BY <1>3, <1>4 DEF Visits
<1>. HIDE DEF at
<1>7. SettledAt(by, {}, nothing)
  BY <1>4, <1>5 DEF SettledAt
<1>8. ReadyAt(by, at)
  BY <1>6, <1>7 DEF ReadyAt
<1>9. DoneAt(by, at, visit(by)[at])
  BY <1>2, <1>8, VisitIsDone
<1>10. /\ SettledAt(by, {}, w) /\ w \in Walk(P)
       /\ \A p \in ToSet(inOrder) : w.depth[p] # Unknown
  BY <1>1, <1>6, <1>9 DEF DoneAt, VisitedAt, SettledAt
<1>11. ASSUME NEW p \in P PROVE w.depth[p] # Unknown
  <2>1. \A i \in DOMAIN given : w.depth[given[i].pid] # Unknown
    BY <1>3, <1>10 DEF ToSet
  <2>2. CASE \E i \in DOMAIN given : given[i].pid = p
    BY <2>1, <2>2
  <2>3. CASE \A i \in DOMAIN given : given[i].pid # p
    <3>1. PICK i \in DOMAIN given : p \in BlockersOf(by, given[i].pid)
      BY <2>3, SessionsAre
    <3>2. w.depth[given[i].pid] # Unknown /\ given[i].pid \in P
      BY <1>2, <2>1
    <3>. QED BY <1>10, <3>1, <3>2 DEF SettledAt
  <2>. QED BY <2>2, <2>3
<1>12. \A p \in P : w.depth[p] \in Nat
  BY <1>10, <1>11 DEF SettledAt
<1>13. w.depth \in [P -> Nat]
  BY <1>10, <1>12 DEF Walk
<1>14. ASSUME NEW q \in P, NEW b \in BlockersOf(by, q)
       PROVE  {b, q} \subseteq w.cycle \/ w.depth[b] < w.depth[q]
  BY <1>10, <1>11 DEF SettledAt, IsAbove
<1>. QED BY <1>10, <1>13, <1>14 DEF SettledAt

\* Of finitely many depths one is the first greatest.
LEMMA FirstDeepestIs ==
    ASSUME NEW C, C \subseteq Nat, C # {}, IsFiniteSet(C), NEW d \in [C -> Nat]
    PROVE  \E i \in C : \A j \in C : d[j] <= d[i] /\ (j < i => d[j] < d[i])
<1>1. PICK K \in Nat : \A i \in C : d[i] <= K
  BY Bounded
<1>. DEFINE gaps == {K - d[i] : i \in C}
<1>2. gaps \subseteq Nat /\ gaps # {}
  <2>1. \A i \in C : d[i] \in Nat /\ d[i] <= K
    BY <1>1
  <2>2. \A i \in C : K - d[i] \in Nat
    BY <2>1
  <2>. QED BY <2>2
<1>3. PICK g \in gaps : \A h \in gaps : g <= h
  BY <1>2, LeastNat
<1>4. PICK k \in C : g = K - d[k]
  BY <1>3
<1>5. \A j \in C : d[j] <= d[k]
  BY <1>1, <1>3, <1>4
<1>. DEFINE deepest == {i \in C : d[i] = d[k]}
<1>6. deepest \subseteq Nat /\ deepest # {}
  OBVIOUS
<1>7. PICK i \in deepest : \A j \in deepest : i <= j
  BY <1>6, LeastNat
<1>8. ASSUME NEW j \in C PROVE d[j] <= d[i] /\ (j < i => d[j] < d[i])
  <2>1. d[j] <= d[i] /\ d[i] = d[k] /\ i \in C
    BY <1>5, <1>7
  <2>2. ASSUME j < i PROVE d[j] # d[i]
    <3>1. i \in Nat /\ j \in Nat /\ ~(i <= j)
      BY <2>1, <2>2
    <3>. QED BY <1>7, <2>1, <3>1
  <2>. QED BY <2>1, <2>2
<1>. QED BY <1>7, <1>8

\* A session hangs below one of its blockers, which is less deep, or is a root for none.
LEMMA ParentIs ==
    ASSUME NEW P, P \subseteq Nat, NEW s, s.blockedBy \in Seq(P), s.pid \in P,
           NEW w \in Walk(P), w.depth \in [P -> Nat],
           \A b \in ToSet(s.blockedBy) : {b, s.pid} \subseteq w.cycle \/ w.depth[b] < w.depth[s.pid]
    PROVE  \/ ParentOf(s, w) = Nobody /\ \A b \in ToSet(s.blockedBy) : {b, s.pid} \subseteq w.cycle
           \/ ParentOf(s, w) \in ToSet(s.blockedBy) /\ w.depth[ParentOf(s, w)] < w.depth[s.pid]
<1>. DEFINE q == s.blockedBy
            C == Counted(s, w)
            d == [i \in C |-> w.depth[q[i]]]
            Deepest(i) == \A j \in DOMAIN d : d[j] <= d[i] /\ (j < i => d[j] < d[i])
            top == CHOOSE i \in DOMAIN d : Deepest(i)
<1>1. DOMAIN q = 1..Len(q) /\ Len(q) \in Nat /\ \A i \in DOMAIN q : q[i] \in P /\ q[i] \in ToSet(q)
  BY ElementOfSeq, LenProperties DEF ToSet
<1>2. C \subseteq DOMAIN q
  BY DEF Counted
<1>3. \A i \in DOMAIN q :
         i \in C <=> ~({q[i], s.pid} \subseteq w.cycle /\ w.depth[q[i]] >= w.depth[s.pid])
  BY Zenon DEF Counted
<1>4. ParentOf(s, w) = IF DOMAIN d = {} THEN Nobody ELSE q[top]
  BY Zenon DEF ParentOf
<1>. HIDE DEF C
<1>5. DOMAIN d = C
  OBVIOUS
<1>6. CASE C = {}
  <2>1. ParentOf(s, w) = Nobody
    BY <1>4, <1>5, <1>6, Zenon
  <2>2. ASSUME NEW b \in ToSet(q) PROVE {b, s.pid} \subseteq w.cycle
    <3>1. PICK i \in DOMAIN q : q[i] = b
      BY <2>2 DEF ToSet
    <3>. QED BY <1>3, <1>6, <3>1
  <2>. QED BY <2>1, <2>2
<1>7. CASE C # {}
  <2>1. d \in [C -> Nat] /\ C \subseteq Nat
    <3>1. \A i \in C : w.depth[q[i]] \in Nat
      BY <1>1, <1>2
    <3>2. C \subseteq Nat
      BY <1>1, <1>2
    <3>. HIDE DEF q
    <3>. QED BY <3>1, <3>2
  <2>2. IsFiniteSet(C)
    <3>1. IsFiniteSet(1..Len(q)) /\ C \in SUBSET (1..Len(q))
      BY <1>1, <1>2, FS_Interval
    <3>. QED BY <3>1, FS_Subset
  <2>. HIDE DEF d
  <2>3. \E i \in C : Deepest(i)
    BY <1>5, <1>7, <2>1, <2>2, FirstDeepestIs
  <2>4. top \in C
    <3>. HIDE DEF Deepest
    <3>. QED BY <1>5, <2>3, Zenon
  <2>5. ParentOf(s, w) = q[top]
    BY <1>4, <1>5, <1>7, Zenon
  <2>. HIDE DEF top
  <2>6. q[top] \in ToSet(q) /\ q[top] \in P
    BY <1>1, <1>2, <2>4
  <2>7. w.depth[q[top]] < w.depth[s.pid]
    <3>1. ~({q[top], s.pid} \subseteq w.cycle /\ w.depth[q[top]] >= w.depth[s.pid])
      BY <1>2, <1>3, <2>4
    <3>2. w.depth[q[top]] \in Nat /\ w.depth[s.pid] \in Nat
      BY <2>6
    <3>3. {q[top], s.pid} \subseteq w.cycle \/ w.depth[q[top]] < w.depth[s.pid]
      BY <2>6
    <3>. QED BY <3>1, <3>2, <3>3
  <2>. QED BY <2>5, <2>6, <2>7
<1>. QED BY <1>6, <1>7

\* What is proved of every tree.
LEMMA TreeIs ==
    ASSUME NEW given, Reading(given), NEW t, t = Tree(given)
    PROVE  /\ Planted(t) /\ Complete(t.session) /\ DOMAIN t.session = Placed(t)
           /\ \A p \in Placed(t) : t.parent[p] # Nobody => t.parent[p] \in Blockers(t, p)
           /\ \A p \in Placed(t) : t.parent[p] = Nobody =>
                 \A b \in Blockers(t, p) : {b, p} \subseteq t.cycle
           /\ \A p \in Placed(t) : \A b \in Blockers(t, p) :
                 b \in Placed(t) /\ ({b, p} \subseteq t.cycle \/ t.depth[b] < t.depth[p])
           /\ t.cycle \subseteq Placed(t)
           /\ t.cycle # {} => \E S \in SUBSET Placed(t) : Deadlock(t, S)
<1>. DEFINE by == Sessions(given)
            w == Walked(given)
            P == DOMAIN by
<1>1. Tree(given) = [session |-> by, depth |-> w.depth, cycle |-> w.cycle,
                    parent |-> [p \in P |-> ParentOf(by[p], w)]]
  BY Zenon DEF Tree
<1>2. Complete(by) /\ P \in SUBSET Pids /\ \A p \in P : by[p].pid = p
  BY SessionsAre
<1>3. /\ w \in Walk(P) /\ w.depth \in [P -> Nat]
      /\ \A q \in P : \A b \in BlockersOf(by, q) : {b, q} \subseteq w.cycle \/ w.depth[b] < w.depth[q]
      /\ w.cycle # {} => \E S \in SUBSET P : Locked(by, S)
  BY WalkedIs
<1>. HIDE DEF by, w
<1>4. /\ t.session = by /\ t.depth = w.depth /\ t.cycle = w.cycle
      /\ t.parent = [p \in P |-> ParentOf(by[p], w)] /\ Placed(t) = P
  BY <1>1 DEF Placed
<1>5. \A p \in P : Blockers(t, p) = BlockersOf(by, p) /\ BlockersOf(by, p) \subseteq P
  BY <1>2, <1>4, BlockersOfIs DEF Blockers, BlockersOf
<1>6. P \subseteq Nat /\ Nobody \notin P
  <2>1. Nobody \notin Nat
    BY DEF Nobody
  <2>. HIDE DEF P
  <2>. QED BY <1>2, <2>1, PidsAssumption
<1>7. ASSUME NEW p \in P
      PROVE  \/ t.parent[p] = Nobody /\ \A b \in BlockersOf(by, p) : {b, p} \subseteq w.cycle
             \/ t.parent[p] \in BlockersOf(by, p) /\ w.depth[t.parent[p]] < w.depth[p]
  <2>1. by[p].blockedBy \in Seq(P) /\ by[p].pid = p
    BY <1>2 DEF Complete
  <2>2. \A b \in ToSet(by[p].blockedBy) :
           {b, by[p].pid} \subseteq w.cycle \/ w.depth[b] < w.depth[by[p].pid]
    BY <1>3, <2>1 DEF BlockersOf
  <2>3. PICK s : s = by[p]
    OBVIOUS
  <2>. HIDE DEF P
  <2>4. \/ ParentOf(s, w) = Nobody /\ \A b \in ToSet(s.blockedBy) : {b, s.pid} \subseteq w.cycle
        \/ ParentOf(s, w) \in ToSet(s.blockedBy) /\ w.depth[ParentOf(s, w)] < w.depth[s.pid]
    BY <1>3, <1>6, <2>1, <2>2, <2>3, ParentIs
  <2>. QED BY <1>4, <2>1, <2>3, <2>4 DEF BlockersOf
<1>8. Planted(t)
  <2>1. IsFiniteSet(P)
    BY <1>2 DEF Complete
  <2>. QED BY <1>3, <1>4, <1>5, <1>6, <1>7, <2>1 DEF Planted
<1>9. w.cycle \subseteq P
  BY <1>3 DEF Walk
<1>10. \A S \in SUBSET P : Locked(by, S) => Deadlock(t, S)
  BY <1>5 DEF Locked, Deadlock
<1>11. ASSUME NEW p \in P
       PROVE  /\ t.parent[p] # Nobody => t.parent[p] \in Blockers(t, p)
              /\ t.parent[p] = Nobody => \A b \in Blockers(t, p) : {b, p} \subseteq t.cycle
              /\ \A b \in Blockers(t, p) :
                    b \in P /\ ({b, p} \subseteq t.cycle \/ t.depth[b] < t.depth[p])
  <2>1. t.parent[p] = Nobody => t.parent[p] \notin BlockersOf(by, p)
    BY <1>5, <1>6, <1>11
  <2>. HIDE DEF P
  <2>. QED BY <1>3, <1>4, <1>5, <1>7, <1>11, <2>1
<1>. QED BY <1>2, <1>3, <1>4, <1>8, <1>9, <1>10, <1>11

\* Nobody is in a cycle where depths fall from each session to its blockers.
LEMMA CycleIsDeadlock ==
    ASSUME NEW given, Reading(given), NEW t, t = Tree(given)
    PROVE  t.cycle = {} <=> NoDeadlock(t)
<1>1. /\ t.cycle # {} => \E S \in SUBSET Placed(t) : Deadlock(t, S)
      /\ \A p \in Placed(t) : \A b \in Blockers(t, p) :
            b \in Placed(t) /\ ({b, p} \subseteq t.cycle \/ t.depth[b] < t.depth[p])
      /\ t.depth \in [Placed(t) -> Nat]
  BY TreeIs DEF Planted
<1>2. ASSUME t.cycle = {}, NEW S \in SUBSET Placed(t), Deadlock(t, S) PROVE FALSE
  <2>. DEFINE depths == {t.depth[p] : p \in S}
  <2>1. depths \subseteq Nat /\ depths # {}
    BY <1>1, <1>2 DEF Deadlock
  <2>2. PICK d \in depths : \A e \in depths : d <= e
    BY <2>1, LeastNat
  <2>3. PICK p \in S : t.depth[p] = d
    BY <2>2
  <2>4. PICK b \in S : b \in Blockers(t, p)
    BY <1>2 DEF Deadlock
  <2>5. t.depth[b] < d /\ t.depth[b] \in depths /\ t.depth[b] \in Nat /\ d \in Nat
    BY <1>1, <1>2, <2>1, <2>3, <2>4
  <2>. QED BY <2>2, <2>5
<1>. QED BY <1>1, <1>2 DEF NoDeadlock

LEMMA OnePlaceEach ==
    ASSUME NEW given, Reading(given), NEW t, t = Tree(given),
           NEW tops, tops = {p \in Placed(t) : t.parent[p] = Nobody}
    PROVE  /\ \A p \in Placed(t) \ tops : t.parent[p] \in Blockers(t, p)
           /\ Together(Blocked(t), tops) = Cardinality(Placed(t))
<1>1. Planted(t) /\ \A p \in Placed(t) : t.parent[p] # Nobody => t.parent[p] \in Blockers(t, p)
  BY TreeIs
<1>2. TopsOf(t, Placed(t)) = tops
  BY <1>1 DEF TopsOf, Planted
<1>3. Together(Blocked(t), TopsOf(t, Placed(t))) = Cardinality(Placed(t))
  <2>1. \A p \in Placed(t) : Children(t, p) \subseteq Placed(t)
    BY DEF Children
  <2>2. /\ Blocked(t) \in [Placed(t) -> Nat]
        /\ \A p \in Placed(t) : Blocked(t)[p] = Together(Blocked(t), Children(t, p))
    BY <1>1, BlockedIs
  <2>. QED BY <1>1, <2>1, <2>2, TopsCountAll
<1>. QED BY <1>1, <1>2, <1>3

\* Where nobody is deadlocked, what waits is below a root, and roots wait for nobody.
LEMMA WaitingAreDrawn ==
    ASSUME NEW given, Reading(given), NEW t, t = Tree(given), NoDeadlock(t)
    PROVE  Waiting(t) \subseteq Drawn(t) /\ \A p \in Roots(t) : t.session[p].blockedBy = <<>>
<1>1. t.cycle = {}
  BY CycleIsDeadlock
<1>2. /\ Planted(t) /\ Complete(t.session) /\ DOMAIN t.session = Placed(t)
      /\ \A p \in Placed(t) : t.parent[p] = Nobody => Blockers(t, p) = {}
  BY <1>1, TreeIs
<1>3. ASSUME NEW p \in Placed(t) PROVE Blockers(t, p) = {} <=> t.session[p].blockedBy = <<>>
  <2>1. t.session[p].blockedBy \in Seq(Placed(t))
    BY <1>2 DEF Complete
  <2>2. DOMAIN t.session[p].blockedBy = {} <=> t.session[p].blockedBy = <<>>
    <3>1. PICK q : q = t.session[p].blockedBy
      OBVIOUS
    <3>2. q \in Seq(Placed(t)) /\ DOMAIN q = 1..Len(q) /\ Len(q) \in Nat
      BY <2>1, <3>1, LenProperties
    <3>3. q # <<>> => Len(q) # 0
      BY <3>2, EmptySeq
    <3>4. q # <<>> => 1 \in DOMAIN q
      BY <3>2, <3>3
    <3>5. DOMAIN <<>> = {}
      OBVIOUS
    <3>. QED BY <3>1, <3>4, <3>5
  <2>. QED BY <2>2 DEF Blockers, ToSet
<1>4. ASSUME NEW p \in Waiting(t), NEW S \in SUBSET Placed(t), Roots(t) \subseteq S,
             \A q \in S : Children(t, q) \subseteq S, p \notin S
      PROVE  FALSE
  <2>. DEFINE left == Waiting(t) \ S
              depths == {t.depth[q] : q \in left}
  <2>1. \A q \in Waiting(t) : q \in Placed(t) /\ t.parent[q] \in Placed(t) /\ t.depth[q] \in Nat
                              /\ t.depth[t.parent[q]] \in Nat /\ t.depth[t.parent[q]] < t.depth[q]
    BY <1>2, <1>3 DEF Waiting, Planted
  <2>2. depths \subseteq Nat /\ depths # {}
    BY <1>4, <2>1
  <2>3. PICK d \in depths : \A e \in depths : d <= e
    BY <2>2, LeastNat
  <2>4. PICK q \in left : t.depth[q] = d
    BY <2>3
  <2>5. PICK a \in Placed(t) : a = t.parent[q] /\ t.depth[a] < d /\ t.depth[a] \in Nat /\ d \in Nat
    BY <2>1, <2>4
  <2>6. q \in Children(t, a) /\ q \notin S
    BY <2>1, <2>4, <2>5 DEF Children
  <2>7. a \notin S
    BY <1>4, <2>6
  <2>8. a \notin Waiting(t)
    <3>1. ~(d <= t.depth[a])
      BY <2>5
    <3>. QED BY <2>3, <2>7, <3>1
  <2>9. t.parent[a] = Nobody
    <3>1. t.session[a].blockedBy = <<>>
      BY <2>8 DEF Waiting
    <3>2. Blockers(t, a) = {}
      BY <1>3, <3>1
    <3>. QED BY <3>2, TreeIs
  <2>10. a \in Roots(t)
    BY <2>6, <2>9 DEF Roots
  <2>. QED BY <1>4, <2>7, <2>10
<1>5. Waiting(t) \subseteq Drawn(t)
  BY <1>4 DEF Drawn, Waiting
<1>6. \A p \in Roots(t) : t.session[p].blockedBy = <<>>
  BY <1>2, <1>3 DEF Roots
<1>. QED BY <1>5, <1>6

-----------------------------------------------------------------------------
\* What is shown was answered.
ShownIsReading == snap # NoSnap => Reading(snap.rows)

LEMMA AnswersAreReadings == Spec => []ShownIsReading
<1>1. Init => ShownIsReading
  BY DEF Init, ShownIsReading
<1>2. ASSUME ShownIsReading, [Next]_vars PROVE ShownIsReading'
  <2>1. ASSUME NEW i, NEW given \in Snapshots, Answered(i, given) PROVE ShownIsReading'
    <3>1. snap'.rows = given
      BY <2>1 DEF Answered
    <3>2. Reading(given)
      BY SnapshotsAssumption DEF Reading
    <3>. QED BY <3>1, <3>2 DEF ShownIsReading
  <2>2. CASE snap' = snap \/ snap' = NoSnap
    BY <1>2, <2>2 DEF ShownIsReading
  <2>. QED
    BY <1>2, <2>1, <2>2 DEF Next, vars, Mount, Unmount, Refresh, OpenInEditor, Listed,
       ListingFailed, PickDatabase, EditConnection, Failed
<1>. QED BY <1>1, <1>2, PTL DEF Spec

\* Whatever waits for what, in readings of any length: every session has one place in the
\* tree, below one it waits for, and is counted once; a deadlock is warned of exactly when
\* there is one (buildLockTree: visit, blockers, count).
THEOREM OnePlaceInTree == Spec => []EverySessionHasOnePlace
<1>1. ShownIsReading => EverySessionHasOnePlace
  <2>. SUFFICES ASSUME ShownIsReading, Shown PROVE EverySessionHasOnePlace
    BY DEF EverySessionHasOnePlace
  <2>1. Reading(snap.rows)
    BY DEF Shown, ShownIsReading
  <2>. QED BY <2>1, OnePlaceEach, CycleIsDeadlock DEF EverySessionHasOnePlace, tree
<1>. QED BY <1>1, AnswersAreReadings, PTL

\* Where nobody is deadlocked, whoever waits is drawn below a session that waits for
\* nobody, and only such sessions are advised upon (buildLockTree: advice; LockNode).
THEOREM AdviceIsOnHolders == Spec => []AdviceAimsAtHolders
<1>1. ShownIsReading => AdviceAimsAtHolders
  <2>. SUFFICES ASSUME ShownIsReading, LocksShown, NoDeadlock(tree)
                PROVE  /\ Waiting(tree) \subseteq Drawn(tree)
                       /\ \A p \in Roots(tree) :
                             /\ tree.session[p].blockedBy = <<>>
                             /\ Advice(tree, "postgres")[p] = "terminate"
                                   <=> tree.session[p].state = "idle_in_transaction"
    BY DEF AdviceAimsAtHolders
  <2>1. Reading(snap.rows)
    BY DEF LocksShown, Shown, ShownIsReading
  <2>2. /\ Waiting(tree) \subseteq Drawn(tree)
        /\ \A p \in Roots(tree) : tree.session[p].blockedBy = <<>>
    BY <2>1, WaitingAreDrawn DEF tree
  <2>3. ASSUME NEW p \in Roots(tree)
        PROVE  Advice(tree, "postgres")[p] = "terminate"
                  <=> tree.session[p].state = "idle_in_transaction"
    <3>1. Advice(tree, "postgres")[p] = Remedy(tree.session[p])
      BY DEF Advice
    <3>. QED BY <3>1 DEF Remedy
  <2>. QED BY <2>2, <2>3
<1>. QED BY <1>1, AnswersAreReadings, PTL

-----------------------------------------------------------------------------
(* Sequences, and those with one element taken out.                        *)

LEMMA ListIs ==
    ASSUME NEW S, NEW q \in Seq(S)
    PROVE  Len(q) \in Nat /\ DOMAIN q = 1..Len(q) /\ \A k \in DOMAIN q : q[k] \in S
BY LenProperties, ElementOfSeq

LEMMA RemovedAt ==
    ASSUME NEW S, NEW q \in Seq(S), NEW i \in DOMAIN q
    PROVE  /\ RemoveAt(q, i) \in Seq(S)
           /\ Len(RemoveAt(q, i)) = Len(q) - 1
           /\ DOMAIN RemoveAt(q, i) = 1..(Len(q) - 1)
           /\ \A k \in 1..(Len(q) - 1) : RemoveAt(q, i)[k] = q[IF k < i THEN k ELSE k + 1]
<1>. DEFINE a == SubSeq(q, 1, i - 1)
            b == SubSeq(q, i + 1, Len(q))
<1>1. Len(q) \in Nat /\ DOMAIN q = 1..Len(q) /\ i \in 1..Len(q) /\ \A k \in 1..Len(q) : q[k] \in S
  BY LenProperties, ElementOfSeq
<1>2. a \in Seq(S) /\ Len(a) = i - 1 /\ \A k \in 1..(i - 1) : a[k] = q[k]
  <2>1. \A k \in 1..(i - 1) : q[k] \in S
    BY <1>1
  <2>2. /\ a \in Seq(S) /\ Len(a) = IF 1 <= i - 1 THEN (i - 1) - 1 + 1 ELSE 0
        /\ \A k \in 1..((i - 1) - 1 + 1) : a[k] = q[1 + k - 1]
    BY <1>1, <2>1, SubSeqProperties
  <2>. HIDE DEF a
  <2>. QED BY <1>1, <2>2
<1>3. b \in Seq(S) /\ Len(b) = Len(q) - i /\ \A k \in 1..(Len(q) - i) : b[k] = q[i + k]
  <2>1. \A k \in (i + 1)..Len(q) : q[k] \in S
    BY <1>1
  <2>2. /\ b \in Seq(S) /\ Len(b) = IF i + 1 <= Len(q) THEN Len(q) - (i + 1) + 1 ELSE 0
        /\ \A k \in 1..(Len(q) - (i + 1) + 1) : b[k] = q[i + 1 + k - 1]
    BY <1>1, <2>1, SubSeqProperties
  <2>. HIDE DEF b
  <2>3. Len(b) = Len(q) - i
    BY <1>1, <2>2
  <2>4. ASSUME NEW k \in 1..(Len(q) - i) PROVE b[k] = q[i + k]
    <3>1. k \in 1..(Len(q) - (i + 1) + 1) /\ i + 1 + k - 1 = i + k
      BY <1>1
    <3>2. b[k] = q[i + 1 + k - 1]
      BY <2>2, <3>1
    <3>. QED BY <3>1, <3>2
  <2>. QED BY <2>2, <2>3, <2>4
<1>. HIDE DEF a, b
<1>4. RemoveAt(q, i) = a \o b
  BY DEF RemoveAt, a, b
<1>5. /\ a \o b \in Seq(S) /\ Len(a \o b) = Len(a) + Len(b)
      /\ \A k \in 1..(Len(a) + Len(b)) : (a \o b)[k] = IF k <= Len(a) THEN a[k] ELSE b[k - Len(a)]
  BY <1>2, <1>3, ConcatProperties
<1>6. Len(a) + Len(b) = Len(q) - 1 /\ Len(q) - 1 \in Nat
  BY <1>1, <1>2, <1>3
<1>7. DOMAIN (a \o b) = 1..(Len(q) - 1)
  BY <1>5, <1>6, LenProperties
<1>8. ASSUME NEW k \in 1..(Len(q) - 1) PROVE (a \o b)[k] = q[IF k < i THEN k ELSE k + 1]
  <2>1. CASE k < i
    <3>1. k \in 1..(i - 1) /\ k <= Len(a) /\ k \in 1..(Len(a) + Len(b))
      BY <1>1, <1>2, <1>6, <2>1
    <3>. QED BY <1>2, <1>5, <2>1, <3>1
  <2>2. CASE ~(k < i)
    <3>1. ~(k <= Len(a)) /\ k \in 1..(Len(a) + Len(b)) /\ k - Len(a) \in 1..(Len(q) - i) /\ i + (k - Len(a)) = k + 1
      BY <1>1, <1>2, <1>6, <2>2
    <3>2. (a \o b)[k] = b[k - Len(a)]
      BY <1>5, <3>1
    <3>. QED BY <1>3, <2>2, <3>1, <3>2
  <2>. QED BY <2>1, <2>2
<1>9. RemoveAt(q, i) \in Seq(S) /\ Len(RemoveAt(q, i)) = Len(q) - 1
  BY <1>4, <1>5, <1>6
<1>10. DOMAIN RemoveAt(q, i) = 1..(Len(q) - 1)
  BY <1>4, <1>7
<1>. QED BY <1>4, <1>8, <1>9, <1>10

LEMMA RemovedIs ==
    ASSUME NEW S, NEW q \in Seq(S), NEW i \in DOMAIN q
    PROVE  /\ RemoveAt(q, i) \in Seq(S)
           /\ Len(RemoveAt(q, i)) = Len(q) - 1
           /\ \A k \in DOMAIN RemoveAt(q, i) :
                 \E n \in DOMAIN q : n # i /\ RemoveAt(q, i)[k] = q[n]
           /\ \A n \in DOMAIN q : n # i =>
                 \E k \in DOMAIN RemoveAt(q, i) : RemoveAt(q, i)[k] = q[n]
<1>1. Len(q) \in Nat /\ DOMAIN q = 1..Len(q) /\ i \in 1..Len(q)
  BY LenProperties
<1>2. RemoveAt(q, i) \in Seq(S) /\ Len(RemoveAt(q, i)) = Len(q) - 1
  BY RemovedAt
<1>3. /\ DOMAIN RemoveAt(q, i) = 1..(Len(q) - 1)
       /\ \A k \in 1..(Len(q) - 1) : RemoveAt(q, i)[k] = q[IF k < i THEN k ELSE k + 1]
  BY RemovedAt
<1>4. ASSUME NEW k \in DOMAIN RemoveAt(q, i)
       PROVE  \E n \in DOMAIN q : n # i /\ RemoveAt(q, i)[k] = q[n]
  <2>1. CASE k < i
    BY <1>1, <1>3, <2>1
  <2>2. CASE ~(k < i)
    <3>1. k + 1 \in DOMAIN q /\ k + 1 # i /\ RemoveAt(q, i)[k] = q[k + 1]
      BY <1>1, <1>3, <2>2
    <3>. QED BY <3>1
  <2>. QED BY <2>1, <2>2
<1>5. ASSUME NEW n \in DOMAIN q, n # i
       PROVE  \E k \in DOMAIN RemoveAt(q, i) : RemoveAt(q, i)[k] = q[n]
  <2>1. CASE n < i
    BY <1>1, <1>3, <2>1
  <2>2. CASE n > i
    <3>1. n - 1 \in DOMAIN RemoveAt(q, i) /\ ~(n - 1 < i) /\ (n - 1) + 1 = n
      BY <1>1, <1>3, <2>2
    <3>. QED BY <1>3, <3>1
  <2>. QED BY <1>1, <1>5, <2>1, <2>2
<1>. QED BY <1>2, <1>4, <1>5

-----------------------------------------------------------------------------
(* The health view.                                                        *)

\* Reads and answers are numbered as they were asked for; of what is shown, the last
\* that was asked for is the only one that must be of the database of the header, and
\* nothing else may bear its number.
HealthInv ==
    /\ tabDatabase \in Choice /\ connDatabase \in Choice
    /\ asked \in Nat
    /\ reads \in Seq(Read)
    /\ snap = NoSnap \/ snap.no \in 1..asked
    /\ \A k \in DOMAIN reads : reads[k].no <= asked
    /\ mounted => \A k \in DOMAIN reads : reads[k].no = asked => reads[k].of = database
    /\ mounted /\ snap # NoSnap /\ snap.no = asked => snap.of = database

\* A read is asked for: its number is the newest.
LEMMA AsksKeep ==
    ASSUME asked \in Nat, NEW q \in Seq(Read), NEW of \in Choice, Asks(q, of),
           \A k \in DOMAIN q : q[k].no <= asked
    PROVE  /\ asked' = asked + 1
           /\ reads' \in Seq(Read)
           /\ \A k \in DOMAIN reads' :
                 reads'[k].no <= asked' /\ (reads'[k].no = asked' => reads'[k].of = of)
<1> DEFINE r == [no |-> asked + 1, of |-> of]
<1>1. asked < MaxReads /\ asked' = asked + 1 /\ reads' = Append(q, r)
  BY DEF Asks
<1>2. r \in Read
  BY <1>1, DatabasesAssumption DEF Read
<1>3. r.no = asked + 1 /\ r.of = of
  OBVIOUS
<1> HIDE DEF r
<1>4. /\ reads' \in Seq(Read) /\ DOMAIN reads' = 1..(Len(q) + 1) /\ Len(q) \in Nat
      /\ DOMAIN q = 1..Len(q)
      /\ \A k \in DOMAIN q : reads'[k] = q[k] /\ q[k].no \in Nat
      /\ reads'[Len(q) + 1] = r
  <2>1. \A k \in DOMAIN q : q[k].no \in Nat
    <3>1. \A k \in DOMAIN q : q[k] \in Read
      BY ElementOfSeq, LenProperties
    <3> QED
      BY <3>1, DatabasesAssumption DEF Read
  <2> QED
    BY <1>1, <1>2, <2>1, AppendProperties, LenProperties
<1>5. ASSUME NEW k \in DOMAIN reads'
      PROVE  reads'[k].no <= asked' /\ (reads'[k].no = asked' => reads'[k].of = of)
  <2>1. CASE k = Len(q) + 1
    BY <1>1, <1>3, <1>4, <2>1
  <2>2. CASE k \in DOMAIN q
    BY <1>1, <1>4, <2>2
  <2> QED
    BY <1>4, <2>1, <2>2
<1> QED
  BY <1>1, <1>4, <1>5

\* The database of the header changes or not: what is read anew is of the new one.
LEMMA RereadKeeps ==
    ASSUME HealthInv, NEW now \in Choice, RereadIfChanged(now),
           mounted' = mounted, snap' = snap, database' = now,
           tabDatabase' \in Choice, connDatabase' \in Choice
    PROVE  HealthInv'
<1> USE DEF HealthInv
<1>1. CASE mounted /\ now # database
  <2>1. Asks(reads, now)
    BY <1>1 DEF RereadIfChanged
  <2>2. /\ asked' = asked + 1
        /\ reads' \in Seq(Read)
        /\ \A k \in DOMAIN reads' :
              reads'[k].no <= asked' /\ (reads'[k].no = asked' => reads'[k].of = now)
    BY <2>1, AsksKeep
  <2> QED
    BY <2>2
<1>2. CASE ~(mounted /\ now # database)
  <2>1. UNCHANGED <<reads, asked>>
    BY <1>2 DEF RereadIfChanged
  <2> QED
    BY <1>2, <2>1
<1> QED
  BY <1>1, <1>2

\* Once the last read that was asked for is answered, what is shown is of the database
\* the header names: for any databases, whatever is picked, listed and edited meanwhile
\* (HealthView.tsx: read and its effects).
THEOREM HealthShowsHeader == Spec => []NewestShowsHeader
<1>1. Init => HealthInv
  <2> SUFFICES ASSUME Init PROVE HealthInv
    OBVIOUS
  <2>1. /\ reads = <<>> /\ asked = 0 /\ snap = NoSnap /\ mounted = FALSE
        /\ tabDatabase \in Choice /\ connDatabase \in Choice
    BY DEF Init, Choice
  <2>2. reads \in Seq(Read) /\ DOMAIN reads = {}
    BY <2>1, EmptySeq
  <2> QED
    BY <2>1, <2>2 DEF HealthInv
<1>2. ASSUME HealthInv, [Next]_vars PROVE HealthInv'
  <2> USE DEF HealthInv
  <2>1. CASE Mount
    <3>1. /\ mounted' = TRUE /\ snap' = NoSnap /\ database' = database /\ Asks(<<>>, database)
      BY <2>1 DEF Mount, database
    <3>2. database \in Choice /\ <<>> \in Seq(Read) /\ DOMAIN <<>> = {}
      BY <1>2, EmptySeq DEF database, DatabaseOf
    <3>3. /\ asked' = asked + 1 /\ reads' \in Seq(Read)
          /\ \A k \in DOMAIN reads' :
                reads'[k].no <= asked' /\ (reads'[k].no = asked' => reads'[k].of = database)
      BY <1>2, <3>1, <3>2, AsksKeep
    <3>4. UNCHANGED <<tabDatabase, connDatabase>>
      BY <2>1 DEF Mount
    <3> QED
      BY <1>2, <3>1, <3>3, <3>4
  <2>2. CASE Unmount \/ OpenInEditor
    BY <1>2, <2>2 DEF Unmount, OpenInEditor
  <2>3. CASE Refresh
    <3>1. /\ mounted' = mounted /\ snap' = snap /\ database' = database /\ Asks(reads, database)
      BY <2>3 DEF Refresh, database
    <3>2. database \in Choice
      BY <1>2 DEF database, DatabaseOf
    <3>3. /\ asked' = asked + 1 /\ reads' \in Seq(Read)
          /\ \A k \in DOMAIN reads' :
                reads'[k].no <= asked' /\ (reads'[k].no = asked' => reads'[k].of = database)
      BY <1>2, <3>1, <3>2, AsksKeep
    <3>4. UNCHANGED <<tabDatabase, connDatabase>>
      BY <2>3 DEF Refresh
    <3> QED
      BY <1>2, <3>1, <3>3, <3>4
  <2>4. ASSUME NEW l \in listings, Listed(l) PROVE HealthInv'
    <3>1. /\ tabDatabase' \in Choice /\ connDatabase' = connDatabase
          /\ RereadIfChanged(DatabaseOf(tabDatabase', connDatabase))
          /\ mounted' = mounted /\ snap' = snap
      BY <1>2, <2>4, DatabasesAssumption DEF Listed, Choice
    <3>2. PICK now \in Choice : now = DatabaseOf(tabDatabase', connDatabase)
      BY <1>2, <3>1 DEF DatabaseOf
    <3> QED
      BY <1>2, <3>1, <3>2, RereadKeeps DEF database
  <2>5. ASSUME NEW l \in listings, ListingFailed(l) PROVE HealthInv'
    BY <1>2, <2>5 DEF ListingFailed, database
  <2>6. ASSUME NEW d \in Databases, PickDatabase(d) PROVE HealthInv'
    <3>1. /\ database' = d /\ d \in Choice /\ RereadIfChanged(d)
          /\ mounted' = mounted /\ snap' = snap
          /\ tabDatabase' \in Choice /\ connDatabase' = connDatabase
      BY <2>6, DatabasesAssumption DEF PickDatabase, database, DatabaseOf, Choice
    <3> QED
      BY <1>2, <3>1, RereadKeeps
  <2>7. ASSUME NEW d \in Choice, EditConnection(d) PROVE HealthInv'
    <3>1. PICK now \in Choice : now = DatabaseOf(tabDatabase, d)
      BY <1>2 DEF DatabaseOf
    <3>2. /\ database' = now /\ RereadIfChanged(now)
          /\ mounted' = mounted /\ snap' = snap
          /\ connDatabase' \in Choice /\ tabDatabase' = tabDatabase
      BY <2>7, <3>1 DEF EditConnection, database
    <3> QED
      BY <1>2, <3>1, <3>2, RereadKeeps
  <2>8. ASSUME NEW i \in DOMAIN reads, Failed(i) \/ \E answer \in Snapshots : Answered(i, answer)
        PROVE  HealthInv'
    <3>1. /\ reads' = RemoveAt(reads, i) /\ UNCHANGED <<mounted, asked, tabDatabase, connDatabase>>
          /\ mounted
      BY <2>8 DEF Failed, Answered
    <3>2. snap' = snap \/ (snap'.no = reads[i].no /\ snap'.of = reads[i].of)
      BY <2>8 DEF Failed, Answered
    <3>3. database' = database
      BY <3>1 DEF database
    <3>4. reads' \in Seq(Read) /\ \A k \in DOMAIN reads' : \E n \in DOMAIN reads : reads'[k] = reads[n]
      BY <1>2, <3>1, RemovedIs
    <3>5. reads[i].no \in 1..asked
      <4>1. reads[i] \in Read
        BY <1>2, ElementOfSeq, LenProperties
      <4> QED
        BY <1>2, <4>1, DatabasesAssumption DEF Read
    <3> QED
      BY <1>2, <3>1, <3>2, <3>3, <3>4, <3>5
  <2>9. CASE UNCHANGED vars
    BY <1>2, <2>9 DEF vars, database
  <2> QED
    BY <1>2, <2>1, <2>2, <2>3, <2>4, <2>5, <2>6, <2>7, <2>8, <2>9 DEF Next
<1>3. HealthInv => NewestShowsHeader
  BY DEF HealthInv, NewestShowsHeader, Shown
<1> QED
  BY <1>1, <1>2, <1>3, PTL DEF Spec

-----------------------------------------------------------------------------
(* What the scripts of a list of columns come to.                          *)

\* A table's columns, or a refusal.
Upshot == [ok : BOOLEAN, columns : SUBSET Column]

\* f is what comes of the scripts q one after the other.
Comes(columns, q, f) ==
    f = [n \in 0..Len(q) |-> IF n = 0 THEN [ok |-> TRUE, columns |-> columns]
                             ELSE Carry(f[n - 1], q[n])]

LEMMA ChangedTyped ==
    ASSUME NEW c \in Column, NEW s \in Script, s.op \notin {"add", "drop", "nothing"}
    PROVE  Changed(c, s) \in Column
<1>1. /\ c = [name |-> c.name, type |-> c.type, nullable |-> c.nullable, default |-> c.default]
      /\ c.name \in Names /\ c.type \in Types /\ c.nullable \in BOOLEAN /\ c.default \in Defaults
  BY DEF Column
<1>2. /\ s.to = [name |-> s.to.name, type |-> s.to.type, nullable |-> s.to.nullable,
                 default |-> s.to.default]
      /\ s.to.name \in Names /\ s.to.type \in Types /\ s.to.nullable \in BOOLEAN
      /\ s.to.default \in Defaults /\ s.to \in Column
  BY DEF Column, Script
<1>3. CASE s.op = "rename"
  BY <1>3, <1>2 DEF Changed, Column
<1>4. CASE s.op = "modify"
  BY <1>4, <1>1, <1>2 DEF Changed, Column
<1>5. CASE s.op = "type"
  BY <1>5, <1>2 DEF Changed, Column
<1>6. CASE s.op = "type_and_null"
  BY <1>6, <1>2 DEF Changed, Column
<1>7. CASE s.op = "null"
  BY <1>7, <1>2 DEF Changed, Column
<1>8. CASE s.op = "default"
  BY <1>8, <1>2 DEF Changed, Column
<1>9. CASE s.op = "first_default"
  BY <1>9, <1>2 DEF Changed, Column
<1>. QED BY <1>3, <1>4, <1>5, <1>6, <1>7, <1>8, <1>9 DEF Script, Ops

LEMMA CarryTyped ==
    ASSUME NEW so \in Upshot, NEW s \in Script
    PROVE  Carry(so, s) \in Upshot
<1>1. so.ok \in BOOLEAN /\ so.columns \subseteq Column /\ s.to \in Column
  BY DEF Upshot, Script
<1>2. Done(so.columns, s) \subseteq Column
  <2>1. CASE s.op = "add"
    BY <1>1, <2>1 DEF Done
  <2>2. CASE s.op = "drop"
    BY <1>1, <2>2 DEF Done
  <2>3. CASE s.op = "nothing"
    BY <1>1, <2>3 DEF Done
  <2>4. CASE s.op \notin {"add", "drop", "nothing"}
    <3>1. Done(so.columns, s) =
            {IF c.name = s.column THEN Changed(c, s) ELSE c : c \in so.columns}
      BY <2>4 DEF Done
    <3>2. \A c \in so.columns : Changed(c, s) \in Column
      BY <1>1, <2>4, ChangedTyped
    <3>. QED BY <1>1, <3>1, <3>2
  <2>. QED BY <2>1, <2>2, <2>3, <2>4
<1>3. CASE so.ok /\ Taken(so.columns, s)
  <2>1. Carry(so, s) = [ok |-> TRUE, columns |-> Done(so.columns, s)]
    BY <1>3 DEF Carry
  <2>. QED BY <1>2, <2>1 DEF Upshot
<1>4. CASE ~(so.ok /\ Taken(so.columns, s))
  <2>1. Carry(so, s) = Refused
    BY <1>4 DEF Carry
  <2>. QED BY <2>1 DEF Upshot, Refused
<1>. QED BY <1>3, <1>4

LEMMA ComesAgree ==
    ASSUME NEW columns, NEW q, Len(q) \in Nat, NEW p, Len(p) \in Nat, Len(q) <= Len(p),
           \A n \in 1..Len(q) : q[n] = p[n],
           NEW f, Comes(columns, q, f), NEW g, Comes(columns, p, g)
    PROVE  \A n \in 0..Len(q) : f[n] = g[n]
<1>. DEFINE bad == {n \in 0..Len(q) : f[n] # g[n]}
<1>1. SUFFICES ASSUME bad # {} PROVE FALSE
  OBVIOUS
<1>2. PICK n \in bad : \A k \in bad : n <= k
  <2>1. bad \subseteq Nat
    OBVIOUS
  <2>. QED BY <1>1, <2>1, LeastNat
<1>3. n \in 0..Len(q) /\ n \in 0..Len(p) /\ f[n] # g[n]
  BY <1>2
<1>4. /\ f[n] = IF n = 0 THEN [ok |-> TRUE, columns |-> columns] ELSE Carry(f[n - 1], q[n])
      /\ g[n] = IF n = 0 THEN [ok |-> TRUE, columns |-> columns] ELSE Carry(g[n - 1], p[n])
  BY <1>3 DEF Comes
<1>5. n # 0
  BY <1>3, <1>4
<1>6. n - 1 \in 0..Len(q) /\ n - 1 < n /\ n \in 1..Len(q)
  BY <1>3, <1>5
<1>7. f[n - 1] = g[n - 1]
  BY <1>2, <1>6
<1>. QED BY <1>3, <1>4, <1>5, <1>6, <1>7

LEMMA ComesExist ==
    ASSUME NEW columns \in SUBSET Column, NEW q \in Seq(Script)
    PROVE  \E f \in [0..Len(q) -> Upshot] : Comes(columns, q, f)
<1>. DEFINE D == 0..Len(q)
            m == [n \in D |-> n]
            first == [ok |-> TRUE, columns |-> columns]
            Body(g, n) == IF n = 0 THEN first ELSE Carry(g[n - 1], q[n])
            E == [a \in [D -> Upshot] \X D |-> Body(a[1], a[2])]
<1>1. Len(q) \in Nat /\ \A n \in 1..Len(q) : q[n] \in Script
  BY LenProperties, ElementOfSeq
<1>2. m \in [D -> Nat] /\ first \in Upshot
  BY <1>1 DEF Upshot
<1>3. \A n \in D : n # 0 => n - 1 \in D /\ m[n - 1] < m[n] /\ n \in 1..Len(q)
  BY <1>1
<1>. HIDE DEF first
<1>4. \A g \in [D -> Upshot], n \in D : E[<<g, n>>] = Body(g, n)
  <2>. SUFFICES ASSUME NEW g \in [D -> Upshot], NEW n \in D PROVE E[<<g, n>>] = Body(g, n)
    OBVIOUS
  <2>1. <<g, n>> \in [D -> Upshot] \X D /\ <<g, n>>[1] = g /\ <<g, n>>[2] = n
    OBVIOUS
  <2>. HIDE DEF Body
  <2>. QED BY <2>1
<1>5. ASSUME NEW g \in [D -> Upshot], NEW n \in D PROVE Body(g, n) \in Upshot
  <2>1. CASE n = 0
    BY <1>2, <2>1
  <2>2. CASE n # 0
    <3>1. g[n - 1] \in Upshot /\ q[n] \in Script
      BY <1>1, <1>3, <2>2
    <3>. QED BY <2>2, <3>1, CarryTyped
  <2>. QED BY <2>1, <2>2
<1>6. E \in [[D -> Upshot] \X D -> Upshot]
  <2>. HIDE DEF Body
  <2>. QED BY <1>5
<1>7. Descends(D, Upshot, m, E)
  <2>1. ASSUME NEW n \in D, NEW g \in [D -> Upshot], NEW h \in [D -> Upshot],
               \A c \in D : m[c] < m[n] => g[c] = h[c]
        PROVE  E[<<g, n>>] = E[<<h, n>>]
    <3>1. CASE n = 0
      BY <1>4, <3>1
    <3>2. CASE n # 0
      <4>1. g[n - 1] = h[n - 1]
        BY <1>3, <2>1, <3>2
      <4>. HIDE DEF E
      <4>. QED BY <1>4, <4>1
    <3>. QED BY <3>1, <3>2
  <2>. HIDE DEF m, E
  <2>2. Upshot # {}
    BY <1>2
  <2>. QED BY <1>2, <1>6, <2>1, <2>2 DEF Descends
<1>. HIDE DEF m, E
<1>8. PICK f : Solution(D, Upshot, E, f)
  BY <1>7, RecursionExists, Zenon
<1>9. f \in [D -> Upshot] /\ \A n \in D : f[n] = Body(f, n)
  BY <1>4, <1>8 DEF Solution
<1>10. f = [n \in D |-> Body(f, n)]
  <2>. HIDE DEF Body
  <2>. QED BY <1>9
<1>. QED BY <1>9, <1>10, Zenon DEF Comes, first

\* Carried finds what comes of them.
LEMMA CarriedIs ==
    ASSUME NEW columns \in SUBSET Column, NEW q \in Seq(Script)
    PROVE  \E f \in [0..Len(q) -> Upshot] :
              Comes(columns, q, f) /\ Carried(columns, q) = f[Len(q)]
<1>1. PICK g \in [0..Len(q) -> Upshot] : Comes(columns, q, g)
  BY ComesExist
<1>2. \E f : Comes(columns, q, f) /\ Carried(columns, q) = f[Len(q)]
  <2>1. g = [n \in 0..Len(q) |-> IF n = 0 THEN [ok |-> TRUE, columns |-> columns]
                                 ELSE Carry(g[n - 1], q[n])]
    BY <1>1, Zenon DEF Comes
  <2>2. \E f : /\ f = [n \in 0..Len(q) |-> IF n = 0 THEN [ok |-> TRUE, columns |-> columns]
                                           ELSE Carry(f[n - 1], q[n])]
               /\ Carried(columns, q) = f[Len(q)]
    BY <2>1, Zenon DEF Carried
  <2>. QED BY <2>2, Zenon DEF Comes
<1>3. PICK f : Comes(columns, q, f) /\ Carried(columns, q) = f[Len(q)]
  BY <1>2
<1>4. Len(q) \in Nat /\ Len(q) \in 0..Len(q)
  BY LenProperties
<1>5. f[Len(q)] = g[Len(q)]
  BY <1>1, <1>3, <1>4, ComesAgree
<1>. QED BY <1>1, <1>3, <1>5

LEMMA CarriedNone ==
    ASSUME NEW columns \in SUBSET Column
    PROVE  Carried(columns, <<>>) = [ok |-> TRUE, columns |-> columns]
<1>1. <<>> \in Seq(Script) /\ Len(<<>>) = 0
  OBVIOUS
<1>2. PICK f : Comes(columns, <<>>, f) /\ Carried(columns, <<>>) = f[0]
  BY <1>1, CarriedIs
<1>3. f = [n \in 0..0 |-> IF n = 0 THEN [ok |-> TRUE, columns |-> columns]
                          ELSE Carry(f[n - 1], <<>>[n])]
  BY <1>1, <1>2 DEF Comes
<1>4. f[0] = [ok |-> TRUE, columns |-> columns]
  BY <1>3
<1>. QED BY <1>2, <1>4

LEMMA CarriedTyped ==
    ASSUME NEW columns \in SUBSET Column, NEW q \in Seq(Script)
    PROVE  Carried(columns, q) \in Upshot
<1>1. Len(q) \in 0..Len(q)
  BY LenProperties
<1>. QED BY <1>1, CarriedIs

LEMMA CarriedMore ==
    ASSUME NEW columns \in SUBSET Column, NEW q \in Seq(Script), NEW s \in Script
    PROVE  Carried(columns, Append(q, s)) = Carry(Carried(columns, q), s)
<1>. DEFINE more == Append(q, s)
<1>1. /\ more \in Seq(Script) /\ Len(more) = Len(q) + 1 /\ Len(q) \in Nat
      /\ \A n \in 1..Len(q) : more[n] = q[n]
      /\ more[Len(q) + 1] = s
  BY AppendProperties, LenProperties
<1>. HIDE DEF more
<1>2. PICK f : Comes(columns, q, f) /\ Carried(columns, q) = f[Len(q)]
  BY CarriedIs
<1>3. PICK g : Comes(columns, more, g) /\ Carried(columns, more) = g[Len(more)]
  BY <1>1, CarriedIs
<1>4. f[Len(q)] = g[Len(q)]
  <2>1. Len(q) <= Len(more) /\ Len(more) \in Nat /\ \A n \in 1..Len(q) : q[n] = more[n]
    BY <1>1
  <2>2. \A n \in 0..Len(q) : f[n] = g[n]
    BY <1>1, <1>2, <1>3, <2>1, ComesAgree
  <2>. QED BY <1>1, <2>2
<1>5. Len(more) \in 0..Len(more) /\ Len(more) # 0 /\ Len(more) - 1 = Len(q)
  BY <1>1
<1>6. g[Len(more)] = Carry(g[Len(more) - 1], more[Len(more)])
  <2>1. \A n \in 0..Len(more) : g[n] = IF n = 0 THEN [ok |-> TRUE, columns |-> columns]
                                       ELSE Carry(g[n - 1], more[n])
    BY <1>3 DEF Comes
  <2>. QED BY <1>5, <2>1
<1>. QED BY <1>1, <1>2, <1>3, <1>4, <1>5, <1>6 DEF more

-----------------------------------------------------------------------------
\* What comes of a script that a condition calls for.
IfCarried(so, cond, op, name, to) ==
    IF cond THEN Carry(so, [op |-> op, column |-> name, to |-> to]) ELSE so

LEMMA CarriedWhen ==
    ASSUME NEW columns \in SUBSET Column, NEW q \in Seq(Script),
           NEW cond, NEW op \in Ops, NEW name \in Names, NEW to \in Column
    PROVE  /\ When(cond, op, name, to) \in Seq(Script)
           /\ q \o When(cond, op, name, to) \in Seq(Script)
           /\ Carried(columns, q \o When(cond, op, name, to)) =
                 IfCarried(Carried(columns, q), cond, op, name, to)
<1>. DEFINE s == [op |-> op, column |-> name, to |-> to]
<1>1. s \in Script
  BY DEF Script
<1>. HIDE DEF s
<1>2. CASE cond
  <2>1. When(cond, op, name, to) = <<s>>
    BY <1>2 DEF When, s
  <2>2. <<s>> \in Seq(Script)
    BY <1>1
  <2>3. q \o <<s>> = Append(q, s) /\ Append(q, s) \in Seq(Script)
    BY <1>1, AppendIsConcat, AppendProperties
  <2>4. Carried(columns, Append(q, s)) = Carry(Carried(columns, q), s)
    BY <1>1, CarriedMore
  <2>5. IfCarried(Carried(columns, q), cond, op, name, to) = Carry(Carried(columns, q), s)
    BY <1>2 DEF IfCarried, s
  <2>. QED BY <2>1, <2>2, <2>3, <2>4, <2>5
<1>3. CASE ~cond
  <2>1. When(cond, op, name, to) = <<>> /\ <<>> \in Seq(Script)
    BY <1>3 DEF When
  <2>2. q \o <<>> = q
    BY ConcatEmptySeq
  <2>3. IfCarried(Carried(columns, q), cond, op, name, to) = Carried(columns, q)
    BY <1>3 DEF IfCarried
  <2>. QED BY <2>1, <2>2, <2>3
<1>. QED BY <1>2, <1>3

-----------------------------------------------------------------------------
(* An edit, a drop and an addition.                                        *)

NamesOf(columns) == {c.name : c \in columns}

\* The operations that leave every column its name.
NameKeeping == {"modify", "type", "type_and_null", "null", "default", "first_default", "nothing"}

\* What comes of the scripts of an edit.
EditCarried(speaks, so, old, new) ==
    LET typed == old.type # new.type
        nulled == old.nullable # new.nullable
        dflt == old.default # new.default
        first == IfCarried(so, old.name # new.name, "rename", old.name, new)
        N(at, cond, op) == IfCarried(at, cond, op, new.name, new)
    IN  CASE speaks = "mysql" ->
                IF typed \/ nulled THEN N(first, TRUE, "modify") ELSE N(first, dflt, "default")
          [] speaks = "postgresql" -> N(N(N(first, typed, "type"), nulled, "null"), dflt, "default")
          [] speaks = "sqlite" -> N(first, typed \/ nulled \/ dflt, "nothing")
          [] speaks = "mssql" ->
                N(N(first, typed \/ nulled, "type_and_null"),
                  dflt /\ new.default # NoDefault, "first_default")
          [] OTHER -> N(first, typed, "type")

LEMMA EditIs ==
    ASSUME NEW columns \in SUBSET Column, NEW q \in Seq(Script), NEW speaks \in Dialects,
           NEW old \in Column, NEW new \in Column
    PROVE  Carried(columns, q \o EditScripts(speaks, old, new)) =
              EditCarried(speaks, Carried(columns, q), old, new)
<1>. DEFINE typed == old.type # new.type
            nulled == old.nullable # new.nullable
            dflt == old.default # new.default
            W(cond, op) == When(cond, op, new.name, new)
            N(at, cond, op) == IfCarried(at, cond, op, new.name, new)
            renamed == When(old.name # new.name, "rename", old.name, new)
            so == Carried(columns, q)
            first == IfCarried(so, old.name # new.name, "rename", old.name, new)
            begun == q \o renamed
<1>1. old.name \in Names /\ new.name \in Names
  BY DEF Column
<1>2. /\ renamed \in Seq(Script) /\ begun \in Seq(Script)
      /\ Carried(columns, begun) = first
  <2>1. "rename" \in Ops
    BY DEF Ops
  <2>. QED BY <1>1, <2>1, CarriedWhen
<1>3. ASSUME NEW p \in Seq(Script), NEW cond, NEW op \in Ops
      PROVE  /\ W(cond, op) \in Seq(Script) /\ p \o W(cond, op) \in Seq(Script)
             /\ Carried(columns, p \o W(cond, op)) = N(Carried(columns, p), cond, op)
  BY <1>1, CarriedWhen
<1>. HIDE DEF W, N, so, renamed, first, begun, typed, nulled, dflt
<1>4. /\ "modify" \in Ops /\ "default" \in Ops /\ "type" \in Ops /\ "null" \in Ops
      /\ "nothing" \in Ops /\ "type_and_null" \in Ops /\ "first_default" \in Ops
  BY DEF Ops
<1>5. EditScripts(speaks, old, new) = renamed \o
         CASE speaks = "mysql" ->
                IF typed \/ nulled THEN W(TRUE, "modify") ELSE W(dflt, "default")
           [] speaks = "postgresql" -> W(typed, "type") \o W(nulled, "null") \o W(dflt, "default")
           [] speaks = "sqlite" -> W(typed \/ nulled \/ dflt, "nothing")
           [] speaks = "mssql" ->
                W(typed \/ nulled, "type_and_null")
                    \o W(dflt /\ new.default # NoDefault, "first_default")
           [] OTHER -> W(typed, "type")
  BY Zenon DEF EditScripts, typed, nulled, dflt, W, renamed
<1>6. EditCarried(speaks, so, old, new) =
         CASE speaks = "mysql" ->
                IF typed \/ nulled THEN N(first, TRUE, "modify") ELSE N(first, dflt, "default")
           [] speaks = "postgresql" -> N(N(N(first, typed, "type"), nulled, "null"), dflt, "default")
           [] speaks = "sqlite" -> N(first, typed \/ nulled \/ dflt, "nothing")
           [] speaks = "mssql" ->
                N(N(first, typed \/ nulled, "type_and_null"),
                  dflt /\ new.default # NoDefault, "first_default")
           [] OTHER -> N(first, typed, "type")
  BY Zenon DEF EditCarried, typed, nulled, dflt, N, first
<1>7. ASSUME NEW rest \in Seq(Script) PROVE q \o (renamed \o rest) = begun \o rest
  <2>1. (q \o renamed) \o rest = q \o (renamed \o rest)
    BY <1>2, ConcatAssociative
  <2>. QED BY <2>1 DEF begun
<1>8. ASSUME NEW cond, NEW op \in Ops
      PROVE  Carried(columns, q \o (renamed \o W(cond, op))) = N(first, cond, op)
  BY <1>2, <1>3, <1>7, <1>8
<1>9. ASSUME NEW c1, NEW op1 \in Ops, NEW c2, NEW op2 \in Ops
      PROVE  /\ W(c1, op1) \o W(c2, op2) \in Seq(Script)
             /\ begun \o (W(c1, op1) \o W(c2, op2)) = (begun \o W(c1, op1)) \o W(c2, op2)
             /\ begun \o W(c1, op1) \in Seq(Script)
             /\ (begun \o W(c1, op1)) \o W(c2, op2) \in Seq(Script)
             /\ Carried(columns, (begun \o W(c1, op1)) \o W(c2, op2)) = N(N(first, c1, op1), c2, op2)
  <2>1. W(c1, op1) \in Seq(Script) /\ W(c2, op2) \in Seq(Script) /\ begun \o W(c1, op1) \in Seq(Script)
    BY <1>2, <1>3
  <2>2. W(c1, op1) \o W(c2, op2) \in Seq(Script)
    BY <2>1, ConcatProperties
  <2>3. (begun \o W(c1, op1)) \o W(c2, op2) = begun \o (W(c1, op1) \o W(c2, op2))
    BY <1>2, <2>1, ConcatAssociative
  <2>4. Carried(columns, begun \o W(c1, op1)) = N(first, c1, op1)
    BY <1>2, <1>3
  <2>5. PICK p \in Seq(Script) : p = begun \o W(c1, op1)
    BY <2>1
  <2>6. /\ p \o W(c2, op2) \in Seq(Script)
        /\ Carried(columns, p \o W(c2, op2)) = N(Carried(columns, p), c2, op2)
    BY <1>3
  <2>. QED BY <2>1, <2>2, <2>3, <2>4, <2>5, <2>6
<1>10. CASE speaks = "mysql"
  <2>1. CASE typed \/ nulled
    BY <1>4, <1>5, <1>6, <1>8, <1>10, <2>1 DEF so
  <2>2. CASE ~(typed \/ nulled)
    BY <1>4, <1>5, <1>6, <1>8, <1>10, <2>2 DEF so
  <2>. QED BY <2>1, <2>2
<1>11. CASE speaks = "postgresql"
  <2>. DEFINE a == W(typed, "type")
              b == W(nulled, "null")
              c == W(dflt, "default")
  <2>1. a \in Seq(Script) /\ b \in Seq(Script) /\ c \in Seq(Script)
    BY <1>2, <1>3, <1>4
  <2>2. /\ a \o b \in Seq(Script) /\ begun \o (a \o b) = (begun \o a) \o b
        /\ (begun \o a) \o b \in Seq(Script)
        /\ Carried(columns, (begun \o a) \o b) = N(N(first, typed, "type"), nulled, "null")
    BY <1>4, <1>9
  <2>3. PICK p \in Seq(Script) : p = (begun \o a) \o b
    BY <2>2
  <2>4. Carried(columns, p \o c) = N(Carried(columns, p), dflt, "default")
    BY <1>3, <1>4
  <2>5. EditScripts(speaks, old, new) = renamed \o ((a \o b) \o c)
    BY <1>5, <1>11
  <2>6. EditCarried(speaks, so, old, new) = N(N(N(first, typed, "type"), nulled, "null"), dflt, "default")
    BY <1>6, <1>11
  <2>. HIDE DEF a, b, c
  <2>7. (a \o b) \o c \in Seq(Script)
    BY <2>1, <2>2, ConcatProperties
  <2>8. q \o (renamed \o ((a \o b) \o c)) = begun \o ((a \o b) \o c)
    BY <1>7, <2>7
  <2>9. begun \o ((a \o b) \o c) = (begun \o (a \o b)) \o c
    <3>1. PICK ab \in Seq(Script) : ab = a \o b
      BY <2>2
    <3>2. (begun \o ab) \o c = begun \o (ab \o c)
      <4>1. begun \in Seq(Script) /\ ab \in Seq(Script) /\ c \in Seq(Script)
        BY <1>2, <2>1
      <4>2. \A x, y, z \in Seq(Script) : (x \o y) \o z = x \o (y \o z)
        BY ConcatAssociative
      <4>. QED BY <4>1, <4>2
    <3>. QED BY <3>1, <3>2
  <2>. QED BY <2>2, <2>3, <2>4, <2>5, <2>6, <2>8, <2>9 DEF so
<1>12. CASE speaks = "sqlite"
  BY <1>4, <1>5, <1>6, <1>8, <1>12 DEF so
<1>13. CASE speaks = "mssql"
  <2>. DEFINE a == W(typed \/ nulled, "type_and_null")
              b == W(dflt /\ new.default # NoDefault, "first_default")
  <2>1. /\ a \o b \in Seq(Script) /\ begun \o (a \o b) = (begun \o a) \o b
        /\ Carried(columns, (begun \o a) \o b) =
              N(N(first, typed \/ nulled, "type_and_null"), dflt /\ new.default # NoDefault, "first_default")
    BY <1>4, <1>9
  <2>2. q \o (renamed \o (a \o b)) = begun \o (a \o b)
    BY <1>7, <2>1
  <2>3. EditScripts(speaks, old, new) = renamed \o (a \o b)
    BY <1>5, <1>13
  <2>4. EditCarried(speaks, so, old, new) =
           N(N(first, typed \/ nulled, "type_and_null"), dflt /\ new.default # NoDefault, "first_default")
    BY <1>6, <1>13
  <2>. HIDE DEF a, b
  <2>. QED BY <2>1, <2>2, <2>3, <2>4 DEF so
<1>14. CASE speaks = "other"
  BY <1>4, <1>5, <1>6, <1>8, <1>14 DEF so
<1>. QED BY <1>10, <1>11, <1>12, <1>13, <1>14 DEF Dialects

-----------------------------------------------------------------------------
LEMMA NamesStay ==
    ASSUME NEW so \in Upshot, NEW s \in Script, s.op \in NameKeeping
    PROVE  /\ Carry(so, s).ok => so.ok /\ NamesOf(Carry(so, s).columns) = NamesOf(so.columns)
           /\ so.ok /\ s.op # "first_default" /\ s.column \in NamesOf(so.columns) => Carry(so, s).ok
<1>1. so.ok \in BOOLEAN /\ so.columns \subseteq Column /\ s.to \in Column
  BY DEF Upshot, Script
<1>2. NamesOf(Done(so.columns, s)) = NamesOf(so.columns)
  <2>1. CASE s.op = "nothing"
    BY <2>1 DEF Done
  <2>2. CASE s.op # "nothing"
    <3>1. Done(so.columns, s) =
            {IF c.name = s.column THEN Changed(c, s) ELSE c : c \in so.columns}
      BY <2>2 DEF Done, NameKeeping
    <3>2. ASSUME NEW c \in so.columns PROVE Changed(c, s).name = c.name
      <4>1. c \in Column
        BY <1>1
      <4>2. CASE s.op = "modify"
        BY <4>1, <4>2, <1>1 DEF Changed, Column
      <4>3. CASE s.op = "type"
        BY <4>1, <4>3 DEF Changed, Column
      <4>4. CASE s.op = "type_and_null"
        BY <4>1, <4>4 DEF Changed, Column
      <4>5. CASE s.op = "null"
        BY <4>1, <4>5 DEF Changed, Column
      <4>6. CASE s.op \in {"default", "first_default"}
        BY <4>1, <4>6 DEF Changed, Column
      <4>. QED BY <2>2, <4>2, <4>3, <4>4, <4>5, <4>6 DEF NameKeeping
    <3>. QED BY <3>1, <3>2 DEF NamesOf
  <2>. QED BY <2>1, <2>2
<1>3. s.op # "first_default" /\ s.column \in NamesOf(so.columns) => Taken(so.columns, s)
  BY DEF Taken, NameKeeping, NamesOf
<1>4. Carry(so, s) = IF so.ok /\ Taken(so.columns, s)
                     THEN [ok |-> TRUE, columns |-> Done(so.columns, s)]
                     ELSE [ok |-> FALSE, columns |-> {}]
  BY Zenon DEF Carry, Refused
<1>. QED BY <1>2, <1>3, <1>4

LEMMA NameChanges ==
    ASSUME NEW so \in Upshot, NEW s \in Script, s.op = "rename"
    PROVE  /\ Carry(so, s).ok <=> /\ so.ok /\ s.column \in NamesOf(so.columns)
                                  /\ s.to.name \notin NamesOf(so.columns)
           /\ Carry(so, s).ok =>
                 NamesOf(Carry(so, s).columns) =
                    (NamesOf(so.columns) \ {s.column}) \union {s.to.name}
<1>1. so.ok \in BOOLEAN /\ so.columns \subseteq Column /\ s.to \in Column
  BY DEF Upshot, Script
<1>2. Taken(so.columns, s) <=> /\ s.column \in NamesOf(so.columns)
                               /\ s.to.name \notin NamesOf(so.columns)
  BY DEF Taken, NamesOf
<1>3. Done(so.columns, s) = {IF c.name = s.column THEN Changed(c, s) ELSE c : c \in so.columns}
  BY DEF Done
<1>4. ASSUME NEW c \in so.columns PROVE Changed(c, s).name = s.to.name
  BY <1>1 DEF Changed, Column
<1>5. s.column \in NamesOf(so.columns) =>
         NamesOf(Done(so.columns, s)) = (NamesOf(so.columns) \ {s.column}) \union {s.to.name}
  BY <1>3, <1>4 DEF NamesOf
<1>6. Carry(so, s) = IF so.ok /\ Taken(so.columns, s)
                     THEN [ok |-> TRUE, columns |-> Done(so.columns, s)]
                     ELSE [ok |-> FALSE, columns |-> {}]
  BY Zenon DEF Carry, Refused
<1>. QED BY <1>1, <1>2, <1>5, <1>6

\* The one column of a name is changed.
LEMMA OneChanges ==
    ASSUME NEW so \in Upshot, NEW s \in Script, s.op \notin {"add", "drop", "nothing"},
           NEW others \in SUBSET Column, NEW o \in Column,
           so.columns = others \union {o}, o.name \notin NamesOf(others), s.column = o.name,
           Carry(so, s).ok
    PROVE  Carry(so, s).columns = others \union {Changed(o, s)}
<1>1. Carry(so, s).columns = Done(so.columns, s)
  BY DEF Carry, Refused
<1>2. Done(so.columns, s) = {IF c.name = s.column THEN Changed(c, s) ELSE c : c \in others \union {o}}
  BY DEF Done
<1>3. \A c \in others : c.name # s.column
  BY DEF NamesOf
<1>4. PICK p : p = Changed(o, s)
  OBVIOUS
<1>5. Done(so.columns, s) = others \union {p}
  <2>1. ASSUME NEW c \in others PROVE (IF c.name = s.column THEN Changed(c, s) ELSE c) = c
    BY <1>3
  <2>2. (IF o.name = s.column THEN Changed(o, s) ELSE o) = p
    BY <1>4
  <2>. QED BY <1>2, <2>1, <2>2
<1>. QED BY <1>1, <1>4, <1>5

LEMMA IfNamesStay ==
    ASSUME NEW so \in Upshot, NEW cond, NEW op \in NameKeeping, NEW name \in Names, NEW to \in Column
    PROVE  LET at == IfCarried(so, cond, op, name, to)
           IN  /\ at \in Upshot
               /\ at.ok => so.ok /\ NamesOf(at.columns) = NamesOf(so.columns)
               /\ so.ok /\ op # "first_default" /\ name \in NamesOf(so.columns) => at.ok
<1>1. PICK s : s = [op |-> op, column |-> name, to |-> to]
  OBVIOUS
<1>2. s \in Script /\ s.op = op /\ s.column = name
  BY <1>1 DEF Script, Ops, NameKeeping
<1>3. Carry(so, s) \in Upshot
  BY <1>2, CarryTyped
<1>4. IfCarried(so, cond, op, name, to) = IF cond THEN Carry(so, s) ELSE so
  BY <1>1 DEF IfCarried
<1>5. /\ Carry(so, s).ok => so.ok /\ NamesOf(Carry(so, s).columns) = NamesOf(so.columns)
      /\ so.ok /\ op # "first_default" /\ name \in NamesOf(so.columns) => Carry(so, s).ok
  BY <1>2, NamesStay
<1>6. CASE cond
  BY <1>3, <1>4, <1>5, <1>6
<1>7. CASE ~cond
  BY <1>4, <1>7
<1>. QED BY <1>6, <1>7

LEMMA IfNameChanges ==
    ASSUME NEW so \in Upshot, NEW old \in Column, NEW new \in Column
    PROVE  LET at == IfCarried(so, old.name # new.name, "rename", old.name, new)
           IN  /\ at \in Upshot
               /\ at.ok => /\ so.ok
                           /\ old.name # new.name => new.name \notin NamesOf(so.columns)
                           /\ old.name \in NamesOf(so.columns) =>
                                 NamesOf(at.columns) =
                                    (NamesOf(so.columns) \ {old.name}) \union {new.name}
               /\ /\ so.ok /\ old.name \in NamesOf(so.columns)
                  /\ old.name # new.name => new.name \notin NamesOf(so.columns)
                  => at.ok
<1>1. PICK s : s = [op |-> "rename", column |-> old.name, to |-> new]
  OBVIOUS
<1>2. s \in Script /\ s.op = "rename" /\ s.column = old.name /\ s.to = new
  BY <1>1 DEF Script, Ops, Column
<1>3. Carry(so, s) \in Upshot
  BY <1>2, CarryTyped
<1>4. IfCarried(so, old.name # new.name, "rename", old.name, new) =
         IF old.name # new.name THEN Carry(so, s) ELSE so
  BY <1>1 DEF IfCarried
<1>5. /\ Carry(so, s).ok <=> /\ so.ok /\ old.name \in NamesOf(so.columns)
                             /\ new.name \notin NamesOf(so.columns)
      /\ Carry(so, s).ok =>
            NamesOf(Carry(so, s).columns) = (NamesOf(so.columns) \ {old.name}) \union {new.name}
  BY <1>2, NameChanges
<1>6. CASE old.name # new.name
  BY <1>3, <1>4, <1>5, <1>6
<1>7. CASE old.name = new.name
  BY <1>4, <1>7
<1>. QED BY <1>6, <1>7

\* Whatever the dialect: an edit is refused if it gives a name that another column has, and
\* otherwise only if a default of SQL Server was set twice; the one name gives way to the
\* other.
LEMMA EditNames ==
    ASSUME NEW so \in Upshot, NEW speaks \in Dialects, NEW old \in Column, NEW new \in Column
    PROVE  LET after == EditCarried(speaks, so, old, new)
           IN  /\ after \in Upshot
               /\ after.ok => /\ so.ok
                              /\ old.name # new.name => new.name \notin NamesOf(so.columns)
                              /\ old.name \in NamesOf(so.columns) =>
                                    NamesOf(after.columns) =
                                       (NamesOf(so.columns) \ {old.name}) \union {new.name}
               /\ /\ so.ok /\ speaks # "mssql" /\ old.name \in NamesOf(so.columns)
                  /\ old.name # new.name => new.name \notin NamesOf(so.columns)
                  => after.ok
<1>. DEFINE typed == old.type # new.type
            nulled == old.nullable # new.nullable
            dflt == old.default # new.default
            N(at, cond, op) == IfCarried(at, cond, op, new.name, new)
            after == EditCarried(speaks, so, old, new)
            Follows(at, then) ==
                /\ then \in Upshot
                /\ then.ok => at.ok /\ NamesOf(then.columns) = NamesOf(at.columns)
                /\ at.ok /\ speaks # "mssql" /\ new.name \in NamesOf(at.columns) => then.ok
<1>1. PICK first : first = IfCarried(so, old.name # new.name, "rename", old.name, new)
  OBVIOUS
<1>2. /\ first \in Upshot
      /\ first.ok => /\ so.ok
                     /\ old.name # new.name => new.name \notin NamesOf(so.columns)
                     /\ old.name \in NamesOf(so.columns) =>
                           NamesOf(first.columns) =
                              (NamesOf(so.columns) \ {old.name}) \union {new.name}
      /\ /\ so.ok /\ old.name \in NamesOf(so.columns)
         /\ old.name # new.name => new.name \notin NamesOf(so.columns)
         => first.ok
  BY <1>1, IfNameChanges
<1>3. after = CASE speaks = "mysql" ->
                IF typed \/ nulled THEN N(first, TRUE, "modify") ELSE N(first, dflt, "default")
           [] speaks = "postgresql" -> N(N(N(first, typed, "type"), nulled, "null"), dflt, "default")
           [] speaks = "sqlite" -> N(first, typed \/ nulled \/ dflt, "nothing")
           [] speaks = "mssql" ->
                N(N(first, typed \/ nulled, "type_and_null"),
                  dflt /\ new.default # NoDefault, "first_default")
           [] OTHER -> N(first, typed, "type")
  BY <1>1, Zenon DEF EditCarried
<1>4. ASSUME NEW at \in Upshot, NEW cond, NEW op \in NameKeeping,
             op # "first_default" \/ speaks = "mssql"
      PROVE  Follows(at, N(at, cond, op))
  <2>1. new.name \in Names
    BY DEF Column
  <2>. QED BY <1>4, <2>1, IfNamesStay
<1>5. /\ "modify" \in NameKeeping /\ "default" \in NameKeeping /\ "type" \in NameKeeping
      /\ "null" \in NameKeeping /\ "nothing" \in NameKeeping /\ "type_and_null" \in NameKeeping
      /\ "first_default" \in NameKeeping
  BY DEF NameKeeping
<1>. HIDE DEF N, typed, nulled, dflt, after
<1>6. Follows(first, after)
  <2>1. CASE speaks = "mysql"
    <3>1. Follows(first, N(first, TRUE, "modify")) /\ Follows(first, N(first, dflt, "default"))
      BY <1>2, <1>4, <1>5
    <3>2. after = N(first, TRUE, "modify") \/ after = N(first, dflt, "default")
      BY <1>3, <2>1
    <3>. HIDE DEF Follows
    <3>. QED BY <3>1, <3>2
  <2>2. CASE speaks = "postgresql"
    <3>1. PICK a : a = N(first, typed, "type")
      OBVIOUS
    <3>2. PICK b : b = N(a, nulled, "null")
      OBVIOUS
    <3>3. after = N(b, dflt, "default")
      BY <1>3, <2>2, <3>1, <3>2
    <3>4. Follows(first, a)
      BY <1>2, <1>4, <1>5, <3>1
    <3>5. Follows(a, b)
      BY <1>4, <1>5, <3>2, <3>4
    <3>6. Follows(b, after)
      BY <1>4, <1>5, <3>3, <3>5
    <3>. QED BY <3>4, <3>5, <3>6
  <2>3. CASE speaks = "sqlite"
    <3>1. after = N(first, typed \/ nulled \/ dflt, "nothing")
      BY <1>3, <2>3
    <3>. QED BY <1>2, <1>4, <1>5, <3>1
  <2>4. CASE speaks = "mssql"
    <3>1. PICK a : a = N(first, typed \/ nulled, "type_and_null")
      OBVIOUS
    <3>2. after = N(a, dflt /\ new.default # NoDefault, "first_default")
      BY <1>3, <2>4, <3>1
    <3>3. Follows(first, a)
      BY <1>2, <1>4, <1>5, <3>1
    <3>4. Follows(a, after)
      BY <1>4, <1>5, <2>4, <3>2, <3>3
    <3>. QED BY <3>3, <3>4
  <2>5. CASE speaks = "other"
    <3>1. after = N(first, typed, "type")
      BY <1>3, <2>5
    <3>. QED BY <1>2, <1>4, <1>5, <3>1
  <2>. QED BY <2>1, <2>2, <2>3, <2>4, <2>5 DEF Dialects
<1>7. /\ after.ok => first.ok /\ NamesOf(after.columns) = NamesOf(first.columns)
      /\ first.ok /\ speaks # "mssql" /\ new.name \in NamesOf(first.columns) => after.ok
      /\ after \in Upshot
  BY <1>6
<1>8. first.ok /\ old.name \in NamesOf(so.columns) => new.name \in NamesOf(first.columns)
  BY <1>2
<1>9. /\ after \in Upshot
      /\ after.ok => /\ so.ok
                     /\ old.name # new.name => new.name \notin NamesOf(so.columns)
                     /\ old.name \in NamesOf(so.columns) =>
                           NamesOf(after.columns) =
                              (NamesOf(so.columns) \ {old.name}) \union {new.name}
      /\ /\ so.ok /\ speaks # "mssql" /\ old.name \in NamesOf(so.columns)
         /\ old.name # new.name => new.name \notin NamesOf(so.columns)
         => after.ok
  <2>. HIDE DEF Follows
  <2>. QED BY <1>2, <1>7, <1>8
<1>. QED BY <1>9 DEF after

-----------------------------------------------------------------------------
\* The operations of the dialects that carry out an edit as a whole, but for the renaming.
Setting == {"modify", "type", "null", "default"}

\* The column p is o with what a script sets of it to that of new.
SetBy(cond, op, new, o, p) ==
    /\ p.name = o.name
    /\ p.type = IF cond /\ op \in {"type", "modify"} THEN new.type ELSE o.type
    /\ p.nullable = IF cond /\ op \in {"null", "modify"} THEN new.nullable ELSE o.nullable
    /\ p.default = IF cond /\ op \in {"default", "modify"} THEN new.default ELSE o.default

\* The one column of a name is what a script sets of it.
LEMMA IfOneChanges ==
    ASSUME NEW so \in Upshot, NEW cond, NEW op \in Setting,
           NEW to \in Column, NEW others \in SUBSET Column, NEW o \in Column,
           so.columns = others \union {o}, o.name \notin NamesOf(others),
           IfCarried(so, cond, op, o.name, to).ok
    PROVE  \E p \in Column :
              /\ IfCarried(so, cond, op, o.name, to).columns = others \union {p}
              /\ SetBy(cond, op, to, o, p)
<1>1. PICK s : s = [op |-> op, column |-> o.name, to |-> to]
  OBVIOUS
<1>2. /\ s \in Script /\ s.op = op /\ s.column = o.name /\ s.to = to
      /\ s.op \notin {"add", "drop", "nothing"}
  BY <1>1 DEF Script, Ops, Column, Setting
<1>3. CASE cond
  <2>1. IfCarried(so, cond, op, o.name, to) = Carry(so, s)
    BY <1>1, <1>3 DEF IfCarried
  <2>2. Carry(so, s).columns = others \union {Changed(o, s)}
    BY <1>2, <2>1, OneChanges
  <2>3. Changed(o, s) \in Column
    BY <1>2, ChangedTyped
  <2>4. /\ Changed(o, s).name = o.name
        /\ Changed(o, s).type = IF op \in {"type", "modify"} THEN to.type ELSE o.type
        /\ Changed(o, s).nullable = IF op \in {"null", "modify"} THEN to.nullable ELSE o.nullable
        /\ Changed(o, s).default = IF op \in {"default", "modify"} THEN to.default ELSE o.default
    <3>1. CASE op = "modify"
      BY <1>2, <3>1 DEF Changed, Column
    <3>2. CASE op = "type"
      BY <1>2, <3>2 DEF Changed, Column
    <3>3. CASE op = "null"
      BY <1>2, <3>3 DEF Changed, Column
    <3>4. CASE op = "default"
      BY <1>2, <3>4 DEF Changed, Column
    <3>. QED BY <3>1, <3>2, <3>3, <3>4 DEF Setting
  <2>5. SetBy(cond, op, to, o, Changed(o, s))
    BY <1>3, <2>4 DEF SetBy
  <2>. QED BY <2>1, <2>2, <2>3, <2>5
<1>4. CASE ~cond
  <2>1. IfCarried(so, cond, op, o.name, to) = so
    BY <1>4 DEF IfCarried
  <2>2. SetBy(cond, op, to, o, o)
    BY <1>4 DEF SetBy
  <2>. QED BY <2>1, <2>2
<1>. QED BY <1>3, <1>4

\* In a dialect whose scripts carry out an edit as a whole, the column becomes what it was
\* edited to.
LEMMA EditWhole ==
    ASSUME NEW so \in Upshot, NEW speaks \in WholeDialects, NEW old \in Column, NEW new \in Column,
           NEW others \in SUBSET Column, so.columns = others \union {old},
           old.name \notin NamesOf(others),
           EditCarried(speaks, so, old, new).ok
    PROVE  EditCarried(speaks, so, old, new).columns = others \union {new}
<1>. DEFINE typed == old.type # new.type
            nulled == old.nullable # new.nullable
            dflt == old.default # new.default
            N(at, cond, op) == IfCarried(at, cond, op, new.name, new)
            after == EditCarried(speaks, so, old, new)
<1>1. PICK first : first = IfCarried(so, old.name # new.name, "rename", old.name, new)
  OBVIOUS
<1>2. first \in Upshot
  BY <1>1, IfNameChanges
<1>3. after = CASE speaks = "mysql" ->
                IF typed \/ nulled THEN N(first, TRUE, "modify") ELSE N(first, dflt, "default")
           [] speaks = "postgresql" -> N(N(N(first, typed, "type"), nulled, "null"), dflt, "default")
           [] speaks = "sqlite" -> N(first, typed \/ nulled \/ dflt, "nothing")
           [] speaks = "mssql" ->
                N(N(first, typed \/ nulled, "type_and_null"),
                  dflt /\ new.default # NoDefault, "first_default")
           [] OTHER -> N(first, typed, "type")
  BY <1>1, Zenon DEF EditCarried
<1>4. ASSUME NEW at \in Upshot, NEW cond, NEW op \in Setting
      PROVE  /\ N(at, cond, op) \in Upshot
             /\ N(at, cond, op).ok => at.ok
  <2>1. new.name \in Names /\ op \in NameKeeping
    BY DEF Column, NameKeeping, Setting
  <2>2. op # "first_default"
    BY DEF Setting
  <2>. QED BY <2>1, <2>2, IfNamesStay
<1>5. ASSUME first.ok
      PROVE  \E o \in Column : /\ first.columns = others \union {o} /\ o.name = new.name
                               /\ o.type = old.type /\ o.nullable = old.nullable
                               /\ o.default = old.default
                               /\ new.name \notin NamesOf(others)
  <2>1. CASE old.name # new.name
    <3>1. PICK s : s = [op |-> "rename", column |-> old.name, to |-> new]
      OBVIOUS
    <3>2. s \in Script /\ s.op = "rename" /\ s.column = old.name /\ s.to = new
      BY <3>1 DEF Script, Ops, Column
    <3>3. first = Carry(so, s)
      BY <1>1, <2>1, <3>1 DEF IfCarried
    <3>4. first.columns = others \union {Changed(old, s)}
      BY <1>5, <3>2, <3>3, OneChanges
    <3>5. Changed(old, s) \in Column
      BY <3>2, ChangedTyped
    <3>6. /\ Changed(old, s).name = new.name /\ Changed(old, s).type = old.type
          /\ Changed(old, s).nullable = old.nullable /\ Changed(old, s).default = old.default
      BY <3>2 DEF Changed, Column
    <3>7. new.name \notin NamesOf(so.columns)
      BY <1>5, <3>2, <3>3, NameChanges
    <3>8. new.name \notin NamesOf(others)
      BY <3>7 DEF NamesOf
    <3>. QED BY <3>4, <3>5, <3>6, <3>8
  <2>2. CASE old.name = new.name
    <3>1. first = so
      BY <1>1, <2>2 DEF IfCarried
    <3>. QED BY <2>2, <3>1
  <2>. QED BY <2>1, <2>2
<1>. DEFINE One(at, o) == /\ at.columns = others \union {o} /\ o.name = new.name
                          /\ new.name \notin NamesOf(others)
            Set(then, cond, op, o, p) ==
                then.columns = others \union {p} /\ SetBy(cond, op, new, o, p)
<1>6. ASSUME NEW at \in Upshot, NEW cond, NEW op \in Setting,
             NEW o \in Column, One(at, o), N(at, cond, op).ok
      PROVE  \E p \in Column : Set(N(at, cond, op), cond, op, o, p)
  <2>1. o.name = new.name /\ IfCarried(at, cond, op, o.name, new) = N(at, cond, op)
    BY <1>6
  <2>2. /\ at.columns = others \union {o} /\ o.name \notin NamesOf(others)
        /\ IfCarried(at, cond, op, o.name, new).ok
    BY <1>6, <2>1
  <2>3. PICK p \in Column : /\ IfCarried(at, cond, op, o.name, new).columns = others \union {p}
                            /\ SetBy(cond, op, new, o, p)
    BY <2>2, IfOneChanges
  <2>. HIDE DEF N
  <2>. QED BY <2>1, <2>3
<1>7. ASSUME NEW p \in Column, p.name = new.name, p.type = new.type, p.nullable = new.nullable,
             p.default = new.default
      PROVE  p = new
  BY <1>7 DEF Column
<1>8. after.ok
  OBVIOUS
<1>. HIDE DEF N, after, One, Set
<1>9. "modify" \in Setting /\ "type" \in Setting /\ "null" \in Setting /\ "default" \in Setting
  BY DEF Setting
<1>10. CASE speaks = "mysql"
  <2>1. CASE typed \/ nulled
    <3>1. after = N(first, TRUE, "modify")
      BY <1>3, <1>10, <2>1
    <3>2. first.ok
      BY <1>2, <1>4, <1>8, <1>9, <3>1
    <3>3. PICK o \in Column : first.columns = others \union {o} /\ o.name = new.name
                              /\ new.name \notin NamesOf(others)
      BY <1>5, <3>2
    <3>4. PICK p \in Column : Set(after, TRUE, "modify", o, p)
      BY <1>2, <1>6, <1>8, <1>9, <3>1, <3>3 DEF One
    <3>. QED BY <1>7, <3>3, <3>4 DEF after, Set, SetBy
  <2>2. CASE ~(typed \/ nulled)
    <3>1. after = N(first, dflt, "default")
      BY <1>3, <1>10, <2>2
    <3>2. first.ok
      BY <1>2, <1>4, <1>8, <1>9, <3>1
    <3>3. PICK o \in Column : /\ first.columns = others \union {o} /\ o.name = new.name
                              /\ o.type = old.type /\ o.nullable = old.nullable
                              /\ o.default = old.default
                              /\ new.name \notin NamesOf(others)
      BY <1>5, <3>2
    <3>4. PICK p \in Column : Set(after, dflt, "default", o, p)
      BY <1>2, <1>6, <1>8, <1>9, <3>1, <3>3 DEF One
    <3>. QED BY <1>7, <2>2, <3>3, <3>4 DEF after, Set, SetBy, typed, nulled, dflt
  <2>. QED BY <2>1, <2>2
<1>11. CASE speaks = "postgresql"
  <2>1. PICK a : a = N(first, typed, "type")
    OBVIOUS
  <2>2. PICK b : b = N(a, nulled, "null")
    OBVIOUS
  <2>3. after = N(b, dflt, "default")
    BY <1>3, <1>11, <2>1, <2>2
  <2>4. a \in Upshot /\ b \in Upshot
    BY <1>2, <1>4, <1>9, <2>1, <2>2
  <2>5. b.ok /\ a.ok /\ first.ok
    BY <1>2, <1>4, <1>8, <1>9, <2>1, <2>2, <2>3, <2>4
  <2>6. PICK o \in Column : /\ first.columns = others \union {o} /\ o.name = new.name
                            /\ o.type = old.type /\ o.nullable = old.nullable
                            /\ o.default = old.default
                            /\ new.name \notin NamesOf(others)
    BY <1>5, <2>5
  <2>7. PICK p \in Column : Set(a, typed, "type", o, p)
    BY <1>2, <1>6, <1>9, <2>1, <2>5, <2>6 DEF One
  <2>8. One(a, p)
    BY <2>6, <2>7 DEF One, Set, SetBy
  <2>9. PICK r \in Column : Set(b, nulled, "null", p, r)
    BY <1>6, <1>9, <2>2, <2>4, <2>5, <2>8
  <2>10. One(b, r)
    BY <2>8, <2>9 DEF One, Set, SetBy
  <2>11. PICK t \in Column : Set(after, dflt, "default", r, t)
    BY <1>6, <1>8, <1>9, <2>3, <2>4, <2>10
  <2>12. t.type = new.type /\ t.nullable = new.nullable /\ t.default = new.default
    BY <2>6, <2>7, <2>9, <2>11 DEF Set, SetBy, typed, nulled, dflt
  <2>. QED BY <1>7, <2>10, <2>11, <2>12 DEF after, One, Set, SetBy
<1>. QED BY <1>10, <1>11 DEF WholeDialects

-----------------------------------------------------------------------------
(* The list on screen, and what its scripts come to.                       *)

\* The columns of a list but the i-th.
Beside(list, i) == {list[k] : k \in DOMAIN list \ {i}}

LEMMA BesideIs ==
    ASSUME NEW list \in Seq(Column), Distinct(list), NEW i \in DOMAIN list
    PROVE  /\ Beside(list, i) \in SUBSET Column
           /\ ToSet(list) = Beside(list, i) \union {list[i]}
           /\ list[i].name \notin NamesOf(Beside(list, i))
<1>1. \A k \in DOMAIN list : list[k] \in Column
  BY ListIs
<1>2. Beside(list, i) \in SUBSET Column
  BY <1>1 DEF Beside
<1>3. ToSet(list) = Beside(list, i) \union {list[i]}
  BY DEF ToSet, Beside
<1>4. list[i].name \notin NamesOf(Beside(list, i))
  BY DEF NamesOf, Beside, Distinct
<1>. QED BY <1>2, <1>3, <1>4

LEMMA ListEdited ==
    ASSUME NEW list \in Seq(Column), Distinct(list), NEW i \in DOMAIN list, NEW new \in Column
    PROVE  LET edited == [list EXCEPT ![i] = new]
           IN  /\ edited \in Seq(Column)
               /\ ToSet(edited) = Beside(list, i) \union {new}
               /\ Distinct(edited) <=> new.name \notin NamesOf(Beside(list, i))
<1>. DEFINE edited == [list EXCEPT ![i] = new]
<1>1. edited \in Seq(Column)
  BY ExceptSeq, ListIs
<1>2. /\ DOMAIN edited = DOMAIN list /\ edited[i] = new
      /\ \A k \in DOMAIN list \ {i} : edited[k] = list[k]
  OBVIOUS
<1>. HIDE DEF edited
<1>3. ToSet(edited) = Beside(list, i) \union {new}
  BY <1>2 DEF ToSet, Beside
<1>4. Distinct(edited) <=> \A k \in DOMAIN list \ {i} : list[k].name # new.name
  BY <1>2 DEF Distinct
<1>5. new.name \in NamesOf(Beside(list, i)) <=> \E k \in DOMAIN list \ {i} : list[k].name = new.name
  BY DEF NamesOf, Beside
<1>. QED BY <1>1, <1>3, <1>4, <1>5 DEF edited

LEMMA ListDropped ==
    ASSUME NEW list \in Seq(Column), Distinct(list), NEW i \in DOMAIN list
    PROVE  /\ RemoveAt(list, i) \in Seq(Column)
           /\ ToSet(RemoveAt(list, i)) = Beside(list, i)
           /\ Distinct(RemoveAt(list, i))
<1>1. Len(list) \in Nat /\ DOMAIN list = 1..Len(list)
  BY ListIs
<1>2. PICK less \in Seq(Column) :
         /\ less = RemoveAt(list, i)
         /\ DOMAIN less = 1..(Len(list) - 1)
         /\ \A k \in 1..(Len(list) - 1) : less[k] = list[IF k < i THEN k ELSE k + 1]
  BY RemovedAt
<1>3. /\ \A k \in DOMAIN less : \E n \in DOMAIN list : n # i /\ less[k] = list[n]
      /\ \A n \in DOMAIN list : n # i => \E k \in DOMAIN less : less[k] = list[n]
  BY <1>2, RemovedIs
<1>4. ToSet(less) = Beside(list, i)
  BY <1>3 DEF ToSet, Beside
<1>5. ASSUME NEW j \in DOMAIN less, NEW k \in DOMAIN less, j # k
      PROVE  less[j].name # less[k].name
  <2>1. PICK a : a = IF j < i THEN j ELSE j + 1
    OBVIOUS
  <2>2. PICK b : b = IF k < i THEN k ELSE k + 1
    OBVIOUS
  <2>3. a \in DOMAIN list /\ b \in DOMAIN list /\ a # b
    BY <1>1, <1>2, <1>5, <2>1, <2>2
  <2>4. less[j] = list[a] /\ less[k] = list[b]
    BY <1>2, <2>1, <2>2
  <2>. QED BY <2>3, <2>4 DEF Distinct
<1>. QED BY <1>2, <1>4, <1>5 DEF Distinct

LEMMA ListLonger ==
    ASSUME NEW list \in Seq(Column), Distinct(list), NEW new \in Column
    PROVE  /\ Append(list, new) \in Seq(Column)
           /\ ToSet(Append(list, new)) = ToSet(list) \union {new}
           /\ Distinct(Append(list, new)) <=> new.name \notin NamesOf(ToSet(list))
<1>1. Len(list) \in Nat /\ DOMAIN list = 1..Len(list)
  BY ListIs
<1>2. PICK more \in Seq(Column) :
         /\ more = Append(list, new)
         /\ DOMAIN more = 1..(Len(list) + 1)
         /\ \A k \in 1..Len(list) : more[k] = list[k]
         /\ more[Len(list) + 1] = new
  <2>1. /\ Append(list, new) \in Seq(Column) /\ Len(Append(list, new)) = Len(list) + 1
        /\ \A k \in 1..Len(list) : Append(list, new)[k] = list[k]
        /\ Append(list, new)[Len(list) + 1] = new
    BY AppendProperties
  <2>. QED BY <2>1, LenProperties
<1>3. ToSet(more) = ToSet(list) \union {new}
  BY <1>1, <1>2 DEF ToSet
<1>4. Distinct(more) <=> \A k \in DOMAIN list : list[k].name # new.name
  <2>1. DOMAIN more = DOMAIN list \union {Len(list) + 1} /\ Len(list) + 1 \notin DOMAIN list
    BY <1>1, <1>2
  <2>2. \A k \in DOMAIN list : more[k] = list[k]
    BY <1>1, <1>2
  <2>. QED BY <1>2, <2>1, <2>2 DEF Distinct
<1>5. new.name \in NamesOf(ToSet(list)) <=> \E k \in DOMAIN list : list[k].name = new.name
  BY DEF NamesOf, ToSet
<1>. QED BY <1>2, <1>3, <1>4, <1>5

-----------------------------------------------------------------------------
\* What the scripts come to is what the list shows, as far as a dialect goes.
Agrees(speaks, so, list) ==
    IF speaks \in WholeDialects THEN so.columns = ToSet(list)
    ELSE NamesOf(so.columns) = NamesOf(ToSet(list))

Follows(speaks, so, list, clean) ==
    /\ clean => Distinct(list)
    /\ clean /\ speaks # "mssql" => so.ok
    /\ so.ok => Distinct(list) /\ Agrees(speaks, so, list)

LEMMA AgreesOnNames ==
    ASSUME NEW speaks, NEW so, NEW list, Agrees(speaks, so, list)
    PROVE  NamesOf(so.columns) = NamesOf(ToSet(list))
BY DEF Agrees

LEMMA EditFollows ==
    ASSUME NEW so \in Upshot, NEW speaks \in Dialects, NEW list \in Seq(Column),
           NEW clean \in BOOLEAN, Follows(speaks, so, list, clean),
           NEW i \in DOMAIN list, NEW new \in Column
    PROVE  LET edited == [list EXCEPT ![i] = new]
           IN  Follows(speaks, EditCarried(speaks, so, list[i], new), edited,
                       clean /\ Distinct(edited))
<1>1. PICK old \in Column : old = list[i]
  BY ListIs
<1>2. PICK after : after = EditCarried(speaks, so, old, new)
  OBVIOUS
<1>3. PICK edited : edited = [list EXCEPT ![i] = new]
  OBVIOUS
<1>4. PICK others : others = Beside(list, i)
  OBVIOUS
<1>5. Distinct(list) => /\ others \in SUBSET Column
                        /\ ToSet(list) = others \union {old}
                        /\ old.name \notin NamesOf(others)
                        /\ edited \in Seq(Column)
                        /\ ToSet(edited) = others \union {new}
                        /\ Distinct(edited) <=> new.name \notin NamesOf(others)
  <2>. SUFFICES ASSUME Distinct(list)
                PROVE  /\ others \in SUBSET Column
                       /\ ToSet(list) = others \union {old}
                       /\ old.name \notin NamesOf(others)
                       /\ edited \in Seq(Column)
                       /\ ToSet(edited) = others \union {new}
                       /\ Distinct(edited) <=> new.name \notin NamesOf(others)
       OBVIOUS
  <2>1. /\ others \in SUBSET Column
        /\ ToSet(list) = others \union {old}
        /\ old.name \notin NamesOf(others)
    BY <1>1, <1>4, BesideIs
  <2>2. /\ edited \in Seq(Column)
        /\ ToSet(edited) = others \union {new}
        /\ Distinct(edited) <=> new.name \notin NamesOf(others)
    BY <1>3, <1>4, ListEdited
  <2>. QED BY <2>1, <2>2
<1>6. /\ after.ok => /\ so.ok
                     /\ old.name # new.name => new.name \notin NamesOf(so.columns)
                     /\ old.name \in NamesOf(so.columns) =>
                           NamesOf(after.columns) =
                              (NamesOf(so.columns) \ {old.name}) \union {new.name}
      /\ /\ so.ok /\ speaks # "mssql" /\ old.name \in NamesOf(so.columns)
         /\ old.name # new.name => new.name \notin NamesOf(so.columns)
         => after.ok
  <2>1. LET at == EditCarried(speaks, so, old, new)
        IN  /\ at \in Upshot
            /\ at.ok => /\ so.ok
                        /\ old.name # new.name => new.name \notin NamesOf(so.columns)
                        /\ old.name \in NamesOf(so.columns) =>
                              NamesOf(at.columns) =
                                 (NamesOf(so.columns) \ {old.name}) \union {new.name}
            /\ /\ so.ok /\ speaks # "mssql" /\ old.name \in NamesOf(so.columns)
               /\ old.name # new.name => new.name \notin NamesOf(so.columns)
               => at.ok
    BY EditNames
  <2>. QED BY <1>2, <2>1
<1>7. so.ok => /\ Distinct(list) /\ Agrees(speaks, so, list)
               /\ NamesOf(so.columns) = NamesOf(others) \union {old.name}
  <2>1. so.ok => Distinct(list) /\ Agrees(speaks, so, list)
    BY DEF Follows
  <2>2. NamesOf(others \union {old}) = NamesOf(others) \union {old.name}
    BY DEF NamesOf
  <2>. QED BY <1>5, <2>1, <2>2, AgreesOnNames
<1>8. ASSUME after.ok PROVE Distinct(edited) /\ Agrees(speaks, after, edited)
  <2>1. so.ok /\ Distinct(list) /\ NamesOf(so.columns) = NamesOf(others) \union {old.name}
    BY <1>6, <1>7, <1>8
  <2>2. new.name \notin NamesOf(others)
    BY <1>5, <1>6, <1>8, <2>1
  <2>3. Distinct(edited)
    BY <1>5, <2>1, <2>2
  <2>4. CASE speaks \in WholeDialects
    <3>1. so.columns = others \union {old}
      BY <1>5, <1>7, <2>1, <2>4 DEF Agrees
    <3>2. after.columns = others \union {new}
      BY <1>2, <1>5, <1>8, <2>1, <2>4, <3>1, EditWhole
    <3>. QED BY <1>5, <2>1, <2>3, <2>4, <3>2 DEF Agrees
  <2>5. CASE speaks \notin WholeDialects
    <3>1. NamesOf(after.columns) = NamesOf(others) \union {new.name}
      BY <1>5, <1>6, <1>8, <2>1
    <3>2. NamesOf(others \union {new}) = NamesOf(others) \union {new.name}
      BY DEF NamesOf
    <3>. QED BY <1>5, <2>1, <2>3, <2>5, <3>1, <3>2 DEF Agrees
  <2>. QED BY <2>4, <2>5
<1>9. ASSUME clean, Distinct(edited), speaks # "mssql" PROVE after.ok
  <2>1. so.ok
    BY <1>9 DEF Follows
  <2>2. old.name # new.name => new.name \notin NamesOf(so.columns)
    BY <1>5, <1>7, <1>9, <2>1
  <2>. QED BY <1>6, <1>7, <1>9, <2>1, <2>2
<1>10. Follows(speaks, after, edited, clean /\ Distinct(edited))
  BY <1>8, <1>9 DEF Follows
<1>. QED BY <1>1, <1>2, <1>3, <1>10

LEMMA DropFollows ==
    ASSUME NEW so \in Upshot, NEW speaks \in Dialects, NEW list \in Seq(Column),
           NEW clean \in BOOLEAN, Follows(speaks, so, list, clean), NEW i \in DOMAIN list
    PROVE  LET less == RemoveAt(list, i)
           IN  Follows(speaks, IfCarried(so, TRUE, "drop", list[i].name, list[i]), less,
                       clean /\ Distinct(less))
<1>1. PICK old \in Column : old = list[i]
  BY ListIs
<1>2. PICK after : after = IfCarried(so, TRUE, "drop", old.name, old)
  OBVIOUS
<1>3. PICK less : less = RemoveAt(list, i)
  OBVIOUS
<1>4. PICK others : others = Beside(list, i)
  OBVIOUS
<1>5. Distinct(list) => /\ ToSet(list) = others \union {old}
                        /\ old.name \notin NamesOf(others)
                        /\ ToSet(less) = others
                        /\ Distinct(less)
  BY <1>1, <1>3, <1>4, BesideIs, ListDropped
<1>6. PICK s : s = [op |-> "drop", column |-> old.name, to |-> old]
  OBVIOUS
<1>7. /\ s.op = "drop" /\ s.column = old.name
      /\ after = IF so.ok /\ Taken(so.columns, s)
                 THEN [ok |-> TRUE, columns |-> Done(so.columns, s)]
                 ELSE [ok |-> FALSE, columns |-> {}]
  BY <1>2, <1>6, Zenon DEF IfCarried, Carry, Refused
<1>8. /\ Taken(so.columns, s) <=> old.name \in NamesOf(so.columns)
      /\ Done(so.columns, s) = {c \in so.columns : c.name # old.name}
  BY <1>7 DEF Taken, Done, NamesOf
<1>9. so.ok \in BOOLEAN
  BY DEF Upshot
<1>10. /\ after.ok <=> so.ok /\ old.name \in NamesOf(so.columns)
       /\ after.ok => after.columns = {c \in so.columns : c.name # old.name}
  BY <1>7, <1>8, <1>9
<1>11. so.ok => /\ Distinct(list) /\ Agrees(speaks, so, list)
                /\ NamesOf(so.columns) = NamesOf(others) \union {old.name}
  <2>1. so.ok => Distinct(list) /\ Agrees(speaks, so, list)
    BY DEF Follows
  <2>2. NamesOf(others \union {old}) = NamesOf(others) \union {old.name}
    BY DEF NamesOf
  <2>. QED BY <1>5, <2>1, <2>2, AgreesOnNames
<1>12. ASSUME after.ok PROVE Distinct(less) /\ Agrees(speaks, after, less)
  <2>1. /\ so.ok /\ Distinct(list) /\ NamesOf(so.columns) = NamesOf(others) \union {old.name}
        /\ after.columns = {c \in so.columns : c.name # old.name}
    BY <1>10, <1>11, <1>12
  <2>2. CASE speaks \in WholeDialects
    <3>1. so.columns = others \union {old}
      BY <1>5, <1>11, <2>1, <2>2 DEF Agrees
    <3>2. after.columns = others
      BY <1>5, <2>1, <3>1 DEF NamesOf
    <3>. QED BY <1>5, <2>1, <2>2, <3>2 DEF Agrees
  <2>3. CASE speaks \notin WholeDialects
    <3>1. NamesOf(after.columns) = NamesOf(so.columns) \ {old.name}
      BY <2>1 DEF NamesOf
    <3>2. NamesOf(after.columns) = NamesOf(others)
      BY <1>5, <2>1, <3>1
    <3>. QED BY <1>5, <2>1, <2>3, <3>2 DEF Agrees
  <2>. QED BY <2>2, <2>3
<1>13. ASSUME clean, speaks # "mssql" PROVE after.ok
  BY <1>10, <1>11, <1>13 DEF Follows
<1>14. Follows(speaks, after, less, clean /\ Distinct(less))
  BY <1>12, <1>13 DEF Follows
<1>. QED BY <1>1, <1>2, <1>3, <1>14

LEMMA AddFollows ==
    ASSUME NEW so \in Upshot, NEW speaks \in Dialects, NEW list \in Seq(Column),
           NEW clean \in BOOLEAN, Follows(speaks, so, list, clean), NEW new \in Column
    PROVE  LET more == Append(list, new)
           IN  Follows(speaks, IfCarried(so, TRUE, "add", new.name, new), more,
                       clean /\ Distinct(more))
<1>1. PICK after : after = IfCarried(so, TRUE, "add", new.name, new)
  OBVIOUS
<1>2. PICK more : more = Append(list, new)
  OBVIOUS
<1>3. Distinct(list) => /\ ToSet(more) = ToSet(list) \union {new}
                        /\ Distinct(more) <=> new.name \notin NamesOf(ToSet(list))
  BY <1>2, ListLonger
<1>4. PICK s : s = [op |-> "add", column |-> new.name, to |-> new]
  OBVIOUS
<1>5. /\ s.op = "add" /\ s.column = new.name /\ s.to = new
      /\ after = IF so.ok /\ Taken(so.columns, s)
                 THEN [ok |-> TRUE, columns |-> Done(so.columns, s)]
                 ELSE [ok |-> FALSE, columns |-> {}]
  BY <1>1, <1>4, Zenon DEF IfCarried, Carry, Refused
<1>6. /\ Taken(so.columns, s) <=> new.name \notin NamesOf(so.columns)
      /\ Done(so.columns, s) = so.columns \union {new}
  BY <1>5 DEF Taken, Done, NamesOf
<1>7. so.ok \in BOOLEAN
  BY DEF Upshot
<1>8. /\ after.ok <=> so.ok /\ new.name \notin NamesOf(so.columns)
      /\ after.ok => after.columns = so.columns \union {new}
  BY <1>5, <1>6, <1>7
<1>9. so.ok => /\ Distinct(list) /\ Agrees(speaks, so, list)
               /\ NamesOf(so.columns) = NamesOf(ToSet(list))
  BY AgreesOnNames DEF Follows
<1>10. ASSUME after.ok PROVE Distinct(more) /\ Agrees(speaks, after, more)
  <2>1. /\ so.ok /\ Distinct(list) /\ NamesOf(so.columns) = NamesOf(ToSet(list))
        /\ after.columns = so.columns \union {new} /\ Distinct(more)
        /\ ToSet(more) = ToSet(list) \union {new}
    BY <1>3, <1>8, <1>9, <1>10
  <2>2. CASE speaks \in WholeDialects
    BY <1>9, <2>1, <2>2 DEF Agrees
  <2>3. CASE speaks \notin WholeDialects
    <3>1. ASSUME NEW C PROVE NamesOf(C \union {new}) = NamesOf(C) \union {new.name}
      BY DEF NamesOf
    <3>2. NamesOf(after.columns) = NamesOf(ToSet(more))
      BY <2>1, <3>1
    <3>. QED BY <2>1, <2>3, <3>2 DEF Agrees
  <2>. QED BY <2>2, <2>3
<1>11. ASSUME clean, Distinct(more), speaks # "mssql" PROVE after.ok
  <2>1. so.ok /\ Distinct(list)
    BY <1>11 DEF Follows
  <2>. QED BY <1>3, <1>8, <1>9, <1>11, <2>1
<1>12. Follows(speaks, after, more, clean /\ Distinct(more))
  BY <1>10, <1>11 DEF Follows
<1>. QED BY <1>1, <1>2, <1>12

-----------------------------------------------------------------------------
(* The query tabs.                                                         *)

\* Calls for a tab's columns name their table; those that ask for keys are not yet for a
\* tab.
CallsAre(cs) ==
    /\ cs \in Seq(Call)
    /\ \A k \in DOMAIN cs :
          /\ cs[k].kind \in {"keys", "columns"} => cs[k].table \in Tables
          /\ cs[k].kind = "keys" => cs[k].tab = NoTab

\* RunningIsACall, of any tabs and calls.
RunsAreCalls(tabs, cs) ==
    \A i \in DOMAIN tabs : tabs[i].loading => \E k \in DOMAIN cs : cs[k].tab = tabs[i].id

TabsInv ==
    /\ dbType \in [Conns -> Dialects]
    /\ mainTabs \in Seq(QueryTab) /\ opened \in 0..MaxTabs
    /\ CallsAre(calls)
    /\ RunsAreCalls(mainTabs, calls)

\* Tabs that are changed one by one are tabs.
LEMMA ChangedTabs ==
    ASSUME NEW tabs \in Seq(QueryTab), NEW new,
           new = [i \in DOMAIN tabs |-> new[i]],
           \A i \in DOMAIN tabs : new[i] \in QueryTab
    PROVE  new \in Seq(QueryTab) /\ DOMAIN new = DOMAIN tabs
<1>1. Len(tabs) \in Nat /\ DOMAIN tabs = 1..Len(tabs)
  BY ListIs
<1>2. new \in [1..Len(tabs) -> QueryTab]
  BY <1>1
<1> QED
  BY <1>1, <1>2, SeqDef

\* A call more: nothing that was said of the others changes.
LEMMA CallMore ==
    ASSUME NEW cs, CallsAre(cs), NEW call \in Call,
           call.kind \in {"keys", "columns"} => call.table \in Tables,
           call.kind = "keys" => call.tab = NoTab
    PROVE  /\ CallsAre(Append(cs, call))
           /\ \E k \in DOMAIN Append(cs, call) : Append(cs, call)[k] = call
           /\ \A tabs : RunsAreCalls(tabs, cs) => RunsAreCalls(tabs, Append(cs, call))
<1>1. /\ cs \in Seq(Call) /\ Len(cs) \in Nat /\ DOMAIN cs = 1..Len(cs)
  BY ListIs DEF CallsAre
<1>2. /\ Append(cs, call) \in Seq(Call) /\ DOMAIN Append(cs, call) = 1..(Len(cs) + 1)
      /\ \A k \in 1..Len(cs) : Append(cs, call)[k] = cs[k]
      /\ Append(cs, call)[Len(cs) + 1] = call
  BY <1>1, AppendProperties, LenProperties
<1>3. CallsAre(Append(cs, call))
  <2>1. ASSUME NEW k \in DOMAIN Append(cs, call)
        PROVE  LET c == Append(cs, call)[k]
               IN  /\ c.kind \in {"keys", "columns"} => c.table \in Tables
                   /\ c.kind = "keys" => c.tab = NoTab
    <3>1. CASE k = Len(cs) + 1
      BY <1>2, <3>1
    <3>2. CASE k \in 1..Len(cs)
      BY <1>1, <1>2, <3>2 DEF CallsAre
    <3> QED
      BY <1>1, <1>2, <2>1, <3>1, <3>2
  <2> QED
    BY <1>2, <2>1 DEF CallsAre
<1>4. ASSUME NEW tabs, RunsAreCalls(tabs, cs) PROVE RunsAreCalls(tabs, Append(cs, call))
  <2>1. ASSUME NEW k \in DOMAIN cs
        PROVE  k \in DOMAIN Append(cs, call) /\ Append(cs, call)[k] = cs[k]
    BY <1>1, <1>2
  <2> QED
    BY <1>4, <2>1 DEF RunsAreCalls
<1>5. Len(cs) + 1 \in DOMAIN Append(cs, call)
  BY <1>1, <1>2
<1> QED
  BY <1>2, <1>3, <1>4, <1>5

\* The call that is answered goes, and with it only runs of its own tab.
LEMMA CallLess ==
    ASSUME NEW cs, CallsAre(cs), NEW i \in DOMAIN cs,
           NEW tabs, RunsAreCalls(tabs, cs),
           \A n \in DOMAIN tabs : tabs[n].loading => tabs[n].id # cs[i].tab
    PROVE  CallsAre(RemoveAt(cs, i)) /\ RunsAreCalls(tabs, RemoveAt(cs, i))
<1>1. /\ RemoveAt(cs, i) \in Seq(Call)
      /\ \A k \in DOMAIN RemoveAt(cs, i) : \E n \in DOMAIN cs : RemoveAt(cs, i)[k] = cs[n]
      /\ \A n \in DOMAIN cs : n # i =>
            \E k \in DOMAIN RemoveAt(cs, i) : RemoveAt(cs, i)[k] = cs[n]
  BY RemovedIs DEF CallsAre
<1>2. CallsAre(RemoveAt(cs, i))
  BY <1>1 DEF CallsAre
<1>3. ASSUME NEW n \in DOMAIN tabs, tabs[n].loading
      PROVE  \E k \in DOMAIN RemoveAt(cs, i) : RemoveAt(cs, i)[k].tab = tabs[n].id
  <2>1. PICK m \in DOMAIN cs : cs[m].tab = tabs[n].id
    BY <1>3 DEF RunsAreCalls
  <2>2. m # i
    BY <1>3, <2>1
  <2>3. PICK k \in DOMAIN RemoveAt(cs, i) : RemoveAt(cs, i)[k] = cs[m]
    BY <1>1, <2>2
  <2> QED
    BY <2>1, <2>3
<1> QED
  BY <1>2, <1>3 DEF RunsAreCalls

\* The tab of a connection, there already or opened.
LEMMA EnsuredIs ==
    ASSUME TabsInv, NEW c \in Conns, Ensured(c).opened <= MaxTabs
    PROVE  /\ Ensured(c).tabs \in Seq(QueryTab)
           /\ Ensured(c).id \in 1..MaxTabs
           /\ Ensured(c).opened \in 0..MaxTabs
           /\ RunsAreCalls(Ensured(c).tabs, calls)
<1>1. mainTabs \in Seq(QueryTab) /\ opened \in 0..MaxTabs /\ RunsAreCalls(mainTabs, calls)
      /\ Len(mainTabs) \in Nat /\ DOMAIN mainTabs = 1..Len(mainTabs)
      /\ \A k \in DOMAIN mainTabs : mainTabs[k] \in QueryTab
  BY ListIs DEF TabsInv
<1>2. CASE TabsOf(mainTabs, c) # {}
  <2>1. PICK i \in DOMAIN mainTabs : i = CHOOSE n \in TabsOf(mainTabs, c) : TRUE
    BY <1>2 DEF TabsOf
  <2>2. Ensured(c) = [tabs |-> mainTabs, id |-> mainTabs[i].id, opened |-> opened]
    BY <1>2, <2>1 DEF Ensured
  <2>3. mainTabs[i].id \in 1..MaxTabs
    BY <1>1 DEF QueryTab
  <2> QED
    BY <1>1, <2>2, <2>3
<1>3. CASE TabsOf(mainTabs, c) = {}
  <2> DEFINE tab == [id |-> opened + 1, conn |-> c, loading |-> FALSE, sqlPanelOpen |-> FALSE,
                     result |-> NoResult, columnView |-> NoTable]
  <2>1. Ensured(c) = [tabs |-> Append(mainTabs, tab), id |-> opened + 1, opened |-> opened + 1]
    BY <1>3 DEF Ensured
  <2>2. opened + 1 \in 1..MaxTabs
    BY <1>1, <2>1
  <2>3. tab \in QueryTab /\ tab.loading = FALSE
    BY <2>2 DEF QueryTab, NoResult, Results
  <2> HIDE DEF tab
  <2>4. /\ Append(mainTabs, tab) \in Seq(QueryTab)
        /\ DOMAIN Append(mainTabs, tab) = 1..(Len(mainTabs) + 1)
        /\ \A k \in 1..Len(mainTabs) : Append(mainTabs, tab)[k] = mainTabs[k]
        /\ Append(mainTabs, tab)[Len(mainTabs) + 1] = tab
    BY <1>1, <2>3, AppendProperties, LenProperties
  <2>5. RunsAreCalls(Append(mainTabs, tab), calls)
    <3>1. ASSUME NEW n \in DOMAIN Append(mainTabs, tab), Append(mainTabs, tab)[n].loading
          PROVE  n \in DOMAIN mainTabs /\ Append(mainTabs, tab)[n] = mainTabs[n]
      BY <1>1, <2>3, <2>4, <3>1
    <3> QED
      BY <1>1, <3>1 DEF RunsAreCalls
  <2> QED
    BY <2>1, <2>2, <2>4, <2>5
<1> QED
  BY <1>2, <1>3

\* A run starts in a tab, with a call for it.
LEMMA BegunIs ==
    ASSUME NEW tabs \in Seq(QueryTab), NEW cs, CallsAre(cs), RunsAreCalls(tabs, cs),
           NEW id \in 1..MaxTabs, NEW seen \in Tables \union {NoTable},
           NEW call \in Call, call.kind # "keys", call.kind = "columns" => call.table \in Tables,
           call.tab = id
    PROVE  /\ Begun(tabs, id, seen) \in Seq(QueryTab)
           /\ CallsAre(Append(cs, call))
           /\ RunsAreCalls(Begun(tabs, id, seen), Append(cs, call))
<1> DEFINE new == Begun(tabs, id, seen)
           Patched(tab) == [tab EXCEPT !.loading = TRUE, !.result = NoResult, !.columnView = seen,
                                       !.sqlPanelOpen = TRUE]
<1>1. new = [i \in DOMAIN tabs |-> IF tabs[i].id = id THEN Patched(tabs[i]) ELSE tabs[i]]
  BY DEF Begun, Updated
<1>2. ASSUME NEW tab \in QueryTab PROVE Patched(tab) \in QueryTab /\ Patched(tab).id = tab.id
  <2>1. NoResult \in Results
    BY DEF NoResult, Results
  <2> QED
    BY <2>1 DEF QueryTab
<1> HIDE DEF new, Patched
<1>3. \A i \in DOMAIN tabs : tabs[i] \in QueryTab
  BY ListIs
<1>4. /\ new \in Seq(QueryTab) /\ DOMAIN new = DOMAIN tabs
      /\ \A i \in DOMAIN tabs :
            /\ new[i].id = tabs[i].id
            /\ tabs[i].id # id => new[i] = tabs[i]
  <2>1. new = [i \in DOMAIN tabs |-> new[i]]
    BY <1>1
  <2>2. \A i \in DOMAIN tabs : new[i] = IF tabs[i].id = id THEN Patched(tabs[i]) ELSE tabs[i]
    BY <1>1
  <2>3. \A i \in DOMAIN tabs : new[i] \in QueryTab
    BY <1>2, <1>3, <2>2
  <2> QED
    BY <1>2, <1>3, <2>1, <2>2, <2>3, ChangedTabs
<1>5. /\ CallsAre(Append(cs, call)) /\ RunsAreCalls(tabs, Append(cs, call))
      /\ \E k \in DOMAIN Append(cs, call) : Append(cs, call)[k] = call
  BY CallMore
<1>6. RunsAreCalls(new, Append(cs, call))
  <2> SUFFICES ASSUME NEW i \in DOMAIN tabs, new[i].loading
               PROVE  \E k \in DOMAIN Append(cs, call) : Append(cs, call)[k].tab = new[i].id
    BY <1>4 DEF RunsAreCalls
  <2>1. CASE tabs[i].id = id
    BY <1>4, <1>5, <2>1
  <2>2. CASE tabs[i].id # id
    <3>1. new[i] = tabs[i]
      BY <1>4, <2>2
    <3> QED
      BY <1>5, <3>1 DEF RunsAreCalls
  <2> QED
    BY <2>1, <2>2
<1> QED
  BY <1>4, <1>5, <1>6 DEF new

\* A patch that leaves every tab its id and begins no run.
LEMMA PatchedIs ==
    ASSUME NEW tabs \in Seq(QueryTab), NEW cs, RunsAreCalls(tabs, cs),
           NEW new \in [DOMAIN tabs -> QueryTab],
           \A i \in DOMAIN tabs : new[i].id = tabs[i].id /\ (new[i].loading => tabs[i].loading)
    PROVE  new \in Seq(QueryTab) /\ DOMAIN new = DOMAIN tabs /\ RunsAreCalls(new, cs)
<1>1. new \in Seq(QueryTab) /\ DOMAIN new = DOMAIN tabs
  BY ChangedTabs
<1> QED
  BY <1>1 DEF RunsAreCalls

\* The answer of a call ends the run of its tab and goes with the call.
LEMMA PutsKeeps ==
    ASSUME TabsInv, NEW i \in DOMAIN calls, NEW result \in Results, Puts(i, result)
    PROVE  TabsInv'
<1> DEFINE Patched(tab) == [tab EXCEPT !.loading = FALSE, !.result = result]
           new == Updated(mainTabs, calls[i].tab, LAMBDA tab :
                              [tab EXCEPT !.loading = FALSE, !.result = result])
<1>1. /\ mainTabs' = new /\ calls' = RemoveAt(calls, i) /\ opened' = opened /\ dbType' = dbType
      /\ new = [n \in DOMAIN mainTabs |-> IF mainTabs[n].id = calls[i].tab
                                          THEN Patched(mainTabs[n]) ELSE mainTabs[n]]
  <2>1. mainTabs' = new /\ calls' = RemoveAt(calls, i) /\ opened' = opened /\ dbType' = dbType
    BY DEF Puts, Become
  <2>2. new = [n \in DOMAIN mainTabs |-> IF mainTabs[n].id = calls[i].tab
                                        THEN Patched(mainTabs[n]) ELSE mainTabs[n]]
    BY DEF Updated
  <2> HIDE DEF new, Patched
  <2> QED
    BY <2>1, <2>2
<1>2. ASSUME NEW tab \in QueryTab
      PROVE  Patched(tab) \in QueryTab /\ Patched(tab).id = tab.id /\ Patched(tab).loading = FALSE
  BY DEF QueryTab
<1> HIDE DEF Patched, new
<1>3. mainTabs \in Seq(QueryTab) /\ \A n \in DOMAIN mainTabs : mainTabs[n] \in QueryTab
  BY ListIs DEF TabsInv
<1>4. ASSUME NEW n \in DOMAIN mainTabs
      PROVE  /\ mainTabs'[n] \in QueryTab /\ mainTabs'[n].id = mainTabs[n].id
             /\ mainTabs'[n].loading =>
                   mainTabs[n].loading /\ mainTabs[n].id # calls[i].tab
  <2>1. mainTabs'[n] = IF mainTabs[n].id = calls[i].tab THEN Patched(mainTabs[n]) ELSE mainTabs[n]
    BY <1>1
  <2> QED
    BY <1>2, <1>3, <2>1
<1>5. mainTabs' \in [DOMAIN mainTabs -> QueryTab]
  <2>1. mainTabs' = [n \in DOMAIN mainTabs |-> mainTabs'[n]]
    BY <1>1
  <2> QED
    BY <1>4, <2>1
<1>6. /\ mainTabs' \in Seq(QueryTab) /\ DOMAIN mainTabs' = DOMAIN mainTabs
      /\ \A n \in DOMAIN mainTabs : mainTabs'[n].loading => mainTabs'[n].id # calls[i].tab
      /\ RunsAreCalls(mainTabs', calls)
  <2>1. RunsAreCalls(mainTabs, calls)
    BY DEF TabsInv
  <2> QED
    BY <1>3, <1>4, <1>5, <2>1, PatchedIs
<1>7. CallsAre(calls)
  BY DEF TabsInv
<1>8. CallsAre(calls') /\ RunsAreCalls(mainTabs', calls')
  BY <1>1, <1>6, <1>7, CallLess
<1> QED
  BY <1>1, <1>6, <1>8 DEF TabsInv

\* handleViewRows and handleViewColumns.
LEMMA StartsKeeps ==
    ASSUME TabsInv, NEW t \in Tables, NEW kind \in {"rows", "columns"},
           NEW seen \in Tables \union {NoTable}, Starts(ConnOf[t], kind, t, seen)
    PROVE  TabsInv'
<1>1. ConnOf[t] \in Conns
  BY TablesAssumption
<1>2. PICK e : e = Ensured(ConnOf[t])
  OBVIOUS
<1> DEFINE call == [tab |-> e.id, kind |-> kind, table |-> t]
<1>3. /\ e.opened <= MaxTabs /\ opened' = e.opened /\ dbType' = dbType
      /\ mainTabs' = Begun(e.tabs, e.id, seen) /\ calls' = Append(calls, call)
  BY <1>2 DEF Starts, Become, Calls
<1>4. /\ e.tabs \in Seq(QueryTab) /\ e.id \in 1..MaxTabs /\ e.opened \in 0..MaxTabs
      /\ RunsAreCalls(e.tabs, calls)
  BY <1>1, <1>2, <1>3, EnsuredIs
<1>5. call \in Call /\ call.kind # "keys" /\ call.table \in Tables /\ call.tab = e.id
  BY <1>4, TablesAssumption DEF Call
<1> HIDE DEF call
<1>6. CallsAre(calls)
  BY DEF TabsInv
<1>7. /\ mainTabs' \in Seq(QueryTab) /\ CallsAre(calls') /\ RunsAreCalls(mainTabs', calls')
  BY <1>3, <1>4, <1>5, <1>6, BegunIs
<1> QED
  BY <1>3, <1>4, <1>7 DEF TabsInv

\* The keys of the latest rows have come: the rows are asked for.
LEMMA KeysKeep ==
    ASSUME TabsInv, NEW i \in DOMAIN calls, KeysCame(i)
    PROVE  TabsInv'
<1>1. calls[i].kind = "keys" /\ calls[i].tab = NoTab /\ calls[i].table \in Tables
      /\ CallsAre(calls)
  BY DEF KeysCame, TabsInv, CallsAre
<1>2. PICK t \in Tables : t = calls[i].table
  BY <1>1
<1>3. ConnOf[t] \in Conns
  BY TablesAssumption
<1>4. PICK e : e = Ensured(ConnOf[t])
  OBVIOUS
<1>5. PICK left : left = RemoveAt(calls, i)
  OBVIOUS
<1> DEFINE call == [tab |-> e.id, kind |-> "rows", table |-> t]
<1>6. /\ e.opened <= MaxTabs /\ opened' = e.opened /\ dbType' = dbType
      /\ mainTabs' = Begun(e.tabs, e.id, NoTable) /\ calls' = Append(left, call)
  BY <1>2, <1>4, <1>5 DEF KeysCame, Become
<1>7. /\ e.tabs \in Seq(QueryTab) /\ e.id \in 1..MaxTabs /\ e.opened \in 0..MaxTabs
      /\ RunsAreCalls(e.tabs, calls)
  BY <1>3, <1>4, <1>6, EnsuredIs
<1>8. call \in Call /\ call.kind # "keys" /\ call.table \in Tables /\ call.tab = e.id
      /\ call.kind # "columns"
  BY <1>7, TablesAssumption DEF Call
<1> HIDE DEF call
<1>9. \A n \in DOMAIN e.tabs : e.tabs[n].id # NoTab
  <2>1. \A n \in DOMAIN e.tabs : e.tabs[n] \in QueryTab
    BY <1>7, ListIs
  <2> QED
    BY <2>1, TablesAssumption DEF QueryTab, NoTab
<1>10. CallsAre(left) /\ RunsAreCalls(e.tabs, left)
  BY <1>1, <1>5, <1>7, <1>9, CallLess
<1>11. /\ mainTabs' \in Seq(QueryTab) /\ CallsAre(calls') /\ RunsAreCalls(mainTabs', calls')
  BY <1>6, <1>7, <1>8, <1>10, BegunIs
<1> QED
  BY <1>6, <1>7, <1>11 DEF TabsInv

\* The columns could not be had: the run of the tab ends with the call.
LEMMA FailedKeeps ==
    ASSUME TabsInv, NEW i \in DOMAIN calls, ColumnsFailed(i)
    PROVE  TabsInv'
<1> DEFINE Patched(tab) == [tab EXCEPT !.loading = FALSE]
           new == Updated(mainTabs, calls[i].tab, LAMBDA tab : [tab EXCEPT !.loading = FALSE])
<1>1. /\ mainTabs' = new /\ calls' = RemoveAt(calls, i) /\ opened' = opened /\ dbType' = dbType
      /\ new = [n \in DOMAIN mainTabs |-> IF mainTabs[n].id = calls[i].tab
                                          THEN Patched(mainTabs[n]) ELSE mainTabs[n]]
  <2>1. mainTabs' = new /\ calls' = RemoveAt(calls, i) /\ opened' = opened /\ dbType' = dbType
    BY DEF ColumnsFailed, Become
  <2>2. new = [n \in DOMAIN mainTabs |-> IF mainTabs[n].id = calls[i].tab
                                        THEN Patched(mainTabs[n]) ELSE mainTabs[n]]
    BY DEF Updated
  <2> HIDE DEF new, Patched
  <2> QED
    BY <2>1, <2>2
<1>2. ASSUME NEW tab \in QueryTab
      PROVE  Patched(tab) \in QueryTab /\ Patched(tab).id = tab.id /\ Patched(tab).loading = FALSE
  BY DEF QueryTab
<1> HIDE DEF Patched, new
<1>3. mainTabs \in Seq(QueryTab) /\ \A n \in DOMAIN mainTabs : mainTabs[n] \in QueryTab
  BY ListIs DEF TabsInv
<1>4. ASSUME NEW n \in DOMAIN mainTabs
      PROVE  /\ mainTabs'[n] \in QueryTab /\ mainTabs'[n].id = mainTabs[n].id
             /\ mainTabs'[n].loading =>
                   mainTabs[n].loading /\ mainTabs[n].id # calls[i].tab
  <2>1. mainTabs'[n] = IF mainTabs[n].id = calls[i].tab THEN Patched(mainTabs[n]) ELSE mainTabs[n]
    BY <1>1
  <2> QED
    BY <1>2, <1>3, <2>1
<1>5. mainTabs' \in [DOMAIN mainTabs -> QueryTab]
  <2>1. mainTabs' = [n \in DOMAIN mainTabs |-> mainTabs'[n]]
    BY <1>1
  <2> QED
    BY <1>4, <2>1
<1>6. /\ mainTabs' \in Seq(QueryTab) /\ DOMAIN mainTabs' = DOMAIN mainTabs
      /\ \A n \in DOMAIN mainTabs : mainTabs'[n].loading => mainTabs'[n].id # calls[i].tab
      /\ RunsAreCalls(mainTabs', calls)
  <2>1. RunsAreCalls(mainTabs, calls)
    BY DEF TabsInv
  <2> QED
    BY <1>3, <1>4, <1>5, <2>1, PatchedIs
<1>7. CallsAre(calls)
  BY DEF TabsInv
<1>8. CallsAre(calls') /\ RunsAreCalls(mainTabs', calls')
  BY <1>1, <1>6, <1>7, CallLess
<1> QED
  BY <1>1, <1>6, <1>8 DEF TabsInv

\* toggleSqlPanel: the panel is all that changes.
LEMMA ToggledKeeps ==
    ASSUME TabsInv, NEW c \in Conns, ToggleSqlPanel(c)
    PROVE  TabsInv'
<1>1. PICK e : e = Ensured(c)
  OBVIOUS
<1> DEFINE Patched(tab) == [tab EXCEPT !.sqlPanelOpen = ~@]
           new == Updated(e.tabs, e.id, LAMBDA tab : [tab EXCEPT !.sqlPanelOpen = ~@])
<1>2. /\ mainTabs' = new /\ calls' = calls /\ opened' = e.opened /\ dbType' = dbType
      /\ e.opened <= MaxTabs
      /\ new = [n \in DOMAIN e.tabs |-> IF e.tabs[n].id = e.id
                                        THEN Patched(e.tabs[n]) ELSE e.tabs[n]]
  <2>1. /\ mainTabs' = new /\ calls' = calls /\ opened' = e.opened /\ dbType' = dbType
        /\ e.opened <= MaxTabs
    BY <1>1 DEF ToggleSqlPanel, Become
  <2>2. new = [n \in DOMAIN e.tabs |-> IF e.tabs[n].id = e.id
                                      THEN Patched(e.tabs[n]) ELSE e.tabs[n]]
    BY DEF Updated
  <2> HIDE DEF new, Patched
  <2> QED
    BY <2>1, <2>2
<1>3. ASSUME NEW tab \in QueryTab
      PROVE  Patched(tab) \in QueryTab /\ Patched(tab).id = tab.id
             /\ Patched(tab).loading = tab.loading
  BY DEF QueryTab
<1> HIDE DEF Patched, new
<1>4. /\ e.tabs \in Seq(QueryTab) /\ e.opened \in 0..MaxTabs /\ RunsAreCalls(e.tabs, calls)
      /\ \A n \in DOMAIN e.tabs : e.tabs[n] \in QueryTab
  BY <1>1, <1>2, EnsuredIs, ListIs
<1>5. ASSUME NEW n \in DOMAIN e.tabs
      PROVE  /\ mainTabs'[n] \in QueryTab /\ mainTabs'[n].id = e.tabs[n].id
             /\ mainTabs'[n].loading => e.tabs[n].loading
  <2>1. mainTabs'[n] = IF e.tabs[n].id = e.id THEN Patched(e.tabs[n]) ELSE e.tabs[n]
    BY <1>2
  <2> QED
    BY <1>3, <1>4, <2>1
<1>6. mainTabs' \in [DOMAIN e.tabs -> QueryTab]
  <2>1. mainTabs' = [n \in DOMAIN e.tabs |-> mainTabs'[n]]
    BY <1>2
  <2> QED
    BY <1>5, <2>1
<1>7. mainTabs' \in Seq(QueryTab) /\ RunsAreCalls(mainTabs', calls)
  BY <1>4, <1>5, <1>6, PatchedIs
<1> QED
  BY <1>2, <1>4, <1>7 DEF TabsInv

\* agent_query_applied: a run of the tab goes on.
LEMMA AgentKeeps ==
    ASSUME TabsInv, NEW c \in Conns, AgentQuery(c)
    PROVE  TabsInv'
<1>1. PICK e : e = Ensured(c)
  OBVIOUS
<1> DEFINE Patched(tab) == [tab EXCEPT !.result = [kind |-> "rows"], !.sqlPanelOpen = TRUE,
                                       !.columnView = NoTable]
           new == Updated(e.tabs, e.id, LAMBDA tab :
                              [tab EXCEPT !.result = [kind |-> "rows"], !.sqlPanelOpen = TRUE,
                                          !.columnView = NoTable])
<1>2. /\ mainTabs' = new /\ calls' = calls /\ opened' = e.opened /\ dbType' = dbType
      /\ e.opened <= MaxTabs
      /\ new = [n \in DOMAIN e.tabs |-> IF e.tabs[n].id = e.id
                                        THEN Patched(e.tabs[n]) ELSE e.tabs[n]]
  <2>1. /\ mainTabs' = new /\ calls' = calls /\ opened' = e.opened /\ dbType' = dbType
        /\ e.opened <= MaxTabs
    BY <1>1 DEF AgentQuery, Become
  <2>2. new = [n \in DOMAIN e.tabs |-> IF e.tabs[n].id = e.id
                                      THEN Patched(e.tabs[n]) ELSE e.tabs[n]]
    BY DEF Updated
  <2> HIDE DEF new, Patched
  <2> QED
    BY <2>1, <2>2
<1>3. ASSUME NEW tab \in QueryTab
      PROVE  Patched(tab) \in QueryTab /\ Patched(tab).id = tab.id
             /\ Patched(tab).loading = tab.loading
  <2>1. [kind |-> "rows"] \in Results
    BY DEF Results
  <2> QED
    BY <2>1 DEF QueryTab
<1> HIDE DEF Patched, new
<1>4. /\ e.tabs \in Seq(QueryTab) /\ e.opened \in 0..MaxTabs /\ RunsAreCalls(e.tabs, calls)
      /\ \A n \in DOMAIN e.tabs : e.tabs[n] \in QueryTab
  BY <1>1, <1>2, EnsuredIs, ListIs
<1>5. ASSUME NEW n \in DOMAIN e.tabs
      PROVE  /\ mainTabs'[n] \in QueryTab /\ mainTabs'[n].id = e.tabs[n].id
             /\ mainTabs'[n].loading => e.tabs[n].loading
  <2>1. mainTabs'[n] = IF e.tabs[n].id = e.id THEN Patched(e.tabs[n]) ELSE e.tabs[n]
    BY <1>2
  <2> QED
    BY <1>3, <1>4, <2>1
<1>6. mainTabs' \in [DOMAIN e.tabs -> QueryTab]
  <2>1. mainTabs' = [n \in DOMAIN e.tabs |-> mainTabs'[n]]
    BY <1>2
  <2> QED
    BY <1>5, <2>1
<1>7. mainTabs' \in Seq(QueryTab) /\ RunsAreCalls(mainTabs', calls)
  BY <1>4, <1>5, <1>6, PatchedIs
<1> QED
  BY <1>2, <1>4, <1>7 DEF TabsInv

LEMMA WhenTyped ==
    ASSUME NEW cond, NEW op \in Ops, NEW name \in Names, NEW to \in Column
    PROVE  When(cond, op, name, to) \in Seq(Script)
<1>1. [op |-> op, column |-> name, to |-> to] \in Script
  BY DEF Script
<1> QED
  BY <1>1 DEF When

\* The scripts of an edit, a drop and an addition, in any dialect.
LEMMA ScriptsTyped ==
    ASSUME NEW speaks, NEW old \in Column, NEW new \in Column
    PROVE  /\ EditScripts(speaks, old, new) \in Seq(Script)
           /\ DropScripts(old) \in Seq(Script) /\ AddScripts(new) \in Seq(Script)
<1>1. old.name \in Names /\ new.name \in Names
  BY DEF Column
<1>2. "rename" \in Ops /\ "drop" \in Ops /\ "add" \in Ops /\ "modify" \in Ops
      /\ "default" \in Ops /\ "type" \in Ops /\ "null" \in Ops /\ "nothing" \in Ops
      /\ "type_and_null" \in Ops /\ "first_default" \in Ops
  BY DEF Ops
<1>3. DropScripts(old) \in Seq(Script) /\ AddScripts(new) \in Seq(Script)
  BY <1>1, <1>2, WhenTyped, Zenon DEF DropScripts, AddScripts
<1>4. EditScripts(speaks, old, new) \in Seq(Script)
  <2> DEFINE typed == old.type # new.type
             nulled == old.nullable # new.nullable
             dflt == old.default # new.default
             N(cond, op) == When(cond, op, new.name, new)
             first == When(old.name # new.name, "rename", old.name, new)
             modified == N(TRUE, "modify")
             mydefault == N(dflt, "default")
             retyped == N(typed, "type")
             renulled == N(nulled, "null")
             nothing == N(typed \/ nulled \/ dflt, "nothing")
             altered == N(typed \/ nulled, "type_and_null")
             added == N(dflt /\ new.default # NoDefault, "first_default")
  <2>1. EditScripts(speaks, old, new) =
          first \o
            CASE speaks = "mysql" -> IF typed \/ nulled THEN modified ELSE mydefault
              [] speaks = "postgresql" -> retyped \o renulled \o mydefault
              [] speaks = "sqlite" -> nothing
              [] speaks = "mssql" -> altered \o added
              [] OTHER -> retyped
    BY DEF EditScripts
  <2>2. first \in Seq(Script)
    BY <1>1, <1>2, WhenTyped, Zenon
  <2>3. modified \in Seq(Script) /\ mydefault \in Seq(Script)
    BY <1>1, <1>2, WhenTyped, Zenon
  <2>4. retyped \in Seq(Script) /\ renulled \in Seq(Script)
    BY <1>1, <1>2, WhenTyped, Zenon
  <2>5. nothing \in Seq(Script)
    BY <1>1, <1>2, WhenTyped, Zenon
  <2>6. altered \in Seq(Script) /\ added \in Seq(Script)
    BY <1>1, <1>2, WhenTyped, Zenon
  <2> HIDE DEF first, modified, mydefault, retyped, renulled, nothing, altered, added, typed, nulled
  <2>7. retyped \o renulled \in Seq(Script) /\ altered \o added \in Seq(Script)
    BY <2>4, <2>6, ConcatProperties
  <2>8. retyped \o renulled \o mydefault \in Seq(Script)
    BY <2>3, <2>7, ConcatProperties
  <2>9. PICK rest \in Seq(Script) : EditScripts(speaks, old, new) = first \o rest
    BY <2>1, <2>3, <2>4, <2>5, <2>7, <2>8
  <2> QED
    BY <2>2, <2>9, ConcatProperties
<1> QED
  BY <1>3, <1>4

\* The list of columns that is shown is a list of columns.
LEMMA ListShown ==
    ASSUME TabsInv, isColumnView
    PROVE  rows \in Seq(Column)
<1>1. mainTabs \in Seq(QueryTab) /\ \A n \in DOMAIN mainTabs : mainTabs[n] \in QueryTab
  BY ListIs DEF TabsInv
<1>2. shown.id # NoTab /\ shown.result.kind = "columns"
  BY DEF isColumnView
<1>3. PICK n \in DOMAIN mainTabs : shown = mainTabs[n]
  BY <1>2 DEF shown, TabAt
<1>4. shown.result \in Results
  BY <1>1, <1>3 DEF QueryTab
<1> QED
  BY <1>2, <1>4 DEF rows, Results

\* Scripts are written and the list changed: no run begins or ends.
LEMMA WritesKeep ==
    ASSUME TabsInv, NEW scripts \in Seq(Script), NEW changed \in Seq(Column), NEW g,
           Writes(scripts, changed, g)
    PROVE  TabsInv'
<1>1. PICK id : id = shown.id
  OBVIOUS
<1>2. PICK distinct \in BOOLEAN : distinct = Distinct(changed)
  BY DEF Distinct
<1> DEFINE Patched(tab) == [tab EXCEPT !.result.rows = changed, !.result.made = @ \o scripts,
                                       !.result.clean = @ /\ distinct]
           new == Updated(mainTabs, id, LAMBDA tab :
                              [tab EXCEPT !.result.rows = changed, !.result.made = @ \o scripts,
                                          !.result.clean = @ /\ distinct])
<1>3. /\ mainTabs' = new /\ calls' = calls /\ opened' = opened /\ dbType' = dbType
      /\ new = [n \in DOMAIN mainTabs |-> IF mainTabs[n].id = id
                                          THEN Patched(mainTabs[n]) ELSE mainTabs[n]]
  <2>1. mainTabs' = new /\ calls' = calls /\ opened' = opened /\ dbType' = dbType
    BY <1>1, <1>2 DEF Writes
  <2>2. new = [n \in DOMAIN mainTabs |-> IF mainTabs[n].id = id
                                        THEN Patched(mainTabs[n]) ELSE mainTabs[n]]
    BY DEF Updated
  <2> HIDE DEF new, Patched
  <2> QED
    BY <2>1, <2>2
<1>4. ASSUME NEW tab \in QueryTab
      PROVE  Patched(tab) \in QueryTab /\ Patched(tab).id = tab.id
             /\ Patched(tab).loading = tab.loading
  <2> DEFINE r == [tab.result EXCEPT !.rows = changed, !.made = @ \o scripts,
                                     !.clean = @ /\ distinct]
  <2>1. r \in Results
    <3>1. CASE tab.result \in [kind : {"none", "rows", "error"}]
      BY <3>1 DEF Results
    <3>2. CASE tab.result \in [kind : {"columns"}, of : Tables, rows : Seq(Column),
                               made : Seq(Script), clean : BOOLEAN]
      <4>1. PICK made \in Seq(Script) : made = tab.result.made \o scripts
        BY <3>2, ConcatProperties
      <4> QED
        BY <1>2, <3>2, <4>1 DEF Results
    <3> QED
      BY <3>1, <3>2 DEF QueryTab, Results
  <2>2. Patched(tab) = [tab EXCEPT !.result = r]
    BY DEF QueryTab
  <2> HIDE DEF r, Patched
  <2> QED
    BY <2>1, <2>2 DEF QueryTab
<1> HIDE DEF Patched, new
<1>5. mainTabs \in Seq(QueryTab) /\ RunsAreCalls(mainTabs, calls)
      /\ \A n \in DOMAIN mainTabs : mainTabs[n] \in QueryTab
  BY ListIs DEF TabsInv
<1>6. ASSUME NEW n \in DOMAIN mainTabs
      PROVE  /\ mainTabs'[n] \in QueryTab /\ mainTabs'[n].id = mainTabs[n].id
             /\ mainTabs'[n].loading => mainTabs[n].loading
  <2>1. mainTabs'[n] = IF mainTabs[n].id = id THEN Patched(mainTabs[n]) ELSE mainTabs[n]
    BY <1>3
  <2> QED
    BY <1>4, <1>5, <2>1
<1>7. mainTabs' \in [DOMAIN mainTabs -> QueryTab]
  <2>1. mainTabs' = [n \in DOMAIN mainTabs |-> mainTabs'[n]]
    BY <1>3
  <2> QED
    BY <1>6, <2>1
<1>8. mainTabs' \in Seq(QueryTab) /\ RunsAreCalls(mainTabs', calls)
  BY <1>5, <1>6, <1>7, PatchedIs
<1> QED
  BY <1>3, <1>8 DEF TabsInv

\* Of what the tree asks for.
LEMMA TreeKeeps ==
    ASSUME TabsInv, NEW t \in Tables, ViewRows(t) \/ ViewLatest(t) \/ ViewColumns(t)
    PROVE  TabsInv'
<1>1. CASE ViewRows(t)
  <2>1. Starts(ConnOf[t], "rows", t, NoTable)
    BY <1>1 DEF ViewRows
  <2> QED
    BY <2>1, StartsKeeps
<1>2. CASE ViewColumns(t)
  <2>1. Starts(ConnOf[t], "columns", t, t)
    BY <1>2 DEF ViewColumns
  <2> QED
    BY <2>1, StartsKeeps
<1>3. CASE ViewLatest(t)
  <2> DEFINE call == [tab |-> NoTab, kind |-> "keys", table |-> t]
  <2>1. /\ calls' = Append(calls, call) /\ mainTabs' = mainTabs
        /\ opened' = opened /\ dbType' = dbType
    BY <1>3 DEF ViewLatest, Calls
  <2>2. call \in Call /\ call.table \in Tables /\ call.tab = NoTab
    BY TablesAssumption DEF Call, NoTab
  <2> HIDE DEF call
  <2>3. CallsAre(calls) /\ RunsAreCalls(mainTabs, calls)
    BY DEF TabsInv
  <2>4. CallsAre(Append(calls, call)) /\ RunsAreCalls(mainTabs, Append(calls, call))
    BY <2>2, <2>3, CallMore
  <2> QED
    BY <2>1, <2>4 DEF TabsInv
<1> QED
  BY <1>1, <1>2, <1>3

\* runQuery
LEMMA RunKeeps ==
    ASSUME TabsInv, Run
    PROVE  TabsInv'
<1>1. PICK id : id = shown.id
  OBVIOUS
<1> DEFINE call == [tab |-> id, kind |-> "run", table |-> NoTable]
<1>2. /\ mainTabs' = Begun(mainTabs, id, NoTable) /\ calls' = Append(calls, call)
      /\ opened' = opened /\ dbType' = dbType /\ id # NoTab
  BY <1>1 DEF Run, Become, Calls
<1>3. mainTabs \in Seq(QueryTab) /\ CallsAre(calls) /\ RunsAreCalls(mainTabs, calls)
      /\ \A n \in DOMAIN mainTabs : mainTabs[n] \in QueryTab
  BY ListIs DEF TabsInv
<1>4. PICK n \in DOMAIN mainTabs : shown = mainTabs[n]
  BY <1>1, <1>2 DEF shown, TabAt
<1>5. id \in 1..MaxTabs
  BY <1>1, <1>3, <1>4 DEF QueryTab
<1>6. call \in Call /\ call.kind # "keys" /\ call.kind # "columns" /\ call.tab = id
  BY <1>5, TablesAssumption DEF Call
<1> HIDE DEF call
<1>7. mainTabs' \in Seq(QueryTab) /\ CallsAre(calls') /\ RunsAreCalls(mainTabs', calls')
  BY <1>2, <1>3, <1>5, <1>6, BegunIs
<1> QED
  BY <1>2, <1>7 DEF TabsInv

\* Of an answer.
LEMMA AnswersKeep ==
    ASSUME TabsInv, NEW i \in DOMAIN calls,
           RowsCame(i) \/ ColumnsCame(i) \/ ColumnsFailed(i) \/ KeysCame(i)
    PROVE  TabsInv'
<1>1. CASE RowsCame(i)
  <2>1. [kind |-> "rows"] \in Results /\ [kind |-> "error"] \in Results
    BY DEF Results
  <2>2. PICK result \in Results : Puts(i, result)
    BY <1>1, <2>1 DEF RowsCame
  <2> QED
    BY <2>2, PutsKeeps
<1>2. CASE ColumnsCame(i)
  <2>1. calls[i].table \in Tables
    BY <1>2 DEF ColumnsCame, TabsInv, CallsAre
  <2>2. Described(calls[i].table) \in Results
    <3>1. PICK t \in Tables : t = calls[i].table
      BY <2>1
    <3>2. ColumnsOf[t] \in Seq(Column)
      BY TablesAssumption
    <3>3. Described(t) \in Results
      BY <3>2 DEF Described, Results
    <3> QED
      BY <3>1, <3>3
  <2>3. Puts(i, Described(calls[i].table))
    BY <1>2 DEF ColumnsCame
  <2> QED
    BY <2>2, <2>3, PutsKeeps
<1> QED
  BY <1>1, <1>2, FailedKeeps, KeysKeep

\* Of tabs that come, go and are shown.
LEMMA TabKeeps ==
    ASSUME TabsInv,
           \/ \E c \in Conns : FocusConnection(c) \/ BrowseDatabase(c) \/ ToggleSqlPanel(c) \/ AgentQuery(c)
           \/ \E i \in DOMAIN mainTabs : FocusTab(i) \/ CloseTab(i)
    PROVE  TabsInv'
<1>1. ASSUME NEW c \in Conns, FocusConnection(c) \/ BrowseDatabase(c)
      PROVE  TabsInv'
  <2>1. PICK e : e = Ensured(c)
    OBVIOUS
  <2>2. /\ mainTabs' = e.tabs /\ calls' = calls /\ opened' = e.opened /\ dbType' = dbType
        /\ e.opened <= MaxTabs
    BY <1>1, <2>1 DEF FocusConnection, BrowseDatabase, Become
  <2>3. e.tabs \in Seq(QueryTab) /\ e.opened \in 0..MaxTabs /\ RunsAreCalls(e.tabs, calls)
    BY <2>1, <2>2, EnsuredIs
  <2> QED
    BY <2>2, <2>3 DEF TabsInv
<1>2. ASSUME NEW i \in DOMAIN mainTabs, FocusTab(i)
      PROVE  TabsInv'
  BY <1>2 DEF FocusTab, Become, TabsInv
<1>3. ASSUME NEW i \in DOMAIN mainTabs, CloseTab(i)
      PROVE  TabsInv'
  <2>1. /\ mainTabs' = RemoveAt(mainTabs, i) /\ calls' = calls /\ opened' = opened
        /\ dbType' = dbType
    BY <1>3 DEF CloseTab, Become
  <2>2. mainTabs \in Seq(QueryTab) /\ RunsAreCalls(mainTabs, calls)
    BY DEF TabsInv
  <2>3. /\ mainTabs' \in Seq(QueryTab)
        /\ \A k \in DOMAIN mainTabs' : \E n \in DOMAIN mainTabs : mainTabs'[k] = mainTabs[n]
    BY <2>1, <2>2, RemovedIs
  <2>4. RunsAreCalls(mainTabs', calls)
    BY <2>2, <2>3 DEF RunsAreCalls
  <2> QED
    BY <2>1, <2>3, <2>4 DEF TabsInv
<1> QED
  BY <1>1, <1>2, <1>3, ToggledKeeps, AgentKeeps

\* Of the list of columns.
LEMMA ListKeeps ==
    ASSUME TabsInv, ConfirmDrop \/ \E d \in Drafts : SaveEdit(d) \/ SaveAdd(d)
    PROVE  TabsInv'
<1>1. isColumnView
  BY DEF ConfirmDrop, SaveEdit, SaveAdd
<1>2. rows \in Seq(Column) /\ DOMAIN rows = 1..Len(rows) /\ Len(rows) \in Nat
      /\ \A i \in DOMAIN rows : rows[i] \in Column
  BY <1>1, ListShown, ListIs
<1>3. CASE ConfirmDrop
  <2>1. PICK i \in DOMAIN rows : i = grid.deleting
    BY <1>3 DEF ConfirmDrop
  <2>2. DropScripts(rows[i]) \in Seq(Script)
    BY <1>2, ScriptsTyped
  <2>3. RemoveAt(rows, i) \in Seq(Column)
    BY <1>2, RemovedIs
  <2>4. Writes(DropScripts(rows[i]), RemoveAt(rows, i), [Fresh EXCEPT !.running = grid.running])
    BY <1>3, <2>1 DEF ConfirmDrop
  <2> QED
    BY <2>2, <2>3, <2>4, WritesKeep
<1>4. ASSUME NEW d \in Drafts, SaveEdit(d)
      PROVE  TabsInv'
  <2>1. PICK i \in DOMAIN rows : i = grid.editing
    BY <1>4 DEF SaveEdit
  <2>2. d \in Column
    BY TablesAssumption
  <2>3. EditScripts(dialect, rows[i], d) \in Seq(Script)
    BY <1>2, <2>2, ScriptsTyped
  <2>4. [rows EXCEPT ![i] = d] \in Seq(Column)
    BY <1>2, <2>2, ExceptSeq
  <2>5. Writes(EditScripts(dialect, rows[i], d), [rows EXCEPT ![i] = d],
               [grid EXCEPT !.editing = NoRow, !.adding = FALSE])
    BY <1>4, <2>1 DEF SaveEdit
  <2> QED
    BY <2>3, <2>4, <2>5, WritesKeep
<1>5. ASSUME NEW d \in Drafts, SaveAdd(d)
      PROVE  TabsInv'
  <2>1. d \in Column
    BY TablesAssumption
  <2>2. AddScripts(d) \in Seq(Script) /\ Append(rows, d) \in Seq(Column)
    BY <1>2, <2>1, ScriptsTyped, AppendProperties
  <2>3. Writes(AddScripts(d), Append(rows, d), [grid EXCEPT !.editing = NoRow, !.adding = FALSE])
    BY <1>5 DEF SaveAdd
  <2> QED
    BY <2>2, <2>3, WritesKeep
<1> QED
  BY <1>3, <1>4, <1>5

LEMMA TabsInvHolds == TabsSpec => []TabsInv
<1>1. TabsInit => TabsInv
  <2> SUFFICES ASSUME TabsInit PROVE TabsInv
    OBVIOUS
  <2>1. mainTabs = <<>> /\ calls = <<>> /\ opened = 0 /\ dbType \in [Conns -> Dialects]
    BY DEF TabsInit
  <2>2. RunsAreCalls(<<>>, <<>>) /\ CallsAre(<<>>)
    BY DEF RunsAreCalls, CallsAre
  <2> QED
    BY <2>1, <2>2, TablesAssumption DEF TabsInv
<1>2. TabsInv /\ [TabsNext]_tabVars => TabsInv'
  <2> SUFFICES ASSUME TabsInv, [TabsNext]_tabVars PROVE TabsInv'
    OBVIOUS
  <2>1. ASSUME UNCHANGED <<dbType, mainTabs, opened, calls>>
        PROVE  TabsInv'
    BY <2>1 DEF TabsInv
  <2>2. ASSUME NEW g, Sets(g)
        PROVE  TabsInv'
    BY <2>1, <2>2 DEF Sets
  <2>3. CASE CancelEdit \/ KeepColumn \/ OpenAdd \/ CancelAdd
    BY <2>2, <2>3 DEF CancelEdit, KeepColumn, OpenAdd, CancelAdd
  <2>4. ASSUME NEW i \in DOMAIN rows, EditRow(i) \/ AskDrop(i)
        PROVE  TabsInv'
    BY <2>2, <2>4 DEF EditRow, AskDrop
  <2>5. CASE RunAll \/ ClearLog
    BY <2>1, <2>5 DEF RunAll, ClearLog
  <2>6. ASSUME NEW k \in DOMAIN loops, RunEnds(k)
        PROVE  TabsInv'
    BY <2>1, <2>6 DEF RunEnds
  <2>7. CASE UNCHANGED tabVars
    BY <2>1, <2>7 DEF tabVars
  <2> QED
    BY <2>3, <2>4, <2>5, <2>6, <2>7, TreeKeeps, RunKeeps, AnswersKeep, TabKeeps, ListKeeps
       DEF TabsNext
<1> QED
  BY <1>1, <1>2, PTL DEF TabsSpec

\* A tab says that a run is under way only while one of its own calls is, whatever is
\* closed, opened again and commanded meanwhile, with any number of connections, tables and
\* tabs (handleViewRows, handleViewColumns, runQuery, updateQueryTab).
THEOREM TabsRunCalls == TabsSpec => []RunningIsACall
<1>1. TabsInv => RunningIsACall
  BY DEF TabsInv, RunsAreCalls, RunningIsACall
<1> QED
  BY <1>1, TabsInvHolds, PTL

-----------------------------------------------------------------------------
(* The lists of columns in the tabs.                                       *)

\* The columns of a tab are those of a table of its connection, as far as the scripts
\* written since they were described go.
TabRight(types, tab) ==
    /\ tab.columnView # NoTable => ConnOf[tab.columnView] = tab.conn
    /\ tab.result.kind = "columns" =>
          /\ ConnOf[tab.result.of] = tab.conn
          /\ Follows(types[tab.conn],
                     Carried(ToSet(ColumnsOf[tab.result.of]), tab.result.made),
                     tab.result.rows, tab.result.clean)

\* Ids are given once, and calls for columns go to a tab of the connection of their table,
\* if it is still there.
TabsRight(types, tabs, cs, top) ==
    /\ \A i \in DOMAIN tabs : tabs[i].id <= top /\ TabRight(types, tabs[i])
    /\ \A i, j \in DOMAIN tabs : tabs[i].id = tabs[j].id => i = j
    /\ \A k \in DOMAIN cs : cs[k].tab <= top
    /\ \A k \in DOMAIN cs : cs[k].kind = "columns" =>
          \A i \in DOMAIN tabs : tabs[i].id = cs[k].tab => tabs[i].conn = ConnOf[cs[k].table]

ListsInv == TabsRight(dbType, mainTabs, calls, opened)

LEMMA PatchRight ==
    ASSUME NEW types, NEW tabs, NEW cs, NEW top, TabsRight(types, tabs, cs, top),
           NEW new, DOMAIN new = DOMAIN tabs,
           \A i \in DOMAIN tabs : /\ new[i].id = tabs[i].id /\ new[i].conn = tabs[i].conn
                                  /\ TabRight(types, new[i])
    PROVE  TabsRight(types, new, cs, top)
BY DEF TabsRight

LEMMA CallMoreRight ==
    ASSUME NEW types, NEW tabs, NEW cs \in Seq(Call), NEW top, TabsRight(types, tabs, cs, top),
           NEW call \in Call, call.tab <= top,
           call.kind = "columns" =>
              \A i \in DOMAIN tabs : tabs[i].id = call.tab => tabs[i].conn = ConnOf[call.table]
    PROVE  TabsRight(types, tabs, Append(cs, call), top)
<1>1. Len(cs) \in Nat /\ DOMAIN cs = 1..Len(cs)
  BY ListIs
<1>2. /\ Append(cs, call) \in Seq(Call) /\ DOMAIN Append(cs, call) = 1..(Len(cs) + 1)
      /\ \A k \in 1..Len(cs) : Append(cs, call)[k] = cs[k]
      /\ Append(cs, call)[Len(cs) + 1] = call
  BY AppendProperties, LenProperties
<1>3. ASSUME NEW k \in DOMAIN Append(cs, call)
      PROVE  Append(cs, call)[k] = call \/ (k \in DOMAIN cs /\ Append(cs, call)[k] = cs[k])
  BY <1>1, <1>2
<1>. QED BY <1>3 DEF TabsRight

LEMMA CallLessRight ==
    ASSUME NEW types, NEW tabs, NEW cs \in Seq(Call), NEW top, TabsRight(types, tabs, cs, top),
           NEW i \in DOMAIN cs
    PROVE  TabsRight(types, tabs, RemoveAt(cs, i), top)
<1>1. \A k \in DOMAIN RemoveAt(cs, i) : \E n \in DOMAIN cs : RemoveAt(cs, i)[k] = cs[n]
  BY RemovedIs
<1>. QED BY <1>1 DEF TabsRight

LEMMA TabLessRight ==
    ASSUME NEW types, NEW tabs \in Seq(QueryTab), NEW cs, NEW top,
           TabsRight(types, tabs, cs, top), NEW i \in DOMAIN tabs
    PROVE  TabsRight(types, RemoveAt(tabs, i), cs, top)
<1>1. Len(tabs) \in Nat /\ DOMAIN tabs = 1..Len(tabs)
  BY ListIs
<1>2. PICK less : less = RemoveAt(tabs, i)
  OBVIOUS
<1>3. /\ DOMAIN less = 1..(Len(tabs) - 1)
      /\ \A k \in 1..(Len(tabs) - 1) : less[k] = tabs[IF k < i THEN k ELSE k + 1]
  BY <1>2, RemovedAt
<1>4. ASSUME NEW k \in DOMAIN less
      PROVE  \E n \in DOMAIN tabs : n = (IF k < i THEN k ELSE k + 1) /\ less[k] = tabs[n]
  BY <1>1, <1>3
<1>5. \A k \in DOMAIN less : \E n \in DOMAIN tabs : less[k] = tabs[n]
  BY <1>4
<1>6. ASSUME NEW j \in DOMAIN less, NEW k \in DOMAIN less, less[j].id = less[k].id
      PROVE  j = k
  <2>1. PICK a \in DOMAIN tabs : a = (IF j < i THEN j ELSE j + 1) /\ less[j] = tabs[a]
    BY <1>4
  <2>2. PICK b \in DOMAIN tabs : b = (IF k < i THEN k ELSE k + 1) /\ less[k] = tabs[b]
    BY <1>4
  <2>3. a = b
    BY <1>6, <2>1, <2>2 DEF TabsRight
  <2>. QED BY <1>1, <1>3, <2>1, <2>2, <2>3
<1>. QED BY <1>2, <1>5, <1>6 DEF TabsRight

LEMMA EnsuredRight ==
    ASSUME TabsInv, ListsInv, NEW c \in Conns, NEW e, e = Ensured(c), e.opened <= MaxTabs
    PROVE  /\ TabsRight(dbType, e.tabs, calls, e.opened)
           /\ e.id <= e.opened
           /\ \A i \in DOMAIN e.tabs : e.tabs[i].id = e.id => e.tabs[i].conn = c
<1>1. /\ mainTabs \in Seq(QueryTab) /\ opened \in 0..MaxTabs /\ calls \in Seq(Call)
      /\ Len(mainTabs) \in Nat /\ DOMAIN mainTabs = 1..Len(mainTabs)
      /\ \A k \in DOMAIN mainTabs : mainTabs[k] \in QueryTab
      /\ \A k \in DOMAIN calls : calls[k] \in Call
  BY ListIs DEF TabsInv, CallsAre
<1>2. CASE TabsOf(mainTabs, c) # {}
  <2>1. PICK i \in DOMAIN mainTabs : /\ i = CHOOSE n \in TabsOf(mainTabs, c) : TRUE
                                     /\ mainTabs[i].conn = c
    BY <1>2 DEF TabsOf
  <2>2. e = [tabs |-> mainTabs, id |-> mainTabs[i].id, opened |-> opened]
    BY <1>2, <2>1 DEF Ensured
  <2>3. e.tabs = mainTabs /\ e.id = mainTabs[i].id /\ e.opened = opened
    BY <2>2
  <2>4. TabsRight(dbType, mainTabs, calls, opened)
    BY DEF ListsInv
  <2>. QED BY <2>1, <2>3, <2>4 DEF TabsRight
<1>3. CASE TabsOf(mainTabs, c) = {}
  <2> DEFINE tab == [id |-> opened + 1, conn |-> c, loading |-> FALSE, sqlPanelOpen |-> FALSE,
                     result |-> NoResult, columnView |-> NoTable]
  <2>1. e = [tabs |-> Append(mainTabs, tab), id |-> opened + 1, opened |-> opened + 1]
    BY <1>3 DEF Ensured
  <2>2. opened + 1 \in 1..MaxTabs
    BY <1>1, <2>1
  <2>3. tab \in QueryTab /\ tab.id = opened + 1 /\ tab.conn = c /\ TabRight(dbType, tab)
    BY <2>2 DEF QueryTab, NoResult, Results, TabRight
  <2>4. e.tabs = Append(mainTabs, tab) /\ e.id = opened + 1 /\ e.opened = opened + 1
    BY <2>1
  <2> HIDE DEF tab
  <2>5. /\ DOMAIN e.tabs = 1..(Len(mainTabs) + 1)
        /\ \A k \in 1..Len(mainTabs) : e.tabs[k] = mainTabs[k]
        /\ e.tabs[Len(mainTabs) + 1] = tab
    BY <1>1, <2>3, <2>4, AppendProperties, LenProperties
  <2>6. ASSUME NEW k \in DOMAIN e.tabs
        PROVE  \/ k \in DOMAIN mainTabs /\ e.tabs[k] = mainTabs[k]
               \/ k = Len(mainTabs) + 1 /\ e.tabs[k] = tab
    BY <1>1, <2>5
  <2>7. \A k \in DOMAIN mainTabs : mainTabs[k].id \in Nat /\ mainTabs[k].id <= opened
                                   /\ TabRight(dbType, mainTabs[k])
    BY <1>1, TablesAssumption DEF ListsInv, TabsRight, QueryTab
  <2>8. ASSUME NEW k \in DOMAIN e.tabs
        PROVE  e.tabs[k].id <= opened + 1 /\ TabRight(dbType, e.tabs[k])
    BY <1>1, <2>3, <2>6, <2>7
  <2>9. ASSUME NEW j \in DOMAIN e.tabs, NEW k \in DOMAIN e.tabs, e.tabs[j].id = e.tabs[k].id
        PROVE  j = k
    <3>1. \A m, n \in DOMAIN mainTabs : mainTabs[m].id = mainTabs[n].id => m = n
      BY DEF ListsInv, TabsRight
    <3>. QED BY <1>1, <2>3, <2>6, <2>7, <2>9, <3>1
  <2>10. \A k \in DOMAIN calls : calls[k].tab \in Int /\ calls[k].tab <= opened
    BY <1>1, TablesAssumption DEF ListsInv, TabsRight, Call
  <2>11. ASSUME NEW k \in DOMAIN calls, calls[k].kind = "columns",
                NEW i \in DOMAIN e.tabs, e.tabs[i].id = calls[k].tab
         PROVE  e.tabs[i].conn = ConnOf[calls[k].table]
    <3>1. i \in DOMAIN mainTabs /\ e.tabs[i] = mainTabs[i]
      BY <1>1, <2>3, <2>6, <2>10, <2>11
    <3>. QED BY <2>11, <3>1 DEF ListsInv, TabsRight
  <2>12. TabsRight(dbType, e.tabs, calls, opened + 1)
    <3>1. \A k \in DOMAIN calls : calls[k].tab <= opened + 1
      BY <1>1, <2>10
    <3>. QED BY <2>8, <2>9, <2>11, <3>1 DEF TabsRight
  <2>13. \A i \in DOMAIN e.tabs : e.tabs[i].id = e.id => e.tabs[i].conn = c
    BY <1>1, <2>3, <2>4, <2>6, <2>7
  <2>. QED BY <1>1, <2>4, <2>12, <2>13
<1>. QED BY <1>2, <1>3

\* The tab of this id reaches the table viewed, if one is.
Reaches(tabs, id, seen) ==
    seen # NoTable => \A i \in DOMAIN tabs : tabs[i].id = id => tabs[i].conn = ConnOf[seen]

\* A run starts in a tab.
LEMMA BegunRight ==
    ASSUME NEW types, NEW tabs \in Seq(QueryTab), NEW cs \in Seq(Call), NEW top,
           TabsRight(types, tabs, cs, top), NEW id, NEW seen, Reaches(tabs, id, seen)
    PROVE  /\ TabsRight(types, Begun(tabs, id, seen), cs, top)
           /\ DOMAIN Begun(tabs, id, seen) = DOMAIN tabs
           /\ \A i \in DOMAIN tabs : /\ Begun(tabs, id, seen)[i].id = tabs[i].id
                                     /\ Begun(tabs, id, seen)[i].conn = tabs[i].conn
<1> DEFINE new == Begun(tabs, id, seen)
           Patched(tab) == [tab EXCEPT !.loading = TRUE, !.result = NoResult, !.columnView = seen,
                                       !.sqlPanelOpen = TRUE]
<1>1. new = [i \in DOMAIN tabs |-> IF tabs[i].id = id THEN Patched(tabs[i]) ELSE tabs[i]]
  BY DEF Begun, Updated
<1>2. ASSUME NEW tab \in QueryTab
      PROVE  /\ Patched(tab).id = tab.id /\ Patched(tab).conn = tab.conn
             /\ Patched(tab).columnView = seen /\ Patched(tab).result = NoResult
  BY DEF QueryTab
<1> HIDE DEF new, Patched
<1>3. \A i \in DOMAIN tabs : tabs[i] \in QueryTab /\ TabRight(types, tabs[i])
  BY ListIs DEF TabsRight
<1>4. DOMAIN new = DOMAIN tabs
  BY <1>1
<1>5. ASSUME NEW i \in DOMAIN tabs
      PROVE  new[i].id = tabs[i].id /\ new[i].conn = tabs[i].conn /\ TabRight(types, new[i])
  <2>1. CASE tabs[i].id = id
    <3>1. new[i] = Patched(tabs[i])
      BY <1>1, <2>1
    <3>2. /\ new[i].id = tabs[i].id /\ new[i].conn = tabs[i].conn
          /\ new[i].columnView = seen /\ new[i].result.kind = "none"
      BY <1>2, <1>3, <3>1 DEF NoResult
    <3>. QED BY <2>1, <3>2 DEF TabRight, Reaches
  <2>2. CASE tabs[i].id # id
    BY <1>1, <1>3, <2>2
  <2>. QED BY <2>1, <2>2
<1>6. TabsRight(types, new, cs, top)
  BY <1>4, <1>5, PatchRight
<1>. QED BY <1>4, <1>5, <1>6 DEF new

\* What of a tab says which columns it shows.
LEMMA KeptRight ==
    ASSUME NEW types, NEW tab, TabRight(types, tab), NEW new,
           new.conn = tab.conn, new.columnView = tab.columnView, new.result = tab.result
    PROVE  TabRight(types, new)
BY DEF TabRight

\* The columns that the server describes, before any script.
LEMMA DescribedFollows ==
    ASSUME NEW t \in Tables, NEW speaks
    PROVE  Follows(speaks, Carried(ToSet(ColumnsOf[t]), <<>>), ColumnsOf[t], TRUE)
<1>1. PICK list \in Seq(Column) : list = ColumnsOf[t] /\ Distinct(list)
  BY TablesAssumption
<1>2. ToSet(list) \in SUBSET Column
  BY ListIs DEF ToSet
<1>3. Carried(ToSet(list), <<>>) = [ok |-> TRUE, columns |-> ToSet(list)]
  BY <1>2, CarriedNone
<1>4. PICK so : so = Carried(ToSet(list), <<>>) /\ so.ok = TRUE /\ so.columns = ToSet(list)
  BY <1>3
<1>. QED BY <1>1, <1>4 DEF Follows, Agrees

\* An answer is put into the tabs that asked.
LEMMA PutsRight ==
    ASSUME TabsInv, ListsInv, NEW i \in DOMAIN calls, NEW result \in Results, Puts(i, result),
           \/ result.kind # "columns"
           \/ calls[i].kind = "columns" /\ result = Described(calls[i].table)
    PROVE  ListsInv'
<1> DEFINE Patched(tab) == [tab EXCEPT !.loading = FALSE, !.result = result]
           new == Updated(mainTabs, calls[i].tab, LAMBDA tab :
                              [tab EXCEPT !.loading = FALSE, !.result = result])
<1>1. /\ mainTabs' = new /\ calls' = RemoveAt(calls, i) /\ opened' = opened /\ dbType' = dbType
      /\ new = [n \in DOMAIN mainTabs |-> IF mainTabs[n].id = calls[i].tab
                                          THEN Patched(mainTabs[n]) ELSE mainTabs[n]]
  <2>1. mainTabs' = new /\ calls' = RemoveAt(calls, i) /\ opened' = opened /\ dbType' = dbType
    BY DEF Puts, Become
  <2>2. new = [n \in DOMAIN mainTabs |-> IF mainTabs[n].id = calls[i].tab
                                        THEN Patched(mainTabs[n]) ELSE mainTabs[n]]
    BY DEF Updated
  <2> HIDE DEF new, Patched
  <2>. QED BY <2>1, <2>2
<1>2. ASSUME NEW tab \in QueryTab
      PROVE  /\ Patched(tab).id = tab.id /\ Patched(tab).conn = tab.conn
             /\ Patched(tab).columnView = tab.columnView /\ Patched(tab).result = result
  BY DEF QueryTab
<1> HIDE DEF Patched, new
<1>3. /\ mainTabs \in Seq(QueryTab) /\ calls \in Seq(Call) /\ CallsAre(calls)
      /\ \A n \in DOMAIN mainTabs : mainTabs[n] \in QueryTab
  BY ListIs DEF TabsInv, CallsAre
<1>4. /\ TabsRight(dbType, mainTabs, calls, opened)
      /\ \A n \in DOMAIN mainTabs : TabRight(dbType, mainTabs[n])
  BY DEF ListsInv, TabsRight
<1>5. DOMAIN mainTabs' = DOMAIN mainTabs
  BY <1>1
<1>6. ASSUME NEW n \in DOMAIN mainTabs, mainTabs[n].id = calls[i].tab, result.kind = "columns"
      PROVE  /\ ConnOf[result.of] = mainTabs[n].conn
             /\ Follows(dbType[mainTabs[n].conn],
                        Carried(ToSet(ColumnsOf[result.of]), result.made),
                        result.rows, result.clean)
  <2>1. calls[i].kind = "columns" /\ result = Described(calls[i].table)
    BY <1>6
  <2>2. PICK t \in Tables : t = calls[i].table
    BY <1>3, <2>1 DEF CallsAre
  <2>3. mainTabs[n].conn = ConnOf[t]
    BY <1>4, <1>6, <2>1, <2>2 DEF TabsRight
  <2>4. /\ result.of = t /\ result.rows = ColumnsOf[t] /\ result.made = <<>>
        /\ result.clean = TRUE
    BY <2>1, <2>2 DEF Described
  <2>. QED BY <2>3, <2>4, DescribedFollows
<1>7. ASSUME NEW n \in DOMAIN mainTabs
      PROVE  /\ mainTabs'[n].id = mainTabs[n].id /\ mainTabs'[n].conn = mainTabs[n].conn
             /\ TabRight(dbType, mainTabs'[n])
  <2>1. CASE mainTabs[n].id = calls[i].tab
    <3>1. mainTabs'[n] = Patched(mainTabs[n])
      BY <1>1, <2>1
    <3>2. /\ mainTabs'[n].id = mainTabs[n].id /\ mainTabs'[n].conn = mainTabs[n].conn
          /\ mainTabs'[n].columnView = mainTabs[n].columnView /\ mainTabs'[n].result = result
      BY <1>2, <1>3, <3>1
    <3>3. mainTabs[n].columnView # NoTable => ConnOf[mainTabs[n].columnView] = mainTabs[n].conn
      BY <1>4 DEF TabRight
    <3>. QED BY <1>6, <2>1, <3>2, <3>3 DEF TabRight
  <2>2. CASE mainTabs[n].id # calls[i].tab
    BY <1>1, <1>4, <2>2
  <2>. QED BY <2>1, <2>2
<1>8. TabsRight(dbType, mainTabs', calls, opened)
  BY <1>4, <1>5, <1>7, PatchRight
<1>9. TabsRight(dbType, mainTabs', calls', opened)
  BY <1>1, <1>3, <1>8, CallLessRight
<1>. QED BY <1>1, <1>9 DEF ListsInv

LEMMA FailedRight ==
    ASSUME TabsInv, ListsInv, NEW i \in DOMAIN calls, ColumnsFailed(i)
    PROVE  ListsInv'
<1> DEFINE Patched(tab) == [tab EXCEPT !.loading = FALSE]
           new == Updated(mainTabs, calls[i].tab, LAMBDA tab : [tab EXCEPT !.loading = FALSE])
<1>1. /\ mainTabs' = new /\ calls' = RemoveAt(calls, i) /\ opened' = opened /\ dbType' = dbType
      /\ new = [n \in DOMAIN mainTabs |-> IF mainTabs[n].id = calls[i].tab
                                          THEN Patched(mainTabs[n]) ELSE mainTabs[n]]
  <2>1. mainTabs' = new /\ calls' = RemoveAt(calls, i) /\ opened' = opened /\ dbType' = dbType
    BY DEF ColumnsFailed, Become
  <2>2. new = [n \in DOMAIN mainTabs |-> IF mainTabs[n].id = calls[i].tab
                                        THEN Patched(mainTabs[n]) ELSE mainTabs[n]]
    BY DEF Updated
  <2> HIDE DEF new, Patched
  <2>. QED BY <2>1, <2>2
<1>2. ASSUME NEW tab \in QueryTab
      PROVE  /\ Patched(tab).id = tab.id /\ Patched(tab).conn = tab.conn
             /\ Patched(tab).columnView = tab.columnView /\ Patched(tab).result = tab.result
  BY DEF QueryTab
<1> HIDE DEF Patched, new
<1>3. /\ calls \in Seq(Call) /\ \A n \in DOMAIN mainTabs : mainTabs[n] \in QueryTab
  BY ListIs DEF TabsInv, CallsAre
<1>4. /\ TabsRight(dbType, mainTabs, calls, opened)
      /\ \A n \in DOMAIN mainTabs : TabRight(dbType, mainTabs[n])
  BY DEF ListsInv, TabsRight
<1>5. DOMAIN mainTabs' = DOMAIN mainTabs
  BY <1>1
<1>6. ASSUME NEW n \in DOMAIN mainTabs
      PROVE  /\ mainTabs'[n].id = mainTabs[n].id /\ mainTabs'[n].conn = mainTabs[n].conn
             /\ TabRight(dbType, mainTabs'[n])
  <2>1. mainTabs'[n] = IF mainTabs[n].id = calls[i].tab THEN Patched(mainTabs[n]) ELSE mainTabs[n]
    BY <1>1
  <2>2. /\ mainTabs'[n].id = mainTabs[n].id /\ mainTabs'[n].conn = mainTabs[n].conn
        /\ mainTabs'[n].columnView = mainTabs[n].columnView
        /\ mainTabs'[n].result = mainTabs[n].result
    BY <1>2, <1>3, <2>1
  <2>. QED BY <1>4, <2>2, KeptRight
<1>7. TabsRight(dbType, mainTabs', calls, opened)
  BY <1>4, <1>5, <1>6, PatchRight
<1>8. TabsRight(dbType, mainTabs', calls', opened)
  BY <1>1, <1>3, <1>7, CallLessRight
<1>. QED BY <1>1, <1>8 DEF ListsInv

\* Of an answer, but for the keys.
LEMMA AnswersRight ==
    ASSUME TabsInv, ListsInv, NEW i \in DOMAIN calls, RowsCame(i) \/ ColumnsCame(i)
    PROVE  ListsInv'
<1>1. CASE RowsCame(i)
  <2>1. [kind |-> "rows"] \in Results /\ [kind |-> "error"] \in Results
    BY DEF Results
  <2>2. PICK result \in Results : Puts(i, result) /\ result.kind # "columns"
    BY <1>1, <2>1 DEF RowsCame
  <2>. QED BY <2>2, PutsRight
<1>2. CASE ColumnsCame(i)
  <2>1. calls[i].kind = "columns" /\ Puts(i, Described(calls[i].table))
    BY <1>2 DEF ColumnsCame
  <2>2. PICK t \in Tables : t = calls[i].table
    BY <2>1 DEF TabsInv, CallsAre
  <2>3. ColumnsOf[t] \in Seq(Column)
    BY TablesAssumption
  <2>4. Described(t) \in Results
    BY <2>3 DEF Described, Results
  <2>. QED BY <2>1, <2>2, <2>4, PutsRight
<1>. QED BY <1>1, <1>2

\* handleViewRows and handleViewColumns.
LEMMA StartsRight ==
    ASSUME TabsInv, ListsInv, NEW t \in Tables, NEW kind \in {"rows", "columns"},
           NEW seen \in {t, NoTable}, Starts(ConnOf[t], kind, t, seen)
    PROVE  ListsInv'
<1>1. ConnOf[t] \in Conns
  BY TablesAssumption
<1>2. PICK e : e = Ensured(ConnOf[t])
  OBVIOUS
<1> DEFINE call == [tab |-> e.id, kind |-> kind, table |-> t]
<1>3. /\ e.opened <= MaxTabs /\ opened' = e.opened /\ dbType' = dbType
      /\ mainTabs' = Begun(e.tabs, e.id, seen) /\ calls' = Append(calls, call)
  BY <1>2 DEF Starts, Become, Calls
<1>4. e.tabs \in Seq(QueryTab) /\ e.id \in 1..MaxTabs
  BY <1>1, <1>2, <1>3, EnsuredIs
<1>5. /\ TabsRight(dbType, e.tabs, calls, e.opened)
      /\ e.id <= e.opened
      /\ \A i \in DOMAIN e.tabs : e.tabs[i].id = e.id => e.tabs[i].conn = ConnOf[t]
  BY <1>1, <1>2, <1>3, EnsuredRight
<1>6. call \in Call /\ call.table = t /\ call.tab = e.id
  BY <1>4, TablesAssumption DEF Call
<1> HIDE DEF call
<1>7. calls \in Seq(Call)
  BY DEF TabsInv, CallsAre
<1>8. seen # NoTable => \A i \in DOMAIN e.tabs : e.tabs[i].id = e.id => e.tabs[i].conn = ConnOf[seen]
  BY <1>5
<1>9. PICK tabs : tabs = Begun(e.tabs, e.id, seen)
  OBVIOUS
<1>10. /\ TabsRight(dbType, tabs, calls, e.opened)
       /\ DOMAIN tabs = DOMAIN e.tabs
       /\ \A i \in DOMAIN e.tabs : tabs[i].id = e.tabs[i].id /\ tabs[i].conn = e.tabs[i].conn
  <2>1. Reaches(e.tabs, e.id, seen)
    BY <1>8 DEF Reaches
  <2>2. /\ TabsRight(dbType, Begun(e.tabs, e.id, seen), calls, e.opened)
        /\ DOMAIN Begun(e.tabs, e.id, seen) = DOMAIN e.tabs
        /\ \A i \in DOMAIN e.tabs : /\ Begun(e.tabs, e.id, seen)[i].id = e.tabs[i].id
                                    /\ Begun(e.tabs, e.id, seen)[i].conn = e.tabs[i].conn
    BY <1>4, <1>5, <1>7, <2>1, BegunRight, SMTT(60)
  <2>. QED BY <1>9, <2>2
<1>11. \A i \in DOMAIN tabs : tabs[i].id = call.tab => tabs[i].conn = ConnOf[call.table]
  BY <1>5, <1>6, <1>10
<1>12. TabsRight(dbType, tabs, Append(calls, call), e.opened)
  BY <1>5, <1>6, <1>7, <1>10, <1>11, CallMoreRight
<1>. QED BY <1>3, <1>9, <1>12 DEF ListsInv

\* Of what the tree asks for.
LEMMA TreeRight ==
    ASSUME TabsInv, ListsInv, NEW t \in Tables, ViewRows(t) \/ ViewLatest(t) \/ ViewColumns(t)
    PROVE  ListsInv'
<1>1. CASE ViewRows(t)
  <2>1. Starts(ConnOf[t], "rows", t, NoTable)
    BY <1>1 DEF ViewRows
  <2>. QED BY <2>1, StartsRight
<1>2. CASE ViewColumns(t)
  <2>1. Starts(ConnOf[t], "columns", t, t)
    BY <1>2 DEF ViewColumns
  <2>. QED BY <2>1, StartsRight
<1>3. CASE ViewLatest(t)
  <2> DEFINE call == [tab |-> NoTab, kind |-> "keys", table |-> t]
  <2>1. /\ calls' = Append(calls, call) /\ mainTabs' = mainTabs
        /\ opened' = opened /\ dbType' = dbType
    BY <1>3 DEF ViewLatest, Calls
  <2>2. call \in Call /\ call.tab = NoTab /\ call.kind # "columns"
    BY TablesAssumption DEF Call, NoTab
  <2> HIDE DEF call
  <2>3. calls \in Seq(Call) /\ opened \in Nat
    BY DEF TabsInv, CallsAre
  <2>4. call.tab <= opened
    BY <2>2, <2>3 DEF NoTab
  <2>5. TabsRight(dbType, mainTabs, Append(calls, call), opened)
    BY <2>2, <2>3, <2>4, CallMoreRight DEF ListsInv
  <2>. QED BY <2>1, <2>5 DEF ListsInv
<1>. QED BY <1>1, <1>2, <1>3

\* The keys of the latest rows have come: the rows are asked for.
LEMMA KeysRight ==
    ASSUME TabsInv, ListsInv, NEW i \in DOMAIN calls, KeysCame(i)
    PROVE  ListsInv'
<1>1. calls \in Seq(Call) /\ calls[i].table \in Tables
  BY DEF KeysCame, TabsInv, CallsAre
<1>2. PICK t \in Tables : t = calls[i].table
  BY <1>1
<1>3. ConnOf[t] \in Conns
  BY TablesAssumption
<1>4. PICK e : e = Ensured(ConnOf[t])
  OBVIOUS
<1>5. PICK left : left = RemoveAt(calls, i)
  OBVIOUS
<1> DEFINE call == [tab |-> e.id, kind |-> "rows", table |-> t]
<1>6. /\ e.opened <= MaxTabs /\ opened' = e.opened /\ dbType' = dbType
      /\ mainTabs' = Begun(e.tabs, e.id, NoTable) /\ calls' = Append(left, call)
  BY <1>2, <1>4, <1>5 DEF KeysCame, Become
<1>7. e.tabs \in Seq(QueryTab) /\ e.id \in 1..MaxTabs
  BY <1>3, <1>4, <1>6, EnsuredIs
<1>8. TabsRight(dbType, e.tabs, calls, e.opened) /\ e.id <= e.opened
  BY <1>3, <1>4, <1>6, EnsuredRight
<1>9. call \in Call /\ call.kind # "columns" /\ call.tab = e.id
  BY <1>7, TablesAssumption DEF Call
<1> HIDE DEF call
<1>10. left \in Seq(Call)
  BY <1>1, <1>5, RemovedIs
<1>11. TabsRight(dbType, e.tabs, left, e.opened)
  BY <1>1, <1>5, <1>8, CallLessRight
<1>12. TabsRight(dbType, Begun(e.tabs, e.id, NoTable), left, e.opened)
  BY <1>7, <1>10, <1>11, BegunRight DEF Reaches
<1>13. TabsRight(dbType, Begun(e.tabs, e.id, NoTable), Append(left, call), e.opened)
  BY <1>8, <1>9, <1>10, <1>12, CallMoreRight
<1>. QED BY <1>6, <1>13 DEF ListsInv

\* runQuery
LEMMA RunRight ==
    ASSUME TabsInv, ListsInv, Run
    PROVE  ListsInv'
<1>1. PICK id : id = shown.id
  OBVIOUS
<1> DEFINE call == [tab |-> id, kind |-> "run", table |-> NoTable]
<1>2. /\ mainTabs' = Begun(mainTabs, id, NoTable) /\ calls' = Append(calls, call)
      /\ opened' = opened /\ dbType' = dbType /\ id # NoTab
  BY <1>1 DEF Run, Become, Calls
<1>3. /\ mainTabs \in Seq(QueryTab) /\ calls \in Seq(Call)
      /\ \A n \in DOMAIN mainTabs : mainTabs[n] \in QueryTab
  BY ListIs DEF TabsInv, CallsAre
<1>4. PICK n \in DOMAIN mainTabs : shown = mainTabs[n]
  BY <1>1, <1>2 DEF shown, TabAt
<1>5. id \in 1..MaxTabs
  BY <1>1, <1>3, <1>4 DEF QueryTab
<1>6. call \in Call /\ call.kind # "columns" /\ call.tab = id
  BY <1>5, TablesAssumption DEF Call
<1> HIDE DEF call
<1>7. TabsRight(dbType, mainTabs, calls, opened) /\ id <= opened
  BY <1>1, <1>4 DEF ListsInv, TabsRight
<1>8. TabsRight(dbType, Begun(mainTabs, id, NoTable), calls, opened)
  BY <1>3, <1>7, BegunRight DEF Reaches
<1>9. TabsRight(dbType, Begun(mainTabs, id, NoTable), Append(calls, call), opened)
  BY <1>3, <1>6, <1>7, <1>8, CallMoreRight
<1>. QED BY <1>2, <1>9 DEF ListsInv

LEMMA ToggledRight ==
    ASSUME TabsInv, ListsInv, NEW c \in Conns, ToggleSqlPanel(c)
    PROVE  ListsInv'
<1>1. PICK e : e = Ensured(c)
  OBVIOUS
<1> DEFINE Patched(tab) == [tab EXCEPT !.sqlPanelOpen = ~@]
           new == Updated(e.tabs, e.id, LAMBDA tab : [tab EXCEPT !.sqlPanelOpen = ~@])
<1>2. /\ mainTabs' = new /\ calls' = calls /\ opened' = e.opened /\ dbType' = dbType
      /\ e.opened <= MaxTabs
      /\ new = [n \in DOMAIN e.tabs |-> IF e.tabs[n].id = e.id THEN Patched(e.tabs[n]) ELSE e.tabs[n]]
  <2>1. /\ mainTabs' = new /\ calls' = calls /\ opened' = e.opened /\ dbType' = dbType
        /\ e.opened <= MaxTabs
    BY <1>1 DEF ToggleSqlPanel, Become
  <2>2. new = [n \in DOMAIN e.tabs |-> IF e.tabs[n].id = e.id THEN Patched(e.tabs[n]) ELSE e.tabs[n]]
    BY DEF Updated
  <2> HIDE DEF new, Patched
  <2>. QED BY <2>1, <2>2
<1>3. ASSUME NEW tab \in QueryTab
      PROVE  /\ Patched(tab).id = tab.id /\ Patched(tab).conn = tab.conn
             /\ Patched(tab).columnView = tab.columnView /\ Patched(tab).result = tab.result
  BY DEF QueryTab
<1> HIDE DEF Patched, new
<1>4. /\ TabsRight(dbType, e.tabs, calls, e.opened)
      /\ \A n \in DOMAIN e.tabs : TabRight(dbType, e.tabs[n])
  BY <1>1, <1>2, EnsuredRight DEF TabsRight
<1>5. \A n \in DOMAIN e.tabs : e.tabs[n] \in QueryTab
  BY <1>1, <1>2, EnsuredIs, ListIs
<1>6. DOMAIN mainTabs' = DOMAIN e.tabs
  BY <1>2
<1>7. ASSUME NEW n \in DOMAIN e.tabs
      PROVE  /\ mainTabs'[n].id = e.tabs[n].id /\ mainTabs'[n].conn = e.tabs[n].conn
             /\ TabRight(dbType, mainTabs'[n])
  <2>1. mainTabs'[n] = IF e.tabs[n].id = e.id THEN Patched(e.tabs[n]) ELSE e.tabs[n]
    BY <1>2
  <2>2. /\ mainTabs'[n].id = e.tabs[n].id /\ mainTabs'[n].conn = e.tabs[n].conn
        /\ mainTabs'[n].columnView = e.tabs[n].columnView
        /\ mainTabs'[n].result = e.tabs[n].result
    BY <1>3, <1>5, <2>1
  <2>. QED BY <1>4, <2>2, KeptRight
<1>8. TabsRight(dbType, mainTabs', calls, e.opened)
  BY <1>4, <1>6, <1>7, PatchRight
<1>. QED BY <1>2, <1>8 DEF ListsInv

LEMMA AgentRight ==
    ASSUME TabsInv, ListsInv, NEW c \in Conns, AgentQuery(c)
    PROVE  ListsInv'
<1>1. PICK e : e = Ensured(c)
  OBVIOUS
<1> DEFINE Patched(tab) == [tab EXCEPT !.result = [kind |-> "rows"], !.sqlPanelOpen = TRUE,
                                       !.columnView = NoTable]
           new == Updated(e.tabs, e.id, LAMBDA tab :
                      [tab EXCEPT !.result = [kind |-> "rows"], !.sqlPanelOpen = TRUE,
                                  !.columnView = NoTable])
<1>2. /\ mainTabs' = new /\ calls' = calls /\ opened' = e.opened /\ dbType' = dbType
      /\ e.opened <= MaxTabs
      /\ new = [n \in DOMAIN e.tabs |-> IF e.tabs[n].id = e.id THEN Patched(e.tabs[n]) ELSE e.tabs[n]]
  <2>1. /\ mainTabs' = new /\ calls' = calls /\ opened' = e.opened /\ dbType' = dbType
        /\ e.opened <= MaxTabs
    BY <1>1 DEF AgentQuery, Become
  <2>2. new = [n \in DOMAIN e.tabs |-> IF e.tabs[n].id = e.id THEN Patched(e.tabs[n]) ELSE e.tabs[n]]
    BY DEF Updated
  <2> HIDE DEF new, Patched
  <2>. QED BY <2>1, <2>2
<1>3. ASSUME NEW tab \in QueryTab
      PROVE  /\ Patched(tab).id = tab.id /\ Patched(tab).conn = tab.conn
             /\ TabRight(dbType, Patched(tab))
  <2>1. /\ Patched(tab).id = tab.id /\ Patched(tab).conn = tab.conn
        /\ Patched(tab).columnView = NoTable /\ Patched(tab).result.kind = "rows"
    BY DEF QueryTab
  <2> HIDE DEF Patched
  <2>. QED BY <2>1 DEF TabRight
<1> HIDE DEF Patched, new
<1>4. /\ TabsRight(dbType, e.tabs, calls, e.opened)
      /\ \A n \in DOMAIN e.tabs : TabRight(dbType, e.tabs[n])
  BY <1>1, <1>2, EnsuredRight DEF TabsRight
<1>5. \A n \in DOMAIN e.tabs : e.tabs[n] \in QueryTab
  BY <1>1, <1>2, EnsuredIs, ListIs
<1>6. DOMAIN mainTabs' = DOMAIN e.tabs
  BY <1>2
<1>7. ASSUME NEW n \in DOMAIN e.tabs
      PROVE  /\ mainTabs'[n].id = e.tabs[n].id /\ mainTabs'[n].conn = e.tabs[n].conn
             /\ TabRight(dbType, mainTabs'[n])
  <2>1. mainTabs'[n] = IF e.tabs[n].id = e.id THEN Patched(e.tabs[n]) ELSE e.tabs[n]
    BY <1>2
  <2>. QED BY <1>3, <1>4, <1>5, <2>1
<1>8. TabsRight(dbType, mainTabs', calls, e.opened)
  BY <1>4, <1>6, <1>7, PatchRight
<1>. QED BY <1>2, <1>8 DEF ListsInv

\* Of tabs that come, go and are shown.
LEMMA TabComesRight ==
    ASSUME TabsInv, ListsInv,
           \/ \E c \in Conns : FocusConnection(c) \/ BrowseDatabase(c) \/ ToggleSqlPanel(c) \/ AgentQuery(c)
           \/ \E i \in DOMAIN mainTabs : FocusTab(i) \/ CloseTab(i)
    PROVE  ListsInv'
<1>1. ASSUME NEW c \in Conns, FocusConnection(c) \/ BrowseDatabase(c)
      PROVE  ListsInv'
  <2>1. PICK e : e = Ensured(c)
    OBVIOUS
  <2>2. /\ mainTabs' = e.tabs /\ calls' = calls /\ opened' = e.opened /\ dbType' = dbType
        /\ e.opened <= MaxTabs
    BY <1>1, <2>1 DEF FocusConnection, BrowseDatabase, Become
  <2>3. TabsRight(dbType, e.tabs, calls, e.opened)
    BY <2>1, <2>2, EnsuredRight
  <2>. QED BY <2>2, <2>3 DEF ListsInv
<1>2. ASSUME NEW i \in DOMAIN mainTabs, FocusTab(i)
      PROVE  ListsInv'
  BY <1>2 DEF FocusTab, Become, ListsInv
<1>3. ASSUME NEW i \in DOMAIN mainTabs, CloseTab(i)
      PROVE  ListsInv'
  <2>1. /\ mainTabs' = RemoveAt(mainTabs, i) /\ calls' = calls /\ opened' = opened
        /\ dbType' = dbType
    BY <1>3 DEF CloseTab, Become
  <2>2. TabsRight(dbType, RemoveAt(mainTabs, i), calls, opened)
    BY TabLessRight DEF TabsInv, ListsInv
  <2>. QED BY <2>1, <2>2 DEF ListsInv
<1>. QED BY <1>1, <1>2, <1>3, ToggledRight, AgentRight

\* The list that is shown belongs to one tab and is what its scripts make of the table's.
LEMMA ShownFollows ==
    ASSUME TabsInv, ListsInv, isColumnView
    PROVE  \E n \in DOMAIN mainTabs :
              /\ shown = mainTabs[n]
              /\ \A m \in DOMAIN mainTabs : mainTabs[m].id = shown.id => m = n
              /\ shown \in QueryTab
              /\ shown.result \in [kind : {"columns"}, of : Tables, rows : Seq(Column),
                                   made : Seq(Script), clean : BOOLEAN]
              /\ ConnOf[shown.columnView] = shown.conn
              /\ ConnOf[shown.result.of] = shown.conn
              /\ dbType[shown.conn] \in Dialects
              /\ Follows(dbType[shown.conn],
                         Carried(ToSet(ColumnsOf[shown.result.of]), shown.result.made),
                         shown.result.rows, shown.result.clean)
<1>1. shown.id # NoTab /\ shown.columnView # NoTable /\ shown.result.kind = "columns"
  BY DEF isColumnView
<1>2. PICK n \in DOMAIN mainTabs : shown = mainTabs[n]
  BY <1>1 DEF shown, TabAt
<1>3. PICK tab : tab = mainTabs[n]
  OBVIOUS
<1>4. tab \in QueryTab /\ dbType \in [Conns -> Dialects]
  BY <1>3, ListIs DEF TabsInv
<1>5. /\ TabRight(dbType, tab)
      /\ \A m \in DOMAIN mainTabs : mainTabs[m].id = tab.id => m = n
  BY <1>3 DEF ListsInv, TabsRight
<1>6. tab.id # NoTab /\ tab.columnView # NoTable /\ tab.result.kind = "columns"
  BY <1>1, <1>2, <1>3
<1>7. /\ tab.result \in [kind : {"columns"}, of : Tables, rows : Seq(Column),
                         made : Seq(Script), clean : BOOLEAN]
      /\ tab.conn \in Conns
  BY <1>4, <1>6 DEF QueryTab, Results
<1>8. dbType[tab.conn] \in Dialects
  BY <1>4, <1>7
<1>9. /\ ConnOf[tab.columnView] = tab.conn
      /\ ConnOf[tab.result.of] = tab.conn
      /\ Follows(dbType[tab.conn], Carried(ToSet(ColumnsOf[tab.result.of]), tab.result.made),
                 tab.result.rows, tab.result.clean)
  BY <1>5, <1>6 DEF TabRight
<1>. QED BY <1>2, <1>3, <1>4, <1>5, <1>7, <1>8, <1>9

\* The columns of a table, as the server describes them.
LEMMA TableColumns ==
    ASSUME NEW t \in Tables
    PROVE  ToSet(ColumnsOf[t]) \in SUBSET Column
<1>1. ColumnsOf[t] \in Seq(Column)
  BY TablesAssumption
<1>. QED BY <1>1, ListIs DEF ToSet

\* Scripts are written and the list is changed as they change the table.
LEMMA WritesRight ==
    ASSUME TabsInv, ListsInv, isColumnView,
           NEW scripts \in Seq(Script), NEW changed \in Seq(Column), NEW g,
           Writes(scripts, changed, g),
           Follows(dbType[shown.conn],
                   Carried(ToSet(ColumnsOf[shown.result.of]), shown.result.made \o scripts),
                   changed, shown.result.clean /\ Distinct(changed))
    PROVE  ListsInv'
<1>1. PICK id : id = shown.id
  OBVIOUS
<1>2. PICK distinct \in BOOLEAN : distinct = Distinct(changed)
  BY DEF Distinct
<1> DEFINE Patched(tab) == [tab EXCEPT !.result.rows = changed, !.result.made = @ \o scripts,
                                       !.result.clean = @ /\ distinct]
           new == Updated(mainTabs, id, LAMBDA tab :
                              [tab EXCEPT !.result.rows = changed, !.result.made = @ \o scripts,
                                          !.result.clean = @ /\ distinct])
<1>3. /\ mainTabs' = new /\ calls' = calls /\ opened' = opened /\ dbType' = dbType
      /\ new = [n \in DOMAIN mainTabs |-> IF mainTabs[n].id = id
                                          THEN Patched(mainTabs[n]) ELSE mainTabs[n]]
  <2>1. mainTabs' = new /\ calls' = calls /\ opened' = opened /\ dbType' = dbType
    BY <1>1, <1>2 DEF Writes
  <2>2. new = [n \in DOMAIN mainTabs |-> IF mainTabs[n].id = id
                                        THEN Patched(mainTabs[n]) ELSE mainTabs[n]]
    BY DEF Updated
  <2> HIDE DEF new, Patched
  <2>. QED BY <2>1, <2>2
<1>4. ASSUME NEW tab \in QueryTab,
             tab.result \in [kind : {"columns"}, of : Tables, rows : Seq(Column),
                             made : Seq(Script), clean : BOOLEAN]
      PROVE  /\ Patched(tab).id = tab.id /\ Patched(tab).conn = tab.conn
             /\ Patched(tab).columnView = tab.columnView
             /\ Patched(tab).result.of = tab.result.of
             /\ Patched(tab).result.rows = changed
             /\ Patched(tab).result.made = tab.result.made \o scripts
             /\ Patched(tab).result.clean = (tab.result.clean /\ distinct)
  <2> DEFINE r == [tab.result EXCEPT !.rows = changed, !.made = @ \o scripts,
                                     !.clean = @ /\ distinct]
  <2>1. /\ r.of = tab.result.of /\ r.rows = changed /\ r.made = tab.result.made \o scripts
        /\ r.clean = (tab.result.clean /\ distinct)
    BY <1>4
  <2>2. Patched(tab) = [tab EXCEPT !.result = r]
    BY DEF QueryTab
  <2> HIDE DEF r, Patched
  <2>. QED BY <2>1, <2>2 DEF QueryTab
<1> HIDE DEF Patched, new
<1>5. PICK n \in DOMAIN mainTabs :
         /\ shown = mainTabs[n]
         /\ \A m \in DOMAIN mainTabs : mainTabs[m].id = shown.id => m = n
         /\ shown \in QueryTab
         /\ shown.result \in [kind : {"columns"}, of : Tables, rows : Seq(Column),
                              made : Seq(Script), clean : BOOLEAN]
         /\ ConnOf[shown.columnView] = shown.conn
         /\ ConnOf[shown.result.of] = shown.conn
  BY ShownFollows
<1>6. PICK tab \in QueryTab :
         /\ tab = shown
         /\ tab.result \in [kind : {"columns"}, of : Tables, rows : Seq(Column),
                            made : Seq(Script), clean : BOOLEAN]
  BY <1>5
<1>7. mainTabs'[n] = Patched(tab)
  BY <1>1, <1>3, <1>5, <1>6
<1>8. /\ mainTabs'[n].id = tab.id /\ mainTabs'[n].conn = tab.conn
      /\ mainTabs'[n].columnView = tab.columnView
      /\ mainTabs'[n].result.of = tab.result.of
      /\ mainTabs'[n].result.rows = changed
      /\ mainTabs'[n].result.made = tab.result.made \o scripts
      /\ mainTabs'[n].result.clean = (tab.result.clean /\ distinct)
  BY <1>4, <1>6, <1>7
<1>9. TabRight(dbType, mainTabs'[n])
  <2>1. Follows(dbType[tab.conn],
                Carried(ToSet(ColumnsOf[tab.result.of]), tab.result.made \o scripts),
                changed, tab.result.clean /\ distinct)
    BY <1>2, <1>6
  <2>2. ConnOf[tab.columnView] = tab.conn /\ ConnOf[tab.result.of] = tab.conn
    BY <1>5, <1>6
  <2>. QED BY <1>8, <2>1, <2>2 DEF TabRight
<1>10. ASSUME NEW m \in DOMAIN mainTabs
       PROVE  /\ mainTabs'[m].id = mainTabs[m].id /\ mainTabs'[m].conn = mainTabs[m].conn
              /\ TabRight(dbType, mainTabs'[m])
  <2>1. CASE m = n
    BY <1>5, <1>6, <1>8, <1>9, <2>1
  <2>2. CASE m # n
    <3>1. mainTabs[m].id # id
      BY <1>1, <1>5, <2>2
    <3>2. mainTabs'[m] = mainTabs[m]
      BY <1>3, <3>1
    <3>. QED BY <3>2 DEF ListsInv, TabsRight
  <2>. QED BY <2>1, <2>2
<1>11. TabsRight(dbType, mainTabs, calls, opened) /\ DOMAIN mainTabs' = DOMAIN mainTabs
  BY <1>3 DEF ListsInv
<1>12. TabsRight(dbType, mainTabs', calls, opened)
  BY <1>10, <1>11, PatchRight
<1>. QED BY <1>3, <1>12 DEF ListsInv

\* Of the list of columns.
LEMMA ListRight ==
    ASSUME TabsInv, ListsInv, ConfirmDrop \/ \E d \in Drafts : SaveEdit(d) \/ SaveAdd(d)
    PROVE  ListsInv'
<1>1. isColumnView
  BY DEF ConfirmDrop, SaveEdit, SaveAdd
<1>2. PICK list \in Seq(Column) : list = rows
  BY <1>1, ListShown
<1>3. \A i \in DOMAIN list : list[i] \in Column
  BY ListIs
<1>4. PICK speaks \in Dialects, columns \in SUBSET Column, made \in Seq(Script), clean \in BOOLEAN :
         /\ speaks = dbType[shown.conn] /\ speaks = dialect
         /\ columns = ToSet(ColumnsOf[shown.result.of])
         /\ made = shown.result.made /\ clean = shown.result.clean
         /\ Follows(speaks, Carried(columns, made), list, clean)
  <2>1. PICK n \in DOMAIN mainTabs :
           /\ shown.result \in [kind : {"columns"}, of : Tables, rows : Seq(Column),
                                made : Seq(Script), clean : BOOLEAN]
           /\ ConnOf[shown.columnView] = shown.conn
           /\ dbType[shown.conn] \in Dialects
           /\ Follows(dbType[shown.conn],
                      Carried(ToSet(ColumnsOf[shown.result.of]), shown.result.made),
                      shown.result.rows, shown.result.clean)
    BY <1>1, ShownFollows
  <2>2. ToSet(ColumnsOf[shown.result.of]) \in SUBSET Column
    BY <2>1, TableColumns
  <2>3. dialect = dbType[shown.conn] /\ list = shown.result.rows
    BY <1>2, <2>1 DEF dialect, rows
  <2>. QED BY <2>1, <2>2, <2>3
<1>5. PICK so \in Upshot : so = Carried(columns, made)
  BY CarriedTyped
<1>6. ASSUME NEW scripts \in Seq(Script), NEW changed \in Seq(Column), NEW g,
             Writes(scripts, changed, g),
             Follows(speaks, Carried(columns, made \o scripts), changed, clean /\ Distinct(changed))
      PROVE  ListsInv'
  BY <1>1, <1>4, <1>6, WritesRight
<1>7. CASE ConfirmDrop
  <2>1. PICK i \in DOMAIN list : i = grid.deleting
    BY <1>2, <1>7 DEF ConfirmDrop
  <2>2. PICK old \in Column : old = list[i]
    BY <1>3
  <2>3. PICK less \in Seq(Column) : less = RemoveAt(list, i)
    BY RemovedIs
  <2>4. /\ DropScripts(old) \in Seq(Script)
        /\ Carried(columns, made \o DropScripts(old)) = IfCarried(so, TRUE, "drop", old.name, old)
    <3>1. "drop" \in Ops /\ old.name \in Names
      BY <2>2 DEF Ops, Column
    <3>2. /\ When(TRUE, "drop", old.name, old) \in Seq(Script)
          /\ Carried(columns, made \o When(TRUE, "drop", old.name, old))
                = IfCarried(Carried(columns, made), TRUE, "drop", old.name, old)
      BY <3>1, CarriedWhen
    <3>. QED BY <1>5, <3>2 DEF DropScripts
  <2>5. Follows(speaks, IfCarried(so, TRUE, "drop", list[i].name, list[i]), RemoveAt(list, i),
                clean /\ Distinct(RemoveAt(list, i)))
    BY <1>4, <1>5, DropFollows
  <2>6. Writes(DropScripts(old), less, [Fresh EXCEPT !.running = grid.running])
    BY <1>2, <1>7, <2>1, <2>2, <2>3 DEF ConfirmDrop
  <2>. QED BY <1>6, <2>2, <2>3, <2>4, <2>5, <2>6
<1>8. ASSUME NEW d \in Drafts, SaveEdit(d)
      PROVE  ListsInv'
  <2>1. PICK i \in DOMAIN list : i = grid.editing
    BY <1>2, <1>8 DEF SaveEdit
  <2>2. d \in Column
    BY TablesAssumption
  <2>3. PICK old \in Column : old = list[i]
    BY <1>3
  <2>4. PICK edited \in Seq(Column) : edited = [list EXCEPT ![i] = d]
    <3>1. i \in 1..Len(list)
      BY ListIs
    <3>. QED BY <2>2, <3>1, ExceptSeq
  <2>5. /\ EditScripts(speaks, old, d) \in Seq(Script)
        /\ Carried(columns, made \o EditScripts(speaks, old, d)) = EditCarried(speaks, so, old, d)
    BY <1>5, <2>2, <2>3, ScriptsTyped, EditIs
  <2>6. Follows(speaks, EditCarried(speaks, so, list[i], d), [list EXCEPT ![i] = d],
                clean /\ Distinct([list EXCEPT ![i] = d]))
    <3>1. LET e == [list EXCEPT ![i] = d]
          IN  Follows(speaks, EditCarried(speaks, so, list[i], d), e, clean /\ Distinct(e))
      BY <1>4, <1>5, <2>2, EditFollows
    <3>. QED BY <3>1
  <2>7. Writes(EditScripts(speaks, old, d), edited,
               [grid EXCEPT !.editing = NoRow, !.adding = FALSE])
    BY <1>2, <1>4, <1>8, <2>1, <2>3, <2>4 DEF SaveEdit
  <2>. QED BY <1>6, <2>3, <2>4, <2>5, <2>6, <2>7
<1>9. ASSUME NEW d \in Drafts, SaveAdd(d)
      PROVE  ListsInv'
  <2>1. d \in Column
    BY TablesAssumption
  <2>2. PICK more \in Seq(Column) : more = Append(list, d)
    BY <2>1, AppendProperties
  <2>3. /\ AddScripts(d) \in Seq(Script)
        /\ Carried(columns, made \o AddScripts(d)) = IfCarried(so, TRUE, "add", d.name, d)
    <3>1. "add" \in Ops /\ d.name \in Names
      BY <2>1 DEF Ops, Column
    <3>2. /\ When(TRUE, "add", d.name, d) \in Seq(Script)
          /\ Carried(columns, made \o When(TRUE, "add", d.name, d))
                = IfCarried(Carried(columns, made), TRUE, "add", d.name, d)
      BY <2>1, <3>1, CarriedWhen
    <3>. QED BY <1>5, <3>2 DEF AddScripts
  <2>4. Follows(speaks, IfCarried(so, TRUE, "add", d.name, d), Append(list, d),
                clean /\ Distinct(Append(list, d)))
    BY <1>4, <1>5, <2>1, AddFollows
  <2>5. Writes(AddScripts(d), more, [grid EXCEPT !.editing = NoRow, !.adding = FALSE])
    BY <1>2, <1>9, <2>2 DEF SaveAdd
  <2>. QED BY <1>6, <2>2, <2>3, <2>4, <2>5
<1>. QED BY <1>7, <1>8, <1>9

LEMMA ListsInvHolds == TabsSpec => []ListsInv
<1>1. TabsInit => ListsInv
  <2> SUFFICES ASSUME TabsInit PROVE ListsInv
    OBVIOUS
  <2>1. mainTabs = <<>> /\ calls = <<>> /\ opened = 0
    BY DEF TabsInit
  <2>. QED BY <2>1 DEF ListsInv, TabsRight
<1>2. TabsInv /\ ListsInv /\ [TabsNext]_tabVars => ListsInv'
  <2> SUFFICES ASSUME TabsInv, ListsInv, [TabsNext]_tabVars PROVE ListsInv'
    OBVIOUS
  <2>1. ASSUME UNCHANGED <<dbType, mainTabs, opened, calls>>
        PROVE  ListsInv'
    BY <2>1 DEF ListsInv
  <2>2. ASSUME NEW g, Sets(g)
        PROVE  ListsInv'
    BY <2>1, <2>2 DEF Sets
  <2>3. CASE CancelEdit \/ KeepColumn \/ OpenAdd \/ CancelAdd
    BY <2>2, <2>3 DEF CancelEdit, KeepColumn, OpenAdd, CancelAdd
  <2>4. ASSUME NEW i \in DOMAIN rows, EditRow(i) \/ AskDrop(i)
        PROVE  ListsInv'
    BY <2>2, <2>4 DEF EditRow, AskDrop
  <2>5. CASE RunAll \/ ClearLog
    BY <2>1, <2>5 DEF RunAll, ClearLog
  <2>6. ASSUME NEW k \in DOMAIN loops, RunEnds(k)
        PROVE  ListsInv'
    BY <2>1, <2>6 DEF RunEnds
  <2>7. CASE UNCHANGED tabVars
    BY <2>1, <2>7 DEF tabVars
  <2>. QED BY <2>3, <2>4, <2>5, <2>6, <2>7, TreeRight, RunRight, AnswersRight, FailedRight,
              KeysRight, TabComesRight, ListRight DEF TabsNext
<1>. QED BY <1>1, <1>2, TabsInvHolds, PTL DEF TabsSpec

\* Whatever is edited, dropped and added in lists of any length, with any number of tables,
\* connections, tabs and scripts, in whatever order answers come and tabs are closed and
\* opened meanwhile: the scripts written turn the columns that were described into those on
\* screen, as far as the dialect goes, and the server refuses none of them unless two
\* columns were given one name or a default of SQL Server was set twice
\* (handleSaveEdit, handleConfirmDelete, handleSaveAdd, generateAlterScripts).
THEOREM ScriptsShown == TabsSpec => []ScriptsGiveShown
<1>1. TabsInv /\ ListsInv => ScriptsGiveShown
  <2> SUFFICES ASSUME TabsInv, ListsInv, isColumnView
               PROVE  LET result == shown.result
                          speaks == dbType[ConnOf[result.of]]
                          after == Carried(ToSet(ColumnsOf[result.of]), result.made)
                      IN  /\ result.clean /\ speaks # "mssql" => after.ok
                          /\ after.ok =>
                                IF speaks \in WholeDialects
                                THEN after.columns = ToSet(rows)
                                ELSE {c.name : c \in after.columns} = {c.name : c \in ToSet(rows)}
    BY DEF ScriptsGiveShown
  <2>1. PICK n \in DOMAIN mainTabs :
           /\ ConnOf[shown.result.of] = shown.conn
           /\ Follows(dbType[shown.conn],
                      Carried(ToSet(ColumnsOf[shown.result.of]), shown.result.made),
                      shown.result.rows, shown.result.clean)
    BY ShownFollows
  <2>. QED BY <2>1 DEF Follows, Agrees, NamesOf, rows
<1>. QED BY <1>1, TabsInvHolds, ListsInvHolds, PTL

=============================================================================
