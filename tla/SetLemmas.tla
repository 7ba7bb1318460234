------------------------------ MODULE SetLemmas ------------------------------
(***************************************************************************)
(* Facts about finite sets that the proofs of this project rest on.        *)
(* Every family of subsets of a finite set has a minimal member: this is   *)
(* what stands in for an induction over the elements of a set. From it     *)
(* follow the sums over a set: what an element adds, and that sums of      *)
(* equal terms are equal.                                                  *)
(***************************************************************************)
EXTENDS Integers, FiniteSets, FiniteSetTheorems, WellFoundedInduction, TLAPS

LEMMA MinimalSet ==
    ASSUME NEW S, IsFiniteSet(S), NEW F, F \subseteq SUBSET S, F # {}
    PROVE  \E m \in F : \A x \in F : x \subseteq m => x = m
  <1>1. IsWellFoundedOn(StrictSubsetOrdering(S), SUBSET S)
    BY FS_StrictSubsetOrderingWellFounded, FS_FiniteSubsetsOfFinite
  <1>2. PICK m \in F : \A x \in F : ~(<<x, m>> \in StrictSubsetOrdering(S))
    BY <1>1, WFMin
  <1>3. ASSUME NEW x \in F, x \subseteq m
        PROVE  x = m
    <2>1. x \in SUBSET S /\ m \in SUBSET S
      OBVIOUS
    <2>2. <<x, m>> \in StrictSubsetOrdering(S) <=> x \subseteq m /\ x # m
      BY <2>1 DEF StrictSubsetOrdering
    <2>3. QED
      BY <1>2, <1>3, <2>2
  <1>4. QED
    BY <1>3

\* Among the members of a finite set that an irreflexive, total and transitive relation
\* orders, one comes before all the others.
LEMMA FirstInOrder ==
    ASSUME NEW K, IsFiniteSet(K), K # {}, NEW after,
           \A s \in K : s \notin after[s],
           \A s, t \in K : s # t => s \in after[t] \/ t \in after[s],
           \A s, t \in K : s \in after[t] => after[s] \subseteq after[t]
    PROVE  \E s \in K : K \ {s} \subseteq after[s]
  <1> DEFINE F == {K \ after[s] : s \in K}
  <1>1. F \subseteq SUBSET K /\ F # {}
    <2>1. PICK k \in K : TRUE
      OBVIOUS
    <2>2. K \ after[k] \in F
      OBVIOUS
    <2> HIDE DEF F
    <2>3. F # {}
      BY <2>2
    <2>4. QED
      BY <2>3 DEF F
  <1>2. PICK m \in F : \A x \in F : x \subseteq m => x = m
    <2> HIDE DEF F
    <2>1. QED
      BY <1>1, MinimalSet
  <1>3. PICK s \in K : m = K \ after[s]
    BY <1>2
  <1>4. ASSUME NEW t \in K \ {s}, t \notin after[s]
        PROVE  FALSE
    <2>1. s \in after[t] /\ after[s] \subseteq after[t]
      BY <1>4
    <2>2. K \ after[t] \in F /\ K \ after[t] \subseteq m
      BY <1>3, <2>1
    <2>3. K \ after[t] = m
      BY <1>2, <2>2
    <2>4. s \in m /\ s \notin K \ after[t]
      BY <1>3, <2>1
    <2>5. QED
      BY <2>3, <2>4
  <1>5. QED
    BY <1>4

-----------------------------------------------------------------------------
(* Sums over a finite set, by the recursion that MapThenSumSet makes.       *)

\* What g is at s when it gives each subset of S the sum of its weights.
Weighed(g, w, s) ==
    IF s = {} THEN 0
    ELSE w[CHOOSE x \in s : TRUE] + g[s \ {CHOOSE x \in s : TRUE}]

IsSum(g, w, S) == g = [s \in SUBSET S |-> Weighed(g, w, s)]

Total(w, S) == (CHOOSE g : IsSum(g, w, S))[S]

LEMMA SumAt ==
    ASSUME NEW S, NEW w, NEW g, IsSum(g, w, S), NEW s \in SUBSET S
    PROVE  /\ g[s] = Weighed(g, w, s)
           /\ s # {} => (CHOOSE x \in s : TRUE) \in s
  <1>1. DOMAIN g = SUBSET S /\ g[s] = Weighed(g, w, s)
    <2> DEFINE h == [t \in SUBSET S |-> Weighed(g, w, t)]
    <2>1. g = h
      BY DEF IsSum
    <2>2. h[s] = Weighed(g, w, s)
      OBVIOUS
    <2>3. DOMAIN h = SUBSET S
      OBVIOUS
    <2> HIDE DEF h
    <2>4. QED
      BY <2>1, <2>2, <2>3
  <1>2. s # {} => (CHOOSE x \in s : TRUE) \in s
    OBVIOUS
  <1>3. QED
    BY <1>1, <1>2

LEMMA SumUnique ==
    ASSUME NEW S, IsFiniteSet(S), NEW w, NEW g, NEW h, IsSum(g, w, S), IsSum(h, w, S)
    PROVE  g = h
  <1> DEFINE F == {s \in SUBSET S : g[s] # h[s]}
  <1>1. ASSUME F # {}
        PROVE  FALSE
    <2>1. PICK m \in F : \A x \in F : x \subseteq m => x = m
      <3>1. F \subseteq SUBSET S
        OBVIOUS
      <3> HIDE DEF F
      <3>2. QED
        BY <1>1, <3>1, MinimalSet
    <2> DEFINE c == CHOOSE x \in m : TRUE
    <2>2. g[m] = Weighed(g, w, m) /\ h[m] = Weighed(h, w, m) /\ (m # {} => c \in m)
      BY SumAt
    <2>3. CASE m = {}
      BY <2>1, <2>2, <2>3 DEF Weighed
    <2>4. CASE m # {}
      <3>1. m \ {c} \in SUBSET S /\ m \ {c} # m /\ m \ {c} \subseteq m
        BY <2>2, <2>4
      <3>2. g[m \ {c}] = h[m \ {c}]
        <4> HIDE DEF c
        <4>1. QED
          BY <2>1, <3>1
      <3>3. QED
        BY <2>1, <2>2, <2>4, <3>2 DEF Weighed
    <2>5. QED
      BY <2>3, <2>4
  <1>2. \A s \in SUBSET S : g[s] = h[s]
    BY <1>1
  <1>3. g = [s \in SUBSET S |-> g[s]] /\ h = [s \in SUBSET S |-> h[s]]
    BY DEF IsSum
  <1>4. QED
    BY <1>2, <1>3

\* A sum on S is one on each of its subsets.
LEMMA SumRestricts ==
    ASSUME NEW S, NEW w, NEW g, IsSum(g, w, S), NEW T \in SUBSET S
    PROVE  IsSum([s \in SUBSET T |-> g[s]], w, T)
  <1> DEFINE h == [s \in SUBSET T |-> g[s]]
  <1>1. ASSUME NEW s \in SUBSET T
        PROVE  h[s] = Weighed(h, w, s)
    <2>1. s \in SUBSET S /\ h[s] = g[s]
      OBVIOUS
    <2>2. g[s] = Weighed(g, w, s) /\ (s # {} => (CHOOSE x \in s : TRUE) \in s)
      BY <2>1, SumAt
    <2>3. CASE s = {}
      BY <2>1, <2>2, <2>3 DEF Weighed
    <2>4. CASE s # {}
      <3> DEFINE c == CHOOSE x \in s : TRUE
      <3>1. s \ {c} \in SUBSET T
        OBVIOUS
      <3>2. h[s \ {c}] = g[s \ {c}]
        <4> HIDE DEF c
        <4>1. QED
          BY <3>1
      <3> HIDE DEF h
      <3>3. QED
        BY <2>1, <2>2, <2>4, <3>2 DEF Weighed
    <2>5. QED
      BY <2>3, <2>4
  <1>2. h = [s \in SUBSET T |-> h[s]]
    OBVIOUS
  <1> HIDE DEF h
  <1>3. h = [s \in SUBSET T |-> Weighed(h, w, s)]
    BY <1>1, <1>2
  <1>4. IsSum(h, w, T)
    BY <1>3 DEF IsSum
  <1>5. QED
    BY <1>4 DEF h

\* There is a sum: a smallest set without one would get it from those of its subsets.
LEMMA SumExists ==
    ASSUME NEW S, IsFiniteSet(S), NEW w
    PROVE  \E g : IsSum(g, w, S)
  <1> DEFINE F == {T \in SUBSET S : ~ \E g : IsSum(g, w, T)}
  <1>1. ASSUME F # {}
        PROVE  FALSE
    <2>1. PICK m \in F : \A x \in F : x \subseteq m => x = m
      <3>1. F \subseteq SUBSET S
        OBVIOUS
      <3> HIDE DEF F
      <3>2. QED
        BY <1>1, <3>1, MinimalSet
    <2>2. IsFiniteSet(m)
      BY FS_Subset
    <2> DEFINE sum(u) == CHOOSE g : IsSum(g, w, u)
    <2>3. ASSUME NEW u \in SUBSET m, u # m
          PROVE  IsSum(sum(u), w, u)
      <3>1. \E g : IsSum(g, w, u)
        BY <2>1, <2>3
      <3>2. QED
        BY <3>1
    <2> DEFINE v == [u \in SUBSET m |-> sum(u)[u]]
               h == [s \in SUBSET m |-> Weighed(v, w, s)]
    <2>4. ASSUME NEW u \in SUBSET m, u # m
          PROVE  h[u] = v[u]
      <3>1. IsSum(sum(u), w, u) /\ u \in SUBSET u
        BY <2>3, <2>4
      <3>2. v[u] = sum(u)[u] /\ h[u] = Weighed(v, w, u)
        OBVIOUS
      <3> HIDE DEF sum, v, h
      <3>3. sum(u)[u] = Weighed(sum(u), w, u) /\ (u # {} => (CHOOSE x \in u : TRUE) \in u)
        BY <3>1, SumAt
      <3>4. CASE u = {}
        BY <3>2, <3>3, <3>4 DEF Weighed
      <3>5. CASE u # {}
        <4> DEFINE c == CHOOSE x \in u : TRUE
                   t == u \ {c}
        <4>1. t \in SUBSET m /\ t \in SUBSET u /\ t # m /\ t \in SUBSET t
          BY <2>4
        <4>2. IsSum(sum(t), w, t)
          <5> HIDE DEF t
          <5>1. QED
            BY <2>3, <4>1 DEF sum
        <4>3. IsSum([s \in SUBSET t |-> sum(u)[s]], w, t)
          <5> HIDE DEF t
          <5>1. QED
            BY <3>1, <4>1, SumRestricts
        <4>4. sum(t) = [s \in SUBSET t |-> sum(u)[s]]
          <5>1. IsFiniteSet(t)
            BY <2>2, <4>1, FS_Subset
          <5> HIDE DEF t
          <5>2. QED
            BY <4>2, <4>3, <5>1, SumUnique
        <4>5. v[t] = sum(t)[t]
          <5> HIDE DEF t
          <5>1. QED
            BY <4>1 DEF v
        <4>6. v[t] = sum(u)[t]
          <5> HIDE DEF t
          <5>1. QED
            BY <4>1, <4>4, <4>5
        <4>7. QED
          BY <3>2, <3>3, <3>5, <4>6 DEF Weighed
      <3>6. QED
        BY <3>4, <3>5
    <2>5. ASSUME NEW s \in SUBSET m
          PROVE  h[s] = Weighed(h, w, s)
      <3>1. h[s] = Weighed(v, w, s)
        OBVIOUS
      <3> HIDE DEF v, h
      <3>2. CASE s = {}
        BY <3>1, <3>2 DEF Weighed
      <3>3. CASE s # {}
        <4> DEFINE c == CHOOSE x \in s : TRUE
        <4>1. c \in s
          BY <3>3
        <4>2. s \ {c} \in SUBSET m /\ s \ {c} # m
          BY <4>1
        <4>3. h[s \ {c}] = v[s \ {c}]
          <5> HIDE DEF c
          <5>1. QED
            BY <4>2, <2>4 DEF v, h
        <4>4. QED
          BY <3>1, <3>3, <4>3 DEF Weighed
      <3>4. QED
        BY <3>2, <3>3
    <2>6. h = [s \in SUBSET m |-> h[s]]
      OBVIOUS
    <2> HIDE DEF h
    <2>7. IsSum(h, w, m)
      BY <2>5, <2>6 DEF IsSum
    <2>8. QED
      BY <2>1, <2>7
  <1>2. S \notin F
    BY <1>1
  <1>3. QED
    BY <1>2

\* The term at any member can be taken out of the sum.
LEMMA SumAdds ==
    ASSUME NEW S, IsFiniteSet(S), NEW w, NEW g, IsSum(g, w, S), \A x \in S : w[x] \in Int
    PROVE  /\ g[{}] = 0
           /\ \A T \in SUBSET S : g[T] \in Int
           /\ \A T \in SUBSET S : \A x \in T : g[T] = w[x] + g[T \ {x}]
  <1>0. g[{}] = 0
    <2>1. {} \in SUBSET S
      OBVIOUS
    <2>2. g[{}] = Weighed(g, w, {})
      BY <2>1, SumAt
    <2>3. QED
      BY <2>2 DEF Weighed
  <1>1. \A T \in SUBSET S : g[T] \in Int
    <2> DEFINE F == {s \in SUBSET S : g[s] \notin Int}
    <2>1. ASSUME F # {}
          PROVE  FALSE
      <3>1. PICK m \in F : \A x \in F : x \subseteq m => x = m
        <4>1. F \subseteq SUBSET S
          OBVIOUS
        <4> HIDE DEF F
        <4>2. QED
          BY <2>1, <4>1, MinimalSet
      <3> DEFINE c == CHOOSE x \in m : TRUE
      <3>2. g[m] = Weighed(g, w, m) /\ (m # {} => c \in m)
        BY SumAt
      <3>3. m # {}
        <4>1. 0 \in Int
          OBVIOUS
        <4>2. QED
          BY <1>0, <3>1, <4>1
      <3>4. g[m] = w[c] + g[m \ {c}]
        BY <3>2, <3>3 DEF Weighed
      <3>5. c \in S /\ m \ {c} \in SUBSET S /\ m \ {c} # m /\ m \ {c} \subseteq m
        BY <3>2, <3>3
      <3> HIDE DEF c
      <3>6. g[m \ {c}] \in Int
        BY <3>1, <3>5
      <3>7. w[c] \in Int
        BY <3>5
      <3>8. g[m] \in Int
        BY <3>4, <3>6, <3>7
      <3>9. QED
        BY <3>1, <3>8
    <2>2. QED
      BY <2>1
  <1>2. ASSUME NEW T \in SUBSET S, NEW x \in T, g[T] # w[x] + g[T \ {x}]
        PROVE  FALSE
    <2> DEFINE F == {s \in SUBSET S : \E y \in s : g[s] # w[y] + g[s \ {y}]}
    <2>1. T \in F
      BY <1>2
    <2>2. PICK m \in F : \A s \in F : s \subseteq m => s = m
      <3>1. F # {} /\ F \subseteq SUBSET S
        BY <2>1
      <3> HIDE DEF F
      <3>2. QED
        BY <3>1, MinimalSet
    <2>3. PICK y \in m : g[m] # w[y] + g[m \ {y}]
      OBVIOUS
    <2> DEFINE c == CHOOSE z \in m : TRUE
    <2>4. g[m] = Weighed(g, w, m) /\ c \in m /\ m # {}
      BY SumAt
    <2>5. g[m] = w[c] + g[m \ {c}]
      BY <2>4 DEF Weighed
    <2> HIDE DEF c
    <2>6. c # y
      BY <2>3, <2>5
    <2>7. g[m \ {c}] = w[y] + g[(m \ {c}) \ {y}]
      <3>1. m \ {c} \in SUBSET S /\ m \ {c} # m /\ m \ {c} \subseteq m /\ y \in m \ {c}
        BY <2>4, <2>6
      <3>2. m \ {c} \notin F
        BY <2>2, <3>1
      <3>3. QED
        BY <3>1, <3>2
    <2>8. g[m \ {y}] = w[c] + g[(m \ {y}) \ {c}]
      <3>1. m \ {y} \in SUBSET S /\ m \ {y} # m /\ m \ {y} \subseteq m /\ c \in m \ {y}
        BY <2>4, <2>6
      <3>2. m \ {y} \notin F
        BY <2>2, <3>1
      <3>3. QED
        BY <3>1, <3>2
    <2>9. (m \ {c}) \ {y} = (m \ {y}) \ {c}
      OBVIOUS
    <2>10. w[c] \in Int /\ w[y] \in Int /\ g[(m \ {c}) \ {y}] \in Int
      BY <1>1, <2>4
    <2>11. ASSUME NEW a \in Int, NEW b \in Int, NEW rest \in Int
          PROVE  a + (b + rest) = b + (a + rest)
      BY <2>11
    <2>12. w[c] + (w[y] + g[(m \ {c}) \ {y}]) = w[y] + (w[c] + g[(m \ {c}) \ {y}])
      BY <2>10, <2>11
    <2>13. QED
      BY <2>3, <2>5, <2>7, <2>8, <2>9, <2>12, Zenon
  <1>3. QED
    BY <1>0, <1>1, <1>2

\* Weights that are naturals have sums that are, and a part weighs no more than the whole.
LEMMA SumIsNat ==
    ASSUME NEW S, IsFiniteSet(S), NEW w, NEW g, IsSum(g, w, S), \A x \in S : w[x] \in Nat
    PROVE  \A T \in SUBSET S : g[T] \in Nat
  <1> DEFINE F == {s \in SUBSET S : g[s] \notin Nat}
  <1>1. ASSUME F # {}
        PROVE  FALSE
    <2>1. PICK m \in F : \A x \in F : x \subseteq m => x = m
      <3>1. F \subseteq SUBSET S
        OBVIOUS
      <3> HIDE DEF F
      <3>2. QED
        BY <1>1, <3>1, MinimalSet
    <2>2. g[{}] = 0 /\ \A x \in m : g[m] = w[x] + g[m \ {x}]
      <3>1. \A x \in S : w[x] \in Int
        OBVIOUS
      <3>2. m \in SUBSET S
        OBVIOUS
      <3>3. QED
        BY <3>1, <3>2, SumAdds
    <2>3. PICK x \in m : TRUE
      <3>1. 0 \in Nat
        OBVIOUS
      <3>2. m # {}
        BY <2>1, <2>2, <3>1
      <3>3. QED
        BY <3>2
    <2>4. m \ {x} \in SUBSET S /\ m \ {x} # m /\ m \ {x} \subseteq m
      BY <2>3
    <2>5. g[m \ {x}] \in Nat
      BY <2>1, <2>4
    <2>6. w[x] \in Nat
      BY <2>3
    <2>7. g[m] \in Nat
      <3>1. g[m] = w[x] + g[m \ {x}]
        BY <2>2, <2>3
      <3>2. QED
        BY <2>5, <2>6, <3>1
    <2>8. QED
      BY <2>1, <2>7
  <1>2. QED
    BY <1>1

\* Total is the sum of the weights.
LEMMA TotalIsSum ==
    ASSUME NEW S, IsFiniteSet(S), NEW w
    PROVE  IsSum(CHOOSE g : IsSum(g, w, S), w, S)
  <1>1. \E g : IsSum(g, w, S)
    BY SumExists
  <1>2. QED
    BY <1>1, Zenon

LEMMA TotalOf ==
    ASSUME NEW S, IsFiniteSet(S), NEW w, NEW g, IsSum(g, w, S)
    PROVE  \A T \in SUBSET S : Total(w, T) = g[T]
  <1>1. ASSUME NEW T \in SUBSET S
        PROVE  Total(w, T) = g[T]
    <2> DEFINE h == CHOOSE f : IsSum(f, w, T)
               k == [s \in SUBSET T |-> g[s]]
    <2>1. IsFiniteSet(T)
      BY FS_Subset
    <2>2. IsSum(h, w, T)
      BY <2>1, TotalIsSum
    <2>3. IsSum(k, w, T)
      BY SumRestricts
    <2>4. k[T] = g[T]
      OBVIOUS
    <2>5. Total(w, T) = h[T]
      BY DEF Total
    <2> HIDE DEF h, k
    <2>6. h = k
      BY <2>1, <2>2, <2>3, SumUnique
    <2>7. QED
      BY <2>4, <2>5, <2>6
  <1>2. QED
    BY <1>1

LEMMA TotalAdds ==
    ASSUME NEW S, IsFiniteSet(S), NEW w, \A x \in S : w[x] \in Int
    PROVE  /\ Total(w, {}) = 0
           /\ Total(w, S) \in Int
           /\ \A x \in S : Total(w, S) = w[x] + Total(w, S \ {x})
  <1>1. PICK g : IsSum(g, w, S)
    BY SumExists
  <1>2. /\ g[{}] = 0
        /\ \A T \in SUBSET S : g[T] \in Int
        /\ \A T \in SUBSET S : \A x \in T : g[T] = w[x] + g[T \ {x}]
    BY <1>1, SumAdds
  <1>3. \A T \in SUBSET S : Total(w, T) = g[T]
    BY <1>1, TotalOf
  <1>4. {} \in SUBSET S /\ S \in SUBSET S /\ \A x \in S : S \ {x} \in SUBSET S
    OBVIOUS
  <1>5. QED
    BY <1>2, <1>3, <1>4

LEMMA TotalIsNat ==
    ASSUME NEW S, IsFiniteSet(S), NEW w, \A x \in S : w[x] \in Nat
    PROVE  Total(w, S) \in Nat
  <1>1. PICK g : IsSum(g, w, S)
    BY SumExists
  <1>2. \A T \in SUBSET S : g[T] \in Nat
    BY <1>1, SumIsNat
  <1>3. \A T \in SUBSET S : Total(w, T) = g[T]
    BY <1>1, TotalOf
  <1>4. S \in SUBSET S
    OBVIOUS
  <1>5. QED
    BY <1>2, <1>3, <1>4

\* Equal weights have equal sums.
LEMMA TotalEqual ==
    ASSUME NEW S, IsFiniteSet(S), NEW w, NEW v, \A x \in S : w[x] = v[x]
    PROVE  Total(w, S) = Total(v, S)
  <1>1. PICK g : IsSum(g, w, S)
    BY SumExists
  <1>2. ASSUME NEW s \in SUBSET S
        PROVE  Weighed(g, w, s) = Weighed(g, v, s)
    <2>1. CASE s = {}
      BY <2>1 DEF Weighed
    <2>2. CASE s # {}
      <3>1. (CHOOSE x \in s : TRUE) \in S
        BY <2>2
      <3>2. w[CHOOSE x \in s : TRUE] = v[CHOOSE x \in s : TRUE]
        BY <3>1
      <3>3. QED
        BY <2>2, <3>2 DEF Weighed
    <2>3. QED
      BY <2>1, <2>2
  <1>3. IsSum(g, v, S)
    BY <1>1, <1>2 DEF IsSum
  <1>4. S \in SUBSET S
    OBVIOUS
  <1>5. QED
    BY <1>1, <1>3, <1>4, TotalOf

\* One weight that changes moves the sum by as much.
LEMMA TotalMoves ==
    ASSUME NEW S, IsFiniteSet(S), NEW w \in [S -> Int], NEW x \in S, NEW n \in Int
    PROVE  /\ Total([w EXCEPT ![x] = n], S) = Total(w, S) + n - w[x]
           /\ Total(w, S) \in Int /\ w[x] \in Int
  <1> DEFINE v == [w EXCEPT ![x] = n]
  <1>0. /\ \A y \in S : w[y] \in Int /\ v[y] \in Int
        /\ \A y \in S \ {x} : w[y] = v[y]
        /\ v[x] = n
    OBVIOUS
  <1> HIDE DEF v
  <1>1. Total(w, S) = w[x] + Total(w, S \ {x})
    BY <1>0, TotalAdds
  <1>2. Total(v, S) = v[x] + Total(v, S \ {x})
    BY <1>0, TotalAdds
  <1>3. IsFiniteSet(S \ {x})
    BY FS_RemoveElement
  <1>4. Total(w, S \ {x}) = Total(v, S \ {x})
    BY <1>0, <1>3, TotalEqual
  <1>5. Total(w, S \ {x}) \in Int
    BY <1>0, <1>3, TotalAdds
  <1>6. Total(v, S) = Total(w, S) + n - w[x] /\ Total(w, S) \in Int /\ w[x] \in Int
    BY <1>0, <1>1, <1>2, <1>4, <1>5
  <1>7. QED
    BY <1>6 DEF v

\* A part of a set weighs no more than the set when weights are naturals.
LEMMA TotalGrows ==
    ASSUME NEW S, IsFiniteSet(S), NEW w, \A x \in S : w[x] \in Nat, NEW T \in SUBSET S
    PROVE  Total(w, T) <= Total(w, S)
  <1> DEFINE F == {U \in SUBSET S : T \subseteq U /\ ~(Total(w, T) <= Total(w, U))}
  <1>1. ASSUME F # {}
        PROVE  FALSE
    <2>1. PICK m \in F : \A x \in F : x \subseteq m => x = m
      <3>1. F \subseteq SUBSET S
        OBVIOUS
      <3> HIDE DEF F
      <3>2. QED
        BY <1>1, <3>1, MinimalSet
    <2>2. IsFiniteSet(T) /\ IsFiniteSet(m) /\ T \subseteq m /\ m \subseteq S
      BY FS_Subset
    <2>3. Total(w, T) \in Nat /\ Total(w, m) \in Nat
      <3>1. (\A x \in T : w[x] \in Nat) /\ (\A x \in m : w[x] \in Nat)
        BY <2>2
      <3> HIDE DEF F
      <3>2. QED
        BY <2>2, <3>1, TotalIsNat
    <2>4. PICK x \in m : x \notin T
      <3>1. m # T
        BY <2>1, <2>3
      <3>2. QED
        BY <2>2, <3>1
    <2>5. Total(w, m) = w[x] + Total(w, m \ {x})
      <3>1. \A y \in m : w[y] \in Int
        BY <2>2
      <3> HIDE DEF F
      <3>2. QED
        BY <2>2, <2>4, <3>1, TotalAdds
    <2>6. m \ {x} \in SUBSET S /\ T \subseteq m \ {x} /\ m \ {x} # m /\ m \ {x} \subseteq m
      BY <2>2, <2>4
    <2>7. m \ {x} \notin F
      <3> HIDE DEF F
      <3>1. QED
        BY <2>1, <2>6
    <2>8. Total(w, T) <= Total(w, m \ {x})
      BY <2>6, <2>7
    <2>9. w[x] \in Nat /\ Total(w, m \ {x}) \in Nat
      <3>1. IsFiniteSet(m \ {x}) /\ (\A y \in m \ {x} : w[y] \in Nat) /\ w[x] \in Nat
        BY <2>2, FS_Subset
      <3> HIDE DEF F
      <3>2. QED
        BY <3>1, TotalIsNat
    <2>10. Total(w, T) <= Total(w, m)
      BY <2>3, <2>5, <2>8, <2>9
    <2>11. QED
      BY <2>1, <2>10
  <1>2. S \in SUBSET S /\ S \notin F
    BY <1>1
  <1>3. QED
    BY <1>2

\* Weights of one and of nothing count the members that weigh one.
LEMMA TotalCounts ==
    ASSUME NEW S, IsFiniteSet(S), NEW w, NEW P \in SUBSET S,
           \A x \in S : w[x] = IF x \in P THEN 1 ELSE 0
    PROVE  Total(w, S) = Cardinality(P)
  <1> DEFINE F == {U \in SUBSET S : Total(w, U) # Cardinality(U \cap P)}
  <1>1. ASSUME F # {}
        PROVE  FALSE
    <2>1. PICK m \in F : \A x \in F : x \subseteq m => x = m
      <3>1. F \subseteq SUBSET S
        OBVIOUS
      <3> HIDE DEF F
      <3>2. QED
        BY <1>1, <3>1, MinimalSet
    <2>2. m \in SUBSET S /\ IsFiniteSet(m) /\ IsFiniteSet(m \cap P)
      BY FS_Subset
    <2>3. /\ Total(w, {}) = 0
          /\ \A x \in m : Total(w, m) = w[x] + Total(w, m \ {x})
      <3>1. \A x \in m : w[x] \in Int
        BY <2>2
      <3> HIDE DEF F
      <3>2. QED
        BY <2>2, <3>1, TotalAdds
    <2>4. PICK x \in m : TRUE
      <3>1. {} \cap P = {}
        OBVIOUS
      <3>2. m # {}
        BY <2>1, <2>3, <3>1, FS_EmptySet
      <3>3. QED
        BY <3>2
    <2> DEFINE n == m \ {x}
    <2>5. n \in SUBSET S /\ n # m /\ n \subseteq m
      BY <2>2, <2>4
    <2>6. Total(w, n) = Cardinality(n \cap P)
      <3>1. n \notin F
        <4> HIDE DEF F, n
        <4>1. QED
          BY <2>1, <2>5
      <3>2. QED
        BY <2>5, <3>1
    <2>7. Cardinality(n \cap P) \in Nat
      <3>1. IsFiniteSet(n \cap P)
        BY <2>2, FS_Subset
      <3> HIDE DEF n
      <3>2. QED
        BY <3>1, FS_CardinalityType
    <2>8. Cardinality(m \cap P) = w[x] + Cardinality(n \cap P)
      <3>1. CASE x \in P
        <4>1. (m \cap P) \ {x} = n \cap P /\ x \in m \cap P
          BY <2>4, <3>1
        <4> HIDE DEF n
        <4>2. Cardinality((m \cap P) \ {x}) = Cardinality(m \cap P) - 1 /\ Cardinality(m \cap P) \in Nat
          BY <2>2, <4>1, FS_RemoveElement, FS_CardinalityType
        <4>3. w[x] = 1
          BY <3>1
        <4>4. Cardinality(n \cap P) = Cardinality(m \cap P) - 1
          BY <4>1, <4>2
        <4>5. QED
          BY <4>2, <4>3, <4>4
      <3>2. CASE x \notin P
        <4>1. m \cap P = n \cap P
          BY <3>2
        <4>2. w[x] = 0
          BY <2>2, <2>4, <3>2
        <4> HIDE DEF n
        <4>3. QED
          BY <2>7, <4>1, <4>2
      <3>3. QED
        BY <3>1, <3>2
    <2>9. Total(w, m) = Cardinality(m \cap P)
      <3> HIDE DEF F
      <3>1. QED
        BY <2>3, <2>4, <2>6, <2>8
    <2>10. QED
      BY <2>1, <2>9
  <1>2. S \in SUBSET S /\ S \notin F /\ S \cap P = P
    BY <1>1
  <1>3. QED
    BY <1>2

\* A sum over one more element.
LEMMA TotalJoins ==
    ASSUME NEW S, IsFiniteSet(S), NEW r, r \notin S, NEW w, NEW v,
           \A x \in S \cup {r} : w[x] \in Int, \A x \in S : v[x] = w[x]
    PROVE  Total(w, S \cup {r}) = Total(v, S) + w[r] /\ Total(v, S) \in Int
  <1>1. IsFiniteSet(S \cup {r})
    BY FS_AddElement
  <1>2. Total(w, S \cup {r}) = w[r] + Total(w, (S \cup {r}) \ {r})
    BY <1>1, TotalAdds
  <1>3. (S \cup {r}) \ {r} = S
    OBVIOUS
  <1>4. Total(w, S) = Total(v, S) /\ Total(w, S) \in Int
    BY TotalEqual, TotalAdds
  <1>5. Total(w, S \cup {r}) = w[r] + Total(w, S)
    BY <1>2, <1>3
  <1>6. w[r] \in Int
    OBVIOUS
  <1>7. QED
    BY <1>4, <1>5, <1>6

-----------------------------------------------------------------------------
(* Laws of sums, each from what one more member does.                      *)

\* A family of subsets that has the empty set, and every set of which one member can be
\* taken out for a set of the family, has the whole set.
LEMMA ByMembers ==
    ASSUME NEW S, IsFiniteSet(S), NEW F, {} \in F,
           \A T \in SUBSET S : \A x \in T : T \ {x} \in F => T \in F
    PROVE  S \in F
  <1> DEFINE G == {T \in SUBSET S : T \notin F}
  <1>1. ASSUME G # {}
        PROVE  FALSE
    <2>1. PICK m \in G : \A y \in G : y \subseteq m => y = m
      <3>1. G \subseteq SUBSET S
        OBVIOUS
      <3> HIDE DEF G
      <3>2. QED
        BY <1>1, <3>1, MinimalSet
    <2>2. PICK x \in m : TRUE
      OBVIOUS
    <2>3. m \ {x} \in SUBSET S /\ m \ {x} # m /\ m \ {x} \subseteq m
      BY <2>2
    <2>4. m \ {x} \in F
      BY <2>1, <2>3
    <2>5. QED
      BY <2>1, <2>2, <2>4
  <1>2. QED
    BY <1>1

\* Sums of differences, by the sums of what is subtracted.
LEMMA TotalMinus ==
    ASSUME NEW S, IsFiniteSet(S), NEW u, NEW v, NEW w,
           \A x \in S : v[x] \in Int /\ w[x] \in Int /\ u[x] = v[x] - w[x]
    PROVE  Total(u, S) = Total(v, S) - Total(w, S)
  <1> DEFINE F == {T \in SUBSET S : Total(u, T) = Total(v, T) - Total(w, T)}
  <1>0. \A x \in S : u[x] \in Int
    OBVIOUS
  <1>1. {} \in F
    <2>1. Total(u, {}) = 0 /\ Total(v, {}) = 0 /\ Total(w, {}) = 0
      BY <1>0, TotalAdds
    <2>2. QED
      BY <2>1
  <1>2. ASSUME NEW T \in SUBSET S, NEW x \in T, T \ {x} \in F
        PROVE  T \in F
    <2>1. IsFiniteSet(T) /\ IsFiniteSet(T \ {x})
      BY FS_Subset
    <2>2. \A y \in T : u[y] \in Int /\ v[y] \in Int /\ w[y] \in Int
      BY <1>0
    <2>3. /\ Total(u, T) = u[x] + Total(u, T \ {x})
          /\ Total(v, T) = v[x] + Total(v, T \ {x})
          /\ Total(w, T) = w[x] + Total(w, T \ {x})
      BY <2>1, <2>2, TotalAdds
    <2>4. Total(v, T \ {x}) \in Int /\ Total(w, T \ {x}) \in Int
      BY <2>1, <2>2, TotalAdds
    <2>5. Total(u, T \ {x}) = Total(v, T \ {x}) - Total(w, T \ {x})
      BY <1>2
    <2>6. u[x] = v[x] - w[x] /\ v[x] \in Int /\ w[x] \in Int
      OBVIOUS
    <2>7. Total(u, T) = Total(v, T) - Total(w, T)
      BY <2>3, <2>4, <2>5, <2>6
    <2>8. QED
      BY <2>7
  <1> HIDE DEF F
  <1>3. S \in F
    BY <1>1, <1>2, ByMembers
  <1>4. QED
    BY <1>3 DEF F

\* Sums of multiples.
LEMMA TotalTimes ==
    ASSUME NEW S, IsFiniteSet(S), NEW k \in Int, NEW w, NEW u,
           \A x \in S : w[x] \in Int /\ u[x] = k * w[x]
    PROVE  Total(u, S) = k * Total(w, S)
  <1> DEFINE F == {T \in SUBSET S : Total(u, T) = k * Total(w, T)}
  <1>0. \A x \in S : u[x] \in Int
    OBVIOUS
  <1>1. {} \in F
    <2>1. Total(u, {}) = 0 /\ Total(w, {}) = 0
      BY <1>0, TotalAdds
    <2>2. QED
      BY <2>1
  <1>2. ASSUME NEW T \in SUBSET S, NEW x \in T, T \ {x} \in F
        PROVE  T \in F
    <2>1. IsFiniteSet(T) /\ IsFiniteSet(T \ {x})
      BY FS_Subset
    <2>2. \A y \in T : u[y] \in Int /\ w[y] \in Int
      BY <1>0
    <2>3. /\ Total(u, T) = u[x] + Total(u, T \ {x})
          /\ Total(w, T) = w[x] + Total(w, T \ {x})
      BY <2>1, <2>2, TotalAdds
    <2>4. Total(w, T \ {x}) \in Int
      BY <2>1, <2>2, TotalAdds
    <2>5. Total(u, T \ {x}) = k * Total(w, T \ {x})
      BY <1>2
    <2>6. u[x] = k * w[x] /\ w[x] \in Int
      OBVIOUS
    <2>7. ASSUME NEW a \in Int, NEW b \in Int
          PROVE  k * a + k * b = k * (a + b)
      BY <2>7
    <2>8. Total(u, T) = k * (w[x] + Total(w, T \ {x}))
      BY <2>3, <2>4, <2>5, <2>6, <2>7
    <2>9. Total(u, T) = k * Total(w, T)
      BY <2>3, <2>8
    <2>10. QED
      BY <2>9
  <1> HIDE DEF F
  <1>3. S \in F
    BY <1>1, <1>2, ByMembers
  <1>4. QED
    BY <1>3 DEF F

\* A bound of every weight bounds the sum.
LEMMA TotalBounded ==
    ASSUME NEW S, IsFiniteSet(S), NEW k \in Int, NEW w, \A x \in S : w[x] \in Int /\ w[x] <= k
    PROVE  Total(w, S) <= k * Cardinality(S)
  <1> DEFINE F == {T \in SUBSET S : Total(w, T) <= k * Cardinality(T)}
  <1>1. {} \in F
    <2>1. Total(w, {}) = 0 /\ Cardinality({}) = 0
      BY TotalAdds, FS_EmptySet
    <2>2. QED
      BY <2>1
  <1>2. ASSUME NEW T \in SUBSET S, NEW x \in T, T \ {x} \in F
        PROVE  T \in F
    <2>1. IsFiniteSet(T) /\ IsFiniteSet(T \ {x})
      BY FS_Subset
    <2>2. Total(w, T) = w[x] + Total(w, T \ {x}) /\ Total(w, T \ {x}) \in Int
      BY <2>1, TotalAdds
    <2>3. Cardinality(T \ {x}) = Cardinality(T) - 1 /\ Cardinality(T) \in Nat
      BY <2>1, FS_RemoveElement, FS_CardinalityType
    <2>4. Total(w, T \ {x}) <= k * Cardinality(T \ {x})
      BY <1>2
    <2>5. w[x] \in Int /\ w[x] <= k
      OBVIOUS
    <2>6. ASSUME NEW n \in Nat, NEW a \in Int, NEW b \in Int, a <= k, b <= k * (n - 1)
          PROVE  a + b <= k * n
      BY <2>6
    <2>7. Total(w, T) <= k * Cardinality(T)
      BY <2>2, <2>3, <2>4, <2>5, <2>6
    <2>8. QED
      BY <2>7
  <1> HIDE DEF F
  <1>3. S \in F
    BY <1>1, <1>2, ByMembers
  <1>4. QED
    BY <1>3 DEF F

\* A sum is that of a part and of the rest.
LEMMA TotalParts ==
    ASSUME NEW S, IsFiniteSet(S), NEW R \in SUBSET S, NEW w, \A x \in S : w[x] \in Int
    PROVE  Total(w, S) = Total(w, R) + Total(w, S \ R)
  <1> DEFINE F == {T \in SUBSET S : Total(w, T) = Total(w, T \cap R) + Total(w, T \ R)}
  <1>1. {} \in F
    <2>1. {} \cap R = {} /\ {} \ R = {} /\ Total(w, {}) = 0
      BY TotalAdds
    <2>2. Total(w, {}) = Total(w, {} \cap R) + Total(w, {} \ R)
      BY <2>1
    <2>3. QED
      BY <2>2
  <1>2. ASSUME NEW T \in SUBSET S, NEW x \in T, T \ {x} \in F
        PROVE  T \in F
    <2> DEFINE U == T \ {x}
    <2>1. /\ IsFiniteSet(T) /\ IsFiniteSet(T \cap R) /\ IsFiniteSet(T \ R)
          /\ IsFiniteSet(U \cap R) /\ IsFiniteSet(U \ R)
      BY FS_Subset
    <2>2. Total(w, T) = w[x] + Total(w, U)
      BY <2>1, TotalAdds
    <2>3. Total(w, U) = Total(w, U \cap R) + Total(w, U \ R)
      BY <1>2
    <2>4. Total(w, U \cap R) \in Int /\ Total(w, U \ R) \in Int /\ w[x] \in Int
      <3>1. (\A y \in U \cap R : w[y] \in Int) /\ (\A y \in U \ R : w[y] \in Int) /\ w[x] \in Int
        OBVIOUS
      <3> HIDE DEF U
      <3>2. QED
        BY <2>1, <3>1, TotalAdds
    <2>5. Total(w, T) = Total(w, T \cap R) + Total(w, T \ R)
      <3>1. CASE x \in R
        <4>1. U \cap R = (T \cap R) \ {x} /\ U \ R = T \ R /\ x \in T \cap R
          BY <3>1
        <4>2. \A y \in T \cap R : w[y] \in Int
          OBVIOUS
        <4> HIDE DEF U
        <4>3. Total(w, T \cap R) = w[x] + Total(w, U \cap R)
          BY <2>1, <4>1, <4>2, TotalAdds
        <4>4. Total(w, T \ R) = Total(w, U \ R)
          BY <4>1
        <4>5. QED
          BY <2>2, <2>3, <2>4, <4>3, <4>4
      <3>2. CASE x \notin R
        <4>1. U \ R = (T \ R) \ {x} /\ U \cap R = T \cap R /\ x \in T \ R
          BY <3>2
        <4>2. \A y \in T \ R : w[y] \in Int
          OBVIOUS
        <4> HIDE DEF U
        <4>3. Total(w, T \ R) = w[x] + Total(w, U \ R)
          BY <2>1, <4>1, <4>2, TotalAdds
        <4>4. Total(w, T \cap R) = Total(w, U \cap R)
          BY <4>1
        <4>5. QED
          BY <2>2, <2>3, <2>4, <4>3, <4>4
      <3>3. QED
        BY <3>1, <3>2
    <2>6. QED
      BY <2>5
  <1>3. S \in F
    <2> HIDE DEF F
    <2>1. QED
      BY <1>1, <1>2, ByMembers
  <1>4. S \cap R = R
    OBVIOUS
  <1>5. QED
    BY <1>3, <1>4

\* Members that weigh nothing may be left out.
LEMMA TotalOnly ==
    ASSUME NEW S, IsFiniteSet(S), NEW R \in SUBSET S, NEW w, \A x \in S : w[x] \in Int,
           \A x \in S \ R : w[x] = 0
    PROVE  Total(w, S) = Total(w, R)
  <1>1. Total(w, S) = Total(w, R) + Total(w, S \ R)
    BY TotalParts
  <1>2. IsFiniteSet(R) /\ IsFiniteSet(S \ R)
    BY FS_Subset
  <1>3. Total(w, R) \in Int
    BY <1>2, TotalAdds
  <1>4. Total(w, S \ R) = 0 * Total(w, S \ R) /\ Total(w, S \ R) \in Int
    <2>1. \A x \in S \ R : w[x] \in Int /\ w[x] = 0 * w[x]
      OBVIOUS
    <2>2. QED
      BY <1>2, <2>1, TotalTimes, TotalAdds
  <1>5. QED
    BY <1>1, <1>3, <1>4

\* What is summed class by class is the sum: each member of S belongs to class[x] in C.
LEMMA TotalByClass ==
    ASSUME NEW S, IsFiniteSet(S), NEW C, IsFiniteSet(C), NEW class, \A x \in S : class[x] \in C,
           NEW w, \A x \in S : w[x] \in Int,
           NEW members, \A c \in C : members[c] = {x \in S : class[x] = c},
           NEW sums, \A c \in C : sums[c] = Total(w, members[c])
    PROVE  Total(sums, C) = Total(w, S) /\ \A c \in C : sums[c] \in Int
  <1> DEFINE Of(D) == {x \in S : class[x] \in D}
             F == {D \in SUBSET C : Total(sums, D) = Total(w, Of(D))}
  <1>0. ASSUME NEW c \in C
        PROVE  sums[c] \in Int
    <2> DEFINE K == {x \in S : class[x] = c}
    <2>1. IsFiniteSet(K) /\ \A x \in K : w[x] \in Int
      BY FS_Subset
    <2>2. sums[c] = Total(w, K)
      OBVIOUS
    <2> HIDE DEF K
    <2>3. QED
      BY <2>1, <2>2, TotalAdds
  <1>1. {} \in F
    <2>1. Of({}) = {}
      OBVIOUS
    <2>2. Total(sums, {}) = 0 /\ Total(w, {}) = 0
      BY <1>0, TotalAdds
    <2>3. Total(sums, {}) = Total(w, Of({}))
      BY <2>1, <2>2
    <2>4. QED
      BY <2>3
  <1>2. ASSUME NEW D \in SUBSET C, NEW c \in D, D \ {c} \in F
        PROVE  D \in F
    <2> DEFINE K == {x \in S : class[x] = c}
    <2>1. IsFiniteSet(D) /\ \A d \in D : sums[d] \in Int
      BY <1>0, FS_Subset
    <2>2. Total(sums, D) = sums[c] + Total(sums, D \ {c})
      <3>1. \A d \in D : Total(sums, D) = sums[d] + Total(sums, D \ {d})
        BY <2>1, TotalAdds, Zenon
      <3>2. QED
        BY <3>1
    <2>3. /\ IsFiniteSet(Of(D)) /\ \A x \in Of(D) : w[x] \in Int
          /\ K \subseteq Of(D) /\ Of(D \ {c}) = Of(D) \ K
      BY FS_Subset
    <2>4. Total(sums, D \ {c}) = Total(w, Of(D \ {c}))
      BY <1>2
    <2>5. sums[c] = Total(w, K)
      OBVIOUS
    <2>6. Total(w, Of(D)) = Total(w, K) + Total(w, Of(D) \ K)
      <3> HIDE DEF Of, K
      <3>1. QED
        BY <2>3, TotalParts
    <2>7. Total(sums, D) = Total(w, Of(D))
      <3> HIDE DEF Of, K
      <3>1. QED
        BY <2>2, <2>3, <2>4, <2>5, <2>6
    <2>8. QED
      BY <2>7
  <1>3. C \in F
    <2> HIDE DEF F
    <2>1. QED
      BY <1>1, <1>2, ByMembers
  <1>4. Of(C) = S
    OBVIOUS
  <1>5. Total(sums, C) = Total(w, Of(C))
    BY <1>3
  <1>6. QED
    BY <1>0, <1>4, <1>5
=============================================================================
