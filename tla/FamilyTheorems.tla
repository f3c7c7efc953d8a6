--------------------------- MODULE FamilyTheorems ---------------------------
(***************************************************************************)
(* What discovery says of the tasks of the store holds together: families  *)
(* are the classes of similar tasks, no two have one identifier, what is   *)
(* shown of a family adds up, its proposal allows what its tasks do, and   *)
(* a report compared with itself moves no task.                            *)
(*                                                                         *)
(* A sum over the members of a set is compared with another by induction   *)
(* over the subsets of it, counts are sums of ones, and what the components*)
(* of similarity and the greedy matching of families reach is followed     *)
(* step by step.  Nothing is asked of a report but that its structures are *)
(* those of correlated traces, with finitely many calls and links.         *)
(***************************************************************************)
EXTENDS OfflineTheorems

-----------------------------------------------------------------------------
(* Counting *)

\* What holds of the empty set and is kept by one more element holds of a
\* finite set.
LEMMA SetInduction ==
    ASSUME NEW D, IsFiniteSet(D), NEW G, {} \in G,
           \A s \in SUBSET D : \A x \in D \ s : s \in G => s \cup {x} \in G
    PROVE  D \in G
<1> DEFINE Bad == {s \in SUBSET D : s \notin G}
<1>1. ASSUME Bad # {} PROVE FALSE
  <2>1. Bad \in SUBSET SUBSET D
    OBVIOUS
  <2>2. \E s \in Bad : \A t \in Bad : t \subseteq s => t = s
    <3> HIDE DEF Bad
    <3> QED
      BY <1>1, <2>1, LeastSubset
  <2>3. PICK s \in Bad : \A t \in Bad : t \subseteq s => t = s
    BY <2>2
  <2>4. PICK x : x \in s
    <3>1. s \notin G
      BY <2>3
    <3> QED
      BY ONLY <3>1, {} \in G
  <2>6. /\ s \in SUBSET D /\ s \ {x} \in SUBSET D
        /\ x \in D \ (s \ {x}) /\ (s \ {x}) \cup {x} = s
    BY <2>3, <2>4
  <2>5. s \ {x} \in G
    BY <2>3, <2>4, <2>6
  <2>7. s \in G
    BY <2>5, <2>6
  <2> QED
    BY <2>3, <2>7
<1> QED
  BY <1>1

\* The sum of a function over its domain.
LEMMA SumFunctionIs ==
    ASSUME NEW D, IsFiniteSet(D), NEW f, f = [x \in D |-> f[x]], Whole(f, D)
    PROVE  SumFunction(f) = SumOn(f, D) /\ SumFunction(f) \in Int
  BY SumIsOn, SumOnIs

LEMMA SumGrows ==
    ASSUME NEW s, IsFiniteSet(s), NEW f, NEW x, x \notin s, Whole(f, s \cup {x})
    PROVE  /\ SumOn(f, s \cup {x}) = f[x] + SumOn(f, s)
           /\ SumOn(f, s) \in Int /\ f[x] \in Int
<1>1. IsFiniteSet(s \cup {x}) /\ Whole(f, s) /\ (s \cup {x}) \ {x} = s
  BY FS_AddElement DEF Whole
<1>2. SumOn(f, s \cup {x}) = f[x] + SumOn(f, (s \cup {x}) \ {x})
  BY <1>1, SumOnIs
<1> QED
  BY <1>1, <1>2, SumOnIs DEF Whole

\* Functions that agree have the same sum, and of two the greater a greater.
LEMMA SumsCompare ==
    ASSUME NEW D, IsFiniteSet(D), NEW f, NEW g, Whole(f, D), Whole(g, D)
    PROVE  /\ (\A x \in D : f[x] = g[x]) => SumOn(f, D) = SumOn(g, D)
           /\ (\A x \in D : f[x] <= g[x]) =>
                 /\ SumOn(f, D) <= SumOn(g, D)
                 /\ (\E x \in D : f[x] < g[x]) => SumOn(f, D) < SumOn(g, D)
<1> PICK h : h = [x \in D |-> g[x] - f[x]]
  OBVIOUS
<1>1. \A x \in D : f[x] \in Int /\ g[x] \in Int
  BY DEF Whole
<1>2. \A x \in D : h[x] = 1 * g[x] + (-1) * f[x] + 0
  BY <1>1
<1>3. SumOn(h, D) = 1 * SumOn(g, D) + (-1) * SumOn(f, D) + 0 * Cardinality(D)
  <2>1. 1 \in Int /\ -1 \in Int /\ 0 \in Int
    OBVIOUS
  <2> QED
    BY ONLY <1>2, <2>1, IsFiniteSet(D), Whole(f, D), Whole(g, D), SumLinear
<1>4. SumOn(f, D) \in Int /\ SumOn(g, D) \in Int /\ Cardinality(D) \in Nat
  BY SumOnIs, FS_CardinalityType
<1>5. SumOn(h, D) = SumOn(g, D) - SumOn(f, D)
  BY ONLY <1>3, <1>4
<1>6. ASSUME \A x \in D : f[x] <= g[x]
      PROVE  /\ SumOn(f, D) <= SumOn(g, D)
             /\ (\E x \in D : f[x] < g[x]) => SumOn(f, D) < SumOn(g, D)
  <2>1. \A x \in D : h[x] \in Nat
    BY <1>1, <1>6
  <2>2. SumOn(h, D) \in Nat /\ \A x \in D : h[x] <= SumOn(h, D)
    BY ONLY <2>1, IsFiniteSet(D), SumNotNegative
  <2>3. ASSUME NEW x \in D, f[x] < g[x] PROVE SumOn(f, D) < SumOn(g, D)
    <3>1. h[x] = g[x] - f[x] /\ f[x] \in Int /\ g[x] \in Int /\ h[x] <= SumOn(h, D)
      BY <1>1, <2>2
    <3> QED
      BY ONLY <1>4, <1>5, <2>3, <3>1
  <2>4. SumOn(f, D) <= SumOn(g, D)
    BY ONLY <1>4, <1>5, <2>2
  <2> QED
    BY <2>3, <2>4
<1>7. ASSUME \A x \in D : f[x] = g[x] PROVE SumOn(f, D) = SumOn(g, D)
  <2>1. (\A x \in D : f[x] <= g[x]) /\ (\A x \in D : g[x] <= f[x])
    BY <1>1, <1>7
  <2>2. \A x \in D : h[x] \in Nat /\ h[x] = 0
    BY <1>1, <1>7
  <2>3. Restrict(f, D) = Restrict(g, D)
    BY <1>7 DEF Restrict
  <2> QED
    BY ONLY <2>3 DEF SumOn
<1> QED
  BY <1>6, <1>7

\* Over more of what is not negative, the sum is no less.
LEMMA SumOfMore ==
    ASSUME NEW D, IsFiniteSet(D), NEW T \in SUBSET D, NEW f, \A x \in D : f[x] \in Nat
    PROVE  SumOn(f, T) <= SumOn(f, D)
<1> PICK E : E = D \ T
  OBVIOUS
<1> DEFINE G == {s \in SUBSET E : SumOn(f, T) <= SumOn(f, T \cup s)}
<1>1. IsFiniteSet(E) /\ IsFiniteSet(T)
  BY FS_Subset
<1>2. \A s \in SUBSET D : SumOn(f, s) \in Int
  BY FS_Subset, SumOnIs DEF Whole
<1>3. {} \in G
  <2>1. T \cup {} = T /\ T \in SUBSET D
    OBVIOUS
  <2> QED
    BY <1>2, <2>1
<1>4. ASSUME NEW s \in SUBSET E, NEW x \in E \ s, s \in G PROVE s \cup {x} \in G
  <2>1. T \cup s \in SUBSET D /\ x \notin T \cup s /\ f[x] \in Nat /\ T \in SUBSET D
    OBVIOUS
  <2>2. IsFiniteSet(T \cup s) /\ Whole(f, (T \cup s) \cup {x})
    BY FS_Subset DEF Whole
  <2>3. SumOn(f, (T \cup s) \cup {x}) = f[x] + SumOn(f, T \cup s)
    BY ONLY <2>1, <2>2, SumGrows
  <2>4. SumOn(f, T) \in Int /\ SumOn(f, T \cup s) \in Int
    BY <1>2, <2>1
  <2>5. SumOn(f, T) <= SumOn(f, T \cup s)
    BY <1>4
  <2>6. SumOn(f, T) <= SumOn(f, (T \cup s) \cup {x})
    BY ONLY <2>1, <2>3, <2>4, <2>5
  <2>7. (T \cup s) \cup {x} = T \cup (s \cup {x}) /\ s \cup {x} \in SUBSET E
    OBVIOUS
  <2> QED
    BY <2>6, <2>7
<1>5. E \in G
  <2> HIDE DEF G
  <2> QED
    BY ONLY <1>1, <1>3, <1>4, SetInduction
<1>6. T \cup E = D
  OBVIOUS
<1> QED
  BY <1>5, <1>6

\* Members are counted by adding one for each.
LEMMA SumCounts ==
    ASSUME NEW D, IsFiniteSet(D), NEW f, NEW T \in SUBSET D,
           \A x \in D : f[x] = IF x \in T THEN 1 ELSE 0
    PROVE  SumOn(f, D) = Cardinality(T)
<1> DEFINE G == {s \in SUBSET D : SumOn(f, s) = Cardinality(s \cap T)}
<1>1. {} \in G
  <2>1. {} \cap T = {}
    OBVIOUS
  <2> QED
    BY <2>1, SumOnNothing, FS_EmptySet
<1>2. ASSUME NEW s \in SUBSET D, NEW x \in D \ s, s \in G PROVE s \cup {x} \in G
  <2>1. IsFiniteSet(s) /\ IsFiniteSet(s \cap T) /\ Cardinality(s \cap T) \in Nat
    BY FS_Subset, FS_CardinalityType
  <2>2. Whole(f, s \cup {x})
    BY DEF Whole
  <2>3. SumOn(f, s \cup {x}) = f[x] + Cardinality(s \cap T)
    BY <1>2, <2>1, <2>2, SumGrows
  <2>4. CASE x \in T
    <3>1. (s \cup {x}) \cap T = (s \cap T) \cup {x} /\ x \notin s \cap T
      BY <2>4
    <3>2. Cardinality((s \cup {x}) \cap T) = Cardinality(s \cap T) + 1
      BY <2>1, <3>1, FS_AddElement
    <3>3. f[x] = 1
      BY <2>4
    <3> QED
      BY <2>1, <2>3, <3>2, <3>3
  <2>5. CASE x \notin T
    <3>1. (s \cup {x}) \cap T = s \cap T
      BY <2>5
    <3>2. f[x] = 0
      BY <2>5
    <3> QED
      BY <2>1, <2>3, <3>1, <3>2
  <2> QED
    BY <2>4, <2>5
<1>3. D \in G
  <2> HIDE DEF G
  <2> QED
    BY ONLY <1>1, <1>2, IsFiniteSet(D), SetInduction
<1>4. D \cap T = T
  OBVIOUS
<1> QED
  BY <1>3, <1>4

\* Weights summed over the members are weights times members, over the values.
Having(h, T, v) == {x \in T : h[x] = v}
LEMMA SumByValue ==
    ASSUME NEW D, IsFiniteSet(D), NEW h, NEW V, \A x \in D : h[x] \in V,
           IsFiniteSet(V), NEW w, \A v \in V : w[v] \in Int
    PROVE  SumOn([v \in V |-> w[v] * Cardinality(Having(h, D, v))], V)
              = SumOn([x \in D |-> w[h[x]]], D)
<1> PICK g : g = [x \in D |-> w[h[x]]]
  OBVIOUS
<1> DEFINE by(s) == [v \in V |-> w[v] * Cardinality(Having(h, s, v))]
           G == {s \in SUBSET D : SumOn(by(s), V) = SumOn(g, s)}
<1>1. \A x \in D : g[x] \in Int /\ g[x] = w[h[x]]
  OBVIOUS
<1>2. ASSUME NEW s \in SUBSET D, NEW v \in V
      PROVE  /\ IsFiniteSet(Having(h, s, v)) /\ Cardinality(Having(h, s, v)) \in Nat
             /\ by(s)[v] = w[v] * Cardinality(Having(h, s, v)) /\ by(s)[v] \in Int
  <2>1. Having(h, s, v) \in SUBSET D
    BY DEF Having
  <2>2. IsFiniteSet(Having(h, s, v)) /\ Cardinality(Having(h, s, v)) \in Nat
    BY <2>1, FS_Subset, FS_CardinalityType
  <2>3. by(s)[v] = w[v] * Cardinality(Having(h, s, v)) /\ w[v] \in Int
    OBVIOUS
  <2> QED
    BY ONLY <2>2, <2>3
<1> HIDE DEF by
<1>3. {} \in G
  <2>1. \A v \in V : Having(h, {}, v) = {}
    BY DEF Having
  <2>2. Cardinality({}) = 0
    BY FS_EmptySet
  <2>3. ASSUME NEW v \in V PROVE by({})[v] = IF v \in {} THEN 1 ELSE 0
    <3>1. by({})[v] = w[v] * 0 /\ w[v] \in Int
      BY <1>2, <2>1, <2>2
    <3> QED
      BY <3>1
  <2>4. SumOn(by({}), V) = Cardinality({})
    <3>1. {} \in SUBSET V
      OBVIOUS
    <3> QED
      BY ONLY <2>3, <3>1, IsFiniteSet(V), SumCounts
  <2> QED
    BY <2>2, <2>4, SumOnNothing
<1>4. ASSUME NEW s \in SUBSET D, NEW x \in D \ s, s \in G PROVE s \cup {x} \in G
  <2> PICK u : u = h[x]
    OBVIOUS
  <2> PICK one : one = [v \in V |-> IF v \in {u} THEN 1 ELSE 0]
    OBVIOUS
  <2> PICK k : k = w[u]
    OBVIOUS
  <2>1. u \in V /\ k \in Int /\ g[x] = k
    BY <1>1
  <2>2. s \cup {x} \in SUBSET D /\ s \in SUBSET D
    OBVIOUS
  <2>3. ASSUME NEW v \in V
        PROVE  by(s \cup {x})[v] = 1 * by(s)[v] + k * one[v] + 0
    <3>1. CASE v = u
      <4>1. Having(h, s \cup {x}, v) = Having(h, s, v) \cup {x} /\ x \notin Having(h, s, v)
        BY <3>1 DEF Having
      <4>2. Cardinality(Having(h, s \cup {x}, v)) = Cardinality(Having(h, s, v)) + 1
        BY <1>2, <2>2, <4>1, FS_AddElement
      <4>3. PICK c \in Nat : c = Cardinality(Having(h, s, v))
        BY <1>2
      <4>4. /\ by(s \cup {x})[v] = k * (c + 1) /\ by(s)[v] = k * c
            /\ one[v] = 1
        BY <1>2, <2>2, <3>1, <4>2, <4>3
      <4>5. k * (c + 1) = 1 * (k * c) + k * 1 + 0
        BY ONLY <2>1, c \in Nat
      <4> QED
        BY ONLY <4>4, <4>5
    <3>2. CASE v # u
      <4>1. Having(h, s \cup {x}, v) = Having(h, s, v)
        BY <3>2 DEF Having
      <4>2. by(s \cup {x})[v] = by(s)[v] /\ by(s)[v] \in Int /\ one[v] = 0
        BY <1>2, <2>2, <3>2, <4>1
      <4> QED
        BY ONLY <2>1, <4>2
    <3> QED
      BY <3>1, <3>2
  <2>4. Whole(by(s), V) /\ Whole(one, V)
    BY <1>2, <2>2 DEF Whole
  <2>5. SumOn(by(s \cup {x}), V) =
           1 * SumOn(by(s), V) + k * SumOn(one, V) + 0 * Cardinality(V)
    <3> PICK old, new : old = by(s) /\ new = by(s \cup {x})
      OBVIOUS
    <3>1. 1 \in Int /\ 0 \in Int /\ k \in Int
      BY <2>1
    <3>2. \A v \in V : new[v] = 1 * old[v] + k * one[v] + 0
      BY <2>3
    <3>3. Whole(old, V)
      BY <2>4
    <3>4. SumOn(new, V) = 1 * SumOn(old, V) + k * SumOn(one, V) + 0 * Cardinality(V)
      BY ONLY <2>4, <3>1, <3>2, <3>3, IsFiniteSet(V), SumLinear
    <3> QED
      BY <3>4
  <2>6. SumOn(one, V) = 1
    <3>1. {u} \in SUBSET V /\ \A v \in V : one[v] = IF v \in {u} THEN 1 ELSE 0
      BY <2>1
    <3>2. SumOn(one, V) = Cardinality({u})
      BY ONLY <3>1, IsFiniteSet(V), SumCounts
    <3> QED
      BY <3>2, FS_Singleton
  <2>7. SumOn(by(s), V) = SumOn(g, s)
    BY <1>4
  <2>8. SumOn(g, s \cup {x}) = g[x] + SumOn(g, s) /\ SumOn(g, s) \in Int
    <3>1. IsFiniteSet(s) /\ x \notin s /\ Whole(g, s \cup {x})
      BY <1>1, FS_Subset DEF Whole
    <3> QED
      BY ONLY <3>1, SumGrows
  <2>9. Cardinality(V) \in Nat
    BY FS_CardinalityType
  <2>10. SumOn(by(s \cup {x}), V) = SumOn(g, s \cup {x})
    BY ONLY <2>1, <2>5, <2>6, <2>7, <2>8, <2>9
  <2> QED
    BY <2>2, <2>10
<1>5. D \in G
  <2> HIDE DEF G
  <2> QED
    BY ONLY <1>3, <1>4, IsFiniteSet(D), SetInduction
<1> QED
  BY <1>5 DEF by
-----------------------------------------------------------------------------
(* Similarity *)

Counting(c) == IsFiniteSet(DOMAIN c) /\ \A k \in DOMAIN c : c[k] \in Nat \ {0}

LEMMA Monotone == \A a \in Nat, p \in Int, q \in Int : p <= q => a * p <= a * q
<1> SUFFICES ASSUME NEW a \in Nat, NEW p \in Int, NEW q \in Int, p <= q
             PROVE  a * p <= a * q
  OBVIOUS
<1>1. PICK d \in Nat : q = p + d
  <2>1. q - p \in Nat /\ q = p + (q - p)
    OBVIOUS
  <2> QED
    BY <2>1
<1>2. a * d \in Nat /\ a * (p + d) = a * p + a * d
  OBVIOUS
<1>3. a * p \in Int
  OBVIOUS
<1> QED
  BY ONLY <1>1, <1>2, <1>3

LEMMA Shares ==
    ASSUME NEW part \in Nat, NEW a \in Nat \ {0}, NEW s \in Nat, s <= a
    PROVE  /\ (part * s) \div a \in 0..part
           /\ (part * a) \div a = part
<1> PICK n \in Nat : n = part * s
  OBVIOUS
<1> PICK q : q = n \div a
  OBVIOUS
<1>1. q \in Int /\ a * q <= n /\ n < a * q + a
  OBVIOUS
<1>2. n <= part * a
  BY Monotone
<1>3. q <= part
  <2>1. ASSUME part + 1 <= q PROVE FALSE
    <3>1. a * (part + 1) <= a * q
      BY <1>1, <2>1, Monotone
    <3>2. a * (part + 1) = part * a + a /\ part * a \in Int /\ a * q \in Int
      BY <1>1
    <3> QED
      BY ONLY <1>1, <1>2, <3>1, <3>2, a \in Nat \ {0}, n \in Nat
  <2> QED
    BY <1>1, <2>1
<1>4. 0 <= q
  <2>1. ASSUME q <= -1 PROVE FALSE
    <3>1. a * q <= a * (-1)
      BY <1>1, <2>1, Monotone
    <3>2. a * (-1) = -a /\ a * q \in Int
      BY <1>1
    <3> QED
      BY ONLY <1>1, <3>1, <3>2, a \in Nat \ {0}, n \in Nat
  <2> QED
    BY <1>1, <2>1
<1>5. (part * a) \div a = part
  <2> PICK m \in Nat : m = part * a
    OBVIOUS
  <2> PICK k : k = m \div a
    OBVIOUS
  <2>1. k \in Int /\ a * k <= m /\ m < a * k + a
    OBVIOUS
  <2>2. ASSUME part + 1 <= k PROVE FALSE
    <3>1. a * (part + 1) <= a * k
      BY <2>1, <2>2, Monotone
    <3>2. a * (part + 1) = m + a /\ a * k \in Int
      BY <2>1
    <3> QED
      BY ONLY <2>1, <3>1, <3>2, a \in Nat \ {0}, m \in Nat
  <2>3. ASSUME k + 1 <= part PROVE FALSE
    <3>1. a * (k + 1) <= a * part
      BY <2>1, <2>3, Monotone
    <3>2. a * (k + 1) = a * k + a /\ a * k \in Int /\ a * part = m
      BY <2>1
    <3> QED
      BY ONLY <2>1, <3>1, <3>2, a \in Nat \ {0}, m \in Nat
  <2> QED
    BY <2>1, <2>2, <2>3
<1> QED
  BY <1>1, <1>3, <1>4, <1>5

LEMMA LeastAndMost ==
    ASSUME NEW a \in Nat, NEW b \in Nat
    PROVE  /\ Min({a, b}) \in Nat /\ Max({a, b}) \in Nat
           /\ Min({a, b}) <= Max({a, b})
           /\ a = b => Min({a, b}) = Max({a, b})
<1>1. \E x \in {a, b} : \A y \in {a, b} : x =< y
  OBVIOUS
<1>2. \E x \in {a, b} : \A y \in {a, b} : x >= y
  OBVIOUS
<1>3. Min({a, b}) \in {a, b} /\ \A y \in {a, b} : Min({a, b}) =< y
  BY <1>1 DEF Min
<1>4. Max({a, b}) \in {a, b} /\ \A y \in {a, b} : Max({a, b}) >= y
  BY <1>2 DEF Max
<1> QED
  BY <1>3, <1>4

LEMMA JaccardIs ==
    ASSUME NEW x, NEW y, Counting(x), Counting(y)
    PROVE  /\ Jaccard(x, y) \in 0..Part
           /\ Jaccard(x, y) = Jaccard(y, x)
           /\ Jaccard(x, x) = Part
<1> DEFINE shared(p, q) == [k \in DOMAIN p \cup DOMAIN q |->
                              Min({Times(p, k), Times(q, k)})]
           all(p, q) == [k \in DOMAIN p \cup DOMAIN q |->
                              Max({Times(p, k), Times(q, k)})]
<1>1. \A k : Times(x, k) \in Nat /\ Times(y, k) \in Nat
  BY DEF Counting, Times
<1>2. ASSUME NEW p, NEW q, Counting(p), Counting(q)
      PROVE  /\ SumFunction(shared(p, q)) \in Nat /\ SumFunction(all(p, q)) \in Nat
             /\ SumFunction(shared(p, q)) <= SumFunction(all(p, q))
             /\ p = q => SumFunction(shared(p, q)) = SumFunction(all(p, q))
  <2> PICK D : D = DOMAIN p \cup DOMAIN q
    OBVIOUS
  <2> PICK s : s = shared(p, q)
    OBVIOUS
  <2> PICK a : a = all(p, q)
    OBVIOUS
  <2>1. IsFiniteSet(D)
    BY <1>2, FS_Union DEF Counting
  <2>2. \A k : Times(p, k) \in Nat /\ Times(q, k) \in Nat
    BY <1>2 DEF Counting, Times
  <2>3. s = [k \in D |-> s[k]] /\ a = [k \in D |-> a[k]]
    OBVIOUS
  <2>4. ASSUME NEW k \in D
        PROVE  /\ s[k] \in Nat /\ a[k] \in Nat /\ s[k] <= a[k]
               /\ p = q => s[k] = a[k]
    <3>1. s[k] = Min({Times(p, k), Times(q, k)}) /\ a[k] = Max({Times(p, k), Times(q, k)})
      OBVIOUS
    <3>2. p = q => Times(p, k) = Times(q, k)
      OBVIOUS
    <3> QED
      BY ONLY <2>2, <3>1, <3>2, LeastAndMost
  <2>5. Whole(s, D) /\ Whole(a, D)
    BY ONLY <2>4 DEF Whole
  <2>6. /\ SumFunction(s) = SumOn(s, D) /\ SumFunction(a) = SumOn(a, D)
        /\ SumOn(s, D) \in Nat /\ SumOn(a, D) \in Nat
    BY ONLY <2>1, <2>3, <2>4, <2>5, SumFunctionIs, SumNotNegative
  <2>7. SumOn(s, D) <= SumOn(a, D) /\ (p = q => SumOn(s, D) = SumOn(a, D))
    BY ONLY <2>1, <2>4, <2>5, SumsCompare
  <2> QED
    BY ONLY <2>6, <2>7, s = shared(p, q), a = all(p, q)
<1>3. shared(x, y) = shared(y, x) /\ all(x, y) = all(y, x)
  <2>1. DOMAIN x \cup DOMAIN y = DOMAIN y \cup DOMAIN x
    OBVIOUS
  <2>2. \A k : {Times(x, k), Times(y, k)} = {Times(y, k), Times(x, k)}
    OBVIOUS
  <2> QED
    BY <2>1, <2>2
<1>4. ASSUME NEW p, NEW q
      PROVE  Jaccard(p, q) =
               IF SumFunction(all(p, q)) = 0 THEN Part
               ELSE (Part * SumFunction(shared(p, q))) \div SumFunction(all(p, q))
  BY DEF Jaccard
<1> HIDE DEF shared, all
<1>5. Part \in Nat
  BY DEF Part
<1>6. Jaccard(x, y) \in 0..Part
  <2> PICK s, a : s = SumFunction(shared(x, y)) /\ a = SumFunction(all(x, y))
    OBVIOUS
  <2>1. s \in Nat /\ a \in Nat /\ s <= a
    BY <1>2
  <2>2. Jaccard(x, y) = IF a = 0 THEN Part ELSE (Part * s) \div a
    BY <1>4
  <2>3. a # 0 => (Part * s) \div a \in 0..Part
    BY <1>5, <2>1, Shares
  <2> QED
    BY <1>5, <2>2, <2>3
<1>7. Jaccard(x, x) = Part
  <2> PICK s, a : s = SumFunction(shared(x, x)) /\ a = SumFunction(all(x, x))
    OBVIOUS
  <2>1. a \in Nat /\ s = a
    BY <1>2
  <2>2. Jaccard(x, x) = IF a = 0 THEN Part ELSE (Part * s) \div a
    BY <1>4
  <2>3. a # 0 => (Part * a) \div a = Part
    BY <1>5, <2>1, Shares
  <2> QED
    BY <2>1, <2>2, <2>3
<1> QED
  BY <1>3, <1>4, <1>6, <1>7

LEMMA WeightedIs ==
    ASSUME NEW n \in 0..Part, NEW e \in 0..Part, NEW linked \in BOOLEAN
    PROVE  /\ Weighted(n, e, linked) \in Nat /\ Weighted(n, e, linked) <= Perfect
           /\ n = Part /\ e = Part => Weighted(n, e, linked) = Perfect
<1>1. /\ n \in Nat /\ e \in Nat /\ n <= 2520 /\ e <= 2520
      /\ Part = 2520 /\ Perfect = 252000
  BY DEF Part, Perfect
<1>2. CASE linked
  <2>1. Weighted(n, e, linked) = 60 * n + 40 * e
    BY <1>2 DEF Weighted
  <2> QED
    BY ONLY <1>1, <2>1
<1>3. CASE ~linked
  <2>1. Weighted(n, e, linked) = 100 * n
    BY <1>3 DEF Weighted
  <2> QED
    BY ONLY <1>1, <2>1
<1> QED
  BY <1>2, <1>3

LEMMA SimilarityIs ==
    ASSUME NEW a, NEW b, Counting(a.nodes), Counting(a.edges),
           Counting(b.nodes), Counting(b.edges)
    PROVE  /\ Similarity(a, b) \in Nat /\ Similarity(a, b) <= Perfect
           /\ Similarity(a, b) = Similarity(b, a)
           /\ Fingerprint(a) = Fingerprint(b) => Similarity(a, b) = Perfect
<1> PICK n, e : n = Jaccard(a.nodes, b.nodes) /\ e = Jaccard(a.edges, b.edges)
  OBVIOUS
<1> PICK linked : linked = (DOMAIN a.edges \cup DOMAIN b.edges # {})
  OBVIOUS
<1>1. n \in 0..Part /\ e \in 0..Part /\ linked \in BOOLEAN
  BY JaccardIs
<1>2. Similarity(a, b) = Weighted(n, e, linked)
  BY DEF Similarity
<1>3. n = Jaccard(b.nodes, a.nodes) /\ e = Jaccard(b.edges, a.edges)
  BY JaccardIs
<1>4. linked = (DOMAIN b.edges \cup DOMAIN a.edges # {})
  OBVIOUS
<1>5. Similarity(b, a) = Weighted(n, e, linked)
  BY <1>3, <1>4 DEF Similarity
<1>6. ASSUME Fingerprint(a) = Fingerprint(b) PROVE n = Part /\ e = Part
  <2>1. a.nodes = b.nodes /\ a.edges = b.edges
    BY <1>6 DEF Fingerprint
  <2> QED
    BY <2>1, JaccardIs
<1> QED
  BY <1>1, <1>2, <1>5, <1>6, WeightedIs
-----------------------------------------------------------------------------
(* Components *)

Next1(R, before) == before \cup {pair[2] : pair \in {p \in R : p[1] \in before}}
Reaches(a, R, s, n) ==
    a = [i \in 0..n |-> IF i = 0 THEN {s} ELSE Next1(R, a[i - 1])]

LEMMA ReachesExist == \A n \in Nat : \A R, s : \E a : Reaches(a, R, s, n)
<1> SUFFICES ASSUME NEW R, NEW s PROVE \A n \in Nat : \E a : Reaches(a, R, s, n)
  OBVIOUS
<1> DEFINE S == {n \in Nat : \E a : Reaches(a, R, s, n)}
<1>1. 0 \in S
  <2> DEFINE a == [i \in 0..0 |-> {s}]
  <2>1. Reaches(a, R, s, 0)
    BY DEF Reaches
  <2> QED
    BY <2>1
<1>2. ASSUME NEW n \in Nat, n \in S PROVE n + 1 \in S
  <2>1. PICK a : Reaches(a, R, s, n)
    BY <1>2
  <2> PICK last : last = Next1(R, a[n])
    OBVIOUS
  <2> PICK b : b = [i \in 0..n + 1 |-> IF i = n + 1 THEN last ELSE a[i]]
    OBVIOUS
  <2>2. ASSUME NEW i \in 0..n + 1
        PROVE  b[i] = IF i = 0 THEN {s} ELSE Next1(R, b[i - 1])
    <3>1. CASE i = n + 1
      <4>1. b[i - 1] = a[n] /\ b[i] = last /\ i # 0
        BY <3>1
      <4> QED
        BY <3>1, <4>1
    <3>2. CASE i # n + 1
      <4>1. i \in 0..n /\ b[i] = a[i]
        BY <3>2
      <4>2. a[i] = IF i = 0 THEN {s} ELSE Next1(R, a[i - 1])
        BY <2>1, <4>1 DEF Reaches
      <4>3. i # 0 => b[i - 1] = a[i - 1]
        BY <4>1
      <4> QED
        BY <4>1, <4>2, <4>3
    <3> QED
      BY <3>1, <3>2
  <2>3. Reaches(b, R, s, n + 1)
    BY <2>2 DEF Reaches
  <2> QED
    BY <2>3
<1>3. Nat \subseteq S
  <2> HIDE DEF S
  <2> QED
    BY ONLY <1>1, <1>2, ByInduction
<1> QED
  BY <1>3

\* A set that the relation does not lead out of.
Closed(X, R) == \A p \in R : p[1] \in X => p[2] \in X

\* A component is the least such set around its member.
LEMMA ComponentIs ==
    ASSUME NEW E, IsFiniteSet(E), NEW R \in SUBSET (E \X E), NEW s \in E,
           NEW C, C = Component(E, R, s)
    PROVE  /\ s \in C /\ C \in SUBSET E /\ Closed(C, R)
           /\ \A X : s \in X /\ Closed(X, R) => C \subseteq X
<1> PICK n : n = Cardinality(E)
  OBVIOUS
<1>1. n \in Nat
  BY FS_CardinalityType
<1> PICK a : a = CHOOSE b : Reaches(b, R, s, n)
  OBVIOUS
<1>2. C = a[n]
  BY DEF Component, Reaches, Next1
<1>3. Reaches(a, R, s, n)
  BY <1>1, ReachesExist
<1>4. a[0] = {s}
  BY <1>1, <1>3 DEF Reaches
<1>5. ASSUME NEW i \in Nat, i + 1 <= n PROVE a[i + 1] = Next1(R, a[i])
  <2>1. i + 1 \in 0..n /\ i + 1 # 0 /\ (i + 1) - 1 = i
    BY <1>1, <1>5
  <2> QED
    BY <1>3, <2>1 DEF Reaches
<1> DEFINE Good(i) ==
        /\ s \in a[i] /\ a[i] \in SUBSET E
        /\ Closed(a[i], R) \/ Cardinality(a[i]) >= i + 1
        /\ \A X : s \in X /\ Closed(X, R) => a[i] \subseteq X
<1> DEFINE G == {i \in Nat : i <= n => Good(i)}
<1>6. 0 \in G
  <2>1. Cardinality({s}) = 1
    BY FS_Singleton
  <2> PICK z : z = a[0]
    OBVIOUS
  <2>5. z = {s}
    BY <1>4
  <2>2. s \in z /\ z \in SUBSET E /\ Cardinality(z) >= 0 + 1
    BY ONLY <2>1, <2>5, s \in E
  <2>3. \A X : s \in X => z \subseteq X
    BY <1>4
  <2>4. Good(0)
    BY ONLY <2>2, <2>3, z = a[0]
  <2> QED
    BY <2>4
<1>7. ASSUME NEW i \in Nat, i \in G PROVE i + 1 \in G
  <2>1. SUFFICES ASSUME i + 1 <= n PROVE Good(i + 1)
    OBVIOUS
  <2>2. Good(i)
    <3>1. i <= n
      BY <1>1, <2>1
    <3> QED
      BY <1>7, <3>1
  <2> PICK old, new : old = a[i] /\ new = a[i + 1]
    OBVIOUS
  <2>3. new = old \cup {pair[2] : pair \in {p \in R : p[1] \in old}}
    BY <1>5, <2>1 DEF Next1
  <2>4. s \in new /\ new \in SUBSET E /\ old \subseteq new
    BY <2>2, <2>3
  <2>5. ASSUME NEW X, s \in X, Closed(X, R) PROVE new \subseteq X
    <3>1. old \subseteq X
      BY <2>2, <2>5
    <3> QED
      BY <2>3, <2>5, <3>1 DEF Closed
  <2>6. CASE Closed(old, R)
    <3>1. new = old
      BY <2>3, <2>6 DEF Closed
    <3> QED
      BY <2>4, <2>5, <2>6, <3>1
  <2>7. CASE ~Closed(old, R)
    <3>1. PICK x : x \in new /\ x \notin old
      BY <2>3, <2>7 DEF Closed
    <3>2. IsFiniteSet(new) /\ IsFiniteSet(old)
      BY <2>2, <2>4, FS_Subset
    <3>3. Cardinality(old) >= i + 1 /\ Cardinality(old) \in Nat
      BY <2>2, <2>7, <3>2, FS_CardinalityType
    <3>4. /\ IsFiniteSet(old \cup {x}) /\ Cardinality(old \cup {x}) = Cardinality(old) + 1
      BY <3>1, <3>2, FS_AddElement
    <3>5. Cardinality(old \cup {x}) <= Cardinality(new) /\ Cardinality(new) \in Nat
      BY <2>4, <3>1, <3>2, FS_Subset, FS_CardinalityType
    <3>6. Cardinality(new) >= (i + 1) + 1
      BY ONLY <3>3, <3>4, <3>5, i \in Nat
    <3> QED
      BY <2>4, <2>5, <3>6
  <2> QED
    BY <2>6, <2>7
<1>8. Nat \subseteq G
  <2> HIDE DEF G
  <2> QED
    BY ONLY <1>6, <1>7, ByInduction
<1>9. Good(n)
  <2>1. n \in G /\ n <= n
    BY <1>1, <1>8
  <2> QED
    BY <2>1
<1>10. Closed(C, R)
  <2>1. CASE Closed(a[n], R)
    BY <1>2, <2>1
  <2>2. CASE Cardinality(a[n]) >= n + 1
    <3>1. Cardinality(a[n]) <= n /\ Cardinality(a[n]) \in Nat
      BY <1>9, FS_Subset, FS_CardinalityType
    <3> QED
      BY <1>1, <2>2, <3>1
  <2> QED
    BY <1>9, <2>1, <2>2
<1> QED
  BY <1>2, <1>9, <1>10

\* The components of a symmetric relation are its classes.
LEMMA ComponentsAgree ==
    ASSUME NEW E, IsFiniteSet(E), NEW R \in SUBSET (E \X E),
           \A s, t \in E : <<s, t>> \in R => <<t, s>> \in R,
           NEW s \in E, NEW t \in E, t \in Component(E, R, s)
    PROVE  Component(E, R, t) = Component(E, R, s)
<1> PICK C, D : C = Component(E, R, s) /\ D = Component(E, R, t)
  OBVIOUS
<1>1. /\ s \in C /\ C \in SUBSET E /\ Closed(C, R)
      /\ \A X : s \in X /\ Closed(X, R) => C \subseteq X
  BY ComponentIs
<1>2. /\ t \in D /\ D \in SUBSET E /\ Closed(D, R)
      /\ \A X : t \in X /\ Closed(X, R) => D \subseteq X
  BY ComponentIs
<1>3. D \subseteq C
  BY <1>1, <1>2
<1>4. s \in D
  <2>1. ASSUME s \notin D PROVE FALSE
    <3>1. ASSUME NEW p \in R, p[1] \in C \ D PROVE p[2] \in C \ D
      <4>1. PICK x \in E, y \in E : p = <<x, y>>
        OBVIOUS
      <4>2. <<y, x>> \in R
        BY <4>1
      <4>3. y \in D => x \in D
        BY <1>2, <4>2 DEF Closed
      <4>4. y \in C
        BY <1>1, <3>1, <4>1 DEF Closed
      <4> QED
        BY <3>1, <4>1, <4>3, <4>4
    <3>2. Closed(C \ D, R)
      BY ONLY <3>1 DEF Closed
    <3>3. C \subseteq C \ D
      BY <1>1, <2>1, <3>2
    <3> QED
      BY <1>2, <3>3
  <2> QED
    BY <2>1
<1>5. C \subseteq D
  BY <1>1, <1>2, <1>4
<1> QED
  BY <1>3, <1>5
-----------------------------------------------------------------------------
(* Structures *)

\* The values of a finite function are finitely many, and each is counted.
LEMMA CounterIs ==
    ASSUME NEW D, IsFiniteSet(D), NEW of, DOMAIN of = D, NEW c, c = Counter(of)
    PROVE  /\ Counting(c)
           /\ \A x \in D : of[x] \in DOMAIN c
           /\ \A v \in DOMAIN c : \E x \in D : v = of[x]
           /\ \A v \in DOMAIN c : c[v] = Cardinality(Having(of, D, v))
           /\ \A x, y \in D : x # y /\ of[x] = of[y] => c[of[x]] > 1
<1> PICK V : V = {of[x] : x \in D}
  OBVIOUS
<1>1. Range(of) = V
  BY DEF Range
<1>2. c = [v \in V |-> Cardinality(Having(of, D, v))]
  BY <1>1 DEF Counter, Having
<1>3. IsFiniteSet(V)
  <2> PICK f : f = [x \in D |-> of[x]]
    OBVIOUS
  <2>1. f \in Surjection(D, V)
    BY DEF Surjection
  <2> QED
    BY <2>1, FS_Surjection
<1>4. ASSUME NEW v
      PROVE  IsFiniteSet(Having(of, D, v)) /\ Cardinality(Having(of, D, v)) \in Nat
  <2>1. Having(of, D, v) \subseteq D
    BY DEF Having
  <2> QED
    BY <2>1, FS_Subset, FS_CardinalityType
<1>5. ASSUME NEW v \in V PROVE c[v] \in Nat \ {0}
  <2>1. PICK x \in D : of[x] = v
    OBVIOUS
  <2>2. Having(of, D, v) # {}
    BY <2>1 DEF Having
  <2> QED
    BY <1>2, <1>4, <2>2, FS_EmptySet
<1>6. ASSUME NEW x \in D, NEW y \in D, x # y, of[x] = of[y]
      PROVE  c[of[x]] > 1
  <2> PICK v : v = of[x]
    OBVIOUS
  <2>1. v \in V /\ {x, y} \subseteq Having(of, D, v)
    BY <1>6 DEF Having
  <2>2. Cardinality({x, y}) = 2
    <3>1. IsFiniteSet({x}) /\ Cardinality({x}) = 1
      BY FS_Singleton
    <3>2. y \notin {x} /\ {x} \cup {y} = {x, y}
      BY <1>6
    <3>3. Cardinality({x} \cup {y}) = Cardinality({x}) + 1
      BY <3>1, <3>2, FS_AddElement
    <3> QED
      BY <3>1, <3>2, <3>3
  <2>3. Cardinality({x, y}) <= Cardinality(Having(of, D, v))
    BY <1>4, <2>1, FS_Subset
  <2>4. c[v] = Cardinality(Having(of, D, v))
    BY <1>2, <2>1
  <2> QED
    BY <1>4, <2>2, <2>3, <2>4
<1> QED
  BY <1>1, <1>2, <1>3, <1>5, <1>6 DEF Counting

\* What the structure of a task says of its calls.
IsStructure(s) ==
    /\ s.task \in Int /\ s.task # NoTask
    /\ Counting(s.nodes) /\ Counting(s.edges)
    /\ \A e \in DOMAIN s.edges :
          /\ e = <<e[1], e[2]>> /\ {e[1], e[2]} \subseteq DOMAIN s.nodes
          /\ e[1] = e[2] => s.nodes[e[1]] > 1
    /\ Len(s.timeline) = Cardinality(s.traces) /\ Cardinality(s.traces) \in Nat
    /\ DOMAIN s.timeline = 1..Len(s.timeline)

FiniteBodies(V) == \A t \in V : IsFiniteSet(t.consumed)

LEMMA LinksFinite ==
    ASSUME NEW o, NEW n \in Nat, o = [i \in 1..n |-> o[i]],
           \A i \in 1..n : IsFiniteSet(o[i].consumed)
    PROVE  /\ IsFiniteSet(Linked(o))
           /\ \A l \in Linked(o) : l.from \in 1..n /\ l.to \in 1..n /\ l.from < l.to
<1>1. Len(o) = n /\ DOMAIN o = 1..n
  <2> PICK V : V = {o[i] : i \in 1..n}
    OBVIOUS
  <2>1. o \in [1..n -> V]
    OBVIOUS
  <2> QED
    BY <2>1
<1>2. Range(o) = {o[i] : i \in 1..n}
  BY <1>1 DEF Range
<1> PICK bodies : bodies = {o[i].consumed : i \in 1..n}
  OBVIOUS
<1>3. IsFiniteSet(1..n)
  BY FS_Interval
<1>4. IsFiniteSet(bodies)
  <2> PICK f : f = [i \in 1..n |-> o[i].consumed]
    OBVIOUS
  <2>1. f \in Surjection(1..n, bodies)
    BY DEF Surjection
  <2> QED
    BY <1>3, <2>1, FS_Surjection
<1>5. IsFiniteSet(UNION bodies)
  BY <1>4, FS_UNION
<1>6. ConsumedTools(o) = UNION bodies
  BY <1>2 DEF ConsumedTools
<1> PICK T : T = ConsumedTools(o)
  OBVIOUS
<1>7. IsFiniteSet(T \X ((1..n) \X (1..n)))
  BY <1>3, <1>5, <1>6, FS_Product
<1> PICK P : P = T \X ((1..n) \X (1..n))
  OBVIOUS
<1> PICK g : g = [l \in Links(o) |-> <<l.tool, <<l.from, l.to>>>>]
  OBVIOUS
<1>8. Links(o) = [tool : T, from : 1..n, to : 1..n]
  BY <1>1 DEF Links
<1>9. ASSUME NEW l \in Links(o)
      PROVE  /\ l = [tool |-> l.tool, from |-> l.from, to |-> l.to]
             /\ g[l] \in P /\ g[l] = <<l.tool, <<l.from, l.to>>>>
  <2> PICK K : K = 1..n
    OBVIOUS
  <2>1. l \in [tool : T, from : K, to : K]
    BY <1>8
  <2>2. l.tool \in T /\ l.from \in K /\ l.to \in K
    BY ONLY <2>1
  <2>3. l = [tool |-> l.tool, from |-> l.from, to |-> l.to]
    BY ONLY <2>1
  <2> QED
    BY <2>2, <2>3
<1>10. IsFiniteSet(Links(o))
  <2>1. g \in [Links(o) -> P]
    BY <1>9
  <2>2. ASSUME NEW l \in Links(o), NEW m \in Links(o), g[l] = g[m] PROVE l = m
    <3>1. l.tool = m.tool /\ l.from = m.from /\ l.to = m.to
      <4>1. <<l.tool, <<l.from, l.to>>>> = <<m.tool, <<m.from, m.to>>>>
        BY <1>9, <2>2
      <4> QED
        BY ONLY <4>1
    <3>2. /\ l = [tool |-> l.tool, from |-> l.from, to |-> l.to]
          /\ m = [tool |-> m.tool, from |-> m.from, to |-> m.to]
      BY <1>9
    <3> QED
      BY ONLY <3>1, <3>2
  <2>3. g \in Injection(Links(o), P)
    BY ONLY <2>1, <2>2 DEF Injection, IsInjective
  <2> QED
    BY <1>7, <2>3, FS_Injection DEF ExistsInjection
<1>11. Linked(o) \subseteq Links(o) /\ \A l \in Linked(o) : l.from < l.to
  BY DEF Linked
<1>12. \A l \in Links(o) : l.from \in 1..n /\ l.to \in 1..n
  BY <1>8
<1> QED
  BY <1>10, <1>11, <1>12, FS_Subset

LEMMA StructureIs ==
    ASSUME NEW T, AreTraces(T), T # {}, FiniteBodies(T), NEW task \in Int, task # NoTask,
           \A t \in T : t.task = task, NEW s, s = Structure(InOrder(T))
    PROVE  IsStructure(s) /\ s.task = task
<1> PICK n : n = Cardinality(T)
  OBVIOUS
<1> PICK o : o = InOrder(T)
  OBVIOUS
<1>1. Ordered(o, n, T) /\ Len(o) = n /\ n \in Nat
  BY InOrderOrders DEF Ordered
<1>2. o = [i \in 1..n |-> o[i]] /\ DOMAIN o = 1..n
  <2> DEFINE at(i) == CHOOSE t \in T : Cardinality({u \in T : Earlier(u, t)}) = i - 1
  <2>1. o = [i \in 1..n |-> at(i)]
    BY DEF InOrder
  <2> HIDE DEF at
  <2> QED
    BY ONLY <2>1
<1>3. n # 0 /\ IsFiniteSet(T)
  BY FS_EmptySet DEF AreTraces
<1>4. 1 \in 1..n /\ o[1] \in T
  BY <1>1, <1>3 DEF Ordered
<1>5. s.task = task
  BY <1>4 DEF Structure
<1> PICK labels : labels = [i \in 1..n |-> Label(o, i)]
  OBVIOUS
<1> PICK ends : ends = [l \in Linked(o) |-> <<labels[l.from], labels[l.to]>>]
  OBVIOUS
<1>6. /\ s.nodes = Counter(labels) /\ s.edges = Counter(ends)
      /\ s.timeline = labels /\ s.traces = {t.id : t \in Range(o)}
  BY <1>1 DEF Structure
<1>7. IsFiniteSet(1..n)
  BY <1>1, FS_Interval
<1>8. /\ Counting(s.nodes) /\ \A i \in 1..n : labels[i] \in DOMAIN s.nodes
      /\ \A i, j \in 1..n : i # j /\ labels[i] = labels[j] => s.nodes[labels[i]] > 1
  <2>1. DOMAIN labels = 1..n
    OBVIOUS
  <2> QED
    BY ONLY <1>6, <1>7, <2>1, CounterIs
<1>9. /\ IsFiniteSet(Linked(o))
      /\ \A l \in Linked(o) : l.from \in 1..n /\ l.to \in 1..n /\ l.from < l.to
  <2>1. \A i \in 1..n : IsFiniteSet(o[i].consumed)
    BY <1>1 DEF Ordered, FiniteBodies
  <2> QED
    BY ONLY <1>1, <1>2, <2>1, LinksFinite
<1>10. Counting(s.edges) /\ \A e \in DOMAIN s.edges : \E l \in Linked(o) : e = ends[l]
  <2>1. DOMAIN ends = Linked(o)
    OBVIOUS
  <2> QED
    BY ONLY <1>6, <1>9, <2>1, CounterIs
<1>11. ASSUME NEW e \in DOMAIN s.edges
       PROVE  /\ e = <<e[1], e[2]>> /\ {e[1], e[2]} \subseteq DOMAIN s.nodes
              /\ e[1] = e[2] => s.nodes[e[1]] > 1
  <2>5. PICK l \in Linked(o) : e = ends[l]
    BY <1>10
  <2>1. e = <<labels[l.from], labels[l.to]>>
    BY <2>5
  <2>2. l.from \in 1..n /\ l.to \in 1..n /\ l.from # l.to
    BY <1>9
  <2>3. e[1] = labels[l.from] /\ e[2] = labels[l.to]
    BY <2>1
  <2>4. e = <<e[1], e[2]>>
    BY <2>1
  <2> QED
    BY ONLY <1>8, <2>2, <2>3, <2>4
<1>12. Len(s.timeline) = n /\ DOMAIN s.timeline = 1..n
  <2> PICK V : V = {labels[i] : i \in 1..n}
    OBVIOUS
  <2>1. labels \in [1..n -> V]
    OBVIOUS
  <2> QED
    BY <1>1, <1>6, <2>1
<1>13. Cardinality(s.traces) = n
  <2> PICK ids : ids = s.traces
    OBVIOUS
  <2>1. Range(o) = T
    BY <1>1, <1>2 DEF Range, Ordered
  <2> PICK f : f = [t \in T |-> t.id]
    OBVIOUS
  <2>2. f \in Bijection(T, ids)
    <3>1. f \in Surjection(T, ids)
      BY <1>6, <2>1 DEF Surjection
    <3>2. f \in Injection(T, ids)
      <4>1. \A t, u \in T : f[t] = f[u] => t = u
        BY DEF AreTraces
      <4>2. f \in [T -> ids]
        BY <3>1 DEF Surjection
      <4> QED
        BY ONLY <4>1, <4>2 DEF Injection, IsInjective
    <3> QED
      BY <3>1, <3>2 DEF Bijection
  <2>3. Cardinality(ids) = n
    BY <1>3, <2>2, FS_Bijection DEF ExistsBijection
  <2> QED
    BY <2>3
<1> QED
  BY <1>1, <1>5, <1>8, <1>10, <1>11, <1>12, <1>13 DEF IsStructure

\* The structures of correlated traces: one for each task.
LEMMA StructuresAre ==
    ASSUME NEW V, AreTraces(V), FiniteBodies(V), NEW S, S = StructuresOf(V)
    PROVE  /\ IsFiniteSet(S) /\ \A s \in S : IsStructure(s)
           /\ \A s, t \in S : s.task = t.task => s = t
<1> DEFINE of(task) == {t \in V : t.task = task}
<1> PICK K : K = Tasks(V)
  OBVIOUS
<1>1. \A task \in K : /\ task \in Int /\ task # NoTask /\ \E t \in V : t.task = task
  BY DEF Tasks, AreTraces, IsTrace
<1>2. ASSUME NEW task \in K
      PROVE  /\ IsStructure(Structure(InOrder(of(task))))
             /\ Structure(InOrder(of(task))).task = task
  <2> PICK T : T = of(task)
    OBVIOUS
  <2>1. /\ T # {} /\ T \subseteq V /\ \A t \in T : t.task = task
    BY <1>1
  <2>2. AreTraces(T) /\ FiniteBodies(T)
    BY <2>1, FS_Subset DEF AreTraces, FiniteBodies
  <2>3. IsStructure(Structure(InOrder(T))) /\ Structure(InOrder(T)).task = task
    BY ONLY <1>1, <2>1, <2>2, StructureIs
  <2> QED
    BY <2>3
<1>3. S = {Structure(InOrder(of(task))) : task \in K}
  BY DEF StructuresOf, TaskTraces
<1>4. IsFiniteSet(K)
  <2> PICK all : all = {t.task : t \in V}
    OBVIOUS
  <2> PICK f : f = [t \in V |-> t.task]
    OBVIOUS
  <2>1. f \in Surjection(V, all)
    BY DEF Surjection
  <2>2. IsFiniteSet(all)
    BY <2>1, FS_Surjection DEF AreTraces
  <2> QED
    BY <2>2, FS_Subset DEF Tasks
<1> PICK g : g = [task \in K |-> Structure(InOrder(of(task)))]
  OBVIOUS
<1>5. \A s \in S : \E task \in K : s = g[task]
  BY <1>3
<1>6. IsFiniteSet(S)
  <2>2. \A task \in K : g[task] \in S
    BY <1>3
  <2>1. g \in Surjection(K, S)
    BY <1>5, <2>2 DEF Surjection
  <2> QED
    BY <1>4, <2>1, FS_Surjection
<1>7. \A task \in K : IsStructure(g[task]) /\ g[task].task = task
  BY <1>2
<1>8. ASSUME NEW s \in S PROVE IsStructure(s) /\ s = g[s.task]
  <2>1. PICK task \in K : s = g[task]
    BY <1>5
  <2>2. IsStructure(g[task]) /\ g[task].task = task
    BY <1>7
  <2> QED
    BY ONLY <2>1, <2>2
<1> QED
  BY ONLY <1>6, <1>8
-----------------------------------------------------------------------------
(* Families *)

\* A finite set with a total order has a first element.
LEMMA FirstExists ==
    ASSUME NEW D, IsFiniteSet(D), D # {}, NEW R,
           \A x, y \in D : <<x, y>> \in R \/ <<y, x>> \in R,
           \A x, y, z \in D : <<x, y>> \in R /\ <<y, z>> \in R => <<x, z>> \in R
    PROVE  \E x \in D : \A y \in D : <<x, y>> \in R
<1> DEFINE First(s) == \E x \in s : \A y \in s : <<x, y>> \in R
           G == {s \in SUBSET D : s = {} \/ First(s)}
<1>1. {} \in G
  OBVIOUS
<1>2. ASSUME NEW s \in SUBSET D, NEW z \in D \ s, s \in G PROVE s \cup {z} \in G
  <2> PICK u : u = s \cup {z}
    OBVIOUS
  <2>1. <<z, z>> \in R
    OBVIOUS
  <2>2. CASE s = {}
    <3>1. z \in u /\ \A y \in u : <<z, y>> \in R
      BY <2>1, <2>2
    <3> QED
      BY <3>1
  <2>3. CASE s # {}
    <3>1. PICK x \in s : \A y \in s : <<x, y>> \in R
      BY <1>2, <2>3
    <3>2. CASE <<x, z>> \in R
      <4>1. x \in u /\ \A y \in u : <<x, y>> \in R
        BY <3>1, <3>2
      <4> QED
        BY <4>1
    <3>3. CASE <<z, x>> \in R
      <4>1. \A y \in s : <<z, y>> \in R
        BY <3>1, <3>3
      <4>2. z \in u /\ \A y \in u : <<z, y>> \in R
        BY <2>1, <4>1
      <4> QED
        BY <4>2
    <3>4. x \in D /\ z \in D
      OBVIOUS
    <3> QED
      BY <3>2, <3>3, <3>4
  <2> QED
    BY <2>2, <2>3
<1>3. D \in G
  <2> HIDE DEF G
  <2> QED
    BY ONLY <1>1, <1>2, IsFiniteSet(D), SetInduction
<1> QED
  BY <1>3

\* The best by a score, of several the least.
LEMMA BestExists ==
    ASSUME NEW D, IsFiniteSet(D), D # {}, NEW score, NEW least,
           Whole(score, D), Whole(least, D)
    PROVE  \E s \in D : \A o \in D :
              score[s] > score[o] \/ (score[s] = score[o] /\ least[s] <= least[o])
<1> DEFINE Ahead(s, o) == score[s] > score[o] \/ (score[s] = score[o] /\ least[s] <= least[o])
<1> PICK R : R = {p \in D \X D : Ahead(p[1], p[2])}
  OBVIOUS
<1>1. \A s \in D : score[s] \in Int /\ least[s] \in Int
  BY DEF Whole
<1>2. \A s, o \in D : Ahead(s, o) \/ Ahead(o, s)
  BY <1>1
<1>3. ASSUME NEW x \in D, NEW y \in D, NEW z \in D, Ahead(x, y), Ahead(y, z)
      PROVE  Ahead(x, z)
  BY <1>1, <1>3
<1> HIDE DEF Ahead
<1>4. \A s, o \in D : <<s, o>> \in R <=> Ahead(s, o)
  OBVIOUS
<1>5. \A x, y \in D : <<x, y>> \in R \/ <<y, x>> \in R
  BY <1>2, <1>4
<1>6. \A x, y, z \in D : <<x, y>> \in R /\ <<y, z>> \in R => <<x, z>> \in R
  BY <1>3, <1>4
<1>7. \E x \in D : \A y \in D : <<x, y>> \in R
  BY ONLY <1>5, <1>6, IsFiniteSet(D), D # {}, FirstExists
<1>8. \E x \in D : \A y \in D : Ahead(x, y)
  BY <1>4, <1>7
<1> QED
  BY <1>8 DEF Ahead

\* The structures to cluster, and how they fall into classes.
AreStructures(E) ==
    /\ IsFiniteSet(E)
    /\ \A s \in E : IsStructure(s)
    /\ \A s, t \in E : s.task = t.task => s = t

Classes(E, cl) ==
    /\ \A s \in E : s \in cl[s] /\ cl[s] \in SUBSET E /\ cl[s] \in Components(E)
    /\ \A c \in Components(E) : \E s \in E : c = cl[s]
    /\ \A s, t \in E : t \in cl[s] => cl[t] = cl[s]
    /\ \A s, t \in E : Similarity(s, t) >= Needed(Threshold) => cl[s] = cl[t]

LEMMA AlikeIs ==
    ASSUME NEW E, AreStructures(E), NEW s \in E, NEW t \in E
    PROVE  /\ Similarity(s, t) \in Nat /\ Similarity(s, t) = Similarity(t, s)
           /\ Fingerprint(s) = Fingerprint(t) => Similarity(s, t) >= Needed(Threshold)
<1>1. Counting(s.nodes) /\ Counting(s.edges) /\ Counting(t.nodes) /\ Counting(t.edges)
  BY DEF AreStructures, IsStructure
<1>2. /\ Similarity(s, t) \in Nat
      /\ Similarity(s, t) = Similarity(t, s)
      /\ Fingerprint(s) = Fingerprint(t) => Similarity(s, t) = Perfect
  BY <1>1, SimilarityIs
<1>3. Perfect >= Needed(Threshold)
  <2>1. Threshold \in Nat /\ Threshold <= 100
    BY FamiliesAssumption
  <2>2. Needed(Threshold) = Threshold * 2520 /\ Perfect = 100 * 2520
    BY DEF Needed, Perfect, Part
  <2> QED
    BY ONLY <2>1, <2>2
<1> QED
  BY <1>2, <1>3

LEMMA ClassesAre ==
    ASSUME NEW E, AreStructures(E)
    PROVE  \E cl : Classes(E, cl)
<1> PICK R : R = Adjacent(E)
  OBVIOUS
<1> PICK cl : cl = [s \in E |-> Component(E, R, s)]
  OBVIOUS
<1>1. IsFiniteSet(E) /\ R \in SUBSET (E \X E)
  BY DEF AreStructures, Adjacent
<1>2. ASSUME NEW s \in E, NEW t \in E
      PROVE  <<s, t>> \in R <=> s # t /\ Similarity(s, t) >= Needed(Threshold)
  BY DEF Adjacent
<1>3. ASSUME NEW s \in E, NEW t \in E, <<s, t>> \in R PROVE <<t, s>> \in R
  <2>1. Similarity(s, t) = Similarity(t, s)
    BY AlikeIs
  <2> QED
    BY <1>2, <1>3, <2>1
<1>4. ASSUME NEW s \in E
      PROVE  s \in cl[s] /\ cl[s] \in SUBSET E /\ Closed(cl[s], R)
  BY <1>1, ComponentIs
<1>5. ASSUME NEW s \in E, NEW t \in E, t \in cl[s] PROVE cl[t] = cl[s]
  <2>1. \A x, y \in E : <<x, y>> \in R => <<y, x>> \in R
    BY <1>3
  <2>2. t \in Component(E, R, s)
    BY <1>5
  <2>3. Component(E, R, t) = Component(E, R, s)
    BY ONLY <1>1, <2>1, <2>2, s \in E, t \in E, ComponentsAgree
  <2> QED
    BY <2>3
<1>6. ASSUME NEW s \in E, NEW t \in E, Similarity(s, t) >= Needed(Threshold)
      PROVE  cl[s] = cl[t]
  <2>1. CASE s # t
    <3>1. <<s, t>> \in R
      BY <1>2, <1>6, <2>1
    <3>2. t \in cl[s]
      BY <1>4, <3>1 DEF Closed
    <3> QED
      BY <1>5, <3>2
  <2> QED
    BY <2>1
<1>7. Components(E) = {Component(E, R, s) : s \in E}
  BY DEF Components
<1>8. (\A s \in E : cl[s] \in Components(E)) /\ \A c \in Components(E) : \E s \in E : c = cl[s]
  BY <1>7
<1> QED
  BY <1>4, <1>5, <1>6, <1>8 DEF Classes

LEMMA RepresentativeIs ==
    ASSUME NEW E, AreStructures(E), NEW c \in SUBSET E, c # {}
    PROVE  Representative(c) \in c
<1> DEFINE of(s) == [o \in c |-> Similarity(s, o)]
<1> PICK score : score = [s \in c |-> SumFunction(of(s))]
  OBVIOUS
<1>1. IsFiniteSet(c)
  BY FS_Subset DEF AreStructures
<1>2. ASSUME NEW s \in c PROVE score[s] \in Int
  <2> PICK f : f = of(s)
    OBVIOUS
  <2>1. f = [o \in c |-> f[o]] /\ Whole(f, c)
    <3>1. \A o \in c : Similarity(s, o) \in Nat
      BY AlikeIs
    <3> QED
      BY <3>1 DEF Whole
  <2>2. SumFunction(f) \in Int
    BY ONLY <1>1, <2>1, SumFunctionIs
  <2> QED
    BY <2>2
<1> PICK digest : digest = [s \in c |-> s.task]
  OBVIOUS
<1>3. Whole(score, c) /\ Whole(digest, c)
  BY <1>2 DEF AreStructures, IsStructure, Whole
<1>4. \E s \in c : \A o \in c :
        score[s] > score[o] \/ (score[s] = score[o] /\ digest[s] <= digest[o])
  BY ONLY <1>1, <1>3, c # {}, BestExists
<1> DEFINE Ahead(s, o) == score[s] > score[o] \/ (score[s] = score[o] /\ s.task <= o.task)
<1>5. \E s \in c : \A o \in c : Ahead(s, o)
  BY <1>4
<1>6. Representative(c) = CHOOSE s \in c : \A o \in c : Ahead(s, o)
  BY DEF Representative
<1> HIDE DEF Ahead
<1> QED
  BY <1>5, <1>6

FamilyAt(c) == Family(c, Representative(c))
Large(cl, s) == Cardinality(cl[s]) >= MinSupport
\* Where a task is put, and what the report says of it.
FamilyOf(cl, s) == IF Large(cl, s) THEN Fingerprint(Representative(cl[s])) ELSE <<>>
Filed(cl, s) ==
    IF Large(cl, s)
    THEN Assignment(s, Fingerprint(Representative(cl[s])), "assigned",
                    Similarity(s, Representative(cl[s])))
    ELSE Assignment(s, <<>>, "unclustered", 0)

Supports(report) == SumFunction([f \in report.families |-> f.support])
FamilyIds(report) == {f.id : f \in report.families}
Larges(E, cl) == {s \in E : Large(cl, s)}

Reported(E, cl, report) ==
    /\ \A f \in report.families : \E s \in E : Large(cl, s) /\ f = FamilyAt(cl[s])
    /\ \A s \in E : Large(cl, s) => FamilyAt(cl[s]) \in report.families
    /\ \A a \in report.assignments : \E s \in E : a = Filed(cl, s)
    /\ \A s \in E : Filed(cl, s) \in report.assignments
    /\ report.unclustered = Cardinality(E) - Supports(report)

LEMMA FiledIs ==
    ASSUME NEW cl, NEW s
    PROVE  /\ Filed(cl, s).task = s.task /\ Filed(cl, s).family = FamilyOf(cl, s)
           /\ Filed(cl, s).status = "assigned" <=> Large(cl, s)
           /\ FamilyOf(cl, s) = <<>> <=> ~Large(cl, s)
<1>1. Fingerprint(Representative(cl[s])) # <<>>
  <2> PICK u : u = Representative(cl[s])
    OBVIOUS
  <2>1. <<u.nodes, u.edges>> # <<>>
    OBVIOUS
  <2> QED
    BY <2>1 DEF Fingerprint
<1>2. CASE Large(cl, s)
  <2>1. Filed(cl, s) = Assignment(s, Fingerprint(Representative(cl[s])), "assigned",
                                Similarity(s, Representative(cl[s])))
    BY <1>2 DEF Filed
  <2> QED
    BY <1>1, <1>2, <2>1 DEF Assignment, FamilyOf
<1>3. CASE ~Large(cl, s)
  <2>1. Filed(cl, s) = Assignment(s, <<>>, "unclustered", 0)
    BY <1>3 DEF Filed
  <2> QED
    BY <1>3, <2>1 DEF Assignment, FamilyOf
<1> QED
  BY <1>2, <1>3

LEMMA ReportIs ==
    ASSUME NEW structures, NEW E, E = Eligible(structures), AreStructures(E),
           NEW cl, Classes(E, cl), NEW found,
           NEW report, report = Clustered(found, structures, Components(E))
    PROVE  Reported(E, cl, report)
<1> PICK C : C = Components(E)
  OBVIOUS
<1> PICK families : families = {Family(c, Representative(c)) :
                                  c \in {d \in C : Cardinality(d) >= MinSupport}}
  OBVIOUS
<1>1. /\ report.families = families
      /\ report.assignments = UNION {Assignments(c, Representative(c)) : c \in C}
      /\ report.unclustered = Cardinality(E) - SumFunction([f \in families |-> f.support])
  BY DEF Clustered, FamilyReport
<1>2. /\ \A s \in E : s \in cl[s] /\ cl[s] \in SUBSET E /\ cl[s] \in C
      /\ \A c \in C : \E s \in E : c = cl[s]
      /\ \A s, t \in E : t \in cl[s] => cl[t] = cl[s]
  BY DEF Classes
<1>3. /\ \A f \in families : \E c \in C : Cardinality(c) >= MinSupport /\ f = FamilyAt(c)
      /\ \A c \in C : Cardinality(c) >= MinSupport => FamilyAt(c) \in families
  BY DEF FamilyAt
<1>4. ASSUME NEW s \in E
      PROVE  Cardinality(cl[s]) \in Nat /\ MinSupport \in Nat
  <2>1. IsFiniteSet(cl[s])
    BY <1>2, FS_Subset DEF AreStructures
  <2> QED
    BY <2>1, FS_CardinalityType, FamiliesAssumption
<1>5. ASSUME NEW s \in E, NEW t \in cl[s]
      PROVE  /\ Filed(cl, t) \in Assignments(cl[s], Representative(cl[s]))
             /\ t \in E
  <2>1. t \in E /\ cl[t] = cl[s]
    BY <1>2
  <2> PICK c : c = cl[s]
    OBVIOUS
  <2>2. CASE Cardinality(c) < MinSupport
    <3>1. Assignments(c, Representative(c)) = {Assignment(u, <<>>, "unclustered", 0) : u \in c}
      BY <2>2 DEF Assignments
    <3>2. Filed(cl, t) = Assignment(t, <<>>, "unclustered", 0)
      BY <1>4, <2>1, <2>2 DEF Filed, Large
    <3> QED
      BY <2>1, <3>1, <3>2
  <2>3. CASE ~(Cardinality(c) < MinSupport)
    <3>1. Assignments(c, Representative(c)) =
            {Assignment(u, Fingerprint(Representative(c)), "assigned",
                        Similarity(u, Representative(c))) : u \in c}
      BY <2>3 DEF Assignments
    <3>2. Filed(cl, t) = Assignment(t, Fingerprint(Representative(c)), "assigned",
                                  Similarity(t, Representative(c)))
      BY <1>4, <2>1, <2>3 DEF Filed, Large
    <3> QED
      BY <2>1, <3>1, <3>2
  <2> QED
    BY <2>2, <2>3
<1>6. ASSUME NEW s \in E, NEW a \in Assignments(cl[s], Representative(cl[s]))
      PROVE  \E t \in cl[s] : a = Filed(cl, t)
  <2> PICK c : c = cl[s]
    OBVIOUS
  <2>1. \A t \in c : t \in E /\ cl[t] = c
    BY <1>2
  <2>2. CASE Cardinality(c) < MinSupport
    <3>1. PICK u \in c : a = Assignment(u, <<>>, "unclustered", 0)
      BY <1>6, <2>2 DEF Assignments
    <3>2. a = Filed(cl, u)
      BY <1>4, <2>1, <2>2, <3>1 DEF Filed, Large
    <3> QED
      BY <3>2
  <2>3. CASE ~(Cardinality(c) < MinSupport)
    <3>1. PICK u \in c : a = Assignment(u, Fingerprint(Representative(c)), "assigned",
                                        Similarity(u, Representative(c)))
      BY <1>6, <2>3 DEF Assignments
    <3>2. a = Filed(cl, u)
      BY <1>4, <2>1, <2>3, <3>1 DEF Filed, Large
    <3> QED
      BY <3>2
  <2> QED
    BY <2>2, <2>3
<1>7. ASSUME NEW f \in report.families
      PROVE  \E s \in E : Large(cl, s) /\ f = FamilyAt(cl[s])
  <2>1. PICK c \in C : Cardinality(c) >= MinSupport /\ f = FamilyAt(c)
    BY <1>1, <1>3
  <2>2. PICK s \in E : c = cl[s]
    BY <1>2
  <2> QED
    BY <2>1, <2>2 DEF Large
<1>8. \A s \in E : Large(cl, s) => FamilyAt(cl[s]) \in report.families
  BY <1>1, <1>2, <1>3 DEF Large
<1>9. ASSUME NEW a \in report.assignments PROVE \E s \in E : a = Filed(cl, s)
  <2>1. PICK c \in C : a \in Assignments(c, Representative(c))
    BY <1>1
  <2>2. PICK s \in E : c = cl[s]
    BY <1>2
  <2>3. PICK t \in cl[s] : a = Filed(cl, t)
    BY <1>6, <2>1, <2>2
  <2> QED
    BY <1>5, <2>3
<1>10. ASSUME NEW s \in E PROVE Filed(cl, s) \in report.assignments
  <2>1. s \in cl[s] /\ cl[s] \in C
    BY <1>2
  <2>2. Filed(cl, s) \in Assignments(cl[s], Representative(cl[s]))
    BY <1>5, <2>1
  <2> QED
    BY <1>1, <2>1, <2>2
<1>11. report.unclustered = Cardinality(E) - Supports(report)
  BY <1>1 DEF Supports
<1> QED
  BY ONLY <1>7, <1>8, <1>9, <1>10, <1>11 DEF Reported

\* Two families have one representative's shape only if they are one.
LEMMA ShapesDiffer ==
    ASSUME NEW E, AreStructures(E), NEW cl, Classes(E, cl), NEW s \in E, NEW t \in E,
           Fingerprint(Representative(cl[s])) = Fingerprint(Representative(cl[t]))
    PROVE  cl[s] = cl[t]
<1> PICK u, v : u = Representative(cl[s]) /\ v = Representative(cl[t])
  OBVIOUS
<1>1. /\ s \in cl[s] /\ cl[s] \in SUBSET E /\ t \in cl[t] /\ cl[t] \in SUBSET E
  BY DEF Classes
<1>2. u \in cl[s] /\ v \in cl[t]
  <2>1. cl[s] # {} /\ cl[t] # {}
    BY <1>1
  <2>2. Representative(cl[s]) \in cl[s]
    BY ONLY <1>1, <2>1, AreStructures(E), RepresentativeIs
  <2>3. Representative(cl[t]) \in cl[t]
    BY ONLY <1>1, <2>1, AreStructures(E), RepresentativeIs
  <2> QED
    BY <2>2, <2>3
<1>3. u \in E /\ v \in E /\ Fingerprint(u) = Fingerprint(v)
  BY <1>1, <1>2
<1>4. Similarity(u, v) >= Needed(Threshold)
  BY <1>3, AlikeIs
<1>5. cl[u] = cl[v] /\ cl[u] = cl[s] /\ cl[v] = cl[t]
  BY <1>2, <1>3, <1>4 DEF Classes
<1> QED
  BY <1>5

\* The image of a finite set under what no two members share is as large.
LEMMA AsMany ==
    ASSUME NEW D, IsFiniteSet(D), NEW V, NEW f, \A x \in D : f[x] \in V,
           \A v \in V : \E x \in D : f[x] = v,
           \A x, y \in D : f[x] = f[y] => x = y
    PROVE  IsFiniteSet(V) /\ Cardinality(V) = Cardinality(D)
<1> PICK g : g = [x \in D |-> f[x]]
  OBVIOUS
<1>1. g \in [D -> V]
  OBVIOUS
<1>2. g \in Bijection(D, V)
  BY <1>1 DEF Bijection, Injection, Surjection, IsInjective
<1> QED
  BY <1>2, FS_Bijection DEF ExistsBijection

\* One assignment for each task.
LEMMA OneEach ==
    ASSUME NEW E, AreStructures(E), NEW cl, NEW report, Reported(E, cl, report)
    PROVE  /\ \A a, b \in report.assignments : a.task = b.task => a = b
           /\ \A s \in E : Assigned(report, s.task) = FamilyOf(cl, s)
           /\ IsFiniteSet(report.assignments)
           /\ Cardinality(report.assignments) = Cardinality(E)
<1>1. /\ \A a \in report.assignments : \E s \in E : a = Filed(cl, s)
      /\ \A s \in E : Filed(cl, s) \in report.assignments
  BY DEF Reported
<1>2. \A s \in E : Filed(cl, s).task = s.task /\ Filed(cl, s).family = FamilyOf(cl, s)
  BY FiledIs
<1>3. \A a, b \in report.assignments : a.task = b.task => a = b
  BY <1>1, <1>2 DEF AreStructures
<1>4. ASSUME NEW s \in E PROVE Assigned(report, s.task) = FamilyOf(cl, s)
  <2> PICK a : a = CHOOSE b \in report.assignments : b.task = s.task
    OBVIOUS
  <2>1. a \in report.assignments /\ a.task = s.task
    BY <1>1, <1>2
  <2>2. a = Filed(cl, s)
    BY <1>1, <1>2, <1>3, <2>1
  <2> QED
    BY <1>2, <2>2 DEF Assigned
<1>5. IsFiniteSet(report.assignments) /\ Cardinality(report.assignments) = Cardinality(E)
  <2> PICK f : f = [s \in E |-> Filed(cl, s)]
    OBVIOUS
  <2> PICK V : V = report.assignments
    OBVIOUS
  <2>1. (\A s \in E : f[s] \in V) /\ \A v \in V : \E s \in E : f[s] = v
    BY <1>1
  <2>2. \A x, y \in E : f[x] = f[y] => x = y
    BY <1>2 DEF AreStructures
  <2>3. IsFiniteSet(E)
    BY DEF AreStructures
  <2>4. IsFiniteSet(V) /\ Cardinality(V) = Cardinality(E)
    BY ONLY <2>1, <2>2, <2>3, AsMany
  <2> QED
    BY <2>4
<1> QED
  BY <1>3, <1>4, <1>5

FamilyIdIs(f, c) ==
    f.id = Fingerprint(Representative(c)) /\ f.support = Cardinality(c)

LEMMA FamilyAtIs == \A c : FamilyIdIs(FamilyAt(c), c)
  BY DEF FamilyIdIs, FamilyAt, Family

\* Families are as many as their identifiers, and their members are counted once.
LEMMA FamiliesCount ==
    ASSUME NEW E, AreStructures(E), NEW cl, Classes(E, cl),
           NEW report, Reported(E, cl, report)
    PROVE  /\ IsFiniteSet(report.families)
           /\ \A f, g \in report.families : f.id = g.id => f = g
           /\ Cardinality(FamilyIds(report)) = Cardinality(report.families)
           /\ Supports(report) = Cardinality(Larges(E, cl))
<1> PICK F : F = report.families
  OBVIOUS
<1> PICK B : B = {s \in E : Large(cl, s)}
  OBVIOUS
<1>1. /\ \A f \in F : \E s \in B : f = FamilyAt(cl[s])
      /\ \A s \in B : FamilyAt(cl[s]) \in F
  BY DEF Reported
<1>2. IsFiniteSet(E) /\ IsFiniteSet(B)
  BY FS_Subset DEF AreStructures
<1> PICK at : at = [s \in B |-> FamilyAt(cl[s])]
  OBVIOUS
<1>3. (\A s \in B : at[s] \in F) /\ \A f \in F : \E s \in B : at[s] = f
  BY <1>1
<1>4. IsFiniteSet(F)
  <2>1. at \in Surjection(B, F)
    BY <1>3 DEF Surjection
  <2> QED
    BY <1>2, <2>1, FS_Surjection
<1>5. \A f, g \in F : f.id = g.id => f = g
  <2> SUFFICES ASSUME NEW f \in F, NEW g \in F, f.id = g.id PROVE f = g
    OBVIOUS
  <2>1. PICK s \in B : f = FamilyAt(cl[s])
    BY <1>1
  <2>2. PICK t \in B : g = FamilyAt(cl[t])
    BY <1>1
  <2>3. Fingerprint(Representative(cl[s])) = Fingerprint(Representative(cl[t]))
    BY <2>1, <2>2, FamilyAtIs DEF FamilyIdIs
  <2>4. s \in E /\ t \in E
    OBVIOUS
  <2>5. cl[s] = cl[t]
    BY ONLY <2>3, <2>4, AreStructures(E), Classes(E, cl), ShapesDiffer
  <2> QED
    BY <2>1, <2>2, <2>5
<1>6. Cardinality({f.id : f \in F}) = Cardinality(F)
  <2> PICK V : V = {f.id : f \in F}
    OBVIOUS
  <2> PICK id : id = [f \in F |-> f.id]
    OBVIOUS
  <2>1. (\A f \in F : id[f] \in V) /\ \A v \in V : \E f \in F : id[f] = v
    OBVIOUS
  <2>2. \A f, g \in F : id[f] = id[g] => f = g
    BY <1>5
  <2>3. Cardinality(V) = Cardinality(F)
    BY ONLY <1>4, <2>1, <2>2, AsMany
  <2> QED
    BY <2>3
<1>7. ASSUME NEW s \in B PROVE Having(at, B, at[s]) = cl[s]
  <2>1. cl[s] \subseteq B
    <3>1. cl[s] \in SUBSET E /\ \A t \in cl[s] : cl[t] = cl[s]
      BY DEF Classes
    <3> QED
      BY <3>1 DEF Large
  <2>2. ASSUME NEW t \in B PROVE at[t] = at[s] <=> t \in cl[s]
    <3>1. t \in cl[t] /\ (t \in cl[s] => cl[t] = cl[s])
      BY DEF Classes
    <3>2. ASSUME at[t] = at[s] PROVE cl[t] = cl[s]
      <4>1. Fingerprint(Representative(cl[t])) = Fingerprint(Representative(cl[s]))
        <5>1. FamilyAt(cl[t]).id = FamilyAt(cl[s]).id
          BY <3>2
        <5> QED
          BY <5>1, FamilyAtIs DEF FamilyIdIs
      <4>2. s \in E /\ t \in E
        OBVIOUS
      <4> QED
        BY ONLY <4>1, <4>2, AreStructures(E), Classes(E, cl), ShapesDiffer
    <3> QED
      BY <3>1, <3>2
  <2> QED
    BY <2>1, <2>2 DEF Having
<1>8. ASSUME NEW f \in F
      PROVE  /\ f.support = Cardinality(Having(at, B, f)) /\ f.support \in Nat
  <2>1. PICK s \in B : at[s] = f
    BY <1>3
  <2>2. f.support = Cardinality(cl[s])
    BY <2>1, FamilyAtIs DEF FamilyIdIs
  <2>3. Having(at, B, f) = cl[s] /\ Having(at, B, f) \subseteq B
    BY <1>7, <2>1 DEF Having
  <2>4. IsFiniteSet(cl[s])
    BY <1>2, <2>3, FS_Subset
  <2> QED
    BY <2>2, <2>3, <2>4, FS_CardinalityType
<1>9. SumFunction([f \in F |-> f.support]) = Cardinality(B)
  <2> PICK one : one = [f \in F |-> 1]
    OBVIOUS
  <2> PICK support : support = [f \in F |-> f.support]
    OBVIOUS
  <2> PICK by : by = [f \in F |-> one[f] * Cardinality(Having(at, B, f))]
    OBVIOUS
  <2> PICK each : each = [s \in B |-> one[at[s]]]
    OBVIOUS
  <2>1. \A f \in F : one[f] \in Int
    OBVIOUS
  <2>2. SumOn(by, F) = SumOn(each, B)
    <3>1. SumOn([f \in F |-> one[f] * Cardinality(Having(at, B, f))], F)
            = SumOn([s \in B |-> one[at[s]]], B)
      BY ONLY <1>2, <1>3, <1>4, <2>1, SumByValue
    <3> QED
      BY <3>1
  <2>3. SumOn(each, B) = Cardinality(B)
    <3>1. \A s \in B : each[s] = IF s \in B THEN 1 ELSE 0
      BY <1>3
    <3>2. B \in SUBSET B
      OBVIOUS
    <3> QED
      BY ONLY <1>2, <3>1, <3>2, SumCounts
  <2>4. ASSUME NEW f \in F PROVE support[f] = by[f] /\ support[f] \in Int
    <3>1. support[f] = f.support /\ by[f] = 1 * Cardinality(Having(at, B, f))
      OBVIOUS
    <3>2. f.support = Cardinality(Having(at, B, f)) /\ f.support \in Nat
      BY <1>8
    <3> QED
      BY ONLY <3>1, <3>2
  <2>5. Whole(support, F) /\ Whole(by, F)
    BY <2>4 DEF Whole
  <2>6. SumOn(support, F) = SumOn(by, F)
    BY ONLY <1>4, <2>4, <2>5, SumsCompare
  <2>7. SumFunction(support) = SumOn(support, F)
    <3>1. support = [f \in F |-> support[f]]
      OBVIOUS
    <3> QED
      BY ONLY <1>4, <2>5, <3>1, SumFunctionIs
  <2> QED
    BY <2>2, <2>3, <2>6, <2>7
<1> QED
  BY <1>4, <1>5, <1>6, <1>9 DEF FamilyIds, Supports, Larges

LEMMA ReportPartitions ==
    ASSUME NEW E, AreStructures(E), NEW cl, Classes(E, cl),
           NEW report, Reported(E, cl, report)
    PROVE  FamiliesPartition(E, report)
<1> PICK B : B = {s \in E : Large(cl, s)}
  OBVIOUS
<1>1. /\ Cardinality(FamilyIds(report)) = Cardinality(report.families)
      /\ Supports(report) = Cardinality(B)
  BY FamiliesCount DEF Larges
<1>2. /\ \A a, b \in report.assignments : a.task = b.task => a = b
      /\ \A s \in E : Assigned(report, s.task) = FamilyOf(cl, s)
      /\ Cardinality(report.assignments) = Cardinality(E)
  BY OneEach
<1>3. IsFiniteSet(E)
  BY DEF AreStructures
<1> PICK L : L = E \ B
  OBVIOUS
<1>4. report.unclustered = Cardinality(L)
  <2>1. IsFiniteSet(B) /\ IsFiniteSet(L) /\ B \in SUBSET E
    BY <1>3, FS_Subset
  <2>2. Cardinality(L) = Cardinality(E) - Cardinality(B)
    <3>1. L = E \ B /\ B \cap E = B
      BY <2>1
    <3>2. Cardinality(E \ B) = Cardinality(E) - Cardinality(E \cap B)
      BY <1>3, FS_Difference
    <3>3. E \cap B = B
      BY <2>1
    <3> QED
      BY <3>2, <3>3
  <2>3. report.unclustered = Cardinality(E) - Cardinality(B)
    BY <1>1 DEF Reported
  <2> QED
    BY <2>2, <2>3
<1>5. Cardinality({a \in report.assignments : a.family = <<>>}) = Cardinality(L)
  <2> PICK V : V = {a \in report.assignments : a.family = <<>>}
    OBVIOUS
  <2> PICK f : f = [s \in L |-> Filed(cl, s)]
    OBVIOUS
  <2>1. \A s \in E : /\ Filed(cl, s) \in report.assignments /\ Filed(cl, s).task = s.task
                     /\ Filed(cl, s).family = <<>> <=> s \in L
    BY FiledIs DEF Reported
  <2>2. \A a \in report.assignments : \E s \in E : a = Filed(cl, s)
    BY DEF Reported
  <2>3. (\A s \in L : f[s] \in V) /\ \A v \in V : \E s \in L : f[s] = v
    BY <2>1, <2>2
  <2>4. \A x, y \in L : f[x] = f[y] => x = y
    BY <2>1 DEF AreStructures
  <2>5. IsFiniteSet(L)
    BY <1>3, FS_Subset
  <2>6. Cardinality(V) = Cardinality(L)
    BY ONLY <2>3, <2>4, <2>5, AsMany
  <2> QED
    BY <2>6
<1>6. ASSUME NEW s \in E, NEW t \in E, Similarity(s, t) >= Needed(Threshold)
      PROVE  Assigned(report, s.task) = Assigned(report, t.task)
  <2>1. cl[s] = cl[t]
    BY <1>6 DEF Classes
  <2>2. FamilyOf(cl, s) = FamilyOf(cl, t)
    BY <2>1 DEF FamilyOf, Large
  <2> QED
    BY <1>2, <2>2
<1> QED
  BY <1>1, <1>2, <1>4, <1>5, <1>6 DEF FamiliesPartition, FamilyIds
-----------------------------------------------------------------------------
(* What is shown of a family *)

\* Weights of values, as often as each is counted, are those of the counted.
LEMMA CounterWeighs ==
    ASSUME NEW D, IsFiniteSet(D), NEW of, DOMAIN of = D, NEW c, c = Counter(of),
           NEW w, \A v \in DOMAIN c : w[v] \in Int,
           NEW each, each = [x \in D |-> w[of[x]]],
           NEW by, by = [v \in DOMAIN c |-> w[v] * c[v]]
    PROVE  SumFunction(by) = SumOn(each, D)
<1> PICK V : V = DOMAIN c
  OBVIOUS
<1>1. /\ Counting(c) /\ \A x \in D : of[x] \in V
      /\ \A v \in V : c[v] = Cardinality(Having(of, D, v))
  BY CounterIs
<1>2. IsFiniteSet(V) /\ \A v \in V : c[v] \in Int /\ w[v] \in Int
  BY <1>1 DEF Counting
<1>3. by = [v \in V |-> w[v] * Cardinality(Having(of, D, v))]
  BY <1>1
<1>4. SumOn([v \in V |-> w[v] * Cardinality(Having(of, D, v))], V)
         = SumOn([x \in D |-> w[of[x]]], D)
  BY ONLY <1>1, <1>2, IsFiniteSet(D), SumByValue
<1>5. by = [v \in V |-> by[v]] /\ Whole(by, V)
  <2>1. by = [v \in V |-> by[v]]
    OBVIOUS
  <2>2. ASSUME NEW v \in V PROVE by[v] \in Int
    <3>1. by[v] = w[v] * c[v] /\ w[v] \in Int /\ c[v] \in Int
      BY <1>2
    <3> QED
      BY ONLY <3>1
  <2> QED
    BY <2>1, <2>2 DEF Whole
<1>6. SumFunction(by) = SumOn(by, V)
  BY ONLY <1>2, <1>5, SumFunctionIs
<1> QED
  BY <1>3, <1>4, <1>6

\* The calls of a family's tasks, by their paths.
LEMMA PathsAddUp ==
    ASSUME NEW c, AreStructures(c), NEW paths, paths = Counter([s \in c |-> s.timeline])
    PROVE  /\ SumFunction(paths) = Cardinality(c)
           /\ SumFunction([path \in DOMAIN paths |-> paths[path] * Len(path)])
                = SumFunction([s \in c |-> Cardinality(s.traces)])
<1> PICK of : of = [s \in c |-> s.timeline]
  OBVIOUS
<1> PICK V : V = DOMAIN paths
  OBVIOUS
<1>1. /\ Counting(paths) /\ \A x \in c : of[x] \in V
      /\ \A v \in V : \E x \in c : v = of[x]
  <2>1. IsFiniteSet(c) /\ DOMAIN of = c /\ paths = Counter(of)
    BY DEF AreStructures
  <2> QED
    BY ONLY <2>1, V = DOMAIN paths, CounterIs
<1>2. IsFiniteSet(c) /\ DOMAIN of = c /\ paths = Counter(of)
  BY DEF AreStructures
<1>3. /\ \A v \in V : paths[v] \in Int /\ Len(v) \in Int
      /\ \A s \in c : Len(s.timeline) = Cardinality(s.traces) /\ Cardinality(s.traces) \in Int
  BY <1>1 DEF AreStructures, IsStructure, Counting
<1>4. paths = [v \in V |-> paths[v]]
  BY DEF Counter
<1>5. SumFunction(paths) = Cardinality(c)
  <2> PICK w : w = [v \in V |-> 1]
    OBVIOUS
  <2> PICK each : each = [x \in c |-> w[of[x]]]
    OBVIOUS
  <2> PICK by : by = [v \in V |-> w[v] * paths[v]]
    OBVIOUS
  <2>1. by = paths
    BY <1>3, <1>4
  <2>2. \A v \in V : w[v] \in Int
    OBVIOUS
  <2>3. SumFunction(by) = SumOn(each, c)
    BY ONLY <1>2, <2>2, V = DOMAIN paths, each = [x \in c |-> w[of[x]]],
            by = [v \in V |-> w[v] * paths[v]], CounterWeighs
  <2>4. SumOn(each, c) = Cardinality(c)
    <3>1. \A s \in c : each[s] = IF s \in c THEN 1 ELSE 0
      BY <1>1
    <3>2. c \in SUBSET c
      OBVIOUS
    <3> QED
      BY ONLY <1>2, <3>1, <3>2, SumCounts
  <2> QED
    BY <2>1, <2>3, <2>4
<1>6. SumFunction([path \in DOMAIN paths |-> paths[path] * Len(path)])
         = SumFunction([s \in c |-> Cardinality(s.traces)])
  <2> PICK w : w = [v \in V |-> Len(v)]
    OBVIOUS
  <2> PICK each : each = [x \in c |-> w[of[x]]]
    OBVIOUS
  <2> PICK by : by = [v \in V |-> w[v] * paths[v]]
    OBVIOUS
  <2> PICK given : given = [path \in V |-> paths[path] * Len(path)]
    OBVIOUS
  <2> PICK calls : calls = [s \in c |-> Cardinality(s.traces)]
    OBVIOUS
  <2>1. by = given
    <3>1. ASSUME NEW v \in V PROVE by[v] = given[v]
      <4> PICK m, k : m = paths[v] /\ k = Len(v)
        OBVIOUS
      <4>1. m \in Int /\ k \in Int /\ by[v] = k * m /\ given[v] = m * k
        BY <1>3
      <4> QED
        BY ONLY <4>1
    <3> QED
      BY <3>1
  <2>2. \A v \in V : w[v] \in Int
    BY <1>3
  <2>3. SumFunction(by) = SumOn(each, c)
    BY ONLY <1>2, <2>2, V = DOMAIN paths, each = [x \in c |-> w[of[x]]],
            by = [v \in V |-> w[v] * paths[v]], CounterWeighs
  <2>4. each = calls
    <3>1. \A s \in c : each[s] = calls[s]
      BY <1>1, <1>3
    <3> QED
      BY <3>1
  <2>5. SumFunction(calls) = SumOn(calls, c)
    <3>1. calls = [s \in c |-> calls[s]] /\ Whole(calls, c)
      BY <1>3 DEF Whole
    <3> QED
      BY ONLY <1>2, <3>1, SumFunctionIs
  <2> QED
    BY <2>1, <2>3, <2>4, <2>5
<1> QED
  BY <1>5, <1>6

\* In a spread, a key is one of some member, and is met at least once in each
\* that has it.
LEMMA SpreadIs ==
    ASSUME NEW c, IsFiniteSet(c), NEW counter, DOMAIN counter = c,
           \A s \in c : Counting(counter[s]),
           NEW spread, spread = Spread(counter)
    PROVE  /\ IsFiniteSet(DOMAIN spread)
           /\ \A key : key \in DOMAIN spread <=> \E s \in c : key \in DOMAIN counter[s]
           /\ \A s \in c : \A key \in DOMAIN counter[s] : counter[s][key] > 1 =>
                 spread[key].runs > spread[key].tasks
<1> PICK all : all = {DOMAIN counter[s] : s \in c}
  OBVIOUS
<1>1. DOMAIN spread = UNION all
  BY DEF Spread
<1>2. IsFiniteSet(DOMAIN spread)
  <2> PICK f : f = [s \in c |-> DOMAIN counter[s]]
    OBVIOUS
  <2>1. f \in Surjection(c, all)
    BY DEF Surjection
  <2>2. IsFiniteSet(all)
    BY <2>1, FS_Surjection
  <2>3. \A a \in all : IsFiniteSet(a)
    BY DEF Counting
  <2> QED
    BY <1>1, <2>2, <2>3, FS_UNION
<1>3. \A key : key \in DOMAIN spread <=> \E s \in c : key \in DOMAIN counter[s]
  BY <1>1
<1>4. ASSUME NEW s \in c, NEW key \in DOMAIN counter[s], counter[s][key] > 1
      PROVE  spread[key].runs > spread[key].tasks
  <2> PICK times : times = [t \in c |-> Times(counter[t], key)]
    OBVIOUS
  <2> PICK T : T = {t \in c : key \in DOMAIN counter[t]}
    OBVIOUS
  <2> PICK has : has = [t \in c |-> IF t \in T THEN 1 ELSE 0]
    OBVIOUS
  <2>1. spread[key].runs = SumFunction(times) /\ spread[key].tasks = Cardinality(T)
    <3>1. key \in UNION all
      OBVIOUS
    <3> QED
      BY <3>1 DEF Spread
  <2>2. ASSUME NEW t \in c
        PROVE  /\ times[t] \in Int /\ has[t] \in Int /\ has[t] <= times[t]
               /\ has[t] = IF t \in T THEN 1 ELSE 0
    <3>1. CASE t \in T
      <4>1. counter[t][key] \in Nat \ {0} /\ times[t] = counter[t][key] /\ has[t] = 1
        BY <3>1 DEF Counting, Times
      <4> QED
        BY <3>1, <4>1
    <3>2. CASE t \notin T
      <4>1. times[t] = 0 /\ has[t] = 0
        BY <3>2 DEF Times
      <4> QED
        BY <3>2, <4>1
    <3> QED
      BY <3>1, <3>2
  <2>3. has[s] < times[s]
    <3>1. s \in T /\ times[s] = counter[s][key] /\ has[s] = 1
      BY DEF Times
    <3> QED
      BY <1>4, <2>2, <3>1
  <2>4. Whole(times, c) /\ Whole(has, c)
    BY <2>2 DEF Whole
  <2>5. SumOn(has, c) < SumOn(times, c)
    BY ONLY <2>2, <2>3, <2>4, IsFiniteSet(c), s \in c, SumsCompare
  <2>6. SumOn(has, c) = Cardinality(T)
    <3>1. T \in SUBSET c
      OBVIOUS
    <3> QED
      BY ONLY <2>2, <3>1, IsFiniteSet(c), SumCounts
  <2>7. SumFunction(times) = SumOn(times, c) /\ SumFunction(times) \in Int
    <3>1. times = [t \in c |-> times[t]]
      OBVIOUS
    <3> QED
      BY ONLY <2>4, <3>1, IsFiniteSet(c), SumFunctionIs
  <2>8. IsFiniteSet(T) /\ Cardinality(T) \in Nat
    BY FS_Subset, FS_CardinalityType
  <2> QED
    BY <2>1, <2>5, <2>6, <2>7, <2>8
<1> QED
  BY <1>2, <1>3, <1>4

\* Tasks that take a step pass both its ends.
LEMMA DagAddsUp ==
    ASSUME NEW p, NEW paths, p.paths = paths, Counting(paths),
           \A path \in DOMAIN paths : DOMAIN path = 1..Len(path) /\ Len(path) \in Nat,
           NEW e \in DOMAIN Dag(p).edges, NEW end \in {1, 2}
    PROVE  Dag(p).edges[e] <= Dag(p).visits[e[end]]
<1> PICK V : V = DOMAIN paths
  OBVIOUS
<1> DEFINE by(X) == SumFunction([q \in X |-> paths[q]])
           taking == {q \in V : e \in Steps(q)}
<1>1. e \in UNION {Steps(q) : q \in V} /\ Dag(p).edges[e] = by(taking)
  BY DEF Dag
<1>2. ASSUME NEW q \in V, e \in Steps(q) PROVE e[end] \in Range(q)
  <2>1. DOMAIN q = 1..Len(q) /\ Len(q) \in Nat
    OBVIOUS
  <2>2. PICK i \in 1..(Len(q) - 1) : e = <<q[i], q[i + 1]>>
    BY <1>2 DEF Steps
  <2>3. i \in DOMAIN q /\ i + 1 \in DOMAIN q
    BY <2>1
  <2>4. e[1] = q[i] /\ e[2] = q[i + 1]
    BY <2>2
  <2> QED
    BY <2>3, <2>4 DEF Range
<1> PICK label : label = e[end]
  OBVIOUS
<1> DEFINE passing == {q \in V : label \in Range(q)}
<1>3. label \in UNION {Range(q) : q \in V}
  BY <1>1, <1>2
<1>4. Dag(p).visits[label] = by(passing)
  BY <1>3 DEF Dag
<1>5. taking \subseteq passing /\ passing \subseteq V
  BY <1>2
<1>6. \A X \in SUBSET V : by(X) = SumOn(paths, X)
  BY DEF SumOn, Restrict
<1>7. IsFiniteSet(V) /\ \A q \in V : paths[q] \in Nat
  BY DEF Counting
<1> PICK T, D : T = taking /\ D = passing
  OBVIOUS
<1>8. SumOn(paths, T) <= SumOn(paths, D)
  <2>1. IsFiniteSet(D) /\ T \in SUBSET D /\ \A q \in D : paths[q] \in Nat
    BY <1>5, <1>7, FS_Subset
  <2> QED
    BY ONLY <2>1, SumOfMore
<1>9. by(taking) = SumOn(paths, T) /\ by(passing) = SumOn(paths, D)
  BY <1>5, <1>6
<1> QED
  BY <1>1, <1>4, <1>8, <1>9

LEMMA ShownAddsUp ==
    ASSUME NEW S, AreStructures(S), NEW c \in SUBSET S,
           NEW report, NEW f, f = FamilyAt(c), NEW p, p = Projection(S, report, f)
    PROVE  ProjectionAddsUp(p)
<1>1. /\ f.support = Cardinality(c) /\ f.members = {s.task : s \in c}
      /\ f.edges = Spread([s \in c |-> s.edges])
  BY DEF FamilyAt, Family
<1>2. {s \in S : s.task \in f.members} = c
  BY <1>1 DEF AreStructures
<1>3. IsFiniteSet(c) /\ AreStructures(c)
  BY FS_Subset DEF AreStructures
<1> PICK spread : spread = Spread([s \in c |-> Repeats(s)])
  OBVIOUS
<1>4. /\ p.tasks = Cardinality(c)
      /\ p.calls = SumFunction([s \in c |-> Cardinality(s.traces)])
      /\ p.paths = Counter([s \in c |-> s.timeline])
      /\ DOMAIN p.retries = DOMAIN spread
      /\ DOMAIN p.loops = {e \in DOMAIN f.edges : e[1] = e[2]}
  BY <1>1, <1>2 DEF Projection
<1>5. /\ SumFunction(p.paths) = p.tasks
      /\ SumFunction([path \in DOMAIN p.paths |-> p.paths[path] * Len(path)]) = p.calls
  <2> PICK paths : paths = p.paths
    OBVIOUS
  <2>1. paths = Counter([s \in c |-> s.timeline])
    BY <1>4
  <2>2. /\ SumFunction(paths) = Cardinality(c)
        /\ SumFunction([path \in DOMAIN paths |-> paths[path] * Len(path)])
             = SumFunction([s \in c |-> Cardinality(s.traces)])
    BY ONLY <1>3, <2>1, PathsAddUp
  <2> QED
    BY <1>4, <2>2
<1>6. ASSUME NEW e \in DOMAIN p.loops PROVE e[1] \in DOMAIN p.retries
  <2>1. e \in DOMAIN f.edges /\ e[1] = e[2]
    BY <1>4
  <2>2. PICK s \in c : e \in DOMAIN s.edges
    <3>1. DOMAIN f.edges = UNION {DOMAIN s.edges : s \in c}
      BY <1>1 DEF Spread
    <3> QED
      BY <2>1, <3>1
  <2>3. s.nodes[e[1]] > 1 /\ e[1] \in DOMAIN s.nodes
    BY <2>1, <2>2 DEF AreStructures, IsStructure
  <2>4. e[1] \in DOMAIN Repeats(s)
    BY <2>3 DEF Repeats
  <2>5. DOMAIN spread = UNION {DOMAIN Repeats(t) : t \in c}
    BY DEF Spread
  <2> QED
    BY <1>4, <2>4, <2>5
<1>7. ASSUME NEW e \in DOMAIN Dag(p).edges, NEW end \in {1, 2}
      PROVE  Dag(p).edges[e] <= Dag(p).visits[e[end]]
  <2> PICK paths, of : paths = p.paths /\ of = [s \in c |-> s.timeline]
    OBVIOUS
  <2>1. paths = Counter(of) /\ DOMAIN of = c
    BY <1>4
  <2>2. Counting(paths) /\ \A v \in DOMAIN paths : \E s \in c : v = of[s]
    BY ONLY <1>3, <2>1, CounterIs
  <2>3. ASSUME NEW path \in DOMAIN paths
        PROVE  DOMAIN path = 1..Len(path) /\ Len(path) \in Nat
    <3>1. PICK s \in c : path = s.timeline
      BY <2>2
    <3> QED
      BY <3>1 DEF AreStructures, IsStructure
  <2> QED
    BY <2>2, <2>3, DagAddsUp
<1>8. (\A x \in {e[1] : e \in DOMAIN p.loops} : x \in DOMAIN p.retries)
  BY <1>6
<1> QED
  BY <1>5, <1>7, <1>8 DEF ProjectionAddsUp

\* What a proposal makes of a family allows what its tasks do.
LEMMA ProposalHolds ==
    ASSUME NEW c, AreStructures(c), NEW f, f = FamilyAt(c), NEW s \in c
    PROVE  ProposalAllows(Proposal(f), s)
<1>1. f.nodes = Spread([t \in c |-> t.nodes]) /\ f.edges = Spread([t \in c |-> t.edges])
  BY DEF FamilyAt, Family
<1> PICK nodes, arcs : nodes = [t \in c |-> t.nodes] /\ arcs = [t \in c |-> t.edges]
  OBVIOUS
<1>2. /\ IsFiniteSet(c) /\ DOMAIN nodes = c /\ DOMAIN arcs = c
      /\ \A t \in c : Counting(nodes[t]) /\ Counting(arcs[t])
  BY DEF AreStructures, IsStructure
<1> PICK wide, links : wide = f.nodes /\ links = f.edges
  OBVIOUS
<1>3. wide = Spread(nodes) /\ links = Spread(arcs)
  BY <1>1
<1>4. /\ \A key : key \in DOMAIN wide <=> \E t \in c : key \in DOMAIN nodes[t]
      /\ \A t \in c : \A key \in DOMAIN nodes[t] : nodes[t][key] > 1 =>
            wide[key].runs > wide[key].tasks
  BY ONLY <1>2, <1>3, SpreadIs
<1>5. \A key : key \in DOMAIN links <=> \E t \in c : key \in DOMAIN arcs[t]
  BY ONLY <1>2, <1>3, SpreadIs
<1> PICK proposal : proposal = Proposal(f)
  OBVIOUS
<1>6. /\ DOMAIN proposal = DOMAIN wide
      /\ \A label \in DOMAIN wide :
            /\ proposal[label].predecessors =
                  {l \in DOMAIN wide \ {label} : <<l, label>> \in DOMAIN links}
            /\ proposal[label].retry = (wide[label].runs > wide[label].tasks)
  BY DEF Proposal
<1>7. ASSUME NEW label \in DOMAIN Repeats(s)
      PROVE  label \in DOMAIN proposal /\ proposal[label].retry
  <2>1. label \in DOMAIN s.nodes /\ s.nodes[label] > 1 /\ nodes[s] = s.nodes
    BY DEF Repeats
  <2> QED
    BY <1>4, <1>6, <2>1
<1>8. ASSUME NEW e \in DOMAIN s.edges, e[1] # e[2]
      PROVE  e[1] \in proposal[e[2]].predecessors
  <2>1. e = <<e[1], e[2]>> /\ e[1] \in DOMAIN s.nodes /\ e[2] \in DOMAIN s.nodes
    BY DEF AreStructures, IsStructure
  <2>2. nodes[s] = s.nodes /\ arcs[s] = s.edges
    OBVIOUS
  <2>3. e[1] \in DOMAIN wide /\ e[2] \in DOMAIN wide /\ <<e[1], e[2]>> \in DOMAIN links
    BY <1>4, <1>5, <2>1, <2>2
  <2> QED
    BY <1>6, <1>8, <2>3
<1> QED
  BY <1>7, <1>8 DEF ProposalAllows
-----------------------------------------------------------------------------
(* A report compared with itself *)

ScoreIn(F) == [p \in F \X F |-> FamilySimilarity(p[1], p[2])]
FreeOf(F, matched) ==
    {p \in DOMAIN ScoreIn(F) : /\ ScoreIn(F)[p] >= Needed(MatchAt)
                               /\ \A m \in matched : p[1] # m[1] /\ p[2] # m[2]}
Taken(rank, F, matched) ==
    matched \cup {p \in FreeOf(F, matched) :
                    \A q \in FreeOf(F, matched) \ {p} : Better(rank, ScoreIn(F), p, q)}
Takes(a, rank, F, n) ==
    a = [i \in 0..n |-> IF i = 0 THEN {} ELSE Taken(rank, F, a[i - 1])]

LEMMA TakesExist == \A n \in Nat : \A rank, F : \E a : Takes(a, rank, F, n)
<1> SUFFICES ASSUME NEW rank, NEW F PROVE \A n \in Nat : \E a : Takes(a, rank, F, n)
  OBVIOUS
<1> DEFINE S == {n \in Nat : \E a : Takes(a, rank, F, n)}
<1>1. 0 \in S
  <2> PICK none : none = {}
    OBVIOUS
  <2> DEFINE a == [i \in 0..0 |-> none]
  <2>1. Takes(a, rank, F, 0)
    BY DEF Takes
  <2> QED
    BY <2>1
<1>2. ASSUME NEW n \in Nat, n \in S PROVE n + 1 \in S
  <2>1. PICK a : Takes(a, rank, F, n)
    BY <1>2
  <2> PICK last : last = Taken(rank, F, a[n])
    OBVIOUS
  <2> PICK b : b = [i \in 0..n + 1 |-> IF i = n + 1 THEN last ELSE a[i]]
    OBVIOUS
  <2>2. ASSUME NEW i \in 0..n + 1
        PROVE  b[i] = IF i = 0 THEN {} ELSE Taken(rank, F, b[i - 1])
    <3>1. CASE i = n + 1
      <4>1. b[i - 1] = a[n] /\ b[i] = last /\ i # 0
        BY <3>1
      <4> QED
        BY <3>1, <4>1
    <3>2. CASE i # n + 1
      <4>1. i \in 0..n /\ b[i] = a[i]
        BY <3>2
      <4>2. a[i] = IF i = 0 THEN {} ELSE Taken(rank, F, a[i - 1])
        BY <2>1, <4>1 DEF Takes
      <4>3. i # 0 => b[i - 1] = a[i - 1]
        BY <4>1
      <4> QED
        BY <4>1, <4>2, <4>3
    <3> QED
      BY <3>1, <3>2
  <2>3. Takes(b, rank, F, n + 1)
    BY <2>2 DEF Takes
  <2> QED
    BY <2>3
<1>3. Nat \subseteq S
  <2> HIDE DEF S
  <2> QED
    BY ONLY <1>1, <1>2, ByInduction
<1> QED
  BY <1>3

Shaped(f) == IsFiniteSet(DOMAIN f.nodes) /\ IsFiniteSet(DOMAIN f.edges)

LEMMA ShapesAlike ==
    ASSUME NEW f, NEW g, Shaped(f), Shaped(g)
    PROVE  /\ FamilySimilarity(f, g) \in Nat /\ FamilySimilarity(f, g) <= Perfect
           /\ FamilySimilarity(f, f) = Perfect /\ Perfect >= Needed(MatchAt)
           /\ Perfect \in Nat
<1>1. /\ Counting(Once(f.nodes)) /\ Counting(Once(f.edges))
      /\ Counting(Once(g.nodes)) /\ Counting(Once(g.edges))
  BY DEF Counting, Once, Shaped
<1> PICK n, e : n = Jaccard(Once(f.nodes), Once(g.nodes))
                /\ e = Jaccard(Once(f.edges), Once(g.edges))
  OBVIOUS
<1> PICK linked : linked = (DOMAIN f.edges \cup DOMAIN g.edges # {})
  OBVIOUS
<1> PICK own : own = (DOMAIN f.edges \cup DOMAIN f.edges # {})
  OBVIOUS
<1>2. n \in 0..Part /\ e \in 0..Part /\ linked \in BOOLEAN /\ own \in BOOLEAN
  BY <1>1, JaccardIs
<1>3. Weighted(n, e, linked) \in Nat /\ Weighted(n, e, linked) <= Perfect
  BY <1>2, WeightedIs
<1>4. FamilySimilarity(f, g) = Weighted(n, e, linked)
  BY DEF FamilySimilarity
<1>5. FamilySimilarity(f, f) = Perfect
  <2>1. Part \in 0..Part
    BY DEF Part
  <2>2. Jaccard(Once(f.nodes), Once(f.nodes)) = Part
        /\ Jaccard(Once(f.edges), Once(f.edges)) = Part
    BY <1>1, JaccardIs
  <2>3. FamilySimilarity(f, f) = Weighted(Part, Part, own)
    BY <2>2 DEF FamilySimilarity
  <2> QED
    BY <1>2, <2>1, <2>3, WeightedIs
<1>6. Perfect >= Needed(MatchAt) /\ Perfect \in Nat
  <2>1. MatchAt \in Nat /\ MatchAt <= 100
    BY FamiliesAssumption
  <2>2. Needed(MatchAt) = MatchAt * 2520 /\ Perfect = 100 * 2520
    BY DEF Needed, Perfect, Part
  <2> QED
    BY ONLY <2>1, <2>2
<1> QED
  BY <1>3, <1>4, <1>5, <1>6

\* Families of one report, with a rank of their identifiers.
Ranked(rank, F) ==
    /\ IsFiniteSet(F) /\ \A f \in F : Shaped(f) /\ rank[f.id] \in Int
    /\ \A f, g \in F : rank[f.id] = rank[g.id] => f = g

Same(U) == {<<f, f>> : f \in U}

\* The next pair taken is the family of least rank, with itself.
LEMMA TakesItself ==
    ASSUME NEW rank, NEW F, Ranked(rank, F), NEW U \in SUBSET F, U # F
    PROVE  \E g \in F \ U : Taken(rank, F, Same(U)) = Same(U \cup {g})
<1> PICK rest : rest = F \ U
  OBVIOUS
<1>1. IsFiniteSet(rest) /\ rest # {} /\ rest \in SUBSET F
  BY FS_Subset DEF Ranked
<1> PICK zero, at : zero = [f \in rest |-> 0] /\ at = [f \in rest |-> rank[f.id]]
  OBVIOUS
<1>2. Whole(zero, rest) /\ Whole(at, rest)
  BY <1>1 DEF Whole, Ranked
<1>3. \E g \in rest : \A f \in rest :
        zero[g] > zero[f] \/ (zero[g] = zero[f] /\ at[g] <= at[f])
  BY ONLY <1>1, <1>2, BestExists
<1>4. PICK g \in rest : \A f \in rest : rank[g.id] <= rank[f.id]
  BY <1>3
<1> PICK score, free, p0 : score = ScoreIn(F) /\ free = FreeOf(F, Same(U)) /\ p0 = <<g, g>>
  OBVIOUS
<1>5. /\ DOMAIN score = F \X F
      /\ \A f, h \in F : score[<<f, h>>] = FamilySimilarity(f, h)
  BY DEF ScoreIn
<1>6. ASSUME NEW f \in F, NEW h \in F
      PROVE  /\ score[<<f, h>>] \in Nat /\ score[<<f, h>>] <= Perfect
             /\ score[<<f, f>>] = Perfect /\ Perfect >= Needed(MatchAt)
             /\ Perfect \in Nat
  <2>1. Shaped(f) /\ Shaped(h)
    BY DEF Ranked
  <2>2. /\ FamilySimilarity(f, h) \in Nat /\ FamilySimilarity(f, h) <= Perfect
        /\ FamilySimilarity(f, f) = Perfect /\ Perfect >= Needed(MatchAt)
        /\ Perfect \in Nat
    BY ONLY <2>1, ShapesAlike
  <2>3. score[<<f, h>>] = FamilySimilarity(f, h) /\ score[<<f, f>>] = FamilySimilarity(f, f)
    BY <1>5
  <2> QED
    BY ONLY <2>2, <2>3
<1>7. \A p \in free : \E f, h \in rest : p = <<f, h>>
  <2> SUFFICES ASSUME NEW p \in free PROVE \E f, h \in rest : p = <<f, h>>
    OBVIOUS
  <2>1. /\ p \in F \X F /\ \A m \in Same(U) : p[1] # m[1] /\ p[2] # m[2]
    BY <1>5 DEF FreeOf
  <2>2. PICK f \in F, h \in F : p = <<f, h>>
    BY <2>1
  <2>3. f \notin U /\ h \notin U
    <3>1. \A x \in U : <<x, x>> \in Same(U)
      BY DEF Same
    <3>2. \A x \in U : p[1] # x /\ p[2] # x
      BY <2>1, <3>1
    <3> QED
      BY <2>2, <3>2
  <2> QED
    BY <2>2, <2>3
<1>8. p0 \in free
  <2>1. p0 \in F \X F /\ score[p0] >= Needed(MatchAt)
    BY <1>1, <1>6
  <2>2. \A m \in Same(U) : p0[1] # m[1] /\ p0[2] # m[2]
    BY DEF Same
  <2> QED
    BY <1>5, <2>1, <2>2 DEF FreeOf
<1>9. ASSUME NEW q \in free, q # p0
      PROVE  Better(rank, score, p0, q) /\ ~Better(rank, score, q, p0)
  <2>1. PICK f \in rest, h \in rest : q = <<f, h>>
    BY <1>7
  <2> PICK rg, rf, rh : rg = rank[g.id] /\ rf = rank[f.id] /\ rh = rank[h.id]
    OBVIOUS
  <2>2. /\ rg \in Int /\ rf \in Int /\ rh \in Int /\ rg <= rf /\ rg <= rh
        /\ rg = rf => f = g
        /\ rg = rh => h = g
    BY <1>1, <1>4 DEF Ranked
  <2>3. f # g \/ h # g
    BY <1>9, <2>1
  <2>4. rg < rf \/ (rg = rf /\ rg < rh)
    BY ONLY <2>2, <2>3
  <2> PICK best, its : best = score[p0] /\ its = score[q]
    OBVIOUS
  <2>5. best \in Nat /\ its \in Nat /\ its <= best
    BY <1>1, <1>6, <2>1
  <2>6. /\ Better(rank, score, p0, q) <=>
              (best > its \/ (best = its /\ (rg < rf \/ (rg = rf /\ rg < rh))))
        /\ Better(rank, score, q, p0) <=>
              (its > best \/ (its = best /\ (rf < rg \/ (rf = rg /\ rh < rg))))
    BY <2>1 DEF Better
  <2> QED
    BY ONLY <2>2, <2>4, <2>5, <2>6
<1>10. Taken(rank, F, Same(U)) = Same(U) \cup {p0}
  <2>1. Taken(rank, F, Same(U)) =
          Same(U) \cup {p \in free : \A q \in free \ {p} : Better(rank, score, p, q)}
    BY DEF Taken
  <2>2. {p \in free : \A q \in free \ {p} : Better(rank, score, p, q)} = {p0}
    <3> HIDE DEF Better
    <3> QED
      BY <1>8, <1>9
  <2> QED
    BY <2>1, <2>2
<1>11. Same(U \cup {g}) = Same(U) \cup {p0}
  BY DEF Same
<1> QED
  BY <1>10, <1>11

LEMMA MatchesItself ==
    ASSUME NEW rank, NEW F, Ranked(rank, F)
    PROVE  Match(rank, F, F) = Same(F)
<1> PICK n : n = Cardinality(F)
  OBVIOUS
<1>1. n \in Nat /\ IsFiniteSet(F)
  BY FS_CardinalityType DEF Ranked
<1> PICK a : a = CHOOSE b : Takes(b, rank, F, n)
  OBVIOUS
<1>2. Match(rank, F, F) = a[n]
  BY DEF Match, Takes, Taken, FreeOf, ScoreIn
<1>3. Takes(a, rank, F, n)
  BY <1>1, TakesExist
<1> DEFINE Good(i) == \E U \in SUBSET F : Cardinality(U) = i /\ a[i] = Same(U)
           G == {i \in Nat : i <= n => Good(i)}
<1>4. 0 \in G
  <2>1. a[0] = {}
    BY <1>1, <1>3 DEF Takes
  <2>2. {} \in SUBSET F /\ Cardinality({}) = 0 /\ Same({}) = {}
    BY FS_EmptySet DEF Same
  <2> QED
    BY <2>1, <2>2
<1>5. ASSUME NEW i \in Nat, i \in G PROVE i + 1 \in G
  <2> SUFFICES ASSUME i + 1 <= n PROVE Good(i + 1)
    OBVIOUS
  <2>1. i <= n /\ i + 1 \in 0..n /\ (i + 1) - 1 = i /\ i + 1 # 0 /\ i # n
    BY <1>1
  <2>2. PICK U \in SUBSET F : Cardinality(U) = i /\ a[i] = Same(U)
    BY <1>5, <2>1
  <2>3. a[i + 1] = Taken(rank, F, a[i])
    BY <1>3, <2>1 DEF Takes
  <2>4. U # F
    BY <2>1, <2>2
  <2>5. PICK g \in F \ U : Taken(rank, F, Same(U)) = Same(U \cup {g})
    BY <2>4, TakesItself
  <2>6. IsFiniteSet(U)
    BY <1>1, FS_Subset
  <2>7. Cardinality(U \cup {g}) = i + 1
    BY <2>2, <2>5, <2>6, FS_AddElement
  <2>8. U \cup {g} \in SUBSET F /\ a[i + 1] = Same(U \cup {g})
    BY <2>2, <2>3, <2>5
  <2> QED
    BY <2>7, <2>8
<1>6. Nat \subseteq G
  <2> HIDE DEF G
  <2> QED
    BY ONLY <1>4, <1>5, ByInduction
<1>7. PICK U \in SUBSET F : Cardinality(U) = n /\ a[n] = Same(U)
  <2>1. n \in G /\ n <= n
    BY <1>1, <1>6
  <2> QED
    BY <2>1
<1>8. U = F
  BY <1>1, <1>7, FS_Subset
<1> QED
  BY <1>2, <1>7, <1>8

\* The families of a report have shapes, and a rank of identifiers ranks them.
LEMMA ReportRanked ==
    ASSUME NEW E, AreStructures(E), NEW cl, Classes(E, cl),
           NEW report, Reported(E, cl, report),
           NEW rank, rank = CHOOSE r \in [FamilyIds(report) -> 1..Cardinality(FamilyIds(report))] :
                              IsInjective(r)
    PROVE  Ranked(rank, report.families)
<1> PICK F, ids : F = report.families /\ ids = FamilyIds(report)
  OBVIOUS
<1>1. IsFiniteSet(F) /\ \A f, g \in F : f.id = g.id => f = g
  BY FamiliesCount
<1>2. ids = {f.id : f \in F}
  BY DEF FamilyIds
<1>3. IsFiniteSet(ids)
  <2> PICK id : id = [f \in F |-> f.id]
    OBVIOUS
  <2>1. id \in Surjection(F, ids)
    BY <1>2 DEF Surjection
  <2> QED
    BY <1>1, <2>1, FS_Surjection
<1> PICK n : n = Cardinality(ids)
  OBVIOUS
<1>4. \E r \in [ids -> 1..n] : IsInjective(r)
  <2>1. n \in Nat /\ IsFiniteSet(1..n) /\ Cardinality(1..n) = n
    <3>1. n \in Nat
      BY <1>3, FS_CardinalityType
    <3>2. 1 \in Int /\ n \in Int
      BY <3>1
    <3>3. IsFiniteSet(1..n) /\ Cardinality(1..n) = IF 1 > n THEN 0 ELSE n - 1 + 1
      BY ONLY <3>2, FS_Interval
    <3> QED
      BY <3>1, <3>3
  <2>2. ExistsBijection(ids, 1..n)
    BY <1>3, <2>1, FS_SameCardinalityBij
  <2> QED
    BY <2>2 DEF ExistsBijection, Bijection, Injection
<1>5. rank \in [ids -> 1..n] /\ IsInjective(rank)
  BY <1>4
<1>6. ASSUME NEW f \in F PROVE Shaped(f)
  <2>1. PICK s \in E : f = FamilyAt(cl[s])
    BY DEF Reported
  <2> PICK c : c = cl[s]
    OBVIOUS
  <2>2. c \in SUBSET E
    BY DEF Classes
  <2> PICK nodes, arcs : nodes = [t \in c |-> t.nodes] /\ arcs = [t \in c |-> t.edges]
    OBVIOUS
  <2>3. f.nodes = Spread(nodes) /\ f.edges = Spread(arcs)
    BY <2>1 DEF FamilyAt, Family
  <2>4. /\ IsFiniteSet(c) /\ DOMAIN nodes = c /\ DOMAIN arcs = c
        /\ \A t \in c : Counting(nodes[t]) /\ Counting(arcs[t])
    BY <2>2, FS_Subset DEF AreStructures, IsStructure
  <2> PICK wide, links : wide = f.nodes /\ links = f.edges
    OBVIOUS
  <2>5. wide = Spread(nodes) /\ links = Spread(arcs)
    BY <2>3
  <2>6. IsFiniteSet(DOMAIN wide) /\ IsFiniteSet(DOMAIN links)
    BY ONLY <2>4, <2>5, SpreadIs
  <2> QED
    BY <2>6 DEF Shaped
<1>7. ASSUME NEW f \in F PROVE rank[f.id] \in Int
  <2>1. f.id \in ids
    BY <1>2
  <2>2. rank[f.id] \in 1..n
    BY <1>5, <2>1
  <2> QED
    BY <2>2
<1>8. ASSUME NEW f \in F, NEW g \in F, rank[f.id] = rank[g.id] PROVE f = g
  <2>1. f.id \in DOMAIN rank /\ g.id \in DOMAIN rank
    BY <1>2, <1>5
  <2>2. f.id = g.id
    BY <1>5, <1>8, <2>1 DEF IsInjective
  <2> QED
    BY <1>1, <2>2
<1> QED
  BY <1>1, <1>6, <1>7, <1>8 DEF Ranked

\* Nothing has moved between a report and itself.
LEMMA StaysPut ==
    ASSUME NEW E, AreStructures(E), NEW cl, Classes(E, cl),
           NEW report, Reported(E, cl, report)
    PROVE  ComparesToItself(report, FamilyIds(report))
<1> PICK ids : ids = FamilyIds(report)
  OBVIOUS
<1> PICK rank : rank = CHOOSE r \in [ids -> 1..Cardinality(ids)] : IsInjective(r)
  OBVIOUS
<1> PICK F, A : F = report.families /\ A = AssignedTasks(report)
  OBVIOUS
<1>1. Ranked(rank, F)
  BY ReportRanked
<1>2. Match(rank, F, F) = Same(F)
  BY <1>1, MatchesItself
<1> PICK same : same = Comparison(Same(F), report, report)
  OBVIOUS
<1>3. Compare(rank, report, report) = same
  BY <1>2 DEF Compare
<1> PICK K : K = {a.task : a \in A}
  OBVIOUS
<1>4. /\ A \subseteq report.assignments /\ IsFiniteSet(A)
      /\ \A a, b \in A : a.task = b.task => a = b
  BY OneEach, FS_Subset DEF AssignedTasks
<1>5. Cardinality(K) = Cardinality(A)
  <2> PICK f : f = [a \in A |-> a.task]
    OBVIOUS
  <2>1. (\A a \in A : f[a] \in K) /\ \A v \in K : \E a \in A : f[a] = v
    OBVIOUS
  <2>2. \A x, y \in A : f[x] = f[y] => x = y
    BY <1>4
  <2> QED
    BY ONLY <1>4, <2>1, <2>2, AsMany
<1> DEFINE family(task) == (CHOOSE a \in A : a.task = task).family
<1>6. ASSUME NEW task \in K
      PROVE  \E m \in Same(F) : m[1].id = family(task) /\ m[2].id = family(task)
  <2>1. PICK a \in A : a.task = task
    OBVIOUS
  <2>2. (CHOOSE b \in A : b.task = task) = a
    BY <1>4, <2>1
  <2>3. PICK s \in E : a = Filed(cl, s)
    BY <1>4 DEF Reported
  <2>4. a.status = "assigned"
    BY DEF AssignedTasks
  <2>5. Large(cl, s) /\ a.family = FamilyOf(cl, s)
    BY <2>3, <2>4, FiledIs
  <2> PICK f : f = FamilyAt(cl[s])
    OBVIOUS
  <2>6. f \in F /\ f.id = a.family
    BY <2>5, FamilyAtIs DEF Reported, FamilyIdIs, FamilyOf
  <2> PICK m : m = <<f, f>>
    OBVIOUS
  <2>7. m \in Same(F) /\ m[1] = f /\ m[2] = f
    BY <2>6 DEF Same
  <2> QED
    BY <2>2, <2>6, <2>7
<1> PICK kept : kept = {task \in K \cap K : \E m \in Same(F) :
                          m[1].id = family(task) /\ m[2].id = family(task)}
  OBVIOUS
<1>7. kept = K
  <2> HIDE DEF family
  <2> QED
    BY <1>6
<1>8. /\ same.retained = Cardinality(kept)
      /\ same.moved = Cardinality((K \cap K) \ kept)
      /\ same.added = {f.id : f \in {g \in F : \A m \in Same(F) : m[2] # g}}
      /\ same.removed = {f.id : f \in {g \in F : \A m \in Same(F) : m[1] # g}}
  BY DEF Comparison
<1>9. {g \in F : \A m \in Same(F) : m[2] # g} = {} /\ {g \in F : \A m \in Same(F) : m[1] # g} = {}
  <2>1. ASSUME NEW g \in F PROVE \E m \in Same(F) : m[1] = g /\ m[2] = g
    <3> PICK m : m = <<g, g>>
      OBVIOUS
    <3>1. m \in Same(F) /\ m[1] = g /\ m[2] = g
      BY DEF Same
    <3> QED
      BY <3>1
  <2> QED
    BY <2>1
<1>10. same.added = {} /\ same.removed = {}
  BY <1>8, <1>9
<1>11. same.moved = 0 /\ same.retained = Cardinality(A)
  <2>1. (K \cap K) \ kept = {}
    BY <1>7
  <2> QED
    BY <1>5, <1>7, <1>8, <2>1, FS_EmptySet
<1>12. Unmoved(Compare(rank, report, report), report)
  BY <1>3, <1>10, <1>11 DEF Unmoved
<1> QED
  BY <1>12 DEF ComparesToItself

\* All that is said of a report and of what is shown of it.
LEMMA ReportAccounts ==
    ASSUME NEW view, NEW S, S = Structures(Correlate(view).traces), AreStructures(S),
           NEW E, E = Eligible(S), NEW report, report = Discover(view)
    PROVE  Accounted(view, E, report)
<1>1. E \in SUBSET S /\ AreStructures(E)
  <2>1. E \in SUBSET S
    BY DEF Eligible
  <2> QED
    BY <2>1, FS_Subset DEF AreStructures
<1>2. PICK cl : Classes(E, cl)
  BY <1>1, ClassesAre
<1> PICK found : found = Correlate(view)
  OBVIOUS
<1>3. report = Clustered(found, S, Components(E))
  BY DEF Discover, DiscoverAll, DiscoverIn
<1>4. Reported(E, cl, report)
  BY <1>1, <1>2, <1>3, ReportIs
<1>5. FamiliesPartition(E, report)
  BY <1>1, <1>2, <1>4, ReportPartitions
<1>6. ASSUME NEW f \in report.families
      PROVE  \E c \in SUBSET E : f = FamilyAt(c)
  <2>1. PICK s \in E : f = FamilyAt(cl[s])
    BY <1>4 DEF Reported
  <2> QED
    BY <1>2, <2>1 DEF Classes
<1>7. ASSUME NEW p \in Projections(view, report) PROVE ProjectionAddsUp(p)
  <2>1. PICK f \in report.families : p = Projection(S, report, f)
    BY DEF Projections
  <2>2. PICK c \in SUBSET E : f = FamilyAt(c)
    BY <1>6
  <2>3. c \in SUBSET S
    BY <1>1
  <2> QED
    BY ONLY <2>1, <2>2, <2>3, AreStructures(S), ShownAddsUp
<1>8. ASSUME NEW f \in report.families, NEW s \in {e \in E : e.task \in f.members}
      PROVE  ProposalAllows(Proposal(f), s)
  <2>1. PICK c \in SUBSET E : f = FamilyAt(c)
    BY <1>6
  <2>2. f.members = {t.task : t \in c}
    BY <2>1 DEF FamilyAt, Family
  <2>3. s \in c
    BY <1>1, <2>2 DEF AreStructures
  <2>4. AreStructures(c)
    BY <1>1, FS_Subset DEF AreStructures
  <2> QED
    BY ONLY <2>1, <2>3, <2>4, ProposalHolds
<1>9. ComparesToItself(report, FamilyIds(report))
  BY <1>1, <1>2, <1>4, StaysPut
<1> QED
  BY <1>5, <1>7, <1>8, <1>9 DEF Accounted, FamilyIds

LEMMA StructuresKept ==
    ASSUME NEW view, AreTraces(view), FiniteBodies(view), \A t \in view : t.task >= NoTask,
           NEW S, S = Structures(Correlate(view).traces)
    PROVE  AreStructures(S)
<1> PICK found : found = Correlate(view).traces
  OBVIOUS
<1>1. Found(found, view)
  BY CorrelateFinds
<1>2. AreTraces(found) /\ FiniteBodies(found) /\ \A t \in found : t.task # NoTask
  BY <1>1 DEF Found, FiniteBodies, SameBody
<1>3. Correlate(found).traces = found
  BY <1>2, CorrelatePasses
<1>4. S = StructuresOf(found)
  BY <1>3 DEF Structures
<1> QED
  BY ONLY <1>2, <1>4, StructuresAre DEF AreStructures

\* The bodies of the store's calls carry finitely many results.
LEMMA BodiesFinite ==
    ASSUME TimeInv
    PROVE  FiniteBodies(View(rows))
<1>1. ASSUME NEW row \in rows PROVE IsFiniteSet(Seen(row).consumed)
  <2>1. Seen(row).consumed = Body(row).consumed
    BY DEF Seen
  <2>2. CASE row.kept
    <3>1. Body(row).consumed = row.sent.body.consumed
      BY <2>2 DEF Body
    <3> QED
      BY <2>1, <3>1 DEF TimeInv, Stamped
  <2>3. CASE ~row.kept
    <3>1. Body(row).consumed = {}
      BY <2>3 DEF Body, Gone
    <3> QED
      BY <2>1, <3>1, FS_EmptySet
  <2> QED
    BY <2>2, <2>3
<1>2. \A t \in View(rows) : \E row \in rows : t = Seen(row)
  BY DEF View
<1> QED
  BY <1>1, <1>2 DEF FiniteBodies

\* Whatever is recorded, pruned, erased and re-enriched, the families found in
\* the store are closed under similarity, each eligible task is in one of them
\* or in none, what is shown of a family adds up, its proposal allows what its
\* tasks do, and the report compared with itself moves no task (families.py:25,
\* discovery_projection.py:79, proposal.py:53, comparison.py:46).
THEOREM FamiliesAddUp == OfflineSpec => []FamiliesAccount
<1>1. OfflineInit => TimeInv
  BY TimeInitially
<1>2. OfflineInv /\ TimeInv /\ [OfflineNext]_offlineVars => TimeInv'
  BY TimeStep DEF OfflineInv
<1>3. ASSUME OfflineInv, TimeInv PROVE FamiliesAccount
  <2> PICK view : view = View(rows)
    OBVIOUS
  <2>1. AreTraces(view) /\ FiniteBodies(view) /\ \A t \in view : t.task >= NoTask
    BY <1>3, ViewIs, BodiesFinite DEF OfflineInv
  <2> PICK S : S = Structures(Correlate(view).traces)
    OBVIOUS
  <2>2. AreStructures(S)
    BY ONLY <2>1, S = Structures(Correlate(view).traces), StructuresKept
  <2>3. Accounted(view, Eligible(S), Discover(view))
    BY <2>2, ReportAccounts
  <2> QED
    BY <2>3 DEF FamiliesAccount
<1>4. OfflineInv /\ TimeInv => FamiliesAccount
  BY <1>3
<1> QED
  BY <1>1, <1>2, <1>4, OfflineInvariant, PTL DEF OfflineSpec

=============================================================================
