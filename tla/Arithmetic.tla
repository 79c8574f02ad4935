----------------------------- MODULE Arithmetic ------------------------------
(***************************************************************************)
(* Facts the proofs about several components rest on: indices into a ring  *)
(* of m elements, least members, and sums over finite sets.                *)
(*                                                                         *)
(* Every induction here is a choice of the least counterexample, which     *)
(* needs no induction principle with an operator parameter.                *)
(***************************************************************************)
EXTENDS Integers, FiniteSetTheorems, TLAPS

-----------------------------------------------------------------------------
(* Remainders and distances.                                                *)

\* A remainder is determined by its range.
LEMMA ModUnique ==
  ASSUME NEW m \in Nat, m >= 1, NEW q \in Int, NEW r \in 0 .. m - 1
  PROVE  (q * m + r) % m = r
BY Z3

\* Quotient and remainder.
LEMMA ModDiv ==
  ASSUME NEW m \in Nat, m >= 1, NEW x \in Int
  PROVE  /\ x = (x \div m) * m + (x % m)
         /\ x \div m \in Int /\ x % m \in 0 .. m - 1
BY Z3

\* Reducing a summand first changes nothing.
LEMMA ModAdd ==
  ASSUME NEW m \in Nat, m >= 1, NEW x \in Int, NEW y \in Int
  PROVE  ((x % m) + y) % m = (x + y) % m
<1> DEFINE q == x \div m
           r == x % m
           z == r + y
           k == z \div m
           t == z % m
<1>1. x = q * m + r /\ q \in Int /\ r \in Int
  BY ModDiv
<1>2. z \in Int
  BY <1>1
<1>3. z = k * m + t /\ k \in Int /\ t \in 0 .. m - 1
  BY <1>2, ModDiv
<1> HIDE DEF q, k, t, r
<1>4. x + y = (q + k) * m + t
  BY <1>1, <1>3, Z3
<1>5. q + k \in Int
  BY <1>1, <1>3
<1>6. ((q + k) * m + t) % m = t
  BY <1>3, <1>5, ModUnique
<1> QED BY <1>4, <1>6 DEF t, r

\* Different offsets from one index give different slots.
LEMMA ModInjective ==
  ASSUME NEW m \in Nat, m >= 1, NEW a \in Int, NEW x \in 0 .. m - 1,
         NEW y \in 0 .. m - 1, (a + x) % m = (a + y) % m
  PROVE  x = y
<1>1. \A b \in 0 .. m - 1 : (((a + b) % m) - a) % m = b
  <2> TAKE b \in 0 .. m - 1
  <2>0. a + b \in Int /\ -a \in Int
    OBVIOUS
  <2>1. (((a + b) % m) + (-a)) % m = ((a + b) + (-a)) % m
    BY <2>0, ModAdd
  <2>2. (a + b) + (-a) = b /\ ((a + b) % m) + (-a) = ((a + b) % m) - a
    <3>1. (a + b) % m \in Int
      BY <2>0, ModDiv
    <3> QED BY <3>1
  <2>3. b % m = b
    BY Z3
  <2> QED BY <2>1, <2>2, <2>3
<1> QED BY <1>1

\* From b back to e, when b is n bytes after e.
\* What is left of a ring when n elements are in use and k are kept free.
LEMMA ModBack ==
  ASSUME NEW m \in Nat, m >= 1, NEW e \in 0 .. m - 1, NEW n \in Nat, NEW k \in Nat,
         k >= 1, n + k <= m
  PROVE  (e - ((e + n) % m) - k) % m = m - k - n
<1>1. CASE e + n < m
  <2>1. (e + n) % m = e + n
    BY <1>1, Z3
  <2>2. e - (e + n) - k = -1 * m + (m - k - n)
    BY Z3
  <2>3. m - k - n \in 0 .. m - 1
    OBVIOUS
  <2> QED BY <2>1, <2>2, <2>3, ModUnique
<1>2. CASE e + n >= m
  <2>1. (e + n) % m = e + n - m
    <3>1. e + n = 1 * m + (e + n - m) /\ e + n - m \in 0 .. m - 1
      BY <1>2
    <3> QED BY <3>1, ModUnique
  <2>2. e - (e + n - m) - k = 0 * m + (m - k - n)
    BY Z3
  <2>3. m - k - n \in 0 .. m - 1
    OBVIOUS
  <2> QED BY <2>1, <2>2, <2>3, ModUnique
<1> QED BY <1>1, <1>2

\* The distance to the slot n elements ahead is n.
LEMMA ModForth ==
  ASSUME NEW m \in Nat, m >= 1, NEW e \in Int, NEW n \in 0 .. m - 1
  PROVE  (((e + n) % m) - e) % m = n
<1>0. e + n \in Int /\ -e \in Int
  OBVIOUS
<1>1. (((e + n) % m) + (-e)) % m = ((e + n) + (-e)) % m
  BY <1>0, ModAdd
<1>2. (e + n) + (-e) = n /\ ((e + n) % m) + (-e) = ((e + n) % m) - e
  <2>1. (e + n) % m \in Int
    BY <1>0, ModDiv
  <2> QED BY <2>1
<1>3. n % m = n
  BY Z3
<1> QED BY <1>1, <1>2, <1>3

\* (x - h) % m is how far x is from h.  It is 0 only at h itself.
\* The distance from h to x is an index, and that of h itself is 0.
LEMMA ModDistType ==
  ASSUME NEW m \in Nat, m >= 1, NEW h \in Int, NEW x \in Int
  PROVE  (x - h) % m \in 0 .. m - 1 /\ (h - h) % m = 0
<1>1. x - h \in Int /\ h - h = 0 * m + 0 /\ 0 \in 0 .. m - 1 /\ 0 \in Int
  OBVIOUS
<1> QED BY <1>1, ModDiv, ModUnique

\* Slots at the same distance from h are the same.
LEMMA DistEqual ==
  ASSUME NEW m \in Nat, m >= 1, NEW h \in Int, NEW x \in 0 .. m - 1, NEW y \in 0 .. m - 1,
         (x - h) % m = (y - h) % m
  PROVE  x = y
<1>1. -h \in Int /\ (-h) + x = x - h /\ (-h) + y = y - h
  OBVIOUS
<1>2. ((-h) + x) % m = ((-h) + y) % m
  BY <1>1
<1> QED BY <1>1, <1>2, ModInjective

\* The element k further.
\* An index that moves by k without passing h is k further from it.
LEMMA DistAdvance ==
  ASSUME NEW m \in Nat, m >= 1, NEW h \in Int, NEW x \in Int, NEW k \in Nat,
         ((x - h) % m) + k <= m - 1
  PROVE  (((x + k) % m) - h) % m = ((x - h) % m) + k
<1> DEFINE q == (x - h) \div m
           r == (x - h) % m
<1>1. x - h \in Int
  OBVIOUS
<1>2. x - h = q * m + r /\ q \in Int /\ r \in 0 .. m - 1
  BY <1>1, ModDiv
<1>3. x + k \in Int /\ -h \in Int
  OBVIOUS
<1>4. (((x + k) % m) + (-h)) % m = ((x + k) + (-h)) % m
  BY <1>3, ModAdd
<1>5. (x + k) % m \in Int
  BY <1>3, ModDiv
<1>6. r + k \in 0 .. m - 1
  BY <1>2
<1> HIDE DEF q, r
<1>7. (x + k) + (-h) = q * m + (r + k)
  <2>1. (x + k) + (-h) = (x - h) + k
    OBVIOUS
  <2> DEFINE z == q * m
  <2>2. z \in Int
    BY <1>2
  <2> HIDE DEF z
  <2>3. x - h = z + r
    BY <1>2 DEF z
  <2>4. r \in Int
    BY <1>2
  <2>5. (x + k) + (-h) = z + (r + k)
    BY <2>1, <2>2, <2>3, <2>4
  <2> QED BY <2>5 DEF z
<1>8. (q * m + (r + k)) % m = r + k
  BY <1>2, <1>6, ModUnique
<1>9. ((x + k) % m) + (-h) = ((x + k) % m) - h
  BY <1>5
<1> QED BY <1>4, <1>7, <1>8, <1>9 DEF r

\* Seen from a head n further on.
\* Distances seen from a base that has moved by n.
LEMMA DistShift ==
  ASSUME NEW m \in Nat, m >= 1, NEW h \in Int, NEW x \in Int, NEW n \in 0 .. m - 1
  PROVE  (x - ((h + n) % m)) % m = IF (x - h) % m >= n THEN ((x - h) % m) - n
                                                      ELSE ((x - h) % m) - n + m
<1> DEFINE q == (x - h) \div m
           r == (x - h) % m
           a == (h + n) \div m
           b == (h + n) % m
<1>1. x - h \in Int /\ h + n \in Int
  OBVIOUS
<1>2. /\ x - h = q * m + r /\ q \in Int /\ r \in 0 .. m - 1
      /\ h + n = a * m + b /\ a \in Int /\ b \in 0 .. m - 1
  BY <1>1, ModDiv
<1> HIDE DEF q, r, a, b
<1>3. x - b = (q + a) * m + (r - n) /\ x - b = (q + a - 1) * m + (r - n + m)
  <2> DEFINE u == q * m
             v == a * m
  <2>1. u \in Int /\ v \in Int /\ r \in Int /\ b \in Int
    BY <1>2
  <2>2. (q + a) * m = u + v /\ (q + a - 1) * m = u + v - m
    BY <1>2, Z3
  <2> HIDE DEF u, v
  <2>3. x - h = u + r /\ h + n = v + b
    BY <1>2 DEF u, v
  <2>4. x - b = u + v + (r - n)
    BY <2>1, <2>3
  <2>5. x - b = (u + v - m) + (r - n + m)
    BY <2>1, <2>3
  <2> QED BY <2>2, <2>4, <2>5
<1>4. q + a \in Int /\ q + a - 1 \in Int
  BY <1>2
<1>5. CASE r >= n
  <2>1. r - n \in 0 .. m - 1
    BY <1>2, <1>5
  <2>2. ((q + a) * m + (r - n)) % m = r - n
    BY <1>4, <2>1, ModUnique
  <2> QED BY <1>3, <1>5, <2>2 DEF r, b
<1>6. CASE ~(r >= n)
  <2>1. r - n + m \in 0 .. m - 1
    BY <1>2, <1>6
  <2>2. ((q + a - 1) * m + (r - n + m)) % m = r - n + m
    BY <1>4, <2>1, ModUnique
  <2> QED BY <1>3, <1>6, <2>2 DEF r, b
<1> QED BY <1>5, <1>6

\* The element as far from h as x is x.
\* The slot at the distance of x from h is x.
LEMMA DistBack ==
  ASSUME NEW m \in Nat, m >= 1, NEW h \in Int, NEW x \in 0 .. m - 1
  PROVE  (h + ((x - h) % m)) % m = x
<1>1. x - h \in Int /\ h \in Int
  OBVIOUS
<1>2. (((x - h) % m) + h) % m = ((x - h) + h) % m
  BY <1>1, ModAdd
<1>3. (x - h) % m \in Int
  BY <1>1, ModDiv
<1>4. (x - h) + h = x /\ ((x - h) % m) + h = h + ((x - h) % m)
  BY <1>3
<1>5. x % m = x
  BY Z3
<1> QED BY <1>2, <1>4, <1>5

\* What is left of a ring of m elements of which one is never used.
\* The free slots of a ring that keeps one slot empty.
LEMMA DistFree ==
  ASSUME NEW m \in Nat, m >= 1, NEW h \in Int, NEW x \in Int
  PROVE  (h - x - 1) % m = m - 1 - ((x - h) % m)
<1> DEFINE q == (x - h) \div m
           r == (x - h) % m
<1>1. x - h \in Int
  OBVIOUS
<1>2. x - h = q * m + r /\ q \in Int /\ r \in 0 .. m - 1
  BY <1>1, ModDiv
<1> HIDE DEF q, r
<1>3. h - x - 1 = (-q - 1) * m + (m - 1 - r)
  <2> DEFINE u == q * m
  <2>1. u \in Int /\ r \in Int
    BY <1>2
  <2>2. (-q - 1) * m = -u - m
    BY <1>2, Z3
  <2> HIDE DEF u
  <2>3. x - h = u + r
    BY <1>2 DEF u
  <2>4. h - x - 1 = (-u - m) + (m - 1 - r)
    BY <2>1, <2>3
  <2> QED BY <2>2, <2>4
<1>4. -q - 1 \in Int /\ m - 1 - r \in 0 .. m - 1
  BY <1>2
<1>5. ((-q - 1) * m + (m - 1 - r)) % m = m - 1 - r
  BY <1>4, ModUnique
<1> QED BY <1>3, <1>5 DEF r

-----------------------------------------------------------------------------
(* Least members.                                                           *)

LEMMA LeastNatural ==
  ASSUME NEW S, S \subseteq Nat, S # {}
  PROVE  \E m \in S : \A n \in S : m <= n
<1> DEFINE R == {ss \in Nat \X Nat : ss[1] < ss[2]}
<1>1. IsWellFoundedOn(R, Nat)
  BY NatLessThanWellFounded DEF OpToRel
<1>2. PICK m \in S : \A n \in S : <<n, m>> \notin R
  BY <1>1, WFMin, Zenon
<1>3. \A n \in S : m <= n
  <2> TAKE n \in S
  <2>1. <<n, m>> \in Nat \X Nat
    OBVIOUS
  <2> QED BY <1>2, <2>1
<1> QED BY <1>3

\* Of some subsets of a finite set, one has no proper subset among them.
LEMMA LeastSubset ==
  ASSUME NEW S, IsFiniteSet(S), NEW B, B \subseteq SUBSET S, B # {}
  PROVE  \E u \in B : \A v \in B : v \subseteq u => v = u
<1> DEFINE C == {Cardinality(u) : u \in B}
<1>1. \A u \in B : IsFiniteSet(u) /\ Cardinality(u) \in Nat
  BY FS_Subset, FS_CardinalityType
<1>2. PICK m \in C : \A n \in C : m <= n
  <2>1. C \subseteq Nat /\ C # {}
    BY <1>1
  <2> HIDE DEF C
  <2> QED BY <2>1, LeastNatural
<1>3. PICK u \in B : m = Cardinality(u)
  BY <1>2
<1>4. ASSUME NEW v \in B, v \subseteq u PROVE v = u
  <2>1. Cardinality(u) <= Cardinality(v)
    BY <1>2, <1>3
  <2>2. Cardinality(v) <= Cardinality(u)
        /\ (Cardinality(v) = Cardinality(u) => v = u)
    BY <1>1, <1>4, FS_Subset
  <2> QED BY <1>1, <2>1, <2>2
<1> QED BY <1>4

-----------------------------------------------------------------------------
(* Sums over finite sets.                                                   *)

\* One step of the fold that SumFunctionOnSet is.
SumStep(f, g, s) ==
  IF s = {} THEN 0 ELSE LET x == CHOOSE x \in s : TRUE IN f[x] + g[s \ {x}]

Sums(f, g, S) == g = [s \in SUBSET S |-> SumStep(f, g, s)]

LEMMA SumIs ==
  ASSUME NEW f, NEW S
  PROVE  SumFunctionOnSet(f, S) = (CHOOSE g : Sums(f, g, S))[S]
BY DEF SumFunctionOnSet, FoldFunctionOnSet, MapThenFoldSet, SumStep, Sums

\* A choice made once for all.
Chosen(s) == CHOOSE x \in s : TRUE

LEMMA ChosenIn ==
  ASSUME NEW s, s # {}
  PROVE  Chosen(s) \in s /\ s \ {Chosen(s)} \subseteq s /\ s \ {Chosen(s)} # s
<1>1. \E x \in s : TRUE
  OBVIOUS
<1>2. Chosen(s) \in s
  BY <1>1, Zenon DEF Chosen
<1> QED BY <1>2

\* Solutions of the recursion agree where both are defined.
LEMMA SumUnique ==
  ASSUME NEW f, NEW g, NEW h, NEW S, IsFiniteSet(S), NEW T, T \subseteq S,
         Sums(f, g, S), Sums(f, h, T), NEW u \in SUBSET T
  PROVE  g[u] = h[u]
<1> DEFINE B == {v \in SUBSET T : g[v] # h[v]}
<1> SUFFICES ASSUME B # {} PROVE FALSE
  OBVIOUS
<1>1. PICK v \in B : \A w \in B : w \subseteq v => w = v
  <2>1. B \subseteq SUBSET S
    OBVIOUS
  <2> HIDE DEF B
  <2> QED BY <2>1, LeastSubset
<1>2. g[v] = SumStep(f, g, v) /\ h[v] = SumStep(f, h, v)
  BY DEF Sums
<1>3. v # {}
  BY <1>1, <1>2 DEF SumStep
<1>4. Chosen(v) \in v /\ v \ {Chosen(v)} \in SUBSET T /\ v \ {Chosen(v)} # v
  BY <1>3, ChosenIn
<1>5. g[v \ {Chosen(v)}] = h[v \ {Chosen(v)}]
  BY <1>1, <1>4
<1> QED BY <1>1, <1>2, <1>3, <1>5 DEF SumStep, Chosen

\* What the recursion gives for a subset is the sum over it.
LEMMA SumValue ==
  ASSUME NEW f, NEW g, NEW S, IsFiniteSet(S), Sums(f, g, S), NEW T \in SUBSET S
  PROVE  SumFunctionOnSet(f, T) = g[T]
<1> DEFINE k == [s \in SUBSET T |-> g[s]]
           c == CHOOSE h : Sums(f, h, T)
<1>1. Sums(f, k, T)
  <2>1. ASSUME NEW s \in SUBSET T PROVE g[s] = SumStep(f, k, s)
    <3>1. g[s] = SumStep(f, g, s)
      BY DEF Sums
    <3>2. CASE s = {}
      BY <3>1, <3>2 DEF SumStep
    <3>3. CASE s # {}
      <4>1. s \ {Chosen(s)} \in SUBSET T
        BY <3>3, ChosenIn
      <4>2. k[s \ {Chosen(s)}] = g[s \ {Chosen(s)}]
        BY <4>1
      <4> HIDE DEF k
      <4> QED BY <3>1, <3>3, <4>2 DEF SumStep, Chosen
    <3> QED BY <3>2, <3>3
  <2> DEFINE r(s) == SumStep(f, k, s)
  <2>2. \A s \in SUBSET T : g[s] = r(s)
    BY <2>1
  <2> HIDE DEF r
  <2>3. [s \in SUBSET T |-> g[s]] = [s \in SUBSET T |-> r(s)]
    BY <2>2
  <2> QED BY <2>3 DEF Sums, r
<1> HIDE DEF k
<1>2. Sums(f, c, T)
  BY <1>1, Zenon
<1> HIDE DEF c
<1>3. g[T] = c[T]
  BY <1>2, SumUnique
<1> QED BY <1>3, SumIs DEF c

\* The recursion has a solution.
LEMMA SumExists ==
  ASSUME NEW f, NEW S, IsFiniteSet(S)
  PROVE  \E g : Sums(f, g, S)
<1> DEFINE B == {T \in SUBSET S : ~ \E g : Sums(f, g, T)}
<1> SUFFICES ASSUME B # {} PROVE FALSE
  OBVIOUS
<1>1. PICK T \in B : \A v \in B : v \subseteq T => v = T
  <2>1. B \subseteq SUBSET S
    OBVIOUS
  <2> HIDE DEF B
  <2> QED BY <2>1, LeastSubset
<1> DEFINE V(s) == SumFunctionOnSet(f, s)
           k == [s \in SUBSET T |-> IF s = {} THEN 0 ELSE f[Chosen(s)] + V(s \ {Chosen(s)})]
<1>2. ASSUME NEW u \in SUBSET T, u # T
      PROVE  V(u) = k[u]
  <2>1. PICK g : Sums(f, g, u)
    BY <1>1, <1>2
  <2>2. IsFiniteSet(u)
    BY FS_Subset
  <2>3. V(u) = g[u] /\ g[u] = SumStep(f, g, u)
    BY <2>1, <2>2, SumValue DEF Sums
  <2>4. CASE u = {}
    BY <2>3, <2>4 DEF SumStep
  <2>5. CASE u # {}
    <3>1. u \ {Chosen(u)} \in SUBSET u
      OBVIOUS
    <3>2. V(u \ {Chosen(u)}) = g[u \ {Chosen(u)}]
      BY <2>1, <2>2, <3>1, SumValue
    <3> HIDE DEF V
    <3> QED BY <2>3, <2>5, <3>2 DEF SumStep, Chosen
  <2> QED BY <2>4, <2>5
<1> HIDE DEF V
<1>3. ASSUME NEW s \in SUBSET T
      PROVE  k[s] = SumStep(f, k, s)
  <2>1. CASE s = {}
    BY <2>1 DEF SumStep
  <2>2. CASE s # {}
    <3>1. s \ {Chosen(s)} \in SUBSET T /\ s \ {Chosen(s)} # T
      BY <2>2, ChosenIn
    <3>2. k[s] = f[Chosen(s)] + V(s \ {Chosen(s)})
      BY <2>2
    <3>3. V(s \ {Chosen(s)}) = k[s \ {Chosen(s)}]
      BY <1>2, <3>1
    <3> HIDE DEF k
    <3> QED BY <2>2, <3>2, <3>3 DEF SumStep, Chosen
  <2> QED BY <2>1, <2>2
<1>4. Sums(f, k, T)
  <2> DEFINE r(s) == SumStep(f, k, s)
  <2>1. k = [s \in SUBSET T |-> k[s]]
    OBVIOUS
  <2>2. \A s \in SUBSET T : k[s] = r(s)
    BY <1>3
  <2> HIDE DEF r, k
  <2>3. [s \in SUBSET T |-> k[s]] = [s \in SUBSET T |-> r(s)]
    BY <2>2
  <2> QED BY <2>1, <2>3 DEF Sums, r
<1> QED BY <1>1, <1>4

LEMMA SumOfNone ==
  ASSUME NEW f
  PROVE  SumFunctionOnSet(f, {}) = 0
<1>1. IsFiniteSet({})
  BY FS_EmptySet
<1>2. PICK g : Sums(f, g, {})
  BY <1>1, SumExists
<1>3. SumFunctionOnSet(f, {}) = g[{}]
  BY <1>1, <1>2, SumValue
<1> QED BY <1>2, <1>3 DEF Sums, SumStep

LEMMA SumChosen ==
  ASSUME NEW f, NEW S, IsFiniteSet(S), S # {}
  PROVE  SumFunctionOnSet(f, S)
           = f[Chosen(S)] + SumFunctionOnSet(f, S \ {Chosen(S)})
<1>1. PICK g : Sums(f, g, S)
  BY SumExists
<1>2. /\ SumFunctionOnSet(f, S) = g[S]
      /\ SumFunctionOnSet(f, S \ {Chosen(S)}) = g[S \ {Chosen(S)}]
  BY <1>1, SumValue
<1>3. g[S] = SumStep(f, g, S)
  BY <1>1 DEF Sums
<1> QED BY <1>2, <1>3 DEF SumStep, Chosen

LEMMA SumType ==
  ASSUME NEW f, NEW S, IsFiniteSet(S), \A x \in S : f[x] \in Int
  PROVE  SumFunctionOnSet(f, S) \in Int
<1> DEFINE B == {T \in SUBSET S : SumFunctionOnSet(f, T) \notin Int}
<1> SUFFICES ASSUME B # {} PROVE FALSE
  OBVIOUS
<1>1. PICK T \in B : \A v \in B : v \subseteq T => v = T
  <2>1. B \subseteq SUBSET S
    OBVIOUS
  <2> HIDE DEF B
  <2> QED BY <2>1, LeastSubset
<1>2. T # {}
  <2> SUFFICES ASSUME T = {} PROVE FALSE
    OBVIOUS
  <2>1. SumFunctionOnSet(f, {}) = 0 /\ SumFunctionOnSet(f, T) \notin Int
    BY <1>1, SumOfNone
  <2> QED BY <2>1
<1>3. Chosen(T) \in S /\ T \ {Chosen(T)} \in SUBSET S /\ T \ {Chosen(T)} \subseteq T
      /\ T \ {Chosen(T)} # T
  BY <1>2, ChosenIn
<1>4. SumFunctionOnSet(f, T \ {Chosen(T)}) \in Int /\ f[Chosen(T)] \in Int
  BY <1>1, <1>3
<1>5. IsFiniteSet(T)
  BY FS_Subset
<1>6. SumFunctionOnSet(f, T) = f[Chosen(T)] + SumFunctionOnSet(f, T \ {Chosen(T)})
  BY <1>2, <1>5, SumChosen
<1> QED BY <1>1, <1>4, <1>6

\* Any member can be taken out first.
LEMMA SumWithout ==
  ASSUME NEW f, NEW S, IsFiniteSet(S), \A x \in S : f[x] \in Int, NEW y \in S
  PROVE  SumFunctionOnSet(f, S) = f[y] + SumFunctionOnSet(f, S \ {y})
<1> DEFINE V(s) == SumFunctionOnSet(f, s)
           Bad(s) == \E z \in s : V(s) # f[z] + V(s \ {z})
           B == {T \in SUBSET S : Bad(T)}
<1> SUFFICES ASSUME B # {} PROVE FALSE
  OBVIOUS
<1>1. PICK T \in B : \A v \in B : v \subseteq T => v = T
  <2>1. B \subseteq SUBSET S
    OBVIOUS
  <2> HIDE DEF B
  <2> QED BY <2>1, LeastSubset
<1>2. PICK z \in T : V(T) # f[z] + V(T \ {z})
  BY <1>1
<1> DEFINE x == Chosen(T)
<1>3. x \in T /\ IsFiniteSet(T)
  BY <1>2, ChosenIn, FS_Subset
<1>4. V(T) = f[x] + V(T \ {x})
  BY <1>2, <1>3, SumChosen
<1> HIDE DEF x
<1>5. x # z
  BY <1>2, <1>4
<1> DEFINE Y == T \ {x}
           Z == T \ {z}
           W == Y \ {z}
<1>6. /\ Y \in SUBSET S /\ Y \subseteq T /\ Y # T /\ z \in Y
      /\ Z \in SUBSET S /\ Z \subseteq T /\ Z # T /\ x \in Z
      /\ W = Z \ {x}
  BY <1>2, <1>3, <1>5
<1>7. ~Bad(Y) /\ ~Bad(Z)
  <2> HIDE DEF Bad, Y, Z
  <2> QED BY <1>1, <1>6
<1>8. V(Y) = f[z] + V(W) /\ V(Z) = f[x] + V(W)
  <2> HIDE DEF Y, Z, V
  <2> QED BY <1>6, <1>7
<1>9. V(W) \in Int /\ f[x] \in Int /\ f[z] \in Int
  <2>1. IsFiniteSet(W) /\ \A w \in W : f[w] \in Int
    BY <1>3, FS_Subset
  <2> HIDE DEF W
  <2> QED BY <1>2, <1>3, <2>1, SumType
<1> HIDE DEF V, W
<1>10. V(T) = f[z] + V(Z)
  <2> HIDE DEF Y, Z
  <2>1. V(T) = f[x] + V(Y)
    BY <1>4 DEF Y
  <2> QED BY <1>8, <1>9, <2>1
<1> QED BY <1>2, <1>10

\* A sum depends on the values it is over.
LEMMA SumEqual ==
  ASSUME NEW f, NEW h, NEW S, IsFiniteSet(S), \A x \in S : f[x] = h[x]
  PROVE  SumFunctionOnSet(f, S) = SumFunctionOnSet(h, S)
<1> DEFINE B == {T \in SUBSET S : SumFunctionOnSet(f, T) # SumFunctionOnSet(h, T)}
<1> SUFFICES ASSUME B # {} PROVE FALSE
  OBVIOUS
<1>1. PICK T \in B : \A v \in B : v \subseteq T => v = T
  <2>1. B \subseteq SUBSET S
    OBVIOUS
  <2> HIDE DEF B
  <2> QED BY <2>1, LeastSubset
<1>2. T # {}
  BY <1>1, SumOfNone
<1>3. Chosen(T) \in S /\ T \ {Chosen(T)} \in SUBSET S /\ T \ {Chosen(T)} \subseteq T
      /\ T \ {Chosen(T)} # T /\ IsFiniteSet(T)
  BY <1>2, ChosenIn, FS_Subset
<1>4. SumFunctionOnSet(f, T \ {Chosen(T)}) = SumFunctionOnSet(h, T \ {Chosen(T)})
      /\ f[Chosen(T)] = h[Chosen(T)]
  BY <1>1, <1>3
<1>5. SumFunctionOnSet(f, T) = f[Chosen(T)] + SumFunctionOnSet(f, T \ {Chosen(T)})
      /\ SumFunctionOnSet(h, T) = h[Chosen(T)] + SumFunctionOnSet(h, T \ {Chosen(T)})
  BY <1>2, <1>3, SumChosen
<1> QED BY <1>1, <1>4, <1>5

\* Changing one value changes the sum by as much.
LEMMA SumChange ==
  ASSUME NEW S, IsFiniteSet(S), NEW f \in [S -> Int], NEW h \in [S -> Int],
         NEW y \in S, \A x \in S \ {y} : h[x] = f[x]
  PROVE  SumFunctionOnSet(h, S) = SumFunctionOnSet(f, S) - f[y] + h[y]
<1> DEFINE R == S \ {y}
<1>1. IsFiniteSet(R) /\ (\A x \in R : f[x] = h[x] /\ f[x] \in Int)
  BY FS_Subset
<1>2. (\A x \in S : h[x] \in Int /\ f[x] \in Int) /\ h[y] \in Int /\ f[y] \in Int
  OBVIOUS
<1> HIDE DEF R
<1>3. SumFunctionOnSet(f, R) = SumFunctionOnSet(h, R) /\ SumFunctionOnSet(f, R) \in Int
  BY <1>1, SumEqual, SumType
<1>4. SumFunctionOnSet(f, S) = f[y] + SumFunctionOnSet(f, R)
  BY <1>2, SumWithout DEF R
<1>5. SumFunctionOnSet(h, S) = h[y] + SumFunctionOnSet(h, R)
  BY <1>2, SumWithout DEF R
<1> QED BY <1>2, <1>3, <1>4, <1>5

\* A sum of zeros.
LEMMA SumOfZeros ==
  ASSUME NEW f, NEW S, IsFiniteSet(S), \A x \in S : f[x] = 0
  PROVE  SumFunctionOnSet(f, S) = 0
<1> DEFINE B == {T \in SUBSET S : SumFunctionOnSet(f, T) # 0}
<1> SUFFICES ASSUME B # {} PROVE FALSE
  OBVIOUS
<1>1. PICK T \in B : \A v \in B : v \subseteq T => v = T
  <2>1. B \subseteq SUBSET S
    OBVIOUS
  <2> HIDE DEF B
  <2> QED BY <2>1, LeastSubset
<1>2. T # {}
  BY <1>1, SumOfNone
<1>3. Chosen(T) \in S /\ T \ {Chosen(T)} \in SUBSET S /\ T \ {Chosen(T)} \subseteq T
      /\ T \ {Chosen(T)} # T /\ IsFiniteSet(T)
  BY <1>2, ChosenIn, FS_Subset
<1>4. SumFunctionOnSet(f, T \ {Chosen(T)}) = 0 /\ f[Chosen(T)] = 0
  BY <1>1, <1>3
<1>5. SumFunctionOnSet(f, T) = f[Chosen(T)] + SumFunctionOnSet(f, T \ {Chosen(T)})
  BY <1>2, <1>3, SumChosen
<1> QED BY <1>1, <1>4, <1>5
=============================================================================
