--------------------------- MODULE DecisionsProofs ---------------------------
(***************************************************************************)
(* Proofs about the modules without state, for any input: the fleet map,   *)
(* the console's restore points, the updater's rows, the wiring repair,    *)
(* the activity feed, and the state builder.                               *)
(*                                                                         *)
(* A function over data is followed from its start to its end by the least *)
(* counterexample (LeastOf): were it wrong somewhere, it would be wrong    *)
(* somewhere first, and one step earlier it was right.                     *)
(***************************************************************************)
EXTENDS MCDecisions, Lists, FiniteSetTheorems, NaturalsInduction, TLAPS

-----------------------------------------------------------------------------
(* Numbers, and the parts of a list *)

\* A set of natural numbers has a least, and one that is bounded a greatest.
LEMMA LeastOf ==
    ASSUME NEW S \in SUBSET Nat, S # {}
    PROVE  \E n \in S : \A m \in S : n <= m
<1>1. IsWellFoundedOn(OpToRel(<, Nat), Nat)
    BY NatLessThanWellFounded, Zenon
<1>2. PICK n \in S : \A m \in S : ~ (<<m, n>> \in OpToRel(<, Nat))
    BY <1>1, WFMin
<1>3. \A m \in S : ~ (m < n)
    BY <1>2 DEF OpToRel
<1>4. QED
    BY <1>3

\* There are n numbers from 1 to n.
LEMMA FirstNumbers ==
    ASSUME NEW n \in Nat
    PROVE  IsFiniteSet(1..n) /\ Cardinality(1..n) = n
<1>1. 1 \in Int /\ n \in Int /\ (IF 1 > n THEN 0 ELSE n - 1 + 1) = n
    OBVIOUS
<1>2. IsFiniteSet(1..n) /\ Cardinality(1..n) = IF 1 > n THEN 0 ELSE n - 1 + 1
    BY ONLY <1>1, FS_Interval
<1>3. QED
    BY <1>1, <1>2

LEMMA GreatestOf ==
    ASSUME NEW top \in Nat, NEW S \in SUBSET (1..top), S # {}
    PROVE  \E n \in S : \A m \in S : n >= m
<1> DEFINE T == {top - n : n \in S}
<1>0. \A n \in S : top - n \in Nat
    OBVIOUS
<1>1. T \in SUBSET Nat /\ T # {}
    BY <1>0, Zenon
<1> HIDE DEF T
<1>2. PICK t \in T : \A u \in T : t <= u
    BY <1>1, LeastOf
<1>3. PICK n \in S : t = top - n
    BY DEF T
<1>4. \A m \in S : top - m \in T
    BY DEF T
<1>5. ASSUME NEW m \in S PROVE n >= m
    BY <1>2, <1>3, <1>4
<1>6. QED
    BY <1>5

\* How many positions of a list are before one of them.
Before(P, i) == Cardinality({j \in P : j < i})

LEMMA BeforeIs ==
    ASSUME NEW top \in Nat, NEW P \in SUBSET (1..top)
    PROVE  /\ IsFiniteSet(P) /\ Cardinality(P) \in Nat
           /\ \A i \in P : Before(P, i) \in 0..(Cardinality(P) - 1)
           /\ \A i, j \in P : i < j => Before(P, i) < Before(P, j)
<1>0. \A i \in P : i \in Int
    OBVIOUS
<1>1. IsFiniteSet(P) /\ Cardinality(P) \in Nat
    <2>1. IsFiniteSet(1..top)
        BY FirstNumbers
    <2>2. IsFiniteSet(P)
        BY <2>1, FS_Subset
    <2>3. QED
        BY <2>2, FS_CardinalityType
<1>2. ASSUME NEW S \in SUBSET P, NEW T \in SUBSET S, NEW i \in S \ T
      PROVE  Cardinality(T) < Cardinality(S) /\ Cardinality(T) \in Nat /\ Cardinality(S) \in Nat
    <2>1. IsFiniteSet(S)
        BY <1>1, FS_Subset
    <2>2. /\ IsFiniteSet(T) /\ Cardinality(T) <= Cardinality(S)
          /\ Cardinality(S) = Cardinality(T) => S = T
        BY <2>1, FS_Subset
    <2>3. QED
        BY <2>1, <2>2, FS_CardinalityType
<1>3. ASSUME NEW i \in P
      PROVE  Before(P, i) \in 0..(Cardinality(P) - 1)
    <2>1. {j \in P : j < i} \in SUBSET P /\ i \in P \ {j \in P : j < i}
        OBVIOUS
    <2>2. Before(P, i) < Cardinality(P) /\ Before(P, i) \in Nat
        BY <1>2, <2>1 DEF Before
    <2>3. QED
        BY <1>1, <2>2
<1>4. ASSUME NEW i \in P, NEW j \in P, i < j
      PROVE  Before(P, i) < Before(P, j)
    <2> DEFINE S == {k \in P : k < j}
               T == {k \in P : k < i}
    <2>1. S \in SUBSET P /\ T \in SUBSET S /\ i \in S \ T
        <3>1. \A k \in P : k < i => k < j
            BY <1>0, <1>4
        <3>2. i < j /\ ~(i < i)
            BY <1>0, <1>4
        <3>3. QED
            BY <3>1, <3>2
    <2> HIDE DEF S, T
    <2>2. QED
        BY <1>2, <2>1 DEF Before, S, T
<1>5. QED
    BY <1>1, <1>3, <1>4

\* The positions are met one by one, each once and in their order.
LEMMA NthIs ==
    ASSUME NEW top \in Nat, NEW P \in SUBSET (1..top)
    PROVE  /\ Cardinality(P) \in Nat
           /\ \A n \in 1..Cardinality(P) : Nth(P, n) \in P /\ Before(P, Nth(P, n)) = n - 1
           /\ \A i \in P : Before(P, i) + 1 \in 1..Cardinality(P) /\ Nth(P, Before(P, i) + 1) = i
           /\ \A m, n \in 1..Cardinality(P) : m < n => Nth(P, m) < Nth(P, n)
<1> DEFINE c == Cardinality(P)
           f == [i \in P |-> Before(P, i) + 1]
<1>1. /\ IsFiniteSet(P) /\ c \in Nat
      /\ \A i \in P : Before(P, i) \in 0..(c - 1)
      /\ \A i, j \in P : i < j => Before(P, i) < Before(P, j)
    BY BeforeIs
<1> HIDE DEF c
<1>2. \A i, j \in P : Before(P, i) = Before(P, j) => i = j
    <2>1. \A i, j \in P : i \in Int /\ j \in Int /\ Before(P, i) \in Int
        BY <1>1
    <2>2. QED
        BY <1>1, <2>1
<1>3. f \in Injection(P, 1..c)
    <2>1. \A i \in P : Before(P, i) + 1 \in 1..c
        BY <1>1
    <2>2. QED
        BY <1>1, <1>2, <2>1 DEF Injection, IsInjective
<1>4. IsFiniteSet(1..c) /\ Cardinality(1..c) = c
    BY <1>1, FirstNumbers
<1>5. f \in Surjection(P, 1..c)
    BY <1>3, <1>4, FS_Injection DEF c
<1>6. ASSUME NEW n \in 1..c
      PROVE  Nth(P, n) \in P /\ Before(P, Nth(P, n)) = n - 1
    <2>1. PICK i \in P : f[i] = n
        BY <1>5 DEF Surjection
    <2>2. Before(P, i) = n - 1
        BY <1>1, <2>1
    <2>3. QED
        BY <2>2 DEF Nth, Before
<1>7. ASSUME NEW i \in P
      PROVE  Before(P, i) + 1 \in 1..c /\ Nth(P, Before(P, i) + 1) = i
    <2>1. Before(P, i) + 1 \in 1..c
        BY <1>1
    <2> DEFINE n == Before(P, i) + 1
    <2>2. Nth(P, n) \in P /\ Before(P, Nth(P, n)) = n - 1
        BY <1>6, <2>1
    <2>3. n - 1 = Before(P, i)
        BY <1>1
    <2> HIDE DEF n
    <2>4. Nth(P, n) = i
        BY <1>2, <2>2, <2>3
    <2>5. QED
        BY <2>1, <2>4 DEF n
<1>8. ASSUME NEW m \in 1..c, NEW n \in 1..c, m < n
      PROVE  Nth(P, m) < Nth(P, n)
    <2>1. /\ Nth(P, m) \in P /\ Before(P, Nth(P, m)) = m - 1
          /\ Nth(P, n) \in P /\ Before(P, Nth(P, n)) = n - 1
        BY <1>6
    <2> DEFINE a == Nth(P, m)
               b == Nth(P, n)
    <2>2. a \in P /\ b \in P /\ Before(P, a) = m - 1 /\ Before(P, b) = n - 1
        BY <2>1
    <2> HIDE DEF a, b
    <2>3. a \in Int /\ b \in Int
        BY <2>2
    <2>4. ~(b < a) /\ a # b
        BY <1>1, <1>8, <2>2
    <2>5. a < b
        BY <2>3, <2>4
    <2>6. QED
        BY <2>5 DEF a, b
<1>9. QED
    BY <1>1, <1>6, <1>7, <1>8 DEF c

LEMMA NthOnce ==
    ASSUME NEW top \in Nat, NEW P \in SUBSET (1..top)
    PROVE  \A i, j \in 1..Cardinality(P) : Nth(P, i) = Nth(P, j) => i = j
<1>1. /\ Cardinality(P) \in Nat /\ \A n \in 1..Cardinality(P) : Nth(P, n) \in P
      /\ \A m, n \in 1..Cardinality(P) : m < n => Nth(P, m) < Nth(P, n)
    BY NthIs
<1> DEFINE c == Cardinality(P)
<1> HIDE DEF c
<1>2. \A n \in 1..c : Nth(P, n) \in Int
    <2>1. P \subseteq Int
        OBVIOUS
    <2>2. \A n \in 1..c : Nth(P, n) \in P
        BY <1>1 DEF c
    <2>3. QED
        BY ONLY <2>1, <2>2, Zenon
<1>3. ASSUME NEW i \in 1..c, NEW j \in 1..c, Nth(P, i) = Nth(P, j)
      PROVE  i = j
    <2>1. i \in Int /\ j \in Int
        BY <1>1 DEF c
    <2>2. ~(i < j) /\ ~(j < i)
        BY <1>1, <1>2, <1>3 DEF c
    <2>3. QED
        BY <2>1, <2>2
<1>4. QED
    BY <1>3 DEF c

\* Whatever meets the positions one by one in their order is how they are met.
Meets(P, m, g) ==
    /\ \A n \in 1..m : g[n] \in P
    /\ \A k, n \in 1..m : k < n => g[k] < g[n]
    /\ \A i \in P : \E n \in 1..m : g[n] = i

LEMMA NthOnly ==
    ASSUME NEW top \in Nat, NEW P \in SUBSET (1..top), NEW m \in Nat, NEW g, Meets(P, m, g)
    PROVE  Cardinality(P) = m /\ \A n \in 1..m : Nth(P, n) = g[n]
<1> USE DEF Meets
<1>1. \A k, n \in 1..m : g[k] < g[n] => k < n
    <2>1. \A n \in 1..m : g[n] \in Int /\ n \in Int
        <3>1. \A n \in 1..m : g[n] \in P
            OBVIOUS
        <3>2. P \subseteq Int
            OBVIOUS
        <3>3. \A n \in 1..m : g[n] \in Int
            BY ONLY <3>1, <3>2, Zenon
        <3>4. \A n \in 1..m : n \in Int
            BY ONLY m \in Nat
        <3>5. QED
            BY ONLY <3>3, <3>4, Zenon
    <2>2. QED
        BY <2>1
<1>2. \A k, n \in 1..m : g[k] = g[n] => k = n
    <2>1. \A n \in 1..m : g[n] \in Int /\ n \in Int
        <3>1. \A n \in 1..m : g[n] \in P
            OBVIOUS
        <3>2. P \subseteq Int
            OBVIOUS
        <3>3. \A n \in 1..m : g[n] \in Int
            BY ONLY <3>1, <3>2, Zenon
        <3>4. \A n \in 1..m : n \in Int
            BY ONLY m \in Nat
        <3>5. QED
            BY ONLY <3>3, <3>4, Zenon
    <2>2. QED
        BY <2>1
<1>3. ASSUME NEW n \in 0..m
      PROVE  Cardinality({g[k] : k \in 1..n}) = n
    <2> DEFINE h == [k \in 1..n |-> g[k]]
               T == {g[k] : k \in 1..n}
    <2>1. h \in Bijection(1..n, T)
        BY <1>2 DEF Bijection, Injection, Surjection, IsInjective
    <2>2. ExistsBijection(1..n, T)
        BY <2>1 DEF ExistsBijection
    <2> HIDE DEF T
    <2>3. QED
        BY <2>2, FS_CountingElements DEF T
<1>4. P = {g[k] : k \in 1..m}
    OBVIOUS
<1>5. Cardinality(P) = m
    BY <1>3, <1>4
<1>6. ASSUME NEW n \in 1..m
      PROVE  Nth(P, n) = g[n]
    <2>1. {j \in P : j < g[n]} = {g[k] : k \in 1..(n - 1)}
        BY <1>1, <1>4
    <2>2. Before(P, g[n]) = n - 1
        BY <1>3, <2>1 DEF Before
    <2>3. Nth(P, Before(P, g[n]) + 1) = g[n]
        BY NthIs
    <2>4. QED
        BY <2>2, <2>3
<1>7. QED
    BY <1>5, <1>6

\* The parts of a list.
LEMMA AtIs ==
    ASSUME NEW top \in Nat, NEW P \in SUBSET (1..top), NEW s
    PROVE  /\ Cardinality(P) \in Nat
           /\ At(s, P) = [n \in 1..Cardinality(P) |-> s[Nth(P, n)]]
           /\ DOMAIN At(s, P) = 1..Cardinality(P)
           /\ Len(At(s, P)) = Cardinality(P)
           /\ \A n \in 1..Cardinality(P) : Nth(P, n) \in P /\ At(s, P)[n] = s[Nth(P, n)]
           /\ \A i \in P : \E n \in 1..Cardinality(P) : Nth(P, n) = i
<1>1. /\ Cardinality(P) \in Nat
      /\ \A n \in 1..Cardinality(P) : Nth(P, n) \in P
      /\ \A i \in P : Before(P, i) + 1 \in 1..Cardinality(P) /\ Nth(P, Before(P, i) + 1) = i
    BY NthIs
<1>2. At(s, P) = [n \in 1..Cardinality(P) |-> s[Nth(P, n)]]
    BY DEF At
<1>3. Len(At(s, P)) = Cardinality(P)
    BY <1>1, <1>2
<1>4. QED
    BY <1>1, <1>2, <1>3

\* All of a list.
LEMMA AtAll ==
    ASSUME NEW top \in Nat, NEW s, s = [i \in 1..top |-> s[i]]
    PROVE  At(s, 1..top) = s
<1> DEFINE P == 1..top
           g == [n \in 1..top |-> n]
<1>1. P \in SUBSET (1..top) /\ Meets(P, top, g)
    BY DEF Meets
<1>2. Cardinality(P) = top /\ \A n \in 1..top : Nth(P, n) = g[n]
    <2> HIDE DEF P, g
    <2>1. QED
        BY <1>1, NthOnly
<1>3. \A n \in 1..top : Nth(P, n) = n
    BY <1>2
<1> HIDE DEF P, g
<1>4. At(s, P) = [n \in 1..top |-> s[n]]
    BY <1>2, <1>3 DEF At
<1>5. QED
    BY <1>4 DEF P

\* Part of a part: where in P those of R are.
Where(Q, P, R) ==
    /\ R \in SUBSET P /\ Q \in SUBSET (1..Cardinality(P))
    /\ \A n \in 1..Cardinality(P) : n \in Q <=> Nth(P, n) \in R

LEMMA AtAt ==
    ASSUME NEW top \in Nat, NEW P \in SUBSET (1..top), NEW R, NEW Q, Where(Q, P, R)
    PROVE  /\ Cardinality(Q) = Cardinality(R)
           /\ \A n \in 1..Cardinality(R) : Nth(P, Nth(Q, n)) = Nth(R, n) /\ Nth(Q, n) \in Q
<1> DEFINE c == Cardinality(P)
           m == Cardinality(Q)
           g == [n \in 1..m |-> Nth(P, Nth(Q, n))]
<1>1. /\ c \in Nat
      /\ \A n \in 1..c : Nth(P, n) \in P
      /\ \A i \in P : \E n \in 1..c : Nth(P, n) = i
      /\ \A k, n \in 1..c : k < n => Nth(P, k) < Nth(P, n)
    BY NthIs
<1>2. Q \in SUBSET (1..c)
    BY DEF Where
<1>q. \A n \in 1..c : n \in Q <=> Nth(P, n) \in R
    BY DEF Where
<1> HIDE DEF c
<1>3. /\ m \in Nat
      /\ \A n \in 1..m : Nth(Q, n) \in Q
      /\ \A i \in Q : \E n \in 1..m : Nth(Q, n) = i
      /\ \A k, n \in 1..m : k < n => Nth(Q, k) < Nth(Q, n)
    BY <1>1, <1>2, NthIs
<1> HIDE DEF m
<1>4. R \in SUBSET (1..top)
    BY DEF Where
<1>5. \A n \in 1..m : g[n] \in R
    BY <1>2, <1>3, <1>q
<1>6. \A k, n \in 1..m : k < n => g[k] < g[n]
    BY <1>1, <1>2, <1>3
<1>7. \A i \in R : \E n \in 1..m : g[n] = i
    <2> TAKE i \in R
    <2>0. i \in P
        BY DEF Where
    <2>1. PICK k \in 1..c : Nth(P, k) = i
        BY <1>1, <2>0
    <2>2. k \in Q
        BY <1>q, <2>1
    <2>3. QED
        BY <1>3, <2>1, <2>2
<1> HIDE DEF g
<1>8. Cardinality(R) = m /\ \A n \in 1..m : Nth(R, n) = g[n]
    <2>1. m \in Nat
        BY <1>3
    <2>2. Meets(R, m, g)
        BY <1>5, <1>6, <1>7 DEF Meets
    <2>3. QED
        BY ONLY top \in Nat, <1>4, <2>1, <2>2, NthOnly
<1>9. QED
    BY <1>3, <1>8 DEF c, m, g

Agree(t, Q, s, P) == \A n \in Q : t[n] = s[Nth(P, n)]

LEMMA AtPart ==
    ASSUME NEW top \in Nat, NEW P \in SUBSET (1..top), NEW R, NEW Q, Where(Q, P, R),
           NEW s, NEW t, Agree(t, Q, s, P)
    PROVE  At(t, Q) = At(s, R)
<1>1. /\ Cardinality(Q) = Cardinality(R)
      /\ \A n \in 1..Cardinality(R) : Nth(P, Nth(Q, n)) = Nth(R, n) /\ Nth(Q, n) \in Q
    BY AtAt
<1>2. \A n \in 1..Cardinality(R) : t[Nth(Q, n)] = s[Nth(R, n)]
    BY <1>1 DEF Agree
<1>3. QED
    BY <1>1, <1>2 DEF At

\* What a part has, and that it has nothing twice that the list has once.
LEMMA AtHas ==
    ASSUME NEW top \in Nat, NEW P \in SUBSET (1..top), NEW s
    PROVE  /\ {At(s, P)[n] : n \in DOMAIN At(s, P)} = {s[i] : i \in P}
           /\ (\A i, j \in P : s[i] = s[j] => i = j) =>
                \A m, n \in DOMAIN At(s, P) : At(s, P)[m] = At(s, P)[n] => m = n
<1> DEFINE c == Cardinality(P)
           t == At(s, P)
<1>1. /\ c \in Nat /\ DOMAIN t = 1..c
      /\ \A n \in 1..c : Nth(P, n) \in P /\ t[n] = s[Nth(P, n)]
    BY AtIs
<1>a. \A i \in P : \E n \in 1..c : Nth(P, n) = i
    BY AtIs
<1>2. \A m, n \in 1..c : m < n => Nth(P, m) < Nth(P, n)
    BY NthIs
<1>3. \A i \in P : i \in Int
    OBVIOUS
<1> HIDE DEF c, t
<1>4. ASSUME \A i, j \in P : s[i] = s[j] => i = j, NEW m \in 1..c, NEW n \in 1..c, t[m] = t[n]
      PROVE  m = n
    <2>0. Nth(P, m) \in P /\ Nth(P, n) \in P /\ s[Nth(P, m)] = s[Nth(P, n)]
        BY <1>1, <1>4
    <2>1. Nth(P, m) = Nth(P, n) /\ Nth(P, m) \in Int
        BY <1>3, <1>4, <2>0
    <2>2. m \in Int /\ n \in Int /\ ~(m < n) /\ ~(n < m)
        BY <1>1, <1>2, <2>1
    <2>3. QED
        BY <2>2
<1>5. {t[n] : n \in DOMAIN t} = {s[i] : i \in P}
    <2>1. \A n \in DOMAIN t : \E i \in P : t[n] = s[i]
        BY <1>1
    <2>2. \A i \in P : \E n \in DOMAIN t : t[n] = s[i]
        BY <1>1, <1>a
    <2>3. {t[n] : n \in DOMAIN t} \subseteq {s[i] : i \in P}
        BY <2>1, Zenon
    <2>4. {s[i] : i \in P} \subseteq {t[n] : n \in DOMAIN t}
        BY <2>2, Zenon
    <2>5. QED
        BY <2>3, <2>4, Zenon
<1>6. QED
    BY <1>1, <1>4, <1>5 DEF t

\* Two lists, one after the other.
LEMMA CatIs ==
    ASSUME NEW m \in Nat, NEW n \in Nat, NEW x, NEW y,
           x = [i \in 1..m |-> x[i]], y = [i \in 1..n |-> y[i]]
    PROVE  /\ x \o y = [i \in 1..(m + n) |-> IF i <= m THEN x[i] ELSE y[i - m]]
           /\ DOMAIN (x \o y) = 1..(m + n) /\ Len(x \o y) = m + n
           /\ \A i \in 1..m : (x \o y)[i] = x[i]
           /\ \A i \in 1..n : (x \o y)[m + i] = y[i]
           /\ \A i \in 1..(m + n) : i \in 1..m \/ i - m \in 1..n
<1> DEFINE S == {x[i] : i \in 1..m} \cup {y[i] : i \in 1..n}
<1>1. x \in [1..m -> S] /\ y \in [1..n -> S]
    BY Zenon
<1> HIDE DEF S
<1>2. x \in Seq(S) /\ y \in Seq(S) /\ Len(x) = m /\ Len(y) = n
    BY <1>1
<1>3. x \o y = [i \in 1..(m + n) |-> IF i <= m THEN x[i] ELSE y[i - m]]
    BY <1>2
<1>4. Len(x \o y) = m + n
    BY <1>2
<1>5. DOMAIN (x \o y) = 1..(m + n)
    BY <1>3
<1>6. \A i \in 1..m : (x \o y)[i] = x[i]
    BY <1>3
<1>7. ASSUME NEW i \in 1..n PROVE (x \o y)[m + i] = y[i]
    <2>1. m + i \in 1..(m + n) /\ ~(m + i <= m) /\ (m + i) - m = i
        OBVIOUS
    <2>2. QED
        BY <1>3, <2>1
<1>8. \A i \in 1..(m + n) : i \in 1..m \/ i - m \in 1..n
    OBVIOUS
<1>9. QED
    BY <1>3, <1>4, <1>5, <1>6, <1>7, <1>8

-----------------------------------------------------------------------------
(* Sums *)

LEMMA Disjoint ==
    ASSUME NEW S, IsFiniteSet(S), NEW T, IsFiniteSet(T), S \cap T = {}
    PROVE  /\ IsFiniteSet(S \cup T) /\ Cardinality(S) \in Nat /\ Cardinality(T) \in Nat
           /\ Cardinality(S \cup T) = Cardinality(S) + Cardinality(T)
<1>1. /\ IsFiniteSet(S \cup T)
      /\ Cardinality(S \cup T) = Cardinality(S) + Cardinality(T) - Cardinality(S \cap T)
    BY FS_Union
<1>2. Cardinality(S \cap T) = 0
    BY FS_EmptySet
<1>3. Cardinality(S) \in Nat /\ Cardinality(T) \in Nat
    BY FS_CardinalityType
<1>4. QED
    BY <1>1, <1>2, <1>3

\* A sum, worked out by taking one after the other, is what any function of the parts
\* says that grows by the same steps.
Adds(w, f, S) ==
    /\ w = [s \in SUBSET S |-> w[s]] /\ w[{}] = 0
    /\ \A s \in SUBSET S : \A x \in s : w[s] = f[x] + w[s \ {x}]

LEMMA SumOnly ==
    ASSUME NEW S, IsFiniteSet(S), NEW f, NEW w, Adds(w, f, S)
    PROVE  SumFunctionOnSet(f, S) = w[S]
<1> DEFINE Is(v) == v = [s \in SUBSET S |-> IF s = {} THEN 0
                                            ELSE f[CHOOSE x \in s : TRUE] + v[s \ {CHOOSE x \in s : TRUE}]]
           iter == CHOOSE v : Is(v)
<1>1. SumFunctionOnSet(f, S) = iter[S]
    BY DEF SumFunctionOnSet, FoldFunctionOnSet, MapThenFoldSet
<1>2. \A s \in SUBSET S : s # {} => (CHOOSE x \in s : TRUE) \in s
    OBVIOUS
<1>3. Is(w)
    <2>1. \A s \in SUBSET S :
            w[s] = IF s = {} THEN 0
                   ELSE f[CHOOSE x \in s : TRUE] + w[s \ {CHOOSE x \in s : TRUE}]
        BY <1>2 DEF Adds
    <2>2. QED
        BY <2>1 DEF Adds
<1>4. Is(iter)
    BY <1>3
<1> HIDE DEF iter
<1>5. \A s \in SUBSET S : IsFiniteSet(s) /\ Cardinality(s) \in Nat
    BY FS_Subset, FS_CardinalityType
<1> DEFINE Bad == {s \in SUBSET S : iter[s] # w[s]}
<1>6. Bad = {}
    <2> SUFFICES ASSUME Bad # {} PROVE FALSE
        OBVIOUS
    <2> DEFINE N == {Cardinality(s) : s \in Bad}
    <2>1. N \in SUBSET Nat /\ N # {}
        BY <1>5
    <2> HIDE DEF N
    <2>2. PICK n \in N : \A m \in N : n <= m
        BY <2>1, LeastOf
    <2>3. PICK s \in Bad : n = Cardinality(s)
        BY DEF N
    <2>4. s \in SUBSET S
        OBVIOUS
    <2>5. s # {}
        BY <1>4, <2>3 DEF Adds
    <2> DEFINE x == CHOOSE y \in s : TRUE
               r == s \ {x}
    <2>6. x \in s
        BY <2>5
    <2>7. iter[s] = f[x] + iter[r] /\ w[s] = f[x] + w[r]
        BY <1>3, <1>4, <2>4, <2>5
    <2> HIDE DEF x
    <2>8. r \in SUBSET S
        BY <2>4
    <2>9. Cardinality(r) < n
        <3>1. Cardinality(r) = n - 1 /\ n \in Nat
            BY <1>5, <2>3, <2>4, <2>6, FS_RemoveElement
        <3>2. QED
            BY <3>1
    <2>10. r \notin Bad
        <3>1. Cardinality(r) \in Nat /\ n \in Nat
            BY <1>5, <2>1, <2>8
        <3>2. Cardinality(r) \notin N
            BY <2>2, <2>9, <3>1
        <3>3. QED
            BY <3>2 DEF N
    <2>11. iter[r] = w[r]
        BY <2>8, <2>10
    <2>12. QED
        BY <2>3, <2>7, <2>11
<1>7. iter[S] = w[S]
    BY <1>6
<1>8. QED
    BY <1>1, <1>7

\* Things taken by what they are: the classes hold all of them.
Counts(f, R, c, D) ==
    R = {c[x] : x \in D} /\ \A r \in R : f[r] = Cardinality({x \in D : c[x] = r})

LEMMA ClassesCover ==
    ASSUME NEW D, IsFiniteSet(D), NEW c, NEW R, NEW f, Counts(f, R, c, D)
    PROVE  SumFunctionOnSet(f, R) = Cardinality(D)
<1> USE DEF Counts
<1> DEFINE Of(s) == {x \in D : c[x] \in s}
           w == [s \in SUBSET R |-> Cardinality(Of(s))]
<1>1. \A s \in SUBSET R : IsFiniteSet(Of(s)) /\ Cardinality(Of(s)) \in Nat
    <2> TAKE s \in SUBSET R
    <2>1. Of(s) \in SUBSET D
        OBVIOUS
    <2>2. QED
        BY <2>1, FS_Subset, FS_CardinalityType
<1>2. ASSUME NEW s \in SUBSET R, NEW r \in s
      PROVE  w[s] = f[r] + w[s \ {r}]
    <2> DEFINE One == {x \in D : c[x] = r}
    <2>1. /\ Of(s) = One \cup Of(s \ {r}) /\ One \cap Of(s \ {r}) = {}
          /\ s \ {r} \in SUBSET R /\ One \in SUBSET D /\ r \in R
        OBVIOUS
    <2>2. IsFiniteSet(One) /\ Cardinality(One) \in Nat
        BY <2>1, FS_Subset, FS_CardinalityType
    <2>3. IsFiniteSet(Of(s \ {r}))
        BY <1>1, <2>1
    <2> HIDE DEF One, Of
    <2>4. Cardinality(Of(s)) = Cardinality(One) + Cardinality(Of(s \ {r}))
        BY <2>1, <2>2, <2>3, Disjoint
    <2>5. QED
        BY <2>1, <2>4 DEF One
<1>3. w[{}] = 0
    <2>1. Of({}) = {}
        OBVIOUS
    <2>2. QED
        BY <2>1, FS_EmptySet
<1>4. Adds(w, f, R)
    BY <1>2, <1>3 DEF Adds
<1>5. IsFiniteSet(R)
    <2> DEFINE g == [x \in D |-> c[x]]
    <2>1. g \in Surjection(D, R)
        BY DEF Surjection
    <2>2. QED
        BY <2>1, FS_Surjection
<1>6. Of(R) = D
    OBVIOUS
<1> HIDE DEF w
<1>7. SumFunctionOnSet(f, R) = w[R]
    BY <1>4, <1>5, SumOnly
<1>8. QED
    BY <1>6, <1>7 DEF w


-----------------------------------------------------------------------------
(* The fleet map *)

Status == {"CRITICAL", "OFFLINE", "WARNING", "SUPPRESSED", "OK", "UNKNOWN"}

\* The rank of each status.
LEMMA Ranks ==
    /\ F!Rank("CRITICAL") = 1 /\ F!Rank("OFFLINE") = 2 /\ F!Rank("WARNING") = 3
    /\ F!Rank("SUPPRESSED") = 4 /\ F!Rank("OK") = 5 /\ F!Rank("UNKNOWN") = 6
<1> DEFINE S == F!Statuses
<1>1. /\ DOMAIN S = 1..6 /\ S[1] = "CRITICAL" /\ S[2] = "OFFLINE" /\ S[3] = "WARNING"
      /\ S[4] = "SUPPRESSED" /\ S[5] = "OK" /\ S[6] = "UNKNOWN"
    BY DEF F!Statuses
<1> HIDE DEF S
<1>2. \A i \in DOMAIN S : i \in {1, 2, 3, 4, 5, 6}
    BY <1>1
<1>3. \A s : F!Rank(s) = CHOOSE i \in DOMAIN S : S[i] = s
    BY DEF F!Rank, S
<1>4. QED
    BY <1>1, <1>2, <1>3

\* What one more silenced key makes of a verdict.
LEMMA VerdictQuieter ==
    ASSUME NEW findings, NEW few, NEW many, few \subseteq many
    PROVE  /\ F!VerdictOf(findings, few) \in {"CRITICAL", "WARNING", "SUPPRESSED", "OK"}
           /\ F!Rank(F!VerdictOf(findings, many)) >= F!Rank(F!VerdictOf(findings, few))
           /\ F!VerdictOf(findings, many) = "OK" => F!VerdictOf(findings, few) = "OK"
<1> DEFINE loud  == {f \in findings : f.key \notin few}
           quiet == {f \in findings : f.key \notin many}
<1>1. quiet \subseteq loud /\ loud \subseteq findings
    OBVIOUS
<1>2. /\ F!VerdictOf(findings, few) =
           IF loud = {} THEN IF findings = {} THEN "OK" ELSE "SUPPRESSED"
           ELSE IF \E f \in loud : f.sev = 1 THEN "CRITICAL" ELSE "WARNING"
      /\ F!VerdictOf(findings, many) =
           IF quiet = {} THEN IF findings = {} THEN "OK" ELSE "SUPPRESSED"
           ELSE IF \E f \in quiet : f.sev = 1 THEN "CRITICAL" ELSE "WARNING"
    BY DEF F!VerdictOf
<1> HIDE DEF loud, quiet
<1>3. QED
    BY <1>1, <1>2, Ranks

\* With an unknown boot time every suppression that is on with a known one is on.
LEMMA UnknownBootStaysOn ==
    ASSUME NEW s, NEW boot, NEW now, F!StillOn(s, boot, now)
    PROVE  F!StillOn(s, None, now)
BY DEF F!StillOn

\* More is silenced when nothing is known of the boot, or when there are more
\* suppressions.
LEMMA SilencedGrows ==
    ASSUME NEW supps, NEW more, supps \subseteq more, NEW host, NEW env, NEW boot, NEW now
    PROVE  /\ F!Silenced(supps, host, env, boot, now) \subseteq F!Silenced(supps, host, env, None, now)
           /\ F!Silenced(supps, host, env, boot, now) \subseteq F!Silenced(more, host, env, boot, now)
<1>1. \A s : F!SuppActive(s, host, env, s.key, boot, now)
               => F!SuppActive(s, host, env, s.key, None, now)
    BY UnknownBootStaysOn DEF F!SuppActive
<1>2. QED
    BY <1>1 DEF F!Silenced

\* None is no value that the Controller or the map uses.
Unsaid == None \notin Status \cup BOOLEAN

\* A host of which more is silenced.
LEMMA HealthQuieter ==
    ASSUME Unsaid, NEW hh, NEW few, NEW many, few \subseteq many
    PROVE  LET loud  == F!HealthVerdict(hh, few)
               quiet == F!HealthVerdict(hh, many)
           IN  /\ loud \in Status \cup {None} /\ quiet \in Status \cup {None}
               /\ loud = None <=> quiet = None
               /\ loud = "OFFLINE" <=> hh.online = FALSE
               /\ quiet = "OFFLINE" <=> hh.online = FALSE
               /\ loud # None => F!Rank(quiet) >= F!Rank(loud)
               /\ quiet = "OK" => loud = "OK"
<1> DEFINE findings == F!Findings(hh)
           v == F!VerdictOf(findings, few)
           w == F!VerdictOf(findings, many)
<1>1. /\ v \in {"CRITICAL", "WARNING", "SUPPRESSED", "OK"}
      /\ w \in {"CRITICAL", "WARNING", "SUPPRESSED", "OK"}
      /\ F!Rank(w) >= F!Rank(v) /\ (w = "OK" => v = "OK")
    BY VerdictQuieter
<1>2. /\ F!HealthVerdict(hh, few) =
           IF hh.online = FALSE THEN "OFFLINE"
           ELSE IF hh.online = None /\ hh.verdict = None THEN None ELSE v
      /\ F!HealthVerdict(hh, many) =
           IF hh.online = FALSE THEN "OFFLINE"
           ELSE IF hh.online = None /\ hh.verdict = None THEN None ELSE w
    BY DEF F!HealthVerdict, Unsaid
<1> HIDE DEF v, w
<1>3. QED
    BY <1>1, <1>2, Ranks DEF Unsaid, Status

\* What is drawn of a host of which more is silenced.
LEMMA StatusQuieter ==
    ASSUME Unsaid, NEW loud, NEW quiet, loud.online = quiet.online,
           loud.verdict \in Status \cup {None}, quiet.verdict \in Status \cup {None},
           loud.verdict = None <=> quiet.verdict = None,
           loud.verdict = "OFFLINE" <=> quiet.verdict = "OFFLINE",
           loud.verdict # None => F!Rank(quiet.verdict) >= F!Rank(loud.verdict),
           quiet.verdict = "OK" => loud.verdict = "OK"
    PROVE  /\ F!StatusOf(loud) \in Status /\ F!StatusOf(quiet) \in Status
           /\ F!Rank(F!StatusOf(quiet)) >= F!Rank(F!StatusOf(loud))
           /\ F!StatusOf(loud) = "OFFLINE" <=> F!StatusOf(quiet) = "OFFLINE"
           /\ F!StatusOf(quiet) = "OK" => F!StatusOf(loud) = "OK"
<1>1. \A n : F!StatusOf(n) = IF n.online = FALSE THEN "OFFLINE"
                             ELSE IF n.online = None /\ n.verdict = None THEN "UNKNOWN"
                             ELSE IF n.verdict = None THEN "OK" ELSE n.verdict
    BY DEF F!StatusOf, Unsaid
<1>2. QED
    BY <1>1, Ranks DEF Unsaid, Status

\* What is known of a host, and what is silenced of it.
HeartbeatOf(h, answers) == F!Lookup(answers.health, h.id, F!NoHeartbeat)

SweepOf(h, answers) == F!Lookup(answers.posture, h.id, F!NoSweep)

QuietOf(h, answers, now) ==
    F!Silenced(answers.supps, h.label, h.env, SweepOf(h, answers).boot, now)

LEMMA NodeIs ==
    ASSUME NEW h, NEW answers, NEW now
    PROVE  LET n  == F!Node(h, answers, now)
               hh == HeartbeatOf(h, answers)
               pr == SweepOf(h, answers)
               q  == QuietOf(h, answers, now)
           IN  /\ n.label = h.label
               /\ n.online = IF h.id \in DOMAIN answers.health THEN hh.online ELSE h.online
               /\ n.verdict = F!HealthVerdict(hh, q)
               /\ n.hasCrit <=> \/ hh.disk >= 90 /\ "disk_critical" \notin q
                                \/ (pr.flags \cap F!CritFlags) \ q # {}
BY DEF F!Node, HeartbeatOf, SweepOf, QuietOf

\* One host, of which the second answers know the same but for the sweep, or silence
\* more.
LEMMA NodeQuieter ==
    ASSUME Unsaid, NEW h, NEW answers, NEW others, NEW now,
           HeartbeatOf(h, others) = HeartbeatOf(h, answers),
           h.id \in DOMAIN answers.health <=> h.id \in DOMAIN others.health,
           QuietOf(h, answers, now) \subseteq QuietOf(h, others, now)
    PROVE  LET loud  == F!Node(h, answers, now)
               quiet == F!Node(h, others, now)
           IN  /\ F!StatusOf(loud) \in Status /\ F!StatusOf(quiet) \in Status
               /\ F!Rank(F!StatusOf(quiet)) >= F!Rank(F!StatusOf(loud))
               /\ F!StatusOf(loud) = "OFFLINE" <=> F!StatusOf(quiet) = "OFFLINE"
               /\ F!StatusOf(quiet) = "OK" => F!StatusOf(loud) = "OK"
<1> DEFINE loud  == F!Node(h, answers, now)
           quiet == F!Node(h, others, now)
           hh    == HeartbeatOf(h, answers)
           few   == QuietOf(h, answers, now)
           many  == QuietOf(h, others, now)
<1>1. /\ loud.online = IF h.id \in DOMAIN answers.health THEN hh.online ELSE h.online
      /\ quiet.online = IF h.id \in DOMAIN answers.health THEN hh.online ELSE h.online
      /\ loud.verdict = F!HealthVerdict(hh, few)
      /\ quiet.verdict = F!HealthVerdict(hh, many)
    BY NodeIs
<1> HIDE DEF loud, quiet, hh, few, many
<1>2. few \subseteq many
    BY DEF few, many
<1>3. /\ loud.online = quiet.online
      /\ loud.verdict \in Status \cup {None} /\ quiet.verdict \in Status \cup {None}
      /\ loud.verdict = None <=> quiet.verdict = None
      /\ loud.verdict = "OFFLINE" <=> quiet.verdict = "OFFLINE"
      /\ loud.verdict # None => F!Rank(quiet.verdict) >= F!Rank(loud.verdict)
      /\ quiet.verdict = "OK" => loud.verdict = "OK"
    BY <1>1, <1>2, HealthQuieter, ZenonT(30)
<1>4. /\ F!StatusOf(loud) \in Status /\ F!StatusOf(quiet) \in Status
      /\ F!Rank(F!StatusOf(quiet)) >= F!Rank(F!StatusOf(loud))
      /\ F!StatusOf(loud) = "OFFLINE" <=> F!StatusOf(quiet) = "OFFLINE"
      /\ F!StatusOf(quiet) = "OK" => F!StatusOf(loud) = "OK"
    BY <1>3, StatusQuieter
<1>5. QED
    BY <1>4 DEF loud, quiet

\* What the Controller answers, as far as the map's promises depend on it.
Answers(answers) ==
    /\ {"hosts", "health", "posture", "agents", "supps"} \subseteq DOMAIN answers
    /\ \E n \in Nat : DOMAIN answers.hosts = 1..n

\* Before the sweep has come in no host is shown worse than after it (fleet.py).
LEMMA SweepReveals ==
    ASSUME Unsaid, NEW answers, Answers(answers), NEW now
    PROVE  F!SweepOnlyReveals(answers, now)
<1> DEFINE early == [answers EXCEPT !.posture = <<>>]
<1>1. /\ early.hosts = answers.hosts /\ early.health = answers.health
      /\ early.supps = answers.supps /\ early.posture = <<>>
    BY DEF Answers
<1> HIDE DEF early
<1>2. ASSUME NEW h
      PROVE  LET full == F!Node(h, answers, now)
                 fast == F!Node(h, early, now)
             IN  /\ F!Rank(F!StatusOf(fast)) >= F!Rank(F!StatusOf(full))
                 /\ fast.hasCrit => full.hasCrit
    <2>1. HeartbeatOf(h, early) = HeartbeatOf(h, answers)
        BY <1>1 DEF HeartbeatOf
    <2>2. SweepOf(h, early).boot = None /\ SweepOf(h, early).flags = {}
        BY <1>1 DEF SweepOf, F!Lookup, F!NoSweep
    <2>3. QuietOf(h, answers, now) \subseteq QuietOf(h, early, now)
        BY <1>1, <2>2, SilencedGrows DEF QuietOf
    <2>4. F!Rank(F!StatusOf(F!Node(h, early, now))) >= F!Rank(F!StatusOf(F!Node(h, answers, now)))
        BY <1>1, <2>1, <2>3, NodeQuieter
    <2>5. F!Node(h, early, now).hasCrit => F!Node(h, answers, now).hasCrit
        BY <2>1, <2>2, <2>3, NodeIs
    <2>6. QED
        BY <2>4, <2>5
<1>3. QED
    BY <1>1, <1>2 DEF F!SweepOnlyReveals, F!Build, early

\* One suppression more shows no host worse, and hides none that is offline.
LEMMA SilenceHides ==
    ASSUME Unsaid, NEW answers, Answers(answers), NEW s, NEW now
    PROVE  F!SilenceOnlyHides(answers, s, now)
<1> DEFINE more == [answers EXCEPT !.supps = @ \cup {s}]
<1>1. /\ more.hosts = answers.hosts /\ more.health = answers.health
      /\ more.supps = answers.supps \cup {s} /\ more.posture = answers.posture
    BY DEF Answers
<1> HIDE DEF more
<1>2. ASSUME NEW h
      PROVE  LET loud  == F!Node(h, answers, now)
                 quiet == F!Node(h, more, now)
             IN  /\ F!Rank(F!StatusOf(quiet)) >= F!Rank(F!StatusOf(loud))
                 /\ F!StatusOf(loud) = "OFFLINE" <=> F!StatusOf(quiet) = "OFFLINE"
                 /\ F!StatusOf(quiet) = "OK" => F!StatusOf(loud) = "OK"
    <2>1. HeartbeatOf(h, more) = HeartbeatOf(h, answers) /\ SweepOf(h, more) = SweepOf(h, answers)
        BY <1>1 DEF HeartbeatOf, SweepOf
    <2>2. QuietOf(h, answers, now) \subseteq QuietOf(h, more, now)
        BY <1>1, <2>1, SilencedGrows DEF QuietOf
    <2>3. QED
        BY <1>1, <2>1, <2>2, NodeQuieter
<1>3. QED
    BY <1>1, <1>2 DEF F!SilenceOnlyHides, F!Build, more

\* What can be said of every node of the map.
LEMMA NodesAre ==
    ASSUME Unsaid, NEW answers, NEW now, NEW i \in DOMAIN answers.hosts
    PROVE  LET nodes == F!Build(answers, now)
           IN  /\ DOMAIN nodes = DOMAIN answers.hosts
               /\ F!StatusOf(nodes[i]) \in Status
               /\ F!StatusOf(nodes[i]) = "OFFLINE" <=> nodes[i].online = FALSE
<1> DEFINE h  == answers.hosts[i]
           n  == F!Node(h, answers, now)
           hh == HeartbeatOf(h, answers)
           q  == QuietOf(h, answers, now)
<1>1. DOMAIN F!Build(answers, now) = DOMAIN answers.hosts /\ F!Build(answers, now)[i] = n
    BY DEF F!Build
<1>2. /\ n.online = IF h.id \in DOMAIN answers.health THEN hh.online ELSE h.online
      /\ n.verdict = F!HealthVerdict(hh, q)
    BY NodeIs
<1>3. h.id \notin DOMAIN answers.health => hh.online = None /\ hh.verdict = None
    BY DEF HeartbeatOf, F!Lookup, F!NoHeartbeat
<1> HIDE DEF h, n, hh, q
<1>4. /\ F!HealthVerdict(hh, q) \in Status \cup {None}
      /\ F!HealthVerdict(hh, q) = "OFFLINE" <=> hh.online = FALSE
    BY HealthQuieter
<1>5. hh.online = None /\ hh.verdict = None => F!HealthVerdict(hh, q) = None
    BY DEF F!HealthVerdict, Unsaid
<1>6. F!StatusOf(n) = IF n.online = FALSE THEN "OFFLINE"
                      ELSE IF n.online = None /\ n.verdict = None THEN "UNKNOWN"
                      ELSE IF n.verdict = None THEN "OK" ELSE n.verdict
    BY DEF F!StatusOf, Unsaid
<1>7. F!StatusOf(n) \in Status /\ (F!StatusOf(n) = "OFFLINE" <=> n.online = FALSE)
    BY <1>2, <1>3, <1>4, <1>5, <1>6 DEF Unsaid, Status
<1>8. QED
    BY <1>1, <1>7

\* Statuses by their rank.
LEMMA ByRank ==
    /\ \A s \in Status : F!Rank(s) \in 1..6
    /\ \A k \in 1..6 : F!Rank(F!Statuses[k]) = k
<1>1. /\ F!Statuses[1] = "CRITICAL" /\ F!Statuses[2] = "OFFLINE" /\ F!Statuses[3] = "WARNING"
      /\ F!Statuses[4] = "SUPPRESSED" /\ F!Statuses[5] = "OK" /\ F!Statuses[6] = "UNKNOWN"
    BY DEF F!Statuses
<1>2. \A k \in 1..6 : k \in {1, 2, 3, 4, 5, 6}
    OBVIOUS
<1>3. QED
    BY <1>1, <1>2, Ranks DEF Status

\* The worst of some nodes is no better than any of them.
LEMMA WorstIsWorst ==
    ASSUME NEW S, \A n \in S : F!StatusOf(n) \in Status, NEW n \in S
    PROVE  F!Rank(F!Worst(S)) <= F!Rank(F!StatusOf(n))
<1> DEFINE R == {F!Rank(F!StatusOf(m)) : m \in S} \cup {6}
<1>1. R \in SUBSET (1..6) /\ F!Rank(F!StatusOf(n)) \in R /\ R # {}
    BY ByRank
<1>2. F!Worst(S) = F!Statuses[F!Min(R)]
    BY DEF F!Worst
<1> HIDE DEF R
<1>3. \E r \in R : \A x \in R : r <= x
    BY <1>1, LeastOf
<1>4. F!Min(R) \in R /\ \A x \in R : F!Min(R) <= x
    BY <1>3 DEF F!Min
<1>5. F!Rank(F!Worst(S)) = F!Min(R)
    BY <1>1, <1>2, <1>4, ByRank
<1>6. QED
    BY <1>1, <1>4, <1>5

\* A guest whose machine is drawn is drawn with it.
LEMMA GuestsFollow ==
    ASSUME NEW nodes, NEW lens, NEW top \in Nat, DOMAIN nodes = 1..top,
           NEW i \in DOMAIN nodes, ~nodes[i].ctl
    PROVE  \/ i \in F!Drawn(nodes, lens, {})
           \/ \E j \in DOMAIN nodes \ {i} :
                /\ nodes[i].label \in nodes[j].guests
                /\ nodes[j].ctl \/ nodes[j].label \in DOMAIN F!Parents(nodes)
<1>1. CASE nodes[i].label \notin DOMAIN F!Parents(nodes)
    BY <1>1 DEF F!Drawn, F!Placed, F!Grouped
<1>2. CASE nodes[i].label \in DOMAIN F!Parents(nodes)
    <2> DEFINE g == nodes[i].label
               hosting == {k \in DOMAIN nodes : /\ nodes[k].hyp # None
                                                /\ g \in nodes[k].guests
                                                /\ g # nodes[k].label}
               j == F!Max(hosting)
    <2>1. hosting # {} /\ F!Parents(nodes)[g] = nodes[j].label
        BY <1>2 DEF F!Parents
    <2>2. hosting \in SUBSET (1..top)
        OBVIOUS
    <2>3. j \in hosting
        <3> HIDE DEF hosting
        <3>1. \E x \in hosting : \A y \in hosting : x >= y
            BY <2>1, <2>2, GreatestOf
        <3>2. QED
            BY <3>1 DEF F!Max
    <2>4. j \in DOMAIN nodes /\ g \in nodes[j].guests /\ g # nodes[j].label
        BY <2>3
    <2> HIDE DEF hosting, j
    <2>5. CASE nodes[j].ctl \/ nodes[j].label \in DOMAIN F!Parents(nodes)
        BY <2>4, <2>5
    <2>6. CASE ~nodes[j].ctl /\ nodes[j].label \notin DOMAIN F!Parents(nodes)
        <3>1. j \in F!Placed(nodes, lens, {})
            BY <2>4, <2>6 DEF F!Placed, F!Grouped
        <3>2. i \in F!Drawn(nodes, lens, {})
            BY <1>2, <2>1, <3>1 DEF F!Drawn
        <3>3. QED
            BY <3>2
    <2>7. QED
        BY <2>5, <2>6
<1>3. QED
    BY <1>1, <1>2

\* What the page counts as offline, in one set.
LEMMA OfflineCount ==
    ASSUME NEW nodes,
           \A i \in DOMAIN nodes : F!StatusOf(nodes[i]) = "OFFLINE" <=> nodes[i].online = FALSE
    PROVE  F!Counts(nodes).offline =
             F!Cardinality({i \in DOMAIN nodes : ~nodes[i].ctl /\ F!StatusOf(nodes[i]) = "OFFLINE"})
<1>1. F!Counts(nodes).offline =
        F!Cardinality({i \in {j \in DOMAIN nodes : ~nodes[j].ctl} : nodes[i].online = FALSE})
    BY DEF F!Counts
<1>2. {i \in {j \in DOMAIN nodes : ~nodes[j].ctl} : nodes[i].online = FALSE} =
        {i \in DOMAIN nodes : ~nodes[i].ctl /\ F!StatusOf(nodes[i]) = "OFFLINE"}
    OBVIOUS
<1>3. QED
    BY <1>1, <1>2, Zenon

\* No offline host goes uncounted, no bad one without its colour and none undrawn.
LEMMA NobodyLost ==
    ASSUME Unsaid, NEW answers, Answers(answers), NEW now, NEW lens
    PROVE  F!NobodyIsLost(F!Build(answers, now), lens)
<1> DEFINE nodes == F!Build(answers, now)
<1>1. PICK top \in Nat : DOMAIN answers.hosts = 1..top
    BY DEF Answers
<1>2. DOMAIN nodes = 1..top
    BY <1>1 DEF F!Build
<1>3. \A i \in DOMAIN nodes : /\ F!StatusOf(nodes[i]) \in Status
                              /\ F!StatusOf(nodes[i]) = "OFFLINE" <=> nodes[i].online = FALSE
    BY <1>1, <1>2, NodesAre
<1> HIDE DEF nodes
<1>4. F!Counts(nodes).offline =
        F!Cardinality({i \in DOMAIN nodes : ~nodes[i].ctl /\ F!StatusOf(nodes[i]) = "OFFLINE"})
    BY <1>3, OfflineCount
<1>5. ASSUME NEW i \in F!Grouped(nodes)
      PROVE  F!Rank(F!Hubs(nodes, lens)[F!GroupKey(lens, nodes[i])]) <= F!Rank(F!StatusOf(nodes[i]))
    <2> DEFINE k == F!GroupKey(lens, nodes[i])
               S == {nodes[j] : j \in {x \in F!Grouped(nodes) : F!GroupKey(lens, nodes[x]) = k}}
    <2>1. F!Hubs(nodes, lens)[k] = F!Worst(S)
        BY DEF F!Hubs
    <2>2. nodes[i] \in S /\ \A n \in S : F!StatusOf(n) \in Status
        BY <1>3 DEF F!Grouped
    <2> HIDE DEF S, k
    <2>3. QED
        BY <2>1, <2>2, WorstIsWorst DEF k
<1>6. ASSUME NEW i \in DOMAIN nodes, ~nodes[i].ctl
      PROVE  \/ i \in F!Drawn(nodes, lens, {})
             \/ \E j \in DOMAIN nodes \ {i} :
                  /\ nodes[i].label \in nodes[j].guests
                  /\ nodes[j].ctl \/ nodes[j].label \in DOMAIN F!Parents(nodes)
    BY <1>2, <1>6, GuestsFollow
<1>7. F!NobodyIsLost(nodes, lens)
    BY <1>4, <1>5, <1>6, Zenon DEF F!NobodyIsLost
<1>8. QED
    BY <1>7 DEF nodes

\* Whatever the Controller answers about however many hosts, of any heartbeats, sweeps,
\* agents and suppressions: the map never shows a host worse than it is for want of
\* the sweep or because something was silenced, hides none that is offline, colours
\* a hub by its worst host and draws every host or says whose guest it is
\* (visualizer/backend/fleet.py; topoGroups and topoLayout in ui.py).
THEOREM MapIsFairToAll ==
    ASSUME Unsaid, asked.of = "map" => Answers(asked.answers)
    PROVE  MapIsFair
BY SweepReveals, SilenceHides, NobodyLost DEF MapIsFair

-----------------------------------------------------------------------------
(* What the console promises *)

\* What is known of the store's hosts, and what the Controller may answer.
Heard(held, ctl) ==
    /\ None \notin BOOLEAN
    /\ \A id \in DOMAIN held : held[id].versions \in Nat /\ held[id].points \in Nat
    /\ ctl.wired \in BOOLEAN /\ ctl.backup \in BOOLEAN
    /\ \A id \in DOMAIN ctl.hosts : ctl.hosts[id].polled \in BOOLEAN

\* "invalid" is said of no id that a host can have.
Answered(held, ctl, ids) ==
    \A id \in C!Everyone(held, ctl, ids) \ Invalid : ctl.posts[id] # "invalid"

\* The hosts that the Controller is said to have.
LEMMA FleetIs ==
    ASSUME NEW ctl
    PROVE  LET fleet == C!ListHosts(ctl)
           IN  /\ ctl.wired /\ ctl.result = "ok" =>
                    /\ DOMAIN fleet.hosts \subseteq DOMAIN ctl.hosts
                    /\ \A id \in DOMAIN fleet.hosts : fleet.hosts[id] = ctl.hosts[id]
                    /\ fleet.configured = ctl.backup
               /\ ctl.wired /\ ctl.result # "ok" =>
                    fleet.hosts = <<>> /\ fleet.configured = FALSE
               /\ ~ctl.wired => fleet.hosts = <<>> /\ fleet.configured = None
BY DEF C!ListHosts

\* Nobody is in an empty fleet.
LEMMA NoFleet == DOMAIN (<<>>) = {}
OBVIOUS

\* A row of the list.
LEMMA RowIs ==
    ASSUME NEW held, NEW ctl, NEW id \in DOMAIN C!HostRows(held, ctl)
    PROVE  LET row == C!HostRows(held, ctl)[id]
           IN  /\ row.backedUp = C!BackedUp(held, id)
               /\ row.capable = C!Capable(held, ctl, id)
               /\ row.points = IF id \in DOMAIN held THEN held[id].points ELSE 0
BY DEF C!HostRows

\* Those of some hosts whom the Controller accepts a request for.
Accepted(ctl, chosen) == {id \in chosen : C!RequestCapture(ctl, id) = "ok"}

\* What is told of one request, whomever it came to.
LEMMA AnswerTells ==
    ASSUME NEW held, NEW ctl, Heard(held, ctl), NEW ids, Answered(held, ctl, ids),
           NEW writer \in BOOLEAN, NEW chosen \in C!Chosen(held, ctl, ids),
           NEW reply, reply = C!Answer(ctl, chosen, writer)
    PROVE  /\ reply.status = 200 <=> reply.requested # {}
           /\ reply.status = 400 => reply.failed # {} /\ reply.failed \subseteq Invalid
           /\ reply.requested # {} => writer /\ ctl.wired
           /\ \A id \in reply.requested : id \notin Invalid /\ ctl.posts[id] = "ok"
           /\ \A id \in reply.failed :
                ctl.wired /\ id \notin Invalid => ctl.posts[id] # "ok"
           /\ writer => C!FullPart(reply.requested \cup reply.failed, C!Everyone(held, ctl, ids))
<1> DEFINE asks == Accepted(ctl, chosen)
           invalid == \A id \in chosen : C!RequestCapture(ctl, id) = "invalid"
           status == CASE ~writer -> 403
                       [] writer /\ chosen = {} -> 409
                       [] writer /\ chosen # {} /\ asks = {} -> IF invalid THEN 400 ELSE 502
                       [] OTHER -> 200
<1>1. chosen \subseteq C!Everyone(held, ctl, ids) /\ C!FullPart(chosen, C!Everyone(held, ctl, ids))
    BY DEF C!Chosen, C!FullPart
<1>2. /\ reply.requested = IF writer THEN asks ELSE {}
      /\ reply.failed = IF writer THEN chosen \ asks ELSE {}
      /\ reply.status = 200 <=> writer /\ asks # {}
      /\ reply.status = 400 => /\ writer /\ chosen # {} /\ asks = {}
                               /\ \A id \in chosen : C!RequestCapture(ctl, id) = "invalid"
    <2>1. /\ reply.requested = (IF writer THEN asks ELSE {})
          /\ reply.failed = (IF writer THEN chosen \ asks ELSE {})
          /\ reply.status = status
        BY DEF C!Answer, Accepted
    <2>2. chosen = {} => asks = {}
        BY DEF Accepted
    <2> HIDE DEF asks, invalid
    <2>3. CASE ~writer
        BY <2>1, <2>3
    <2>4. CASE writer /\ chosen = {}
        BY <2>1, <2>2, <2>4
    <2>5. CASE writer /\ chosen # {} /\ asks = {}
        <3>1. reply.status = IF invalid THEN 400 ELSE 502
            BY <2>1, <2>5
        <3> HIDE DEF status
        <3>2. QED
            BY <2>1, <2>5, <3>1 DEF invalid
    <2>6. CASE writer /\ chosen # {} /\ asks # {}
        BY <2>1, <2>6
    <2>7. QED
        BY <2>3, <2>4, <2>5, <2>6
<1>3. \A id : C!RequestCapture(ctl, id) = "ok" =>
                ctl.wired /\ id \notin Invalid /\ ctl.posts[id] = "ok"
    BY DEF C!RequestCapture, Heard
<1>4. \A id : ctl.wired /\ id \notin Invalid => C!RequestCapture(ctl, id) = ctl.posts[id]
    BY DEF C!RequestCapture
<1>5. \A id \in chosen : C!RequestCapture(ctl, id) = "invalid" => id \in Invalid
    BY <1>1 DEF C!RequestCapture, Answered, Heard
<1>6. asks \subseteq chosen /\ \A id \in chosen : id \in asks <=> C!RequestCapture(ctl, id) = "ok"
    BY DEF Accepted
<1> HIDE DEF asks
<1>7. reply.status = 200 <=> reply.requested # {}
    BY <1>2
<1>8. reply.status = 400 => reply.failed # {} /\ reply.failed \subseteq Invalid
    BY <1>2, <1>5
<1>9. \A id \in reply.requested :
        writer /\ ctl.wired /\ id \notin Invalid /\ ctl.posts[id] = "ok"
    BY <1>2, <1>3, <1>6
<1>10. \A id \in reply.failed : ctl.wired /\ id \notin Invalid => ctl.posts[id] # "ok"
    BY <1>2, <1>4, <1>6
<1>11. writer => reply.requested \cup reply.failed = chosen
    BY <1>2, <1>6
<1>12. QED
    BY <1>1, <1>7, <1>8, <1>9, <1>10, <1>11

\* Success means that some host was asked, and who was and who could not be is told
\* host by host, of all or of as many as one request takes; a host with a history is
\* not called incapable, nor any while the Controller is at fault, and then nothing is
\* offered: of any hosts, of any answer of the Controller and of any end of each
\* host's own request (api_backup_now and api_hosts in flashback/backend/app.py).
THEOREM ConsolePromisesLittle ==
    ASSUME NEW held, NEW ctl, Heard(held, ctl), NEW ids, Answered(held, ctl, ids),
           NEW writer \in BOOLEAN
    PROVE  C!PromisesNothing(held, ctl, ids, writer)
<1> DEFINE rows == C!HostRows(held, ctl)
<1>1. \A reply \in C!BackupNow(held, ctl, ids, writer) :
        /\ reply.status = 200 <=> reply.requested # {}
        /\ reply.status = 400 => reply.failed # {} /\ reply.failed \subseteq Invalid
        /\ reply.requested # {} => writer /\ ctl.wired
        /\ \A id \in reply.requested : id \notin Invalid /\ ctl.posts[id] = "ok"
        /\ \A id \in reply.failed : ctl.wired /\ id \notin Invalid => ctl.posts[id] # "ok"
        /\ writer => C!FullPart(reply.requested \cup reply.failed, C!Everyone(held, ctl, ids))
    <2> TAKE reply \in C!BackupNow(held, ctl, ids, writer)
    <2>1. PICK chosen \in C!Chosen(held, ctl, ids) : reply = C!Answer(ctl, chosen, writer)
        BY DEF C!BackupNow
    <2>2. QED
        BY <2>1, AnswerTells
<1>2. ASSUME NEW id \in DOMAIN rows
      PROVE  /\ rows[id].backedUp => rows[id].capable = TRUE
             /\ ~rows[id].backedUp /\ ctl.wired /\ ctl.result # "ok" => rows[id].capable = None
    <2>1. /\ rows[id].backedUp = C!BackedUp(held, id)
          /\ rows[id].capable = C!Capable(held, ctl, id)
        BY RowIs
    <2> HIDE DEF rows
    <2>2. C!BackedUp(held, id) => C!Capable(held, ctl, id) = TRUE
        BY DEF C!Capable
    <2>3. ~C!BackedUp(held, id) /\ ctl.wired /\ ctl.result # "ok" =>
            C!Capable(held, ctl, id) = None
        BY FleetIs DEF C!Capable, C!Blocked
    <2>4. QED
        BY <2>1, <2>2, <2>3
<1>3. ctl.wired /\ ctl.result # "ok" => ~C!CanRequest(ctl)
    BY FleetIs DEF C!CanRequest, C!Blocked
<1> HIDE DEF rows
<1>4. QED
    BY <1>1, <1>2, <1>3 DEF C!PromisesNothing, rows

\* What a page holds beside the hosts.
Chosen(page) == {"writer", "filter", "folded", "picked"} \subseteq DOMAIN page

\* A count is of nothing or of something.
LEMMA NothingOrSome == \A n \in Nat : n = 0 \/ n > 0
OBVIOUS

\* Which rows are told to wait for their next check-in.
LEMMA WaitsFor ==
    \A row : row.backedUp \in BOOLEAN /\ row.points \in Nat
             /\ C!RowSays(row) = "next check-in" =>
               ~row.backedUp /\ row.capable # FALSE /\ row.capable # None
<1> TAKE row
<1>0. HAVE row.backedUp \in BOOLEAN /\ row.points \in Nat
           /\ C!RowSays(row) = "next check-in"
<1>1. ~(row.backedUp \/ row.points > 0)
    BY <1>0 DEF C!RowSays
<1>2. row.points = 0
    BY <1>0, <1>1, NothingOrSome, Zenon
<1>3. row.capable # FALSE
    BY <1>0, <1>1, <1>2, Zenon DEF C!RowSays
<1>4. row.capable # None
    BY <1>0, <1>1, <1>2, <1>3, Zenon DEF C!RowSays
<1>5. QED
    BY <1>1, <1>3, <1>4

\* The column says only what can be held to: a row that waits for its next check-in has
\* a button that can be pressed; and an environment's box picks what it shows, of which
\* a request may come to all or to as many as one takes, never to the fleet: of any
\* hosts, any answer of the Controller and any filter, folding and selection
\* (flashback/backend/ui.py).
THEOREM ColumnKeepsItsWord ==
    ASSUME NEW held, NEW ctl, Heard(held, ctl), NEW page, Chosen(page)
    PROVE  C!PageKeepsItsWord(held, ctl, page)
<1> DEFINE rows == C!HostRows(held, ctl)
           kept == [page EXCEPT !.picked = C!Reselected(rows, page.picked)]
<1>1. kept.writer = page.writer /\ kept.filter = page.filter /\ kept.folded = page.folded
      /\ kept.picked = page.picked \cap DOMAIN rows
    BY DEF C!Reselected, Chosen
<1>2. C!Matching(rows, kept.filter) \subseteq DOMAIN rows
    BY DEF C!Matching
<1>3. ASSUME NEW id \in DOMAIN rows
      PROVE  /\ C!RowSays(rows[id]) = "next check-in" =>
                  /\ id \in DOMAIN C!ListHosts(ctl).hosts
                  /\ page.writer /\ id \in C!Shown(rows, kept) =>
                       id \in C!NowButtons(rows, ctl, kept)
             /\ C!RowSays(rows[id]) = "update the agent" => ~C!Blocked(ctl)
    <2>1. /\ rows[id].backedUp = C!BackedUp(held, id)
          /\ rows[id].capable = C!Capable(held, ctl, id)
          /\ rows[id].points \in Nat /\ C!BackedUp(held, id) \in BOOLEAN
        BY RowIs DEF Heard, C!BackedUp
    <2>2. CASE C!RowSays(rows[id]) = "next check-in"
        <3>1. ~rows[id].backedUp /\ rows[id].capable # FALSE /\ rows[id].capable # None
            <4> HIDE DEF rows
            <4>1. rows[id].backedUp \in BOOLEAN
                BY <2>1, Zenon
            <4>2. rows[id].points \in Nat
                BY <2>1, Zenon
            <4>3. QED
                BY <2>2, <4>1, <4>2, WaitsFor, Zenon
        <3>2. /\ ~C!BackedUp(held, id) /\ ~C!Blocked(ctl)
              /\ id \in DOMAIN C!ListHosts(ctl).hosts
            BY <2>1, <3>1 DEF C!Capable
        <3>3. C!CanRequest(ctl)
            BY <3>2, FleetIs, NoFleet DEF C!CanRequest, Heard
        <3> HIDE DEF rows, kept
        <3>4. page.writer /\ id \in C!Shown(rows, kept) => id \in C!NowButtons(rows, ctl, kept)
            BY <1>1, <3>1, <3>3 DEF C!NowButtons
        <3>5. QED
            BY <2>2, <3>2, <3>4
    <2>3. CASE C!RowSays(rows[id]) = "update the agent"
        <3>1. ~rows[id].backedUp /\ rows[id].capable = FALSE
            BY <2>3 DEF C!RowSays
        <3>2. QED
            BY <2>1, <2>3, <3>1 DEF C!Capable, Heard
    <2>4. QED
        BY <2>2, <2>3
<1>4. C!Blocked(ctl) => /\ ~C!FleetButtons(ctl, kept) /\ ~C!CanPick(ctl, kept)
                        /\ C!NowButtons(rows, ctl, kept) = {}
    BY DEF C!FleetButtons, C!CanPick, C!NowButtons, C!CanRequest
<1>5. ASSUME NEW id \in DOMAIN rows \ C!Shown(rows, kept)
      PROVE  \/ kept.filter = None /\ C!EnvName(rows[id]) \in kept.folded
             \/ kept.filter # None /\ id \notin C!Matching(rows, kept.filter)
    BY DEF C!Shown, C!Matching
<1> HIDE DEF rows, kept
<1>6. ASSUME NEW env \in {C!EnvName(rows[id]) : id \in C!Matching(rows, kept.filter)}
      PROVE  LET picked == C!ClickBox(rows, kept, env)
                 after  == [kept EXCEPT !.picked = picked]
             IN  /\ C!BoxOf(rows, after, env) \in {"all", "none"}
                 /\ C!BoxOf(rows, after, env) # C!BoxOf(rows, kept, env)
                 /\ picked \ kept.picked \subseteq C!Matching(rows, kept.filter)
                 /\ picked \subseteq DOMAIN rows
                 /\ \A sent \in C!Sent(held, ctl, picked) : C!FullPart(sent, picked)
    <2> DEFINE boxed == C!EnvHosts(rows, kept, env)
               picked == C!ClickBox(rows, kept, env)
               after == [kept EXCEPT !.picked = picked]
    <2>1. boxed # {} /\ boxed \subseteq C!Matching(rows, kept.filter)
        BY DEF C!EnvHosts
    <2>2. after.picked = picked /\ after.filter = kept.filter
        BY DEF kept, Chosen
    <2>3. C!EnvHosts(rows, after, env) = boxed
        BY <2>2 DEF C!EnvHosts
    <2>4. picked = IF C!BoxOf(rows, kept, env) = "all" THEN kept.picked \ boxed
                   ELSE kept.picked \cup boxed
        BY DEF C!ClickBox
    <2> HIDE DEF boxed, picked, after
    <2>5. /\ C!BoxOf(rows, kept, env) = IF boxed \cap kept.picked = {} THEN "none"
                                        ELSE IF boxed \subseteq kept.picked THEN "all" ELSE "some"
          /\ C!BoxOf(rows, after, env) = IF boxed \cap picked = {} THEN "none"
                                         ELSE IF boxed \subseteq picked THEN "all" ELSE "some"
        BY <2>2, <2>3 DEF C!BoxOf, boxed
    <2>6. C!BoxOf(rows, after, env) \in {"all", "none"}
          /\ C!BoxOf(rows, after, env) # C!BoxOf(rows, kept, env)
        BY <2>1, <2>4, <2>5
    <2>7. picked \ kept.picked \subseteq C!Matching(rows, kept.filter) /\ picked \subseteq DOMAIN rows
        BY <1>1, <1>2, <2>1, <2>4
    <2>8. \A sent \in C!Sent(held, ctl, picked) : C!FullPart(sent, picked)
        BY DEF C!Sent, C!Chosen, C!Everyone, C!FullPart
    <2>9. QED
        BY <2>6, <2>7, <2>8 DEF picked, after
<1>7. QED
    BY <1>3, <1>4, <1>5, <1>6 DEF C!PageKeepsItsWord, rows, kept

-----------------------------------------------------------------------------
(* One file across the fleet *)

\* The console counts as sets are counted.
LEMMA Counted == \A S : C!Cardinality(S) = Cardinality(S)
BY DEF C!Cardinality, Cardinality

\* What the hosts hold of a path, and the places of their labels.
Holds(newest, held, contents) ==
    /\ IsFiniteSet(DOMAIN newest)
    /\ newest \in [DOMAIN newest -> contents]
    /\ DOMAIN newest \subseteq DOMAIN held
    /\ \A h \in DOMAIN newest : PlaceOf(C!Label(held, h)) \in Nat

\* Of the hosts that have a path, those that do not agree with one.
LEMMA AgreeOrDiffer ==
    ASSUME NEW newest, IsFiniteSet(DOMAIN newest), NEW h \in DOMAIN newest
    PROVE  /\ C!Agreeing(newest, newest[h]) \in 1..Cardinality(DOMAIN newest)
           /\ Cardinality({g \in DOMAIN newest : newest[g] # newest[h]}) =
                Cardinality(DOMAIN newest) - C!Agreeing(newest, newest[h])
<1> DEFINE agree == {g \in DOMAIN newest : newest[g] = newest[h]}
           other == {g \in DOMAIN newest : newest[g] # newest[h]}
           dom == DOMAIN newest
<1>1. C!Agreeing(newest, newest[h]) = Cardinality(agree)
    BY Counted DEF C!Agreeing
<1>2. agree \in SUBSET dom /\ other = dom \ agree /\ dom \cap agree = agree /\ h \in agree
    OBVIOUS
<1>3. IsFiniteSet(dom)
    OBVIOUS
<1> HIDE DEF agree, other, dom
<1>4. /\ Cardinality(agree) <= Cardinality(dom)
      /\ IsFiniteSet(agree)
    BY <1>2, <1>3, FS_Subset
<1>5. Cardinality(other) = Cardinality(dom) - Cardinality(agree)
    BY <1>2, <1>3, FS_Difference
<1>6. Cardinality(agree) \in Nat /\ Cardinality(dom) \in Nat
    BY <1>3, <1>4, FS_CardinalityType
<1>7. Cardinality(agree) # 0
    BY <1>2, <1>4, FS_EmptySet
<1>8. QED
    BY <1>1, <1>4, <1>5, <1>6, <1>7 DEF other, dom

\* The host that the others are compared with has the path, and no host has fewer
\* others that differ from it, unless the base was asked for.
LEMMA BaseIsAMajority ==
    ASSUME NEW newest, NEW held, NEW contents, Holds(newest, held, contents),
           NEW wanted, DOMAIN newest # {}
    PROVE  LET base == C!Base(held, newest, wanted)
           IN  /\ base \in DOMAIN newest
               /\ wanted \in DOMAIN newest => base = wanted
               /\ wanted \notin DOMAIN newest =>
                    \A h \in DOMAIN newest :
                      C!Agreeing(newest, newest[h]) <= C!Agreeing(newest, newest[base])
<1> DEFINE dom == DOMAIN newest
           votes == {C!Agreeing(newest, newest[h]) : h \in dom}
           top == C!Max(votes)
           all == {h \in dom : C!Agreeing(newest, newest[h]) = top}
           places == {PlaceOf(C!Label(held, h)) : h \in all}
<1>1. CASE wanted \in dom
    BY <1>1 DEF C!Base
<1>2. CASE wanted \notin dom
    <2>1. C!Base(held, newest, wanted) =
            CHOOSE h \in all : \A g \in all :
              PlaceOf(C!Label(held, h)) <= PlaceOf(C!Label(held, g))
        BY <1>2 DEF C!Base
    <2>2. votes \in SUBSET (1..Cardinality(dom)) /\ votes # {} /\ Cardinality(dom) \in Nat
        BY AgreeOrDiffer, FS_CardinalityType DEF Holds
    <2> HIDE DEF votes
    <2>3. \E x \in votes : \A y \in votes : x >= y
        BY <2>2, GreatestOf
    <2>4. top \in votes /\ \A v \in votes : v <= top
        BY <2>2, <2>3 DEF C!Max
    <2> HIDE DEF top
    <2>5. all # {}
        BY <2>4 DEF votes
    <2>6. places \in SUBSET Nat /\ places # {}
        BY <2>5 DEF Holds
    <2>7. PICK p \in places : \A q \in places : p <= q
        <3> HIDE DEF places
        <3>1. QED
            BY <2>6, LeastOf
    <2>8. \E h \in all : \A g \in all : PlaceOf(C!Label(held, h)) <= PlaceOf(C!Label(held, g))
        BY <2>7
    <2>9. C!Base(held, newest, wanted) \in all
        <3> HIDE DEF all
        <3>1. QED
            BY <2>1, <2>8
    <2>10. \A h \in dom : C!Agreeing(newest, newest[h]) <= top
        BY <2>4 DEF votes
    <2>11. QED
        BY <1>2, <2>9, <2>10
<1>3. QED
    BY <1>1, <1>2

\* There is one content among the hosts exactly when none differs from the base.
LEMMA OneContent ==
    ASSUME NEW newest, NEW held, NEW contents, Holds(newest, held, contents),
           NEW base \in DOMAIN newest
    PROVE  {h \in DOMAIN newest \ {base} : newest[h] # newest[base]} = {}
             <=> C!Cardinality(C!Range(newest)) = 1
<1> DEFINE dom == DOMAIN newest
           seen == {newest[h] : h \in dom}
<1>1. IsFiniteSet(seen)
    <2>1. newest \in Surjection(dom, seen)
        BY DEF Holds, Surjection
    <2>2. QED
        BY <2>1, FS_Surjection DEF Holds
<1>2. C!Range(newest) = seen
    BY DEF C!Range
<1>3. seen = {newest[base]} <=> \A h \in dom : newest[h] = newest[base]
    OBVIOUS
<1>4. newest[base] \in seen
    OBVIOUS
<1> HIDE DEF seen
<1>5. Cardinality(seen) = 1 <=> seen = {newest[base]}
    BY <1>1, <1>4, FS_Singleton
<1>6. QED
    BY <1>2, <1>3, <1>5, Counted

\* The host that a file is compared with is the one asked for, if it has the file, and
\* otherwise one from which fewest differ; and every host the console knows is in
\* exactly one place, however many hosts hold however many contents
\* (compare_path in flashback/backend/store.py; api_compare in app.py).
THEOREM EveryFileIsComparedFairly ==
    ASSUME NEW newest, NEW held, NEW contents, Holds(newest, held, contents),
           NEW ctl, NEW wanted
    PROVE  C!ComparesFairly(held, ctl, newest, wanted)
<1> SUFFICES ASSUME DOMAIN newest # {}
             PROVE  C!ComparesFairly(held, ctl, newest, wanted)
    BY DEF C!ComparesFairly
<1> DEFINE it == C!Compare(held, ctl, newest, wanted)
           dom == DOMAIN newest
           base == C!Base(held, newest, wanted)
           same == {h \in dom \ {base} : newest[h] = newest[base]}
           differ == {h \in dom \ {base} : newest[h] # newest[base]}
<1>1. /\ it.base = base /\ it.same = same /\ it.differ = differ
      /\ it.distinct = C!Cardinality(C!Range(newest))
      /\ it.missing = (DOMAIN held \cup DOMAIN C!ListHosts(ctl).hosts) \ dom
    <2> HIDE DEF base
    <2>1. QED
        BY DEF C!Compare, base
<1>2. /\ base \in dom
      /\ wanted \in dom => base = wanted
      /\ wanted \notin dom =>
           \A h \in dom : C!Agreeing(newest, newest[h]) <= C!Agreeing(newest, newest[base])
    BY BaseIsAMajority
<1>3. it.missing = (DOMAIN C!HostRows(held, ctl)) \ dom
    BY <1>1 DEF C!HostRows
<1> HIDE DEF it, base
<1>4. it.differ = {} <=> it.distinct = 1
    BY <1>1, <1>2, OneContent
<1>5. {base} \cup same \cup differ = dom
    BY <1>2
<1>6. Cardinality(same) + Cardinality(differ) + 1 = Cardinality(dom)
    <2>1. IsFiniteSet(dom) /\ same \in SUBSET dom /\ differ \in SUBSET dom
          /\ same \cap differ = {}
        BY DEF Holds
    <2>2. (same \cup differ) \cup {base} = dom /\ base \notin same \cup differ
        BY <1>2
    <2> HIDE DEF same, differ, dom
    <2>3. IsFiniteSet(same) /\ IsFiniteSet(differ)
        BY <2>1, FS_Subset
    <2>4. /\ IsFiniteSet(same \cup differ)
          /\ Cardinality(same \cup differ) =
               Cardinality(same) + Cardinality(differ) - Cardinality(same \cap differ)
        BY <2>3, FS_Union
    <2>5. Cardinality(dom) = Cardinality(same \cup differ) + 1
        BY <2>2, <2>4, FS_AddElement
    <2>6. Cardinality(same) \in Nat /\ Cardinality(differ) \in Nat
          /\ Cardinality(same \cap differ) = 0
        BY <2>1, <2>3, FS_CardinalityType, FS_EmptySet
    <2>7. QED
        BY <2>4, <2>5, <2>6
<1>7. ASSUME NEW h \in dom, wanted \notin dom
      PROVE  C!Cardinality({g \in dom : newest[g] # newest[base]}) <=
               C!Cardinality({g \in dom : newest[g] # newest[h]})
    <2>1. IsFiniteSet(dom)
        BY DEF Holds
    <2>2. /\ C!Agreeing(newest, newest[h]) \in Nat
          /\ C!Agreeing(newest, newest[base]) \in Nat
          /\ Cardinality(dom) \in Nat
        <3>1. Cardinality(dom) \in Nat
            BY <2>1, FS_CardinalityType
        <3>2. \A g \in dom : C!Agreeing(newest, newest[g]) \in 1..Cardinality(dom)
            BY <2>1, AgreeOrDiffer
        <3>3. \A g \in dom : C!Agreeing(newest, newest[g]) \in Nat
            BY <3>1, <3>2
        <3>4. QED
            BY <1>2, <1>7, <3>1, <3>3
    <2>3. /\ Cardinality({g \in dom : newest[g] # newest[h]}) =
               Cardinality(dom) - C!Agreeing(newest, newest[h])
          /\ Cardinality({g \in dom : newest[g] # newest[base]}) =
               Cardinality(dom) - C!Agreeing(newest, newest[base])
        BY <1>2, <2>1, AgreeOrDiffer
    <2>4. C!Agreeing(newest, newest[h]) <= C!Agreeing(newest, newest[base])
        BY <1>2, <1>7
    <2>5. QED
        BY <2>2, <2>3, <2>4, Counted
<1>8. QED
    BY <1>1, <1>2, <1>3, <1>4, <1>5, <1>6, <1>7, Counted DEF C!ComparesFairly, it

-----------------------------------------------------------------------------
(* What a restore point holds *)

LEMMA ConsoleSums ==
    /\ \A f, S : C!SumFunctionOnSet(f, S) = SumFunctionOnSet(f, S)
    /\ \A f : C!SumFunction(f) = SumFunctionOnSet(f, DOMAIN f)
<1>1. \A f, S : C!SumFunctionOnSet(f, S) = SumFunctionOnSet(f, S)
    BY DEF C!SumFunctionOnSet, C!FoldFunctionOnSet, C!MapThenFoldSet,
           SumFunctionOnSet, FoldFunctionOnSet, MapThenFoldSet
<1>2. QED
    BY <1>1 DEF C!SumFunction

\* Each entry is a file, a directory or a link of one root.
LEMMA RootsCover ==
    ASSUME NEW entries, IsFiniteSet(DOMAIN entries), NEW roots
    PROVE  LET total == C!RootSummary(entries, roots)
           IN  C!SumFunction([r \in DOMAIN total |-> total[r].files + total[r].dirs + total[r].links])
                 = Cardinality(DOMAIN entries)
<1> DEFINE D == DOMAIN entries
           c == [p \in D |-> C!RootOf(p, roots)]
           R == {c[p] : p \in D}
           total == C!RootSummary(entries, roots)
           Mine(r) == {p \in D : c[p] = r}
           Copies(r) == {p \in Mine(r) : entries[p].kind \notin {"d", "l"}}
           Dirs(r) == {p \in Mine(r) : entries[p].kind = "d"}
           Links(r) == {p \in Mine(r) : entries[p].kind = "l"}
           f == [r \in DOMAIN total |-> total[r].files + total[r].dirs + total[r].links]
<1>1. DOMAIN total = R
    BY DEF C!RootSummary
<1>2. ASSUME NEW r \in R
      PROVE  /\ total[r].files = Cardinality(Copies(r))
             /\ total[r].dirs = Cardinality(Dirs(r))
             /\ total[r].links = Cardinality(Links(r))
    <2>1. {p \in D : C!RootOf(p, roots) = r} = Mine(r)
        OBVIOUS
    <2>2. QED
        BY <2>1, Counted DEF C!RootSummary
<1> HIDE DEF total, R, c, D
<1>3. ASSUME NEW r \in R
      PROVE  f[r] = Cardinality(Mine(r))
    <2>1. Mine(r) \in SUBSET D /\ IsFiniteSet(D)
        BY DEF D
    <2>2. IsFiniteSet(Mine(r))
        BY <2>1, FS_Subset
    <2> DEFINE both == Copies(r) \cup Dirs(r)
    <2>3. Copies(r) \in SUBSET Mine(r) /\ Dirs(r) \in SUBSET Mine(r) /\ Links(r) \in SUBSET Mine(r)
        OBVIOUS
    <2>4. /\ Copies(r) \cap Dirs(r) = {} /\ both \cap Links(r) = {}
          /\ both \cup Links(r) = Mine(r)
        OBVIOUS
    <2> HIDE DEF Mine, Copies, Dirs, Links
    <2>5. IsFiniteSet(Copies(r)) /\ IsFiniteSet(Dirs(r)) /\ IsFiniteSet(Links(r))
        BY <2>2, <2>3, FS_Subset
    <2>6. IsFiniteSet(both) /\ Cardinality(both) = Cardinality(Copies(r)) + Cardinality(Dirs(r))
        BY <2>4, <2>5, Disjoint
    <2> HIDE DEF both
    <2>7. Cardinality(Mine(r)) = Cardinality(both) + Cardinality(Links(r))
        BY <2>4, <2>5, <2>6, Disjoint
    <2>8. QED
        BY <1>1, <1>2, <2>6, <2>7
<1>4. SumFunctionOnSet(f, R) = Cardinality(D)
    <2>1. IsFiniteSet(D) /\ R = {c[p] : p \in D}
        BY DEF D, R
    <2> HIDE DEF f
    <2>2. Counts(f, R, c, D)
        BY <1>3, <2>1 DEF Counts
    <2>3. QED
        BY <2>1, <2>2, ClassesCover
<1>5. DOMAIN f = R
    BY <1>1
<1> HIDE DEF f
<1>6. C!SumFunction(f) = Cardinality(D)
    BY <1>4, <1>5, ConsoleSums
<1>7. QED
    BY <1>6 DEF f, total, D

\* The pages, one after the other, are the list.
LEMMA PagesCover ==
    ASSUME NEW S, NEW paths \in Seq(S), NEW size \in Nat \ {0}
    PROVE  LET pages[n \in 0..Len(paths)] ==
                 IF n = 0 THEN <<>> ELSE pages[n - 1] \o C!Page(paths, size, (n - 1) * size)
           IN  pages[Len(paths)] = paths
<1> DEFINE L == Len(paths)
           Is(v) == v = [n \in 0..L |-> IF n = 0 THEN <<>>
                                        ELSE v[n - 1] \o C!Page(paths, size, (n - 1) * size)]
           pages == CHOOSE v : Is(v)
           Least(a) == IF a < L THEN a ELSE L
           w == [n \in 0..L |-> SubSeq(paths, 1, Least(n * size))]
<1>0. L \in Nat /\ DOMAIN paths = 1..L /\ size \in Nat \ {0}
    OBVIOUS
<1>1. ASSUME NEW n \in 1..L
      PROVE  w[n - 1] \o C!Page(paths, size, (n - 1) * size) = w[n]
    <2> DEFINE a == (n - 1) * size
    <2>1. a \in Nat /\ n * size = a + size
        BY <1>0
    <2> HIDE DEF a
    <2>2. C!Page(paths, size, a) = SubSeq(paths, a + 1, Least(a + size))
        BY <1>0 DEF C!Page
    <2>3. w[n - 1] = SubSeq(paths, 1, Least(a)) /\ w[n] = SubSeq(paths, 1, Least(a + size))
        BY <1>0, <2>1 DEF a
    <2> DEFINE x == SubSeq(paths, 1, Least(a))
               y == SubSeq(paths, a + 1, Least(a + size))
               z == SubSeq(paths, 1, Least(a + size))
    <2>4. x \o y = z
        <3> HIDE DEF L
        <3>1. CASE a < L
            <4>1. /\ Least(a) = a /\ Least(a + size) \in a..L
                BY <1>0, <2>1, <3>1
            <4> HIDE DEF Least
            <4> DEFINE b == Least(a + size) - a
            <4>b. b \in Nat /\ Least(a + size) = a + b /\ a + b <= L
                BY <1>0, <2>1, <4>1
            <4> HIDE DEF b
            <4>2. x \in Seq(S) /\ Len(x) = a /\ \A i \in 1..a : x[i] = paths[i]
                BY <1>0, <2>1, <4>1 DEF L
            <4>3. y \in Seq(S) /\ Len(y) = b /\ \A i \in 1..b : y[i] = paths[a + i]
                BY <1>0, <2>1, <4>1, <4>b DEF L
            <4>4. z = [i \in 1..(a + b) |-> paths[i]]
                BY <1>0, <2>1, <4>1, <4>b DEF L
            <4> HIDE DEF x, y, z
            <4>5. x \o y = [i \in 1..(a + b) |-> IF i <= a THEN x[i] ELSE y[i - a]]
                <5>1. x = [i \in 1..a |-> x[i]] /\ y = [i \in 1..b |-> y[i]]
                    BY <4>2, <4>3
                <5>2. QED
                    BY ONLY <5>1, <4>b, <2>1, CatIs, SMTT(30)
            <4>6. ASSUME NEW i \in 1..(a + b)
                  PROVE  (IF i <= a THEN x[i] ELSE y[i - a]) = paths[i]
                <5>1. CASE i <= a
                    BY <2>1, <4>2, <4>b, <5>1
                <5>2. CASE ~(i <= a)
                    <6>1. i - a \in 1..b /\ a + (i - a) = i
                        BY <2>1, <4>b, <5>2
                    <6>2. QED
                        BY <4>3, <5>2, <6>1
                <5>3. QED
                    BY <5>1, <5>2
            <4>7. QED
                BY <4>4, <4>5, <4>6
        <3>2. CASE ~(a < L)
            <4>1. Least(a) = L /\ Least(a + size) = L
                BY <1>0, <2>1, <3>2
            <4>2. x = paths /\ z = paths
                BY <1>0, <4>1 DEF L
            <4>3. y = <<>>
                <5>1. a + 1 > L /\ a + 1 \in Int /\ L \in Int
                    BY <1>0, <2>1, <3>2
                <5>2. y = SubSeq(paths, a + 1, L)
                    BY <4>1
                <5>3. SubSeq(paths, a + 1, L) = <<>>
                    BY <5>1
                <5>4. QED
                    BY <5>2, <5>3
            <4> HIDE DEF x, y, z
            <4>4. QED
                BY <4>2, <4>3
        <3>3. QED
            BY <3>1, <3>2
    <2>5. QED
        BY <2>2, <2>3, <2>4 DEF a
<1>2. w[0] = <<>>
    BY <1>0
<1>3. w[L] = paths
    <2> DEFINE q == L * size
    <2>1. q >= L /\ q \in Nat
        <3> HIDE DEF L
        <3>1. QED
            BY <1>0
    <2>2. w[L] = SubSeq(paths, 1, Least(q)) /\ SubSeq(paths, 1, L) = paths
        BY <1>0
    <2> HIDE DEF q, L, w
    <2>3. Least(q) = L
        BY <1>0, <2>1
    <2>4. QED
        BY <2>2, <2>3
<1> HIDE DEF w
<1>4. Is(w)
    <2>1. \A n \in 0..L :
            w[n] = IF n = 0 THEN <<>> ELSE w[n - 1] \o C!Page(paths, size, (n - 1) * size)
        <3> TAKE n \in 0..L
        <3>1. n = 0 \/ n \in 1..L
            BY <1>0
        <3>2. QED
            BY <1>1, <1>2, <3>1
    <2>2. w = [n \in 0..L |-> w[n]]
        BY DEF w
    <2>3. QED
        BY <2>1, <2>2
<1>5. Is(pages)
    BY <1>4
<1> HIDE DEF pages
<1> DEFINE Bad == {n \in 0..L : pages[n] # w[n]}
<1>6. Bad = {}
    <2> SUFFICES ASSUME Bad # {} PROVE FALSE
        OBVIOUS
    <2>1. Bad \in SUBSET Nat
        BY <1>0
    <2>2. PICK n \in Bad : \A m \in Bad : n <= m
        BY <2>1, LeastOf
    <2>3. n \in 0..L /\ pages[n] # w[n]
        OBVIOUS
    <2>4. /\ pages[n] = IF n = 0 THEN <<>>
                        ELSE pages[n - 1] \o C!Page(paths, size, (n - 1) * size)
          /\ w[n] = IF n = 0 THEN <<>> ELSE w[n - 1] \o C!Page(paths, size, (n - 1) * size)
        BY <1>4, <1>5, <2>3
    <2>5. CASE n = 0
        BY <2>3, <2>4, <2>5
    <2>6. CASE n # 0
        <3>1. n - 1 \in 0..L /\ ~(n <= n - 1)
            BY <1>0, <2>3, <2>6
        <3>2. n - 1 \notin Bad
            BY <2>2, <3>1
        <3>3. pages[n - 1] = w[n - 1]
            BY <3>1, <3>2
        <3>4. QED
            BY <2>3, <2>4, <2>6, <3>3
    <2>7. QED
        BY <2>5, <2>6
<1>7. pages[L] = w[L]
    BY <1>0, <1>6
<1>8. QED
    BY <1>3, <1>7 DEF pages

\* What the console can be asked.
Askable(q) ==
    /\ q.of \in {"ask", "column"} => Heard(q.held, q.ctl)
    /\ q.of = "ask" => q.writer \in BOOLEAN /\ Answered(q.held, q.ctl, q.ids)
    /\ q.of = "column" => Chosen(q.page)
    /\ q.of = "compare" => \E contents : Holds(q.newest, q.held, contents)
    /\ q.of = "manifest" =>
         IsFiniteSet(DOMAIN q.entries) /\ q.size \in Nat \ {0} /\ \E S : q.paths \in Seq(S)

\* Of whatever the store holds and the Controller answers: the console calls asked only
\* whom the Controller accepted and names the others, its column says only what can be held to, a file is
\* compared from a typical base with every host in its place, each entry of a restore
\* point is counted once under its root, and its pages are the whole of it (ui.py;
\* api_hosts, api_backup_now and api_compare in app.py; compare_path,
\* restore_point_roots and restore_point_entries in store.py).
THEOREM ConsoleTellsAllTheTruth ==
    ASSUME Askable(asked)
    PROVE  ConsoleTellsTheTruth
<1>1. ASSUME asked.of = "ask"
      PROVE  C!PromisesNothing(asked.held, asked.ctl, asked.ids, asked.writer)
    BY <1>1, ConsolePromisesLittle DEF Askable
<1>2. ASSUME asked.of = "column"
      PROVE  C!PageKeepsItsWord(asked.held, asked.ctl, asked.page)
    BY <1>2, ColumnKeepsItsWord DEF Askable
<1>3. ASSUME asked.of = "compare"
      PROVE  C!ComparesFairly(asked.held, asked.ctl, asked.newest, asked.base)
    <2>1. PICK contents : Holds(asked.newest, asked.held, contents)
        BY <1>3 DEF Askable
    <2>2. QED
        BY <2>1, EveryFileIsComparedFairly
<1>4. ASSUME asked.of = "manifest"
      PROVE  C!RootsAndPagesCover(asked.entries, Roots, asked.paths, asked.size)
    <2>1. IsFiniteSet(DOMAIN asked.entries) /\ asked.size \in Nat \ {0}
        BY <1>4 DEF Askable
    <2>2. PICK S : asked.paths \in Seq(S)
        BY <1>4 DEF Askable
    <2> DEFINE total == C!RootSummary(asked.entries, Roots)
    <2>3. C!SumFunction([r \in DOMAIN total |-> total[r].files + total[r].dirs + total[r].links])
            = C!Cardinality(DOMAIN asked.entries)
        BY <2>1, RootsCover, Counted
    <2>4. LET pages[n \in 0..Len(asked.paths)] ==
                IF n = 0 THEN <<>>
                ELSE pages[n - 1] \o C!Page(asked.paths, asked.size, (n - 1) * asked.size)
          IN  pages[Len(asked.paths)] = asked.paths
        BY <2>1, <2>2, PagesCover
    <2>5. QED
        BY <2>3, <2>4 DEF C!RootsAndPagesCover
<1>5. QED
    BY <1>1, <1>2, <1>3, <1>4 DEF ConsoleTellsTheTruth

-----------------------------------------------------------------------------
(* The updater's rows *)

\* A host as it is found.
FoundOn(host) ==
    \A key \in U!Products :
       /\ host[key].git \in {"unreadable", "unchecked", "behind", "current"}
       /\ host[key].dirty \in BOOLEAN

\* The row of an installed product, and of one that is not.
LEMMA RowOfProduct ==
    ASSUME NEW key, NEW p
    PROVE  LET row == U!Row(key, p)
           IN  /\ U!Installed(p) =>
                    /\ row.installed = TRUE
                    /\ row.checked = (p.git \notin {"unreadable", "unchecked"})
                    /\ row.available = U!Available(p) /\ row.canUpdate = U!CanUpdate(p)
                    /\ row.reason = U!Reason(p)
                    /\ row.actions = {a \in U!LifecycleActions : ~U!ActionRefused(key, a)}
               /\ ~U!Installed(p) =>
                    /\ row.installed = FALSE /\ row.checked = FALSE /\ row.available = FALSE /\ row.canUpdate = FALSE
                    /\ row.actions = {}
<1>1. CASE U!Installed(p)
    BY <1>1 DEF U!Row
<1>2. CASE ~U!Installed(p)
    BY <1>2 DEF U!Row
<1>3. QED
    BY <1>1, <1>2

\* The buttons of one module.
LEMMA ModuleButtons ==
    ASSUME NEW key, NEW p, NEW m \in U!Modules(key), U!Installed(p)
    PROVE  U!Row(key, p).modules[m].actions =
             IF U!ComposeDir(p.compose) = U!Missing THEN {}
             ELSE {a \in U!LifecycleActions : ~U!ModuleActionRefused(key, m, a)}
BY DEF U!Row

\* Whatever is found on the host, however its checkouts, compose files and containers
\* stand, each row of the page agrees with what the service accepts, both ways but for
\* the actions of a product without a compose file, and no accepted call stops what the console runs on (status, api_action and api_module_action in
\* updater/backend/app.py; the refusals in jobs.py; the page in idp/app.py).
THEOREM EveryRowAgrees ==
    ASSUME NEW host, FoundOn(host)
    PROVE  U!RowsAgree(host)
<1> DEFINE rows == U!Rows(host)
<1>1. ASSUME NEW key \in U!Products
      PROVE  /\ rows[key].canUpdate <=> rows[key].available /\ U!AcceptsUpdate(key, host[key])
             /\ U!StateShown(rows[key]) = "Up to date" => host[key].git = "current"
             /\ rows[key].canUpdate => U!StateShown(rows[key]) = "Update available"
             /\ rows[key].available /\ ~rows[key].canUpdate =>
                  U!BlockerShown(rows[key]) # U!Missing
    <2> DEFINE p == host[key]
               row == U!Row(key, p)
    <2>1. rows[key] = row
        BY DEF U!Rows
    <2>2. p.git \in {"unreadable", "unchecked", "behind", "current"} /\ p.dirty \in BOOLEAN
        BY DEF FoundOn
    <2> HIDE DEF p, row, rows
    <2>3. CASE U!Installed(p)
        <3>1. /\ row.installed = TRUE /\ row.checked = (p.git \notin {"unreadable", "unchecked"})
              /\ row.available = (p.git = "behind")
              /\ row.canUpdate = U!CanUpdate(p) /\ row.reason = U!Reason(p)
            BY <2>3, RowOfProduct DEF row, U!Available
        <3>2. row.canUpdate <=> row.available /\ U!AcceptsUpdate(key, p)
            BY <2>3, <3>1 DEF U!CanUpdate, U!Available, U!AcceptsUpdate, U!Reachable
        <3>3. U!StateShown(row) = "Up to date" => p.git = "current"
            BY <2>2, <3>1 DEF U!StateShown
        <3>4. row.canUpdate => U!StateShown(row) = "Update available"
            BY <2>2, <3>1 DEF U!StateShown, U!CanUpdate, U!Available
        <3>5. row.available /\ ~row.canUpdate => U!BlockerShown(row) # U!Missing
            BY <2>2, <3>1 DEF U!BlockerShown, U!CanUpdate, U!Available, U!Reason, U!Missing
        <3>6. QED
            BY <2>1, <3>2, <3>3, <3>4, <3>5 DEF p
    <2>4. CASE ~U!Installed(p)
        <3>1. row.installed = FALSE /\ row.available = FALSE /\ row.canUpdate = FALSE
            BY <2>4, RowOfProduct DEF row
        <3>2. U!StateShown(row) = "Not installed"
            BY <3>1 DEF U!StateShown
        <3>3. QED
            BY <2>1, <3>1, <3>2
    <2>5. QED
        BY <2>3, <2>4
<1>2. ASSUME NEW key \in U!Products, NEW a \in U!LifecycleActions
      PROVE  /\ U!AcceptsAction(key, host[key], a) => a \in rows[key].actions
             /\ a \in rows[key].actions =>
                  \/ U!AcceptsAction(key, host[key], a)
                  \/ U!ComposeDir(host[key].compose) = U!Missing
             /\ \A m \in U!Modules(key) :
                  U!AcceptsModuleAction(key, host[key], m, a) <=>
                    U!Installed(host[key]) /\ a \in rows[key].modules[m].actions
    <2>1. rows[key] = U!Row(key, host[key])
        BY DEF U!Rows
    <2> HIDE DEF rows
    <2>2. /\ U!AcceptsAction(key, host[key], a) => a \in rows[key].actions
          /\ a \in rows[key].actions =>
               \/ U!AcceptsAction(key, host[key], a)
               \/ U!ComposeDir(host[key].compose) = U!Missing
        <3>1. /\ U!Installed(host[key]) =>
                   rows[key].actions = {b \in U!LifecycleActions : ~U!ActionRefused(key, b)}
              /\ ~U!Installed(host[key]) => rows[key].actions = {}
            BY <2>1, RowOfProduct
        <3>2. QED
            BY <3>1 DEF U!AcceptsAction, U!Reachable
    <2>3. ASSUME NEW m \in U!Modules(key)
          PROVE  U!AcceptsModuleAction(key, host[key], m, a) <=>
                   U!Installed(host[key]) /\ a \in rows[key].modules[m].actions
        <3>1. CASE U!Installed(host[key])
            <4>1. rows[key].modules[m].actions =
                    IF U!ComposeDir(host[key].compose) = U!Missing THEN {}
                    ELSE {b \in U!LifecycleActions : ~U!ModuleActionRefused(key, m, b)}
                BY <2>1, <3>1, ModuleButtons
            <4>2. QED
                BY <3>1, <4>1 DEF U!AcceptsModuleAction, U!Reachable
        <3>2. CASE ~U!Installed(host[key])
            BY <3>2 DEF U!AcceptsModuleAction, U!Reachable
        <3>3. QED
            BY <3>1, <3>2
    <2>4. QED
        BY <2>2, <2>3
<1>3. ASSUME NEW m \in {"gateway", "idp", "updater"}
      PROVE  /\ ~U!AcceptsAction(U!Slop, host[U!Slop], "stop")
             /\ ~U!AcceptsModuleAction(U!Slop, host[U!Slop], m, "stop")
    BY DEF U!AcceptsAction, U!AcceptsModuleAction, U!ActionRefused, U!ModuleActionRefused
<1>4. QED
    BY <1>1, <1>2, <1>3 DEF U!RowsAgree

\* The updater names parts of a list as Lists does.
LEMMA UpdaterLists ==
    /\ \A s, P : U!At(s, P) = At(s, P)
    /\ \A f : U!Range(f) = {f[x] : x \in DOMAIN f}
    /\ \A S : U!Cardinality(S) = Cardinality(S)
<1>1. \A S : U!Cardinality(S) = Cardinality(S)
    BY DEF U!Cardinality, Cardinality
<1>2. \A P, n : U!Nth(P, n) = Nth(P, n)
    BY <1>1 DEF U!Nth, Nth
<1>3. QED
    BY <1>1, <1>2 DEF U!At, At, U!Range

LEMMA AllowlistIs ==
    LET a == U!Allowlist
    IN  /\ DOMAIN a = 1..4 /\ \A i, j \in 1..4 : a[i] = a[j] => i = j
        /\ U!Products = {a[i] : i \in 1..4}
<1>1. U!Products = {U!Allowlist[i] : i \in DOMAIN U!Allowlist}
    BY UpdaterLists DEF U!Products
<1>2. /\ DOMAIN U!Allowlist = 1..4
      /\ U!Allowlist[1] = "controller" /\ U!Allowlist[2] = "slep"
      /\ U!Allowlist[3] = "connect" /\ U!Allowlist[4] = "slop"
    BY DEF U!Allowlist
<1>3. \A i \in 1..4 : i \in {1, 2, 3, 4}
    OBVIOUS
<1>4. \A i, j \in 1..4 : U!Allowlist[i] = U!Allowlist[j] => i = j
    BY <1>2, <1>3
<1>5. QED
    BY <1>1, <1>2, <1>4

\* What "Update all" updates: what the rows call updatable, nothing twice, SLOP last.
LEMMA UpdateAllIs ==
    ASSUME NEW host
    PROVE  LET all == U!UpdateAll(host)
           IN  /\ {all[i] : i \in DOMAIN all} =
                    {key \in U!Products : U!Installed(host[key]) /\ U!CanUpdate(host[key])}
               /\ \A i, j \in DOMAIN all : (all[i] = all[j] => i = j) /\ (all[i] = U!Slop => j <= i)
<1> DEFINE a == U!Allowlist
           Wide == {n \in DOMAIN a : U!Installed(host[a[n]]) /\ U!CanUpdate(host[a[n]])}
           items == At(a, Wide)
           Fit == {n \in DOMAIN items : items[n] # U!Slop}
           L == {n \in DOMAIN items : items[n] = U!Slop}
           first == At(items, Fit)
           last == At(items, L)
           all == first \o last
           w == Cardinality(Wide)
           f == Cardinality(Fit)
           l == Cardinality(L)
<1>1. U!UpdateAll(host) = all
    BY UpdaterLists DEF U!UpdateAll
<1>2. /\ DOMAIN a = 1..4 /\ \A i, j \in 1..4 : a[i] = a[j] => i = j
      /\ U!Products = {a[i] : i \in 1..4}
    BY AllowlistIs
<1>3. /\ Wide \in SUBSET (1..4)
      /\ {a[n] : n \in Wide} =
            {key \in U!Products : U!Installed(host[key]) /\ U!CanUpdate(host[key])}
    BY <1>2
<1> HIDE DEF a, Wide
<1>4. /\ w \in Nat /\ DOMAIN items = 1..w
      /\ {items[n] : n \in DOMAIN items} = {a[n] : n \in Wide}
      /\ \A m, n \in 1..w : items[m] = items[n] => m = n
    <2>1. w \in Nat /\ DOMAIN items = 1..w
        BY <1>3, AtIs
    <2>2. \A i, j \in Wide : a[i] = a[j] => i = j
        BY <1>2, <1>3
    <2>3. QED
        BY <1>3, <2>1, <2>2, AtHas
<1> HIDE DEF items, w
<1>5. Fit \in SUBSET (1..w) /\ L \in SUBSET (1..w)
    BY <1>4
<1>6. /\ \A n \in Fit : items[n] # U!Slop
      /\ \A n \in L : items[n] = U!Slop
      /\ \A n \in 1..w : n \in Fit \/ n \in L
    BY <1>4
<1> HIDE DEF Fit, L
<1>7. /\ f \in Nat /\ DOMAIN first = 1..f /\ first = [n \in 1..f |-> first[n]]
      /\ {first[n] : n \in 1..f} = {items[n] : n \in Fit}
      /\ \A m, n \in 1..f : first[m] = first[n] => m = n
    <2>0. w \in Nat /\ Fit \in SUBSET (1..w)
        BY <1>4, <1>5
    <2>1. /\ Cardinality(Fit) \in Nat /\ DOMAIN At(items, Fit) = 1..Cardinality(Fit)
          /\ At(items, Fit) = [n \in 1..Cardinality(Fit) |-> items[Nth(Fit, n)]]
        BY ONLY <2>0, AtIs, Zenon
    <2>2. \A i, j \in Fit : items[i] = items[j] => i = j
        BY <1>4, <1>5
    <2>3. QED
        BY <1>4, <1>5, <2>1, <2>2, AtHas
<1>8. /\ l \in Nat /\ DOMAIN last = 1..l /\ last = [n \in 1..l |-> last[n]]
      /\ {last[n] : n \in 1..l} = {items[n] : n \in L}
      /\ \A m, n \in 1..l : last[m] = last[n] => m = n
    <2>0. w \in Nat /\ L \in SUBSET (1..w)
        BY <1>4, <1>5
    <2>1. /\ Cardinality(L) \in Nat /\ DOMAIN At(items, L) = 1..Cardinality(L)
          /\ At(items, L) = [n \in 1..Cardinality(L) |-> items[Nth(L, n)]]
        BY ONLY <2>0, AtIs, Zenon
    <2>2. \A i, j \in L : items[i] = items[j] => i = j
        BY <1>4, <1>5
    <2>3. QED
        BY <1>4, <1>5, <2>1, <2>2, AtHas
<1>9. /\ \A n \in 1..f : first[n] # U!Slop
      /\ \A n \in 1..l : last[n] = U!Slop
    <2>1. \A n \in 1..f : \E i \in Fit : first[n] = items[i]
        BY <1>7, ZenonT(30)
    <2>2. \A n \in 1..l : \E i \in L : last[n] = items[i]
        BY <1>8, ZenonT(30)
    <2>3. QED
        BY <1>6, <2>1, <2>2
<1> HIDE DEF first, last, f, l
<1>10. /\ DOMAIN all = 1..(f + l)
       /\ \A i \in 1..f : all[i] = first[i]
       /\ \A i \in 1..l : all[f + i] = last[i]
       /\ \A i \in 1..(f + l) : i \in 1..f \/ i - f \in 1..l
    BY <1>7, <1>8, CatIs
<1> HIDE DEF all
<1>11. \A i \in 1..(f + l) \ (1..f) : i - f \in 1..l /\ all[i] = last[i - f] /\ f + (i - f) = i
    BY <1>7, <1>8, <1>10
<1>12. ASSUME NEW i \in DOMAIN all, NEW j \in DOMAIN all
       PROVE  (all[i] = all[j] => i = j) /\ (all[i] = U!Slop => j <= i)
    <2>0. ~(1 \in 1..l /\ 2 \in 1..l)
        BY ONLY <1>8, <1>9
    <2>1. l \in 0..1
        BY <1>8, <2>0
    <2>2. i \in 1..f \/ (i \notin 1..f /\ i = f + 1 /\ all[i] = U!Slop)
        BY <1>7, <1>9, <1>10, <1>11, <2>1
    <2>3. j \in 1..f \/ (j \notin 1..f /\ j = f + 1 /\ all[j] = U!Slop)
        BY <1>7, <1>9, <1>10, <1>11, <2>1
    <2>4. QED
        BY <1>7, <1>9, <1>10, <2>2, <2>3
<1>13. {all[i] : i \in DOMAIN all} = {items[n] : n \in DOMAIN items}
    <2>1. \A i \in DOMAIN all : all[i] \in {first[n] : n \in 1..f} \cup {last[n] : n \in 1..l}
        BY <1>10, <1>11
    <2>2. \A x \in {first[n] : n \in 1..f} : \E i \in DOMAIN all : all[i] = x
        BY <1>7, <1>8, <1>10
    <2>3. \A x \in {last[n] : n \in 1..l} : \E i \in DOMAIN all : all[i] = x
        <3>1. \A n \in 1..l : f + n \in DOMAIN all
            BY <1>7, <1>8, <1>10
        <3>2. QED
            BY <1>10, <3>1
    <2>4. {all[i] : i \in DOMAIN all} = {first[n] : n \in 1..f} \cup {last[n] : n \in 1..l}
        BY <2>1, <2>2, <2>3, Zenon
    <2>5. {items[n] : n \in Fit} \cup {items[n] : n \in L} = {items[n] : n \in 1..w}
        BY <1>5, <1>6, Zenon
    <2>6. QED
        BY <1>4, <1>7, <1>8, <2>4, <2>5
<1>14. {all[i] : i \in DOMAIN all} =
          {key \in U!Products : U!Installed(host[key]) /\ U!CanUpdate(host[key])}
    BY ONLY <1>3, <1>4, <1>13, Zenon
<1>15. QED
    BY ONLY <1>1, <1>12, <1>14

\* However many products are found, and whatever is found of each, the page and the
\* service agree on what can be updated at once.
LEMMA PageAndService ==
    ASSUME NEW host, FoundOn(host)
    PROVE  U!ScreenAndServiceAgree(host)
<1> DEFINE rows == U!Rows(host)
           all  == U!UpdateAll(host)
           Able(key) == U!Installed(host[key]) /\ U!CanUpdate(host[key])
           R == U!Range(all)
<1>1. U!RowsAgree(host)
    BY EveryRowAgrees
<1>2. /\ R = {key \in U!Products : Able(key)}
      /\ \A i, j \in DOMAIN all : (all[i] = all[j] => i = j) /\ (all[i] = U!Slop => j <= i)
    BY UpdateAllIs, UpdaterLists
<1>3. /\ DOMAIN rows = U!Products
      /\ \A key \in U!Products : rows[key] = U!Row(key, host[key])
    BY DEF U!Rows
<1> HIDE DEF rows, all, R
<1>4. ASSUME NEW key \in U!Products
      PROVE  /\ rows[key].canUpdate <=> Able(key)
             /\ rows[key].available <=> U!Installed(host[key]) /\ U!Available(host[key])
    <2>1. U!CanUpdate(host[key]) \in BOOLEAN /\ U!Available(host[key]) \in BOOLEAN
        BY DEF U!CanUpdate, U!Available
    <2>2. CASE U!Installed(host[key])
        <3>1. /\ rows[key].canUpdate = U!CanUpdate(host[key])
              /\ rows[key].available = U!Available(host[key])
            <4> DEFINE p == host[key]
                       row == U!Row(key, p)
            <4>0. U!Installed(p)
                BY <2>2
            <4> HIDE DEF p, row
            <4>1. row.canUpdate = U!CanUpdate(p) /\ row.available = U!Available(p)
                BY <4>0, RowOfProduct DEF row
            <4>2. QED
                BY <1>3, <4>1 DEF p, row
        <3>2. QED
            BY ONLY <2>1, <2>2, <3>1, Zenon
    <2>3. CASE ~U!Installed(host[key])
        <3>1. rows[key].canUpdate = FALSE /\ rows[key].available = FALSE
            <4>1. /\ U!Row(key, host[key]).canUpdate = FALSE
                  /\ U!Row(key, host[key]).available = FALSE
                BY ONLY <2>3, RowOfProduct, Zenon
            <4>2. QED
                BY ONLY <1>3, <4>1, Zenon
        <3>2. QED
            BY ONLY <2>3, <3>1, Zenon
    <2>4. QED
        BY <2>2, <2>3
<1>5. R = {key \in U!Products : rows[key].canUpdate}
    BY <1>2, <1>4
<1>6. U!UpdateAllButton(rows) \subseteq R
    BY <1>3, <1>5 DEF U!UpdateAllButton
<1>7. ASSUME NEW key \in U!Products
      PROVE  U!Installed(host[key]) /\ U!Available(host[key]) <=> Able(key) \/ key \in U!Skipped(host)
    BY DEF U!Skipped, U!CanUpdate, FoundOn
<1>8. {key \in U!Products : rows[key].available} = R \cup U!Skipped(host)
    <2>1. U!Skipped(host) \subseteq U!Products /\ R \subseteq U!Products
        BY <1>2 DEF U!Skipped
    <2>2. \A key \in U!Products : key \in R <=> Able(key)
        BY <1>2
    <2> HIDE DEF Able
    <2>3. \A key \in U!Products : rows[key].available <=> key \in R \/ key \in U!Skipped(host)
        BY <1>4, <1>7, <2>2
    <2>4. QED
        BY <2>1, <2>3
<1>9. QED
    BY <1>1, <1>2, <1>5, <1>6, <1>8 DEF U!ScreenAndServiceAgree, rows, all, R

\* Running is said of containers that all run, none of them unhealthy.
LEMMA RunningOnly ==
    ASSUME NEW services
    PROVE  U!RunningIsRunning(services)
<1> DEFINE bad == {s \in services : s.state # "running"}
           ill == {s \in services : s.health = "unhealthy"}
           shown == U!ModuleShown(services)
<1>1. CASE services = {}
    BY <1>1 DEF U!RunningIsRunning, U!ModuleShown
<1>2. CASE services # {} /\ bad # {}
    <2>1. shown = IF bad = services THEN "Not running" ELSE "Partly running"
        BY <1>2 DEF U!ModuleShown
    <2>2. shown # "Running"
        BY <2>1
    <2>3. QED
        BY <1>2, <2>2 DEF U!RunningIsRunning
<1>3. CASE services # {} /\ bad = {}
    <2>1. shown = IF ill # {} THEN "Running, unhealthy" ELSE "Running"
        BY <1>3 DEF U!ModuleShown
    <2>2. shown = "Running" <=> ill = {}
        BY <2>1
    <2>3. QED
        BY <1>3, <2>2 DEF U!RunningIsRunning
<1>4. QED
    BY <1>1, <1>2, <1>3

\* The phase a log names is at its last mark.
LEMMA StepIs ==
    ASSUME NEW n \in Nat, NEW log, DOMAIN log = 1..n, NEW m \in 1..n,
           log[m] \in U!Steps, \A j \in 1..n : log[j] \in U!Steps => j <= m
    PROVE  U!StepOf(log) = log[m]
<1> DEFINE marks == {i \in DOMAIN log : log[i] \in U!Steps}
<1>1. m \in marks /\ \A j \in marks : j <= m
    OBVIOUS
<1>2. \A i \in marks : (\A j \in marks : j <= i) => i = m
    <2>1. \A i \in marks : i \in Int /\ m \in Int
        OBVIOUS
    <2> HIDE DEF marks
    <2>2. QED
        BY <1>1, <2>1
<1> HIDE DEF marks
<1>3. (CHOOSE i \in marks : \A j \in marks : j <= i) = m
    BY <1>1, <1>2
<1>4. marks # {}
    BY <1>1
<1>5. QED
    BY <1>3, <1>4 DEF U!StepOf, marks

\* What the updater has of a log after n lines: the last MaxLogLines of them.
Kept(n) == IF n <= MaxLogLines THEN n ELSE MaxLogLines

Tails(lines, n) == [i \in 1..Kept(n) |-> lines[n - Kept(n) + i]]

LEMMA TailsFollow ==
    ASSUME MaxLogLines \in Nat \ {0}, NEW S, NEW lines \in Seq(S), NEW n \in 1..Len(lines)
    PROVE  U!Log(Tails(lines, n - 1), lines[n]) = Tails(lines, n)
<1> DEFINE k == Kept(n - 1)
           t == Tails(lines, n - 1)
<1>1. /\ k \in 0..(n - 1) /\ k <= MaxLogLines
      /\ k < MaxLogLines => k = n - 1 /\ Kept(n) = n
      /\ ~(k < MaxLogLines) => k = MaxLogLines /\ Kept(n) = k /\ k > 0
    BY DEF Kept
<1>2. \A i \in 1..Len(lines) : lines[i] \in S
    OBVIOUS
<1>3. /\ t \in [1..k -> S]
      /\ \A i \in 1..k : t[i] = lines[n - 1 - k + i]
    <2>1. t = [i \in 1..k |-> lines[n - 1 - k + i]]
        BY DEF Tails
    <2> HIDE DEF t, k
    <2>2. \A i \in 1..k : n - 1 - k + i \in 1..Len(lines)
        BY <1>1
    <2>3. QED
        BY <1>2, <2>1, <2>2
<1> HIDE DEF k, t
<1>4. t \in Seq(S) /\ Len(t) = k /\ lines[n] \in S
    BY <1>1, <1>2, <1>3
<1>5. CASE k < MaxLogLines
    <2>1. U!Log(t, lines[n]) = Append(t, lines[n])
        BY <1>4, <1>5 DEF U!Log
    <2>2. Append(t, lines[n]) = [i \in 1..n |-> IF i = n THEN lines[n] ELSE t[i]]
        BY <1>1, <1>4, <1>5
    <2>3. \A i \in 1..n : (IF i = n THEN lines[n] ELSE t[i]) = lines[i]
        BY <1>1, <1>3, <1>5
    <2>4. Tails(lines, n) = [i \in 1..n |-> lines[i]]
        BY <1>1, <1>5 DEF Tails
    <2>5. QED
        BY <2>1, <2>2, <2>3, <2>4 DEF t
<1>6. CASE ~(k < MaxLogLines)
    <2>1. U!Log(t, lines[n]) = Append(Tail(t), lines[n])
        BY <1>4, <1>6 DEF U!Log
    <2>2. /\ Tail(t) \in Seq(S) /\ Len(Tail(t)) = k - 1
          /\ \A i \in 1..(k - 1) : Tail(t)[i] = t[i + 1]
        BY <1>1, <1>4, <1>6
    <2>3. Append(Tail(t), lines[n]) = [i \in 1..k |-> IF i = k THEN lines[n] ELSE Tail(t)[i]]
        BY <1>1, <1>4, <1>6, <2>2
    <2>4. \A i \in 1..k : (IF i = k THEN lines[n] ELSE Tail(t)[i]) = lines[n - k + i]
        <3>1. ASSUME NEW i \in 1..(k - 1) PROVE Tail(t)[i] = lines[n - k + i]
            <4>1. i + 1 \in 1..k /\ n - 1 - k + (i + 1) = n - k + i
                BY <1>1
            <4>2. QED
                BY <1>3, <2>2, <4>1
        <3>2. \A i \in 1..k : i = k \/ i \in 1..(k - 1)
            BY <1>1
        <3>3. n - k + k = n
            BY <1>1
        <3>4. QED
            BY <3>1, <3>2, <3>3
    <2>5. Tails(lines, n) = [i \in 1..k |-> lines[n - k + i]]
        BY <1>1, <1>6 DEF Tails
    <2>6. QED
        BY <2>1, <2>3, <2>4, <2>5 DEF t
<1>7. QED
    BY <1>5, <1>6

\* Of a log whose beginning is gone, the phase is the one it is in, or none.
LEMMA PhaseOf ==
    ASSUME MaxLogLines \in Nat \ {0}, NEW S, NEW lines \in Seq(S)
    PROVE  U!PhaseIsCurrent(lines)
<1> DEFINE L == Len(lines)
           Is(b) == b = [n \in 0..L |-> IF n = 0 THEN <<>> ELSE U!Log(b[n - 1], lines[n])]
           w == [n \in 0..L |-> Tails(lines, n)]
           bufs == CHOOSE b : Is(b)
<1>1. U!PhaseIsCurrent(lines) = (U!StepOf(bufs[L]) \in {"", U!StepOf(lines)})
    BY DEF U!PhaseIsCurrent
<1>2. Is(w)
    <2>1. L \in Nat
        OBVIOUS
    <2>2. \A n \in 1..L : n - 1 \in 0..L
        BY <2>1
    <2>3. \A n \in 1..L : U!Log(w[n - 1], lines[n]) = Tails(lines, n)
        BY <2>2, TailsFollow
    <2>4. Tails(lines, 0) = <<>>
        <3>1. Kept(0) = 0
            BY DEF Kept
        <3>2. QED
            BY <3>1 DEF Tails
    <2>5. \A n \in 0..L : n = 0 \/ n \in 1..L
        BY <2>1
    <2>6. \A n \in 0..L : (IF n = 0 THEN <<>> ELSE U!Log(w[n - 1], lines[n])) = Tails(lines, n)
        BY <2>3, <2>4, <2>5
    <2> HIDE DEF L
    <2>7. [n \in 0..L |-> IF n = 0 THEN <<>> ELSE U!Log(w[n - 1], lines[n])] = w
        BY <2>6
    <2>8. QED
        BY <2>7
<1> HIDE DEF w
<1>3. Is(bufs)
    BY <1>2
<1> HIDE DEF bufs
<1>4. \A n \in 0..L : bufs[n] = Tails(lines, n)
    <2> DEFINE Bad == {n \in 0..L : bufs[n] # Tails(lines, n)}
    <2>1. CASE Bad = {}
        BY <2>1
    <2>2. CASE Bad # {}
        <3>1. Bad \in SUBSET Nat
            OBVIOUS
        <3>2. PICK n \in Bad : \A m \in Bad : n <= m
            BY <2>2, <3>1, LeastOf
        <3>3. n \in 0..L /\ L \in Nat
            OBVIOUS
        <3>4. bufs[n] = IF n = 0 THEN <<>> ELSE U!Log(bufs[n - 1], lines[n])
            BY <1>3, <3>3
        <3>5. Is(w) /\ w[n] = Tails(lines, n)
            BY <1>2, <3>3 DEF w
        <3>6. w[n] = IF n = 0 THEN <<>> ELSE U!Log(w[n - 1], lines[n])
            BY <3>3, <3>5
        <3>7. CASE n = 0
            BY <3>4, <3>5, <3>6, <3>7
        <3>8. CASE n # 0
            <4>1. n - 1 \in 0..L /\ n - 1 \notin Bad
                BY <3>2, <3>3, <3>8
            <4>2. bufs[n - 1] = Tails(lines, n - 1) /\ w[n - 1] = Tails(lines, n - 1)
                BY <4>1 DEF w
            <4>3. QED
                BY <3>4, <3>5, <3>6, <3>8, <4>2
        <3>9. QED
            BY <3>7, <3>8
    <2>3. QED
        BY <2>1, <2>2
<1> DEFINE k == Kept(L)
           t == Tails(lines, L)
<1>5. bufs[L] = t
    BY <1>4
<1>6. L \in Nat /\ k \in 0..L /\ DOMAIN t = 1..k /\ \A i \in 1..k : t[i] = lines[L - k + i]
    <2>1. L \in Nat
        OBVIOUS
    <2> HIDE DEF L
    <2>2. k \in 0..L
        BY <2>1 DEF Kept
    <2>3. t = [i \in 1..k |-> lines[L - k + i]]
        BY DEF Tails
    <2> HIDE DEF k, t
    <2>4. QED
        BY <2>1, <2>2, <2>3
<1>7. DOMAIN lines = 1..L
    OBVIOUS
<1> HIDE DEF L, k, t
<1> DEFINE marks == {i \in 1..k : t[i] \in U!Steps}
<1>8. CASE marks = {}
    <2>1. U!StepOf(t) = ""
        BY <1>6, <1>8 DEF U!StepOf
    <2>2. QED
        BY <1>1, <1>5, <2>1
<1>9. CASE marks # {}
    <2>1. marks \in SUBSET (1..k) /\ k \in Nat
        BY <1>6
    <2> HIDE DEF marks
    <2>2. PICK m \in marks : \A j \in marks : m >= j
        BY <1>9, <2>1, GreatestOf
    <2>3. m \in 1..k /\ t[m] \in U!Steps
        BY <2>2 DEF marks
    <2>4. \A j \in 1..k : t[j] \in U!Steps => j <= m
        BY <2>1, <2>2 DEF marks
    <2>5. U!StepOf(t) = t[m]
        BY <1>6, <2>1, <2>3, <2>4, StepIs
    <2> DEFINE last == L - k + m
    <2>6. last \in 1..L /\ lines[last] = t[m]
        BY <1>6, <2>3
    <2>7. ASSUME NEW j \in 1..L, lines[j] \in U!Steps PROVE j <= last
        <3>1. CASE j <= L - k
            BY <1>6, <2>3, <3>1
        <3>2. CASE j > L - k
            <4>1. j - (L - k) \in 1..k /\ L - k + (j - (L - k)) = j
                BY <1>6, <3>2
            <4>2. t[j - (L - k)] = lines[j]
                BY <1>6, <4>1
            <4>3. j - (L - k) <= m
                BY <2>4, <2>7, <4>1, <4>2
            <4>4. QED
                BY <1>6, <2>3, <4>1, <4>3
        <3>3. QED
            BY <1>6, <3>1, <3>2
    <2> HIDE DEF last
    <2>8. U!StepOf(lines) = lines[last]
        BY <1>6, <1>7, <2>3, <2>6, <2>7, StepIs
    <2>9. QED
        BY <1>1, <1>5, <2>5, <2>6, <2>8
<1>10. QED
    BY <1>8, <1>9

\* Whatever is found on the host, whatever containers a module has and however long a
\* job's log is, the page and the service agree on what can be updated, alone or all
\* at once, on what runs and on the phase of the job (status, start_update_all and
\* api_action in updater/backend/app.py; step_of and the log's cap in jobs.py; the
\* page in idp/app.py).
THEOREM ScreenAgreesForAll ==
    ASSUME asked.of = "updater" => FoundOn(asked.host) /\ asked.log \in Seq(STRING)
    PROVE  ScreenAgrees
<1>1. ASSUME asked.of = "updater"
      PROVE  /\ U!ScreenAndServiceAgree(asked.host)
             /\ U!RunningIsRunning(asked.services)
             /\ U!PhaseIsCurrent(asked.log)
    BY <1>1, PageAndService, RunningOnly, PhaseOf, DecisionsAssumption
<1>2. QED
    BY <1>1 DEF ScreenAgrees

-----------------------------------------------------------------------------
(* The wiring repair *)

\* The repair names parts of a list as Lists does.
LEMMA WiringLists ==
    /\ \A s, P : W!At(s, P) = At(s, P)
    /\ \A S : W!Cardinality(S) = Cardinality(S)
<1>1. \A S : W!Cardinality(S) = Cardinality(S)
    BY DEF W!Cardinality, Cardinality
<1>2. \A P, n : W!Nth(P, n) = Nth(P, n)
    BY <1>1 DEF W!Nth, Nth
<1>3. QED
    BY <1>1, <1>2 DEF W!At, At

\* The line of a .env that decides.
LEMMA LastLineOnly ==
    ASSUME NEW n \in Nat, NEW file, DOMAIN file = 1..n, NEW k, NEW i \in 1..n,
           file[i].key = k, \A j \in 1..n : file[j].key = k => j <= i
    PROVE  W!Has(file, k) /\ i = W!LastLine(file, k)
<1> DEFINE IsLast(m) == file[m].key = k /\ \A j \in DOMAIN file : file[j].key = k => j <= m
<1>1. W!LastLine(file, k) = CHOOSE m \in DOMAIN file : IsLast(m)
    BY DEF W!LastLine
<1>2. \A j \in 1..n : IsLast(j) => i <= j /\ j <= i
    OBVIOUS
<1>3. \A j \in 1..n : IsLast(j) => j = i
    BY <1>2
<1>4. IsLast(i)
    OBVIOUS
<1> HIDE DEF IsLast
<1>5. (CHOOSE j \in DOMAIN file : IsLast(j)) = i
    BY <1>3, <1>4
<1>6. QED
    BY <1>1, <1>5 DEF W!Has

LEMMA LastLineIs ==
    ASSUME NEW n \in Nat, NEW file, DOMAIN file = 1..n, NEW k
    PROVE  /\ W!Has(file, k) =>
                /\ W!LastLine(file, k) \in 1..n
                /\ file[W!LastLine(file, k)].key = k
                /\ \A j \in 1..n : file[j].key = k => j <= W!LastLine(file, k)
                /\ k \in DOMAIN W!ReadEnv(file)
                /\ W!ReadEnv(file)[k] = file[W!LastLine(file, k)].value
           /\ \A i \in 1..n :
                file[i].key = k /\ (\A j \in 1..n : file[j].key = k => j <= i) =>
                  W!Has(file, k) /\ i = W!LastLine(file, k)
           /\ ~W!Has(file, k) => k \notin DOMAIN W!ReadEnv(file)
<1> DEFINE S == {i \in 1..n : file[i].key = k}
           IsLast(i) == file[i].key = k /\ \A j \in DOMAIN file : file[j].key = k => j <= i
           last == W!LastLine(file, k)
<1>1. last = CHOOSE i \in DOMAIN file : IsLast(i)
    BY DEF W!LastLine
<1>2. ASSUME NEW i \in 1..n, IsLast(i)
      PROVE  W!Has(file, k) /\ i = last
    BY <1>2, LastLineOnly
<1>3. ASSUME W!Has(file, k)
      PROVE  last \in 1..n /\ IsLast(last)
    <2>1. S # {} /\ S \in SUBSET (1..n)
        BY <1>3 DEF W!Has
    <2> HIDE DEF S
    <2>2. PICK i \in S : \A j \in S : i >= j
        BY <2>1, GreatestOf
    <2>3. i \in 1..n /\ IsLast(i)
        BY <2>1, <2>2 DEF S
    <2> HIDE DEF IsLast, last
    <2>4. i = last
        BY <1>2, <2>3
    <2>5. QED
        BY <2>3, <2>4
<1>4. /\ W!Has(file, k) =>
           k \in DOMAIN W!ReadEnv(file) /\ W!ReadEnv(file)[k] = file[last].value
      /\ ~W!Has(file, k) => k \notin DOMAIN W!ReadEnv(file)
    BY DEF W!Has, W!ReadEnv
<1> HIDE DEF last
<1>5. QED
    BY <1>2, <1>3, <1>4 DEF last

\* The four keys that the repair may set, each once in the order it comes to them.
LEMMA PlanOrderIs ==
    /\ DOMAIN W!PlanOrder = 1..4
    /\ \A i, j \in 1..4 : W!PlanOrder[i] = W!PlanOrder[j] => i = j
    /\ \A s \in W!Services : \E i, j \in 1..4 : W!PlanOrder[i] = W!Url(s) /\ W!PlanOrder[j] = W!Tok(s)
<1> USE DEF W!PlanOrder, W!Url, W!Tok
<1>1. DOMAIN W!PlanOrder = 1..4
    OBVIOUS
<1>2. /\ W!PlanOrder[1] = <<"flashback", "url">> /\ W!PlanOrder[2] = <<"flashback", "token">>
      /\ W!PlanOrder[3] = <<"baseline", "url">> /\ W!PlanOrder[4] = <<"baseline", "token">>
    OBVIOUS
<1>3. \A i \in 1..4 : i \in {1, 2, 3, 4}
    OBVIOUS
<1> HIDE DEF W!PlanOrder
<1>4. \A i, j \in 1..4 : W!PlanOrder[i] = W!PlanOrder[j] => i = j
    BY <1>2, <1>3
<1>5. \A s \in W!Services : \E i, j \in 1..4 : W!PlanOrder[i] = W!Url(s) /\ W!PlanOrder[j] = W!Tok(s)
    BY <1>2 DEF W!Services
<1>6. QED
    BY <1>1, <1>4, <1>5

\* The lines of a .env that stay, and the places of the keys that it lacks.
Stay(file, keys) ==
    {i \in DOMAIN file : file[i].key \in keys => i = W!LastLine(file, file[i].key)}

Lack(file, keys) == {i \in 1..4 : W!PlanOrder[i] \in keys /\ ~W!Has(file, W!PlanOrder[i])}

\* What upsert makes of a .env: lines that stay, then lines that were missing.
LEMMA UpsertIs ==
    ASSUME NEW n \in Nat, NEW file, DOMAIN file = 1..n, NEW changes
    PROVE  LET K == DOMAIN changes
               P == Stay(file, K)
               M == Lack(file, K)
               p == Cardinality(P)
               m == Cardinality(M)
               after == W!Upsert(file, changes)
           IN  /\ p \in Nat /\ m \in Nat /\ DOMAIN after = 1..(p + m)
               /\ \A i \in 1..p :
                    /\ Nth(P, i) \in P /\ after[i].key = file[Nth(P, i)].key
                    /\ file[Nth(P, i)].key \in K => after[i].value = changes[file[Nth(P, i)].key]
                    /\ file[Nth(P, i)].key \notin K => after[i] = file[Nth(P, i)]
               /\ \A i \in 1..m :
                    /\ Nth(M, i) \in M /\ after[p + i].key = W!PlanOrder[Nth(M, i)]
                    /\ after[p + i].value = changes[W!PlanOrder[Nth(M, i)]]
               /\ \A i \in 1..(p + m) : i \in 1..p \/ (i - p \in 1..m /\ i = p + (i - p))
<1> DEFINE K == DOMAIN changes
           P == Stay(file, K)
           M == Lack(file, K)
           p == Cardinality(P)
           m == Cardinality(M)
           stays == At(file, P)
           missing == At(W!PlanOrder, M)
           Set(k) == [key |-> k, value |-> changes[k], quoted |-> FALSE]
           x == [i \in DOMAIN stays |->
                  IF stays[i].key \in K THEN Set(stays[i].key) ELSE stays[i]]
           y == [i \in DOMAIN missing |-> Set(missing[i])]
           after == x \o y
<1>1. W!Upsert(file, changes) = after
    BY PlanOrderIs, WiringLists DEF W!Upsert, Stay, Lack
<1>2. P \in SUBSET (1..n) /\ M \in SUBSET (1..4) /\ 4 \in Nat
    BY DEF Stay, Lack
<1> HIDE DEF P, M, K
<1>3. /\ p \in Nat /\ DOMAIN stays = 1..p
      /\ \A i \in 1..p : Nth(P, i) \in P /\ stays[i] = file[Nth(P, i)]
    BY <1>2, AtIs
<1>4. /\ m \in Nat /\ DOMAIN missing = 1..m
      /\ \A i \in 1..m : Nth(M, i) \in M /\ missing[i] = W!PlanOrder[Nth(M, i)]
    BY <1>2, AtIs
<1> HIDE DEF p, m, stays, missing
<1>5. x = [i \in 1..p |-> x[i]] /\ y = [i \in 1..m |-> y[i]]
    BY <1>3, <1>4
<1>6. \A i \in 1..p :
        /\ x[i].key = file[Nth(P, i)].key
        /\ file[Nth(P, i)].key \in K => x[i].value = changes[file[Nth(P, i)].key]
        /\ file[Nth(P, i)].key \notin K => x[i] = file[Nth(P, i)]
    <2> TAKE i \in 1..p
    <2>1. x[i] = IF file[Nth(P, i)].key \in K THEN Set(file[Nth(P, i)].key) ELSE file[Nth(P, i)]
        BY <1>3
    <2>2. QED
        BY <2>1
<1>7. \A i \in 1..m : /\ y[i].key = W!PlanOrder[Nth(M, i)]
                      /\ y[i].value = changes[W!PlanOrder[Nth(M, i)]]
    BY <1>4
<1> HIDE DEF x, y
<1>8. /\ DOMAIN after = 1..(p + m)
      /\ \A i \in 1..p : after[i] = x[i]
      /\ \A i \in 1..m : after[p + i] = y[i]
      /\ \A i \in 1..(p + m) : i \in 1..p \/ i - p \in 1..m
    <2>1. p \in Nat /\ m \in Nat
        BY <1>3, <1>4
    <2>2. QED
        BY ONLY <1>5, <2>1, CatIs
<1> HIDE DEF after
<1>9. /\ \A i \in 1..p :
           /\ Nth(P, i) \in P /\ after[i].key = file[Nth(P, i)].key
           /\ file[Nth(P, i)].key \in K => after[i].value = changes[file[Nth(P, i)].key]
           /\ file[Nth(P, i)].key \notin K => after[i] = file[Nth(P, i)]
      /\ \A i \in 1..m :
           /\ Nth(M, i) \in M /\ after[p + i].key = W!PlanOrder[Nth(M, i)]
           /\ after[p + i].value = changes[W!PlanOrder[Nth(M, i)]]
    BY <1>3, <1>4, <1>6, <1>7, <1>8
<1>10. \A i \in 1..(p + m) : i \in 1..p \/ (i - p \in 1..m /\ i = p + (i - p))
    BY <1>3, <1>4, <1>8
<1>11. QED
    BY <1>1, <1>3, <1>4, <1>8, <1>9, <1>10 DEF P, M, K, p, m

\* The keys that a plan may have.
Planned(changes) == DOMAIN changes \subseteq {W!PlanOrder[i] : i \in 1..4}

\* A key that is set has one line, and what it was set to.
LEMMA SetOnce ==
    ASSUME NEW n \in Nat, NEW file, DOMAIN file = 1..n,
           NEW changes, Planned(changes),
           NEW k \in DOMAIN changes
    PROVE  LET after == W!Upsert(file, changes)
           IN  /\ Cardinality({i \in DOMAIN after : after[i].key = k}) = 1
               /\ k \in DOMAIN W!ReadEnv(after) /\ W!ReadEnv(after)[k] = changes[k]
<1> DEFINE K == DOMAIN changes
           P == Stay(file, K)
           M == Lack(file, K)
           p == Cardinality(P)
           m == Cardinality(M)
           after == W!Upsert(file, changes)
<1>1. /\ p \in Nat /\ m \in Nat /\ DOMAIN after = 1..(p + m)
      /\ \A i \in 1..p :
           /\ Nth(P, i) \in P /\ after[i].key = file[Nth(P, i)].key
           /\ file[Nth(P, i)].key \in K => after[i].value = changes[file[Nth(P, i)].key]
      /\ \A i \in 1..m :
           /\ Nth(M, i) \in M /\ after[p + i].key = W!PlanOrder[Nth(M, i)]
           /\ after[p + i].value = changes[W!PlanOrder[Nth(M, i)]]
      /\ \A i \in 1..(p + m) : i \in 1..p \/ (i - p \in 1..m /\ i = p + (i - p))
    BY UpsertIs
<1>2. P \in SUBSET (1..n) /\ M \in SUBSET (1..4) /\ 4 \in Nat
    BY DEF Stay, Lack
<1>3. /\ \A i \in P : \E j \in 1..p : Nth(P, j) = i
      /\ \A i, j \in 1..p : i < j => Nth(P, i) < Nth(P, j)
    BY <1>2, NthIs
<1>4. /\ \A i \in M : \E j \in 1..m : Nth(M, j) = i
      /\ \A i, j \in 1..m : i < j => Nth(M, i) < Nth(M, j)
    BY <1>2, NthIs
<1>5. \A i \in P : file[i].key = k => i = W!LastLine(file, k)
    BY DEF Stay
<1>6. \A i \in M : W!PlanOrder[i] \in K /\ ~W!Has(file, W!PlanOrder[i])
    BY DEF Lack
<1>7. \A i, j \in 1..p : Nth(P, i) = Nth(P, j) => i = j
    BY ONLY n \in Nat, <1>2, NthOnce
<1>8. \A i, j \in 1..m : Nth(M, i) = Nth(M, j) => i = j
    BY ONLY <1>2, NthOnce
<1>9. \E i \in 1..(p + m) : after[i].key = k
    <2>1. CASE W!Has(file, k)
        <3> DEFINE i == W!LastLine(file, k)
        <3>1. i \in 1..n /\ file[i].key = k
            BY <2>1, LastLineIs
        <3>2. i \in P
            BY <3>1 DEF Stay
        <3> HIDE DEF P, p, after, i
        <3>3. PICK j \in 1..p : Nth(P, j) = i
            BY <1>3, <3>2
        <3>4. j \in 1..(p + m) /\ after[j].key = k
            BY <1>1, <3>1, <3>3
        <3>5. QED
            BY <3>4
    <2>2. CASE ~W!Has(file, k)
        <3>1. PICK i \in 1..4 : W!PlanOrder[i] = k
            BY DEF Planned
        <3>2. i \in M
            BY <2>2, <3>1 DEF Lack
        <3> HIDE DEF M, m, p, after
        <3>3. PICK j \in 1..m : Nth(M, j) = i
            BY <1>4, <3>2
        <3>4. p + j \in 1..(p + m) /\ after[p + j].key = k
            BY <1>1, <3>1, <3>3
        <3>5. QED
            BY <3>4
    <2>3. QED
        BY <2>1, <2>2
<1> HIDE DEF P, M, p, m, after
<1>10. ASSUME NEW i \in 1..(p + m), after[i].key = k
       PROVE  /\ after[i].value = changes[k]
              /\ \/ i \in 1..p /\ Nth(P, i) = W!LastLine(file, k) /\ W!Has(file, k)
                 \/ /\ i - p \in 1..m /\ i = p + (i - p) /\ ~W!Has(file, k)
                    /\ Nth(M, i - p) \in M /\ W!PlanOrder[Nth(M, i - p)] = k
    <2>1. CASE i \in 1..p
        <3>1. Nth(P, i) \in P /\ file[Nth(P, i)].key = k
            BY <1>1, <1>10, <2>1
        <3>2. Nth(P, i) \in DOMAIN file
            BY <1>2, <3>1
        <3>3. W!Has(file, k)
            BY <3>1, <3>2 DEF W!Has
        <3>4. QED
            BY <1>1, <1>5, <1>10, <2>1, <3>1, <3>3
    <2>2. CASE i - p \in 1..m /\ i = p + (i - p)
        <3> DEFINE j == i - p
        <3>0. j \in 1..m /\ i = p + j
            BY <2>2
        <3> HIDE DEF j
        <3>1. Nth(M, j) \in M /\ W!PlanOrder[Nth(M, j)] = k /\ after[i].value = changes[k]
            BY <1>1, <1>10, <3>0
        <3>2. ~W!Has(file, k)
            BY <1>6, <3>1
        <3>3. QED
            BY <2>2, <3>1, <3>2 DEF j
    <2>3. QED
        BY <1>1, <2>1, <2>2
<1>11. ASSUME NEW i \in 1..(p + m), NEW j \in 1..(p + m), after[i].key = k, after[j].key = k
       PROVE  i = j
    <2>1. CASE W!Has(file, k)
        BY <1>7, <1>10, <1>11, <2>1
    <2>2. CASE ~W!Has(file, k)
        <3> DEFINE a == i - p
                   b == j - p
        <3>1. /\ a \in 1..m /\ i = p + a /\ b \in 1..m /\ j = p + b
              /\ Nth(M, a) \in M /\ Nth(M, b) \in M
              /\ W!PlanOrder[Nth(M, a)] = k /\ W!PlanOrder[Nth(M, b)] = k
            BY <1>10, <1>11, <2>2
        <3> HIDE DEF a, b
        <3>2. Nth(M, a) = Nth(M, b)
            BY <1>2, <3>1, PlanOrderIs
        <3>3. QED
            BY <1>8, <3>1, <3>2
    <2>3. QED
        BY <2>1, <2>2
<1>12. PICK i \in 1..(p + m) : after[i].key = k
    BY <1>9
<1>13. {j \in DOMAIN after : after[j].key = k} = {i}
    BY <1>1, <1>11, <1>12
<1>14. Cardinality({j \in DOMAIN after : after[j].key = k}) = 1
    BY <1>13, FS_Singleton
<1>15. i = W!LastLine(after, k) /\ W!Has(after, k)
    <2>1. p + m \in Nat
        BY <1>1
    <2>2. \A j \in 1..(p + m) : after[j].key = k => j <= i
        BY <1>11, <1>12, <2>1
    <2>3. DOMAIN after = 1..(p + m) /\ after[i].key = k
        BY <1>1, <1>12
    <2>4. QED
        BY ONLY <2>1, <2>2, <2>3, LastLineOnly, i \in 1..(p + m)
<1>16. k \in DOMAIN W!ReadEnv(after) /\ W!ReadEnv(after)[k] = changes[k]
    <2>1. p + m \in Nat
        BY <1>1
    <2>2. k \in DOMAIN W!ReadEnv(after) /\ W!ReadEnv(after)[k] = after[W!LastLine(after, k)].value
        BY <1>1, <1>15, <2>1, LastLineIs
    <2>3. QED
        BY <1>10, <1>12, <1>15, <2>2
<1>17. QED
    BY <1>14, <1>16 DEF after

\* A key that is not set keeps what it had.
LEMMA KeptAsItWas ==
    ASSUME NEW n \in Nat, NEW file, DOMAIN file = 1..n, NEW changes, NEW k, k \notin DOMAIN changes
    PROVE  LET after == W!Upsert(file, changes)
           IN  W!Get(W!ReadEnv(after), k) = W!Get(W!ReadEnv(file), k)
<1> DEFINE K == DOMAIN changes
           P == Stay(file, K)
           M == Lack(file, K)
           p == Cardinality(P)
           m == Cardinality(M)
           after == W!Upsert(file, changes)
<1>1. /\ p \in Nat /\ m \in Nat /\ DOMAIN after = 1..(p + m)
      /\ \A i \in 1..p :
           /\ Nth(P, i) \in P /\ after[i].key = file[Nth(P, i)].key
           /\ file[Nth(P, i)].key \notin K => after[i] = file[Nth(P, i)]
      /\ \A i \in 1..m : Nth(M, i) \in M /\ after[p + i].key = W!PlanOrder[Nth(M, i)]
      /\ \A i \in 1..(p + m) : i \in 1..p \/ (i - p \in 1..m /\ i = p + (i - p))
    BY UpsertIs
<1>2. P \in SUBSET (1..n)
    BY DEF Stay
<1>3. /\ \A i \in P : \E j \in 1..p : Nth(P, j) = i
      /\ \A i, j \in 1..p : i < j => Nth(P, i) < Nth(P, j)
    BY <1>2, NthIs
<1>4. \A i \in M : W!PlanOrder[i] \in K
    BY DEF Lack
<1>5. \A i \in 1..n : file[i].key \notin K => i \in P
    BY DEF Stay
<1> HIDE DEF P, M, p, m, after
<1>6. \A i \in 1..(p + m) : after[i].key = k => i \in 1..p /\ file[Nth(P, i)].key = k
    <2> TAKE i \in 1..(p + m)
    <2> HAVE after[i].key = k
    <2>1. CASE i \in 1..p
        BY <1>1, <2>1
    <2>2. CASE i - p \in 1..m /\ i = p + (i - p)
        <3>1. after[i].key \in K
            BY <1>1, <1>4, <2>2
        <3>2. QED
            BY <3>1
    <2>3. QED
        BY <1>1, <2>1, <2>2
<1>7. p + m \in Nat
    BY <1>1
<1>8. CASE W!Has(file, k)
    <2> DEFINE last == W!LastLine(file, k)
    <2>1. /\ last \in 1..n /\ file[last].key = k
          /\ \A j \in 1..n : file[j].key = k => j <= last
          /\ k \in DOMAIN W!ReadEnv(file) /\ W!ReadEnv(file)[k] = file[last].value
        BY <1>8, LastLineIs
    <2> HIDE DEF last
    <2>2. PICK i \in 1..p : Nth(P, i) = last
        BY <1>3, <1>5, <2>1
    <2>3. i \in 1..(p + m) /\ after[i] = file[last] /\ after[i].key = k
        BY <1>1, <2>1, <2>2
    <2>4. ASSUME NEW j \in 1..(p + m), after[j].key = k
          PROVE  j <= i
        <3>1. j \in 1..p /\ file[Nth(P, j)].key = k /\ Nth(P, j) \in 1..n
            BY <1>1, <1>2, <1>6, <2>4
        <3>2. Nth(P, j) <= Nth(P, i) /\ Nth(P, j) \in Int /\ Nth(P, i) \in Int
            BY <2>1, <2>2, <3>1
        <3>3. ~(Nth(P, i) < Nth(P, j))
            BY <3>2
        <3>4. QED
            BY <1>3, <3>1, <3>3
    <2>5. i = W!LastLine(after, k) /\ W!Has(after, k)
        <3>1. DOMAIN after = 1..(p + m) /\ i \in 1..(p + m) /\ after[i].key = k
            BY <1>1, <2>3
        <3>2. \A j \in 1..(p + m) : after[j].key = k => j <= i
            BY <2>4
        <3>3. QED
            BY ONLY <1>7, <3>1, <3>2, LastLineOnly
    <2>6. k \in DOMAIN W!ReadEnv(after) /\ W!ReadEnv(after)[k] = after[i].value
        BY <1>1, <1>7, <2>5, LastLineIs
    <2>7. QED
        BY <2>1, <2>3, <2>6 DEF W!Get, after
<1>9. CASE ~W!Has(file, k)
    <2>1. ~W!Has(after, k)
        <3> SUFFICES ASSUME NEW i \in 1..(p + m), after[i].key = k PROVE FALSE
            BY <1>1 DEF W!Has
        <3>1. i \in 1..p /\ file[Nth(P, i)].key = k /\ Nth(P, i) \in 1..n
            BY <1>1, <1>2, <1>6
        <3>2. QED
            BY <1>9, <3>1 DEF W!Has
    <2>2. k \notin DOMAIN W!ReadEnv(after) /\ k \notin DOMAIN W!ReadEnv(file)
        BY <1>1, <1>7, <1>9, <2>1, LastLineIs
    <2>3. QED
        BY <2>2 DEF W!Get, after
<1>10. QED
    BY <1>8, <1>9

\* Every other line stays, in its order.
LEMMA OthersStay ==
    ASSUME NEW n \in Nat, NEW file, DOMAIN file = 1..n, NEW changes
    PROVE  W!Others(W!Upsert(file, changes), DOMAIN changes) = W!Others(file, DOMAIN changes)
<1> DEFINE K == DOMAIN changes
           P == Stay(file, K)
           M == Lack(file, K)
           p == Cardinality(P)
           m == Cardinality(M)
           after == W!Upsert(file, changes)
           R == {i \in 1..n : file[i].key \notin K}
           t == [i \in 1..p |-> after[i]]
           Q == {i \in 1..p : Nth(P, i) \in R}
<1>1. /\ p \in Nat /\ m \in Nat /\ DOMAIN after = 1..(p + m)
      /\ \A i \in 1..p :
           /\ Nth(P, i) \in P /\ after[i].key = file[Nth(P, i)].key
           /\ file[Nth(P, i)].key \notin K => after[i] = file[Nth(P, i)]
      /\ \A i \in 1..m : Nth(M, i) \in M /\ after[p + i].key = W!PlanOrder[Nth(M, i)]
      /\ \A i \in 1..(p + m) : i \in 1..p \/ (i - p \in 1..m /\ i = p + (i - p))
    BY UpsertIs
<1>2. P \in SUBSET (1..n) /\ R \in SUBSET P
    BY DEF Stay
<1>3. \A i \in M : W!PlanOrder[i] \in K
    BY DEF Lack
<1> HIDE DEF P, M, after, K
<1>4. At(t, Q) = At(file, R)
    <2>1. Where(Q, P, R)
        BY <1>2 DEF Where
    <2>2. Agree(t, Q, file, P)
        BY <1>1 DEF Agree
    <2> HIDE DEF t, R, Q
    <2>3. QED
        BY ONLY n \in Nat, <1>2, <2>1, <2>2, AtPart, SMTT(30)
<1>5. {i \in DOMAIN after : after[i].key \notin K} = Q
    <2>1. ASSUME NEW i \in 1..(p + m), after[i].key \notin K
          PROVE  i \in Q
        <3>1. CASE i \in 1..p
            BY <1>1, <1>2, <2>1, <3>1
        <3>2. CASE i - p \in 1..m /\ i = p + (i - p)
            BY <1>1, <1>3, <2>1, <3>2
        <3>3. QED
            BY <1>1, <2>1, <3>1, <3>2
    <2>2. \A i \in Q : i \in 1..(p + m) /\ after[i].key \notin K
        BY <1>1
    <2>3. QED
        BY <1>1, <2>1, <2>2
<1>6. At(after, Q) = At(t, Q)
    <2>1. Q \in SUBSET (1..p) /\ p \in Nat
        BY <1>1
    <2>2. \A i \in Q : t[i] = after[i]
        BY <1>1
    <2> HIDE DEF Q, t, p
    <2>3. \A i \in 1..Cardinality(Q) : Nth(Q, i) \in Q
        BY <2>1, NthIs
    <2>4. QED
        BY <2>2, <2>3 DEF At
<1>7. QED
    BY <1>4, <1>5, <1>6, WiringLists DEF W!Others, after, K

\* A .env that can be read, and an address for each service.
Envs(slopFile, ctlFile) ==
    /\ \E n \in Nat : DOMAIN slopFile = 1..n
    /\ \E n \in Nat : DOMAIN ctlFile = 1..n
    /\ \A s \in W!Services : W!Want(W!ReadEnv(slopFile), s) # ""

\* The keys of a plan, and what it sets them to.
LEMMA PlanIs ==
    ASSUME NEW slop, NEW ctl
    PROVE  LET changes == W!Plan(slop, ctl)
               Known(s) == W!Get(slop, W!Tok(s)) # ""
           IN  /\ DOMAIN changes \subseteq {W!PlanOrder[i] : i \in 1..4}
               /\ \A s \in W!Services :
                    /\ W!Url(s) \in DOMAIN changes <=> Known(s) /\ W!WrongUrl(slop, ctl, s)
                    /\ W!Tok(s) \in DOMAIN changes <=> Known(s) /\ W!WrongTok(slop, ctl, s)
                    /\ W!Url(s) \in DOMAIN changes => changes[W!Url(s)] = W!Want(slop, s)
                    /\ W!Tok(s) \in DOMAIN changes => changes[W!Tok(s)] = W!Get(slop, W!Tok(s))
               /\ \A k \in DOMAIN changes : \E s \in W!Services :
                    (k = W!Url(s) /\ k[1] = s /\ k[2] = "url") \/ (k = W!Tok(s) /\ k[2] # "url")
<1> DEFINE Known(s) == W!Get(slop, W!Tok(s)) # ""
           known == {s \in W!Services : Known(s)}
           U1 == {W!Url(s) : s \in {x \in known : W!WrongUrl(slop, ctl, x)}}
           T1 == {W!Tok(s) : s \in {x \in known : W!WrongTok(slop, ctl, x)}}
           changes == W!Plan(slop, ctl)
<1>1. changes = [k \in U1 \cup T1 |-> IF k[2] = "url" THEN W!Want(slop, k[1]) ELSE W!Get(slop, k)]
    BY DEF W!Plan
<1>2. /\ \A s \in W!Services : W!Url(s)[1] = s /\ W!Url(s)[2] = "url"
      /\ \A s \in W!Services : W!Tok(s)[1] = s /\ W!Tok(s)[2] = "token"
    BY DEF W!Url, W!Tok
<1>3. \A s \in W!Services : \A x \in W!Services :
        (W!Url(s) = W!Url(x) => s = x) /\ (W!Tok(s) = W!Tok(x) => s = x) /\ W!Url(s) # W!Tok(x)
    BY <1>2
<1>4. \A s \in W!Services : W!Url(s) \in U1 <=> Known(s) /\ W!WrongUrl(slop, ctl, s)
    BY <1>3
<1>5. \A s \in W!Services : W!Tok(s) \in T1 <=> Known(s) /\ W!WrongTok(slop, ctl, s)
    BY <1>3
<1>6. \A s \in W!Services : W!Url(s) \notin T1 /\ W!Tok(s) \notin U1
    BY <1>3
<1>7. \A k \in U1 \cup T1 : \E s \in W!Services :
        (k = W!Url(s) /\ k[1] = s /\ k[2] = "url") \/ (k = W!Tok(s) /\ k[2] # "url")
    <2> TAKE k \in U1 \cup T1
    <2>1. CASE k \in U1
        <3>1. PICK s \in W!Services : k = W!Url(s)
            BY <2>1
        <3>2. QED
            BY <1>2, <3>1
    <2>2. CASE k \in T1
        <3>1. PICK s \in W!Services : k = W!Tok(s)
            BY <2>2
        <3>2. k[2] = "token"
            BY <1>2, <3>1
        <3>3. QED
            BY <3>1, <3>2
    <2>3. QED
        BY <2>1, <2>2
<1>8. U1 \cup T1 \subseteq {W!PlanOrder[i] : i \in 1..4}
    BY PlanOrderIs
<1> HIDE DEF U1, T1, changes, Known
<1>9. DOMAIN changes = U1 \cup T1
    BY <1>1
<1>10. ASSUME NEW s \in W!Services
       PROVE  /\ W!Url(s) \in U1 \cup T1 => changes[W!Url(s)] = W!Want(slop, s)
              /\ W!Tok(s) \in U1 \cup T1 => changes[W!Tok(s)] = W!Get(slop, W!Tok(s))
    <2>1. W!Url(s)[2] = "url" /\ W!Url(s)[1] = s /\ W!Tok(s)[2] # "url"
        BY <1>2
    <2>2. QED
        BY <1>1, <2>1
<1>11. QED
    BY <1>4, <1>5, <1>6, <1>7, <1>8, <1>9, <1>10 DEF Known, changes

\* Whatever the two files hold, the repair settles.
LEMMA OnceIsEnough ==
    ASSUME NEW slopFile, NEW ctlFile, Envs(slopFile, ctlFile)
    PROVE  W!Settles(slopFile, ctlFile)
<1> DEFINE slop    == W!ReadEnv(slopFile)
           ctl     == W!ReadEnv(ctlFile)
           changes == W!Plan(slop, ctl)
           after   == W!Upsert(ctlFile, changes)
           env     == W!ReadEnv(after)
           Known(s) == W!Get(slop, W!Tok(s)) # ""
<1>1. PICK n \in Nat : DOMAIN ctlFile = 1..n
    BY DEF Envs
<1>2. /\ DOMAIN changes \subseteq {W!PlanOrder[i] : i \in 1..4}
      /\ \A s \in W!Services :
           /\ W!Url(s) \in DOMAIN changes <=> Known(s) /\ W!WrongUrl(slop, ctl, s)
           /\ W!Tok(s) \in DOMAIN changes <=> Known(s) /\ W!WrongTok(slop, ctl, s)
           /\ W!Url(s) \in DOMAIN changes => changes[W!Url(s)] = W!Want(slop, s)
           /\ W!Tok(s) \in DOMAIN changes => changes[W!Tok(s)] = W!Get(slop, W!Tok(s))
      /\ \A k \in DOMAIN changes : \E s \in W!Services :
           (k = W!Url(s) /\ k[1] = s /\ k[2] = "url") \/ (k = W!Tok(s) /\ k[2] # "url")
    BY PlanIs
<1> HIDE DEF slop, ctl, changes
<1>3. \A k \in DOMAIN changes :
        /\ Cardinality({i \in DOMAIN after : after[i].key = k}) = 1
        /\ k \in DOMAIN env /\ env[k] = changes[k]
    <2>1. Planned(changes)
        BY <1>2 DEF Planned
    <2> HIDE DEF after, env
    <2>2. ASSUME NEW k \in DOMAIN changes
          PROVE  /\ Cardinality({i \in DOMAIN after : after[i].key = k}) = 1
                 /\ k \in DOMAIN env /\ env[k] = changes[k]
        BY <1>1, <2>1, SetOnce DEF after, env
    <2>3. QED
        BY <2>2
<1>4. ASSUME NEW k, k \notin DOMAIN changes
      PROVE  W!Get(env, k) = W!Get(ctl, k)
    BY <1>1, <1>4, KeptAsItWas DEF ctl
<1>5. W!Others(after, DOMAIN changes) = W!Others(ctlFile, DOMAIN changes)
    BY <1>1, OthersStay
<1> HIDE DEF after, env
<1>6. \A k \in DOMAIN changes : W!Get(env, k) = changes[k]
    BY <1>3 DEF W!Get
<1>7. ASSUME NEW s \in W!Services, Known(s)
      PROVE  ~W!WrongTok(slop, env, s) /\ ~W!WrongUrl(slop, env, s)
    <2>1. W!Want(slop, s) # ""
        BY DEF Envs, slop
    <2>2. ~W!WrongTok(slop, env, s)
        <3>1. CASE W!Tok(s) \in DOMAIN changes
            BY <1>2, <1>6, <3>1 DEF W!WrongTok
        <3>2. CASE W!Tok(s) \notin DOMAIN changes
            <4>1. ~W!WrongTok(slop, ctl, s)
                BY <1>2, <1>7, <3>2
            <4>2. W!Get(env, W!Tok(s)) = W!Get(ctl, W!Tok(s))
                BY <1>4, <3>2
            <4>3. QED
                BY <4>1, <4>2 DEF W!WrongTok
        <3>3. QED
            BY <3>1, <3>2
    <2>3. ~W!WrongUrl(slop, env, s)
        <3>1. CASE W!Url(s) \in DOMAIN changes
            <4>1. W!Get(env, W!Url(s)) = W!Want(slop, s)
                BY <1>2, <1>6, <3>1
            <4>2. QED
                BY <2>1, <4>1 DEF W!WrongUrl
        <3>2. CASE W!Url(s) \notin DOMAIN changes
            <4>1. ~W!WrongUrl(slop, ctl, s)
                BY <1>2, <1>7, <3>2
            <4>2. W!Get(env, W!Url(s)) = W!Get(ctl, W!Url(s))
                BY <1>4, <3>2
            <4>3. QED
                BY <4>1, <4>2 DEF W!WrongUrl
        <3>3. QED
            BY <3>1, <3>2
    <2>4. QED
        BY <2>2, <2>3
<1>8. W!Plan(slop, env) = <<>>
    <2> DEFINE p == W!Plan(slop, env)
    <2>1. \A s \in W!Services : W!Url(s) \notin DOMAIN p /\ W!Tok(s) \notin DOMAIN p
        BY <1>7, PlanIs
    <2>2. \A k \in DOMAIN p : \E s \in W!Services : k = W!Url(s) \/ k = W!Tok(s)
        BY PlanIs
    <2>3. p = [k \in DOMAIN p |-> p[k]]
        BY DEF W!Plan
    <2> HIDE DEF p
    <2>4. DOMAIN p = {}
        BY <2>1, <2>2
    <2>5. p = <<>>
        BY <2>3, <2>4
    <2>6. QED
        BY <2>5 DEF p
<1>9. W!Wired(W!ComposeReads(slopFile), W!ComposeReads(after))
    <2>1. W!ComposeReads(slopFile) = slop /\ W!ComposeReads(after) = env
        BY DEF W!ComposeReads, W!ReadEnv, slop, env
    <2>2. \A s \in W!Services : Known(s) =>
            W!Get(env, W!Tok(s)) = W!Get(slop, W!Tok(s)) /\ ~W!WrongUrl(slop, env, s)
        BY <1>7 DEF W!WrongTok
    <2>3. QED
        BY <2>1, <2>2 DEF W!Wired
<1>10. ASSUME NEW k \in DOMAIN changes, k[2] = "url", k[1] = "flashback"
       PROVE  W!Get(ctl, k) = ""
    <2>1. PICK s \in W!Services : k = W!Url(s) /\ k[1] = s
        BY <1>2, <1>10
    <2>2. s = "flashback" /\ W!WrongUrl(slop, ctl, s)
        BY <1>2, <1>10, <2>1
    <2>3. QED
        BY <2>1, <2>2 DEF W!WrongUrl
<1>11. QED
    BY <1>3, <1>5, <1>8, <1>9, <1>10, WiringLists DEF W!Settles, slop, ctl, changes, after, env

\* However long the two files, whatever they hold and in whichever order, duplicates
\* and comments included: one run of the repair carries SLOP's settings over, leaves
\* the other lines and the chosen addresses alone, and a second has nothing to do
\* (read_env, plan and upsert in updater/backend/wiring.py).  That a service has an
\* address at all is asked of SLOP's file: one is made of any port.
THEOREM RepairSettlesForAll ==
    ASSUME asked.of = "wiring" => Envs(asked.slop, asked.ctl)
    PROVE  RepairSettles
BY OnceIsEnough DEF RepairSettles

-----------------------------------------------------------------------------
(* The activity feed *)

\* The feed names parts of a list as Lists does.
LEMMA FeedLists ==
    /\ \A s, P : A!At(s, P) = At(s, P)
    /\ \A f : A!Range(f) = {f[x] : x \in DOMAIN f}
    /\ \A S : A!Cardinality(S) = Cardinality(S)
    /\ \A s : A!Last(s) = s[Len(s)]
<1>1. \A S : A!Cardinality(S) = Cardinality(S)
    BY DEF A!Cardinality, Cardinality
<1>2. \A P, n : A!Nth(P, n) = Nth(P, n)
    BY <1>1 DEF A!Nth, Nth
<1>3. QED
    BY <1>1, <1>2 DEF A!At, At, A!Range, A!Last

\* A list of n events.
EventList(events, n) ==
    /\ n \in Nat /\ events = [i \in 1..n |-> events[i]]
    /\ \A i \in 1..n : /\ events[i].ts \in Int
                       /\ events[i].source \in A!Sources /\ events[i].routine \in BOOLEAN

\* The k-th of the events, as the page sorts them.
Place(events, k) ==
    CHOOSE i \in DOMAIN events :
      A!Cardinality({j \in DOMAIN events : A!Before(events, j, i)}) + 1 = k

\* Every event has its place, and the earlier of two places is the newer's.
LEMMA PlacesAre ==
    ASSUME NEW n, NEW events, EventList(events, n)
    PROVE  \E g \in [1..n -> 1..n] :
             /\ \A k \in 1..n : g[k] = Place(events, k)
             /\ \A k, l \in 1..n : k < l => A!Before(events, g[k], g[l])
             /\ \A i \in 1..n : \E k \in 1..n : g[k] = i
<1> DEFINE b4(j, i) == A!Before(events, j, i)
           place(i) == A!Cardinality({j \in DOMAIN events : A!Before(events, j, i)}) + 1
           prior(i) == {j \in 1..n : b4(j, i)}
           f == [i \in 1..n |-> Cardinality(prior(i)) + 1]
           g == [k \in 1..n |-> CHOOSE i \in DOMAIN events : place(i) = k]
<1>1. n \in Nat /\ DOMAIN events = 1..n /\ \A i \in 1..n : events[i].ts \in Int /\ i \in Int
    BY DEF EventList
<1>2. /\ \A i \in 1..n : ~b4(i, i)
      /\ \A i, j \in 1..n : i = j \/ b4(i, j) \/ b4(j, i)
      /\ \A i, j, k \in 1..n : b4(i, j) /\ b4(j, k) => b4(i, k)
    BY <1>1 DEF A!Before
<1> HIDE DEF b4
<1>3. \A i \in 1..n : prior(i) \in SUBSET (1..n) /\ i \in (1..n) \ prior(i)
    BY <1>2
<1>4. IsFiniteSet(1..n) /\ Cardinality(1..n) = n
    BY <1>1, FirstNumbers
<1>5. \A i \in 1..n : IsFiniteSet(prior(i)) /\ Cardinality(prior(i)) \in 0..(n - 1)
    <2> TAKE i \in 1..n
    <2>1. prior(i) \in SUBSET (1..n) /\ i \in (1..n) \ prior(i)
        BY <1>3
    <2> HIDE DEF prior
    <2>2. /\ IsFiniteSet(prior(i)) /\ Cardinality(prior(i)) <= n
          /\ n = Cardinality(prior(i)) => 1..n = prior(i)
        BY <1>4, <2>1, FS_Subset
    <2>3. Cardinality(prior(i)) \in Nat /\ Cardinality(prior(i)) # n
        BY <2>1, <2>2, FS_CardinalityType
    <2>4. QED
        BY <1>1, <2>2, <2>3
<1>6. ASSUME NEW i \in 1..n, NEW j \in 1..n, b4(i, j)
      PROVE  Cardinality(prior(i)) < Cardinality(prior(j))
    <2>1. prior(i) \in SUBSET prior(j) /\ i \in prior(j) /\ i \notin prior(i)
        BY <1>2, <1>6
    <2>2. /\ IsFiniteSet(prior(j)) /\ Cardinality(prior(i)) \in Int /\ Cardinality(prior(j)) \in Int
        BY <1>5
    <2> HIDE DEF prior
    <2>3. /\ Cardinality(prior(i)) <= Cardinality(prior(j))
          /\ Cardinality(prior(j)) = Cardinality(prior(i)) => prior(j) = prior(i)
        BY <2>1, <2>2, FS_Subset
    <2>4. QED
        BY <2>1, <2>2, <2>3
<1> HIDE DEF prior
<1>7. \A i, j \in 1..n : f[i] = f[j] => i = j
    <2> TAKE i \in 1..n, j \in 1..n
    <2>1. Cardinality(prior(i)) \in Int /\ Cardinality(prior(j)) \in Int
        BY <1>5
    <2>2. QED
        BY <1>2, <1>6, <2>1
<1>8. \A i \in 1..n : f[i] \in 1..n
    BY <1>1, <1>5
<1>9. f \in Injection(1..n, 1..n)
    BY <1>7, <1>8 DEF Injection, IsInjective
<1>10. f \in Surjection(1..n, 1..n)
    BY <1>4, <1>9, FS_Injection
<1>11. \A i \in 1..n : place(i) = f[i]
    <2> TAKE i \in 1..n
    <2>1. {j \in DOMAIN events : A!Before(events, j, i)} = prior(i)
        BY <1>1 DEF prior, b4
    <2>2. QED
        BY <2>1, FeedLists
<1> HIDE DEF f, place
<1>12. ASSUME NEW k \in 1..n
       PROVE  g[k] \in 1..n /\ f[g[k]] = k
    <2>1. PICK i \in 1..n : f[i] = k
        BY <1>10 DEF Surjection
    <2>2. \E j \in DOMAIN events : place(j) = k
        BY <1>1, <1>11, <2>1
    <2>3. g[k] \in DOMAIN events /\ place(g[k]) = k
        BY <2>2
    <2>4. QED
        BY <1>1, <1>11, <2>3
<1>13. g \in [1..n -> 1..n]
    BY <1>12
<1>14. ASSUME NEW k \in 1..n, NEW l \in 1..n, k < l
       PROVE  A!Before(events, g[k], g[l])
    <2> DEFINE a == g[k]
               b == g[l]
    <2>1. a \in 1..n /\ b \in 1..n /\ f[a] = k /\ f[b] = l
        BY <1>12
    <2> HIDE DEF a, b
    <2>2. f[a] \in Int /\ f[b] \in Int /\ a # b
        BY <1>1, <1>14, <2>1
    <2>3. ~b4(b, a)
        <3> SUFFICES ASSUME b4(b, a) PROVE FALSE
            OBVIOUS
        <3>1. Cardinality(prior(b)) < Cardinality(prior(a))
            BY <1>6, <2>1
        <3>2. Cardinality(prior(b)) + 1 = l /\ Cardinality(prior(a)) + 1 = k
            BY <2>1 DEF f
        <3>3. Cardinality(prior(b)) \in Int /\ Cardinality(prior(a)) \in Int
            BY <1>5, <2>1
        <3>4. QED
            BY <1>1, <1>14, <3>1, <3>2, <3>3
    <2>4. b4(a, b)
        BY <1>2, <2>1, <2>2, <2>3
    <2>5. QED
        BY <2>4 DEF b4, a, b
<1>15. \A i \in 1..n : \E k \in 1..n : g[k] = i
    <2> TAKE i \in 1..n
    <2>1. f[i] \in 1..n /\ g[f[i]] \in 1..n /\ f[g[f[i]]] = f[i]
        BY <1>8, <1>12
    <2>2. g[f[i]] = i
        BY <1>7, <2>1
    <2>3. QED
        BY <2>1, <2>2
<1> HIDE DEF g
<1>16. \A k \in 1..n : g[k] = Place(events, k)
    BY DEF g, place, Place
<1>17. QED
    BY <1>13, <1>14, <1>15, <1>16

\* What is shown: the first m places.
LEMMA NewestShown ==
    ASSUME NEW n, NEW events, EventList(events, n), NEW limit \in Nat \ {0}
    PROVE  LET m     == IF n < limit THEN n ELSE limit
               shown == A!Newest(events, limit)
           IN  EventList(shown, m) /\ A!ShowsTheNewest(events, shown, limit)
<1> DEFINE m == IF n < limit THEN n ELSE limit
           shown == A!Newest(events, limit)
<1>1. PICK g \in [1..n -> 1..n] :
        /\ \A k \in 1..n : g[k] = Place(events, k)
        /\ \A k, l \in 1..n : k < l => A!Before(events, g[k], g[l])
        /\ \A i \in 1..n : \E k \in 1..n : g[k] = i
    BY PlacesAre
<1>2. /\ n \in Nat /\ DOMAIN events = 1..n /\ Len(events) = n
      /\ \A i \in 1..n : events[i].ts \in Int /\ i \in Int
      /\ \A i \in 1..n : events[i].source \in A!Sources /\ events[i].routine \in BOOLEAN
    BY DEF EventList
<1>3. m \in Nat /\ m <= n /\ 1..m \subseteq 1..n /\ m <= limit /\ (m < limit => m = n)
    BY <1>2
<1>m. m = (IF Len(events) < limit THEN Len(events) ELSE limit)
    BY <1>2
<1> HIDE DEF m
<1>4. shown = [k \in 1..m |-> events[g[k]]]
    <2>1. \A k \in 1..m : g[k] = Place(events, k)
        BY <1>1, <1>3
    <2>2. shown = [k \in 1..m |-> events[Place(events, k)]]
        BY <1>m DEF A!Newest, Place
    <2> HIDE DEF shown
    <2>3. QED
        BY <2>1, <2>2
<1> HIDE DEF shown
<1>5. DOMAIN shown = 1..m /\ Len(shown) = m /\ \A k \in 1..m : shown[k] = events[g[k]]
    BY <1>3, <1>4
<1>6. \A k \in 1..m : g[k] \in 1..n /\ k \in 1..n /\ k \in Int
    BY <1>2, <1>3
<1>7. EventList(shown, m)
    BY <1>2, <1>3, <1>4, <1>6 DEF EventList
<1>8. \A k, l \in 1..n : k < l => events[g[k]].ts >= events[g[l]].ts
    <2> TAKE k \in 1..n, l \in 1..n
    <2>1. g[k] \in 1..n /\ g[l] \in 1..n
        OBVIOUS
    <2>2. events[g[k]].ts \in Int /\ events[g[l]].ts \in Int
        BY <1>2, <2>1
    <2>3. k < l => A!Before(events, g[k], g[l])
        BY <1>1
    <2>4. QED
        BY <2>2, <2>3 DEF A!Before
<1>9. \A k, l \in 1..n : g[k] = g[l] => k = l
    <2> TAKE k \in 1..n, l \in 1..n
    <2>1. g[k] \in 1..n
        OBVIOUS
    <2>2. ~A!Before(events, g[k], g[k])
        BY <1>2, <2>1 DEF A!Before
    <2>3. g[k] = g[l] => ~(k < l) /\ ~(l < k)
        BY <1>1, <2>2
    <2>4. QED
        BY <1>2, <2>3
<1> DEFINE K(t) == {k \in 1..m : events[g[k]].ts = t}
           I(t) == {i \in 1..n : events[i].ts = t}
<1>10. \A t : A!CountAt(shown, t) = Cardinality(K(t)) /\ A!CountAt(events, t) = Cardinality(I(t))
    <2> TAKE t
    <2>1. {i \in DOMAIN shown : shown[i].ts = t} = K(t)
        BY <1>5
    <2>2. {i \in DOMAIN events : events[i].ts = t} = I(t)
        BY <1>2
    <2>3. QED
        BY <2>1, <2>2, FeedLists DEF A!CountAt
<1>11. \A t : IsFiniteSet(K(t)) /\ IsFiniteSet(I(t))
    <2> TAKE t
    <2>1. K(t) \in SUBSET (1..m) /\ I(t) \in SUBSET (1..n)
        OBVIOUS
    <2>2. IsFiniteSet(1..m) /\ IsFiniteSet(1..n)
        BY <1>2, <1>3, FirstNumbers
    <2> HIDE DEF K, I
    <2>3. QED
        BY <2>1, <2>2, FS_Subset
<1>12. \A t : [k \in K(t) |-> g[k]] \in Injection(K(t), I(t))
    <2> TAKE t
    <2>1. \A k \in K(t) : g[k] \in I(t)
        BY <1>6
    <2>2. \A k, l \in K(t) : g[k] = g[l] => k = l
        BY <1>6, <1>9
    <2> HIDE DEF K, I
    <2>3. QED
        BY <2>1, <2>2 DEF Injection, IsInjective
<1>13. \A t : A!CountAt(shown, t) <= A!CountAt(events, t)
    <2> TAKE t
    <2>1. [k \in K(t) |-> g[k]] \in Injection(K(t), I(t)) /\ IsFiniteSet(I(t))
        BY <1>11, <1>12
    <2>2. A!CountAt(shown, t) = Cardinality(K(t)) /\ A!CountAt(events, t) = Cardinality(I(t))
        BY <1>10
    <2> HIDE DEF K, I
    <2>3. QED
        BY <2>1, <2>2, FS_Injection
<1>14. ASSUME shown # <<>>, NEW t \in Int, t > A!Last(shown).ts
       PROVE  A!CountAt(shown, t) = A!CountAt(events, t)
    <2>1. m # 0 /\ m \in 1..m
        <3>1. m # 0
            BY <1>4, <1>14
        <3>2. QED
            BY <1>3, <3>1
    <2>2. A!Last(shown) = events[g[m]]
        BY <1>5, <2>1, FeedLists
    <2>3. \A i \in I(t) : \E k \in K(t) : g[k] = i
        <3> TAKE i \in I(t)
        <3>1. PICK k \in 1..n : g[k] = i
            BY <1>1
        <3>2. m \in 1..n /\ events[g[m]].ts \in Int /\ t > events[g[m]].ts
            BY <1>2, <1>6, <1>14, <2>1, <2>2
        <3>3. ~(m < k)
            BY <1>8, <1>14, <3>1, <3>2
        <3>4. k \in 1..m
            BY <1>2, <1>3, <3>3
        <3>5. QED
            BY <3>1, <3>4
    <2>4. [k \in K(t) |-> g[k]] \in Injection(K(t), I(t)) /\ IsFiniteSet(K(t))
        BY <1>11, <1>12
    <2>5. A!CountAt(shown, t) = Cardinality(K(t)) /\ A!CountAt(events, t) = Cardinality(I(t))
        BY <1>10
    <2> HIDE DEF K, I
    <2>6. [k \in K(t) |-> g[k]] \in Bijection(K(t), I(t))
        BY <2>3, <2>4 DEF Bijection, Surjection, Injection
    <2>7. ExistsBijection(K(t), I(t))
        BY <2>6 DEF ExistsBijection
    <2>8. Cardinality(I(t)) = Cardinality(K(t))
        BY <2>4, <2>7, FS_Bijection
    <2>9. QED
        BY <2>5, <2>8
<1>15. \A i, j \in DOMAIN shown : i < j => shown[i].ts >= shown[j].ts
    BY <1>5, <1>6, <1>8
<1>16. \A e \in A!Range(events) : e.ts \in Int
    BY <1>2, FeedLists
<1>17. shown # <<>> =>
         /\ \A e \in A!Range(events) :
              e.ts > A!Last(shown).ts => A!CountAt(shown, e.ts) = A!CountAt(events, e.ts)
         /\ \A e \in A!Range(shown) : A!CountAt(shown, e.ts) <= A!CountAt(events, e.ts)
    BY <1>13, <1>14, <1>16
<1>18. A!ShowsTheNewest(events, shown, limit)
    BY <1>5, <1>m, <1>15, <1>17 DEF A!ShowsTheNewest
<1>19. QED
    BY <1>7, <1>18 DEF m, shown

\* The chips count what the table shows.
LEMMA ChipsCount ==
    ASSUME NEW n, NEW events, EventList(events, n), NEW routine \in BOOLEAN
    PROVE  A!ChipsAddUp(events, routine)
<1> DEFINE P == {i \in DOMAIN events : routine \/ ~events[i].routine}
           kept == A!Kept(events, routine)
           c == Cardinality(P)
           Of(chip) == {i \in DOMAIN kept : kept[i].source = chip}
           On(chip) == {i \in DOMAIN kept : chip \in {"all", kept[i].source}}
<1>1. /\ n \in Nat /\ DOMAIN events = 1..n
      /\ \A i \in 1..n : events[i].source \in A!Sources
    BY DEF EventList
<1>2. P \in SUBSET (1..n)
    BY <1>1
<1>3. kept = At(events, P)
    BY FeedLists DEF A!Kept
<1> HIDE DEF P, kept, c
<1>4. /\ c \in Nat /\ DOMAIN kept = 1..c /\ Len(kept) = c
      /\ \A k \in 1..c : Nth(P, k) \in P /\ kept[k] = events[Nth(P, k)]
    BY <1>1, <1>2, <1>3, AtIs DEF c
<1>5. \A k \in 1..c : kept[k].source \in {"user", "api", "automation"}
    <2> TAKE k \in 1..c
    <2>1. Nth(P, k) \in 1..n /\ kept[k] = events[Nth(P, k)]
        BY <1>2, <1>4
    <2>2. QED
        BY <1>1, <2>1 DEF A!Sources
<1>6. IsFiniteSet(1..c) /\ Cardinality(1..c) = c
    BY <1>4, FirstNumbers
<1>7. \A chip : IsFiniteSet(Of(chip)) /\ IsFiniteSet(On(chip)) /\ On(chip) \in SUBSET (1..c)
    <2> TAKE chip
    <2>1. Of(chip) \in SUBSET (1..c) /\ On(chip) \in SUBSET (1..c)
        BY <1>4
    <2> HIDE DEF Of, On
    <2>2. QED
        BY <1>6, <2>1, FS_Subset
<1>8. c = Cardinality(Of("user")) + Cardinality(Of("api")) + Cardinality(Of("automation"))
    <2> DEFINE two == Of("user") \cup Of("api")
    <2>1. Of("user") \cap Of("api") = {} /\ two \cap Of("automation") = {}
        OBVIOUS
    <2>2. two \cup Of("automation") = 1..c
        BY <1>4, <1>5
    <2> HIDE DEF Of
    <2>3. IsFiniteSet(two) /\ Cardinality(two) = Cardinality(Of("user")) + Cardinality(Of("api"))
        BY <1>7, <2>1, Disjoint
    <2> HIDE DEF two
    <2>4. Cardinality(two \cup Of("automation")) = Cardinality(two) + Cardinality(Of("automation"))
        BY <1>7, <2>1, <2>3, Disjoint
    <2>5. QED
        BY <1>6, <2>2, <2>3, <2>4
<1>9. \A chip : chip # "all" => A!ChipCount(kept, chip) = Cardinality(Of(chip)) /\ On(chip) = Of(chip)
    BY FeedLists DEF A!ChipCount
<1>10. A!ChipCount(kept, "all") = c /\ On("all") = 1..c
    BY <1>4 DEF A!ChipCount
<1>11. \A chip : Len(A!Table(events, routine, chip)) = Cardinality(On(chip))
    <2> TAKE chip
    <2>1. A!Table(events, routine, chip) = At(kept, On(chip))
        BY FeedLists DEF A!Table, kept
    <2>2. On(chip) \in SUBSET (1..c)
        BY <1>7
    <2> HIDE DEF On
    <2>3. QED
        BY <1>4, <2>1, <2>2, AtIs
<1> HIDE DEF Of, On
<1>12. \A chip : Len(A!Table(events, routine, chip)) = A!ChipCount(kept, chip)
    BY <1>6, <1>9, <1>10, <1>11
<1>13. /\ A!ChipCount(kept, "all") =
            A!ChipCount(kept, "user") + A!ChipCount(kept, "api") + A!ChipCount(kept, "automation")
       /\ \A chip \in A!Sources \cup {"all"} :
            Len(A!Table(events, routine, chip)) = A!ChipCount(kept, chip)
    BY <1>8, <1>9, <1>10, <1>12
<1>14. QED
    BY <1>13 DEF A!ChipsAddUp, kept

\* What was typed leaves a list of events.
LEMMA MatchedIs ==
    ASSUME NEW n, NEW events, EventList(events, n), NEW hits
    PROVE  \E m : EventList(A!Matched(events, hits), m)
<1> DEFINE P == hits \cap DOMAIN events
           c == Cardinality(P)
           matched == A!Matched(events, hits)
<1>1. n \in Nat /\ DOMAIN events = 1..n
    BY DEF EventList
<1>2. P \in SUBSET (1..n)
    BY <1>1
<1>3. matched = At(events, P)
    BY FeedLists DEF A!Matched
<1> HIDE DEF P, c, matched
<1>4. /\ c \in Nat /\ matched = [k \in 1..c |-> events[Nth(P, k)]]
      /\ \A k \in 1..c : Nth(P, k) \in 1..n /\ matched[k] = events[Nth(P, k)]
    BY <1>1, <1>2, <1>3, AtIs DEF c
<1>5. \A k \in 1..c : /\ matched[k].ts \in Int /\ matched[k].source \in A!Sources
                       /\ matched[k].routine \in BOOLEAN
    BY <1>4 DEF EventList
<1>6. matched = [k \in 1..c |-> matched[k]]
    BY <1>4
<1>7. QED
    BY <1>4, <1>5, <1>6 DEF EventList, matched

\* Nothing is found in an empty list, so that its sentence is of the errors.
LEMMA EmptyIsOfErrors ==
    ASSUME NEW feed, feed.events = <<>>, NEW hits, NEW routine
    PROVE  A!WhyEmpty(feed, hits, routine) = "could not read" <=> feed.errors # {}
<1>1. At(<<>>, {}) = <<>>
    BY FS_EmptySet DEF At
<1>2. A!Matched(feed.events, hits) = <<>>
    <2>1. hits \cap DOMAIN (<<>>) = {}
        BY NoFleet
    <2>2. QED
        BY <1>1, <2>1, FeedLists DEF A!Matched
<1>3. A!Kept(<<>>, routine) = <<>>
    <2>1. {i \in DOMAIN (<<>>) : routine \/ ~(<<>>)[i].routine} = {}
        BY NoFleet
    <2>2. QED
        BY <1>1, <2>1, FeedLists DEF A!Kept
<1>4. QED
    BY <1>2, <1>3 DEF A!WhyEmpty

\* The rows of a trail, n of them; and Baseline's runs.
RowList(rows, n) ==
    /\ n \in Nat /\ rows = [i \in 1..n |-> rows[i]]
    /\ \A i \in 1..n : rows[i].ts \in Int /\ rows[i].service \in BOOLEAN /\ rows[i].sweep \in BOOLEAN

RunList(runs, n) ==
    /\ n \in Nat /\ runs = [i \in 1..n |-> runs[i]]
    /\ \A i \in 1..n : runs[i].started \in Int /\ runs[i].preview \in BOOLEAN /\ runs[i].failed \in Nat

LEMMA EventsAre ==
    ASSUME NEW rows, NEW n, RowList(rows, n)
    PROVE  \A told : EventList(A!Events(rows, told), n)
<1>1. n \in Nat /\ DOMAIN rows = 1..n
    BY DEF RowList
<1> TAKE told
<1> DEFINE e(i) == A!Event(rows[i], IF told THEN rows[i].source ELSE None)
<1>2. A!Events(rows, told) = [i \in 1..n |-> e(i)]
    BY <1>1 DEF A!Events
<1>3. \A i \in 1..n : e(i).ts \in Int /\ e(i).source \in A!Sources /\ e(i).routine \in BOOLEAN
    <2> TAKE i \in 1..n
    <2>1. rows[i].ts \in Int /\ rows[i].service \in BOOLEAN /\ rows[i].sweep \in BOOLEAN
        BY DEF RowList
    <2>2. \A given : A!SourceFor(rows[i], given) \in A!Sources
        BY DEF A!SourceFor, A!Sources
    <2>3. QED
        BY <2>1, <2>2 DEF A!Event
<1> HIDE DEF e
<1>4. QED
    BY <1>1, <1>2, <1>3 DEF EventList

LEMMA RunsAre ==
    ASSUME NEW runs, NEW n, RunList(runs, n)
    PROVE  /\ EventList(A!BaselineEvents(runs), n)
           /\ \A i \in 1..n : A!BaselineEvents(runs)[i].action = A!BaselineWord(runs[i])
<1> DEFINE row(i) == [ts |-> runs[i].started, service |-> TRUE, sweep |-> FALSE]
           word(i) == [action |-> A!BaselineWord(runs[i])]
           e(i) == Joined(A!Event(row(i), None), word(i))
<1>1. n \in Nat /\ DOMAIN runs = 1..n /\ \A i \in 1..n : runs[i].started \in Int
    BY DEF RunList
<1>2. \A f, g : A!Joined(f, g) = Joined(f, g)
    BY DEF A!Joined, Joined
<1>3. A!BaselineEvents(runs) = [i \in 1..n |-> e(i)]
    BY <1>1, <1>2 DEF A!BaselineEvents
<1>4. \A i \in 1..n : /\ e(i).ts \in Int /\ e(i).source \in A!Sources /\ e(i).routine \in BOOLEAN
                      /\ e(i).action = A!BaselineWord(runs[i])
    <2> TAKE i \in 1..n
    <2> DEFINE ev == A!Event(row(i), None)
    <2>1. A!SourceFor(row(i), None) \in A!Sources
        BY DEF A!SourceFor, A!Sources
    <2>2. /\ DOMAIN ev = {"ts", "source", "routine"} /\ ev.ts = runs[i].started
          /\ ev.source = A!SourceFor(row(i), None) /\ ev.routine \in BOOLEAN
        BY DEF A!Event
    <2> HIDE DEF ev
    <2>3. /\ e(i).ts = ev.ts /\ e(i).source = ev.source /\ e(i).routine = ev.routine
          /\ e(i).action = A!BaselineWord(runs[i])
        BY <2>2 DEF Joined, ev
    <2>4. QED
        BY <1>1, <2>1, <2>2, <2>3
<1> HIDE DEF e
<1>5. QED
    BY <1>1, <1>3, <1>4 DEF EventList

\* One trail after another.
LEMMA TwoTrails ==
    ASSUME NEW m, NEW n, NEW x, NEW y, EventList(x, m), EventList(y, n)
    PROVE  EventList(x \o y, m + n) /\ Len(x \o y) = m + n
<1>1. m \in Nat /\ n \in Nat /\ x = [i \in 1..m |-> x[i]] /\ y = [i \in 1..n |-> y[i]]
    BY DEF EventList
<1>2. /\ x \o y = [i \in 1..(m + n) |-> IF i <= m THEN x[i] ELSE y[i - m]]
      /\ Len(x \o y) = m + n
      /\ \A i \in 1..(m + n) : i \in 1..m \/ i - m \in 1..n
    BY <1>1, CatIs
<1> DEFINE z == x \o y
           Good(e) == e.ts \in Int /\ e.source \in A!Sources /\ e.routine \in BOOLEAN
<1>3. \A i \in 1..m : Good(x[i])
    BY DEF EventList
<1>4. \A i \in 1..n : Good(y[i])
    BY DEF EventList
<1> HIDE DEF Good, z
<1>5. \A i \in 1..(m + n) : Good(z[i])
    <2> TAKE i \in 1..(m + n)
    <2>1. z[i] = IF i <= m THEN x[i] ELSE y[i - m]
        BY <1>2 DEF z
    <2>2. i <= m => i \in 1..m
        BY <1>1
    <2>3. ~(i <= m) => i - m \in 1..n
        BY <1>1
    <2>4. QED
        BY <1>3, <1>4, <2>1, <2>2, <2>3
<1>6. m + n \in Nat /\ z = [i \in 1..(m + n) |-> z[i]]
    BY <1>1, <1>2 DEF z
<1>7. QED
    BY <1>2, <1>5, <1>6 DEF EventList, z, Good

\* The head of a list.
LEMMA HeadIs ==
    ASSUME NEW m \in Nat, NEW s, s = [i \in 1..m |-> s[i]], NEW k \in 0..m
    PROVE  SubSeq(s, 1, k) = [i \in 1..k |-> s[i]]
<1> DEFINE S == {s[i] : i \in 1..m}
<1>1. s \in [1..m -> S]
    BY Zenon
<1> HIDE DEF S
<1>2. s \in Seq(S)
    BY <1>1
<1>3. QED
    BY <1>2

LEMMA HeadOfRows ==
    ASSUME NEW m, NEW rows, RowList(rows, m), NEW k \in Nat
    PROVE  LET head == SubSeq(rows, 1, IF Len(rows) < k THEN Len(rows) ELSE k)
               n    == IF m < k THEN m ELSE k
           IN  RowList(head, n) /\ Len(head) = n /\ Len(rows) = m
<1> DEFINE n == IF m < k THEN m ELSE k
<1>1. m \in Nat /\ rows = [i \in 1..m |-> rows[i]]
    BY DEF RowList
<1>2. Len(rows) = m
    BY <1>1
<1>3. n \in 0..m /\ n \in Nat /\ (IF Len(rows) < k THEN Len(rows) ELSE k) = n
    BY <1>1, <1>2
<1> HIDE DEF n
<1>4. SubSeq(rows, 1, n) = [i \in 1..n |-> rows[i]]
    BY <1>1, <1>3, HeadIs
<1> DEFINE head == SubSeq(rows, 1, n)
<1>5. head = [i \in 1..n |-> head[i]] /\ Len(head) = n /\ \A i \in 1..n : head[i] = rows[i] /\ i \in 1..m
    BY <1>1, <1>3, <1>4
<1> HIDE DEF head
<1>6. RowList(head, n)
    BY <1>3, <1>5 DEF RowList
<1>7. QED
    BY <1>2, <1>3, <1>5, <1>6 DEF head, n

\* A trail and how the request for it ended.
IsReading(reading) == reading.result \in A!Results /\ \E n : RowList(reading.rows, n)

\* Nothing is made of a request that failed but its name.
LEMMA GetIs ==
    ASSUME NEW reading, IsReading(reading)
    PROVE  LET got == A!Get(reading)
           IN  /\ \E n : RowList(got.rows, n) /\ n = Len(got.rows)
               /\ reading.result = "ok" => got.rows = reading.rows /\ got.err = None
               /\ reading.result # "ok" => got.err = reading.result /\ got.err # None
<1>1. reading.result # None
    BY NoneAssumption DEF IsReading
<1>2. RowList(<<>>, 0) /\ Len(<<>>) = 0
    BY DEF RowList
<1>3. PICK n : RowList(reading.rows, n)
    BY DEF IsReading
<1>4. Len(reading.rows) = n
    <2>1. n \in Nat /\ reading.rows = [i \in 1..n |-> reading.rows[i]]
        BY <1>3 DEF RowList
    <2>2. QED
        BY <2>1
<1>5. QED
    BY <1>1, <1>2, <1>3, <1>4 DEF A!Get

\* What SLEP has, and what it is asked.
IsSlep(slep) ==
    /\ IsReading(slep) /\ slep.age \in {"old", "new"} /\ slep.most \in Nat \ {0}

LEMMA SlepIs ==
    ASSUME NEW slep, IsSlep(slep), NEW audit, IsReading(audit), NEW limit \in Nat \ {0}
    PROVE  /\ \E n : EventList(A!Slep(slep, audit, limit).events, n)
           /\ A!NothingCutInSilence(slep, audit, limit)
           /\ slep.result # "ok" => <<"runs", slep.result>> \in A!Slep(slep, audit, limit).errors
           /\ slep.result = "ok" => A!Slep(slep, audit, limit).errors = {}
           /\ audit.result # "ok" => <<"audit", audit.result>> \in A!Slep(slep, audit, limit).notes
<1> DEFINE reply == A!SlepServes(slep, limit)
           asking == [result |-> slep.result, rows |-> reply.rows]
           runs  == A!Get(asking)
           shown == SubSeq(runs.rows, 1, IF Len(runs.rows) < limit THEN Len(runs.rows) ELSE limit)
           trail == A!Get(audit)
           feed  == A!Slep(slep, audit, limit)
           most  == IF slep.age = "old" THEN OldCap
                    ELSE IF limit < slep.most THEN limit ELSE slep.most
<1>1. most \in Nat \ {0} /\ limit \in Nat /\ OldCap \in Nat
    BY DecisionsAssumption DEF IsSlep
<1>2. PICK m : RowList(slep.rows, m)
    BY DEF IsSlep, IsReading
<1> HIDE DEF most
<1>3. /\ reply.rows = SubSeq(slep.rows, 1, IF Len(slep.rows) < most THEN Len(slep.rows) ELSE most)
      /\ reply.served = IF slep.age = "old" THEN None ELSE most
    BY DEF A!SlepServes, most, IsSlep
<1> DEFINE r == IF m < most THEN m ELSE most
<1> DEFINE have == slep.rows
           head == SubSeq(have, 1, IF Len(have) < most THEN Len(have) ELSE most)
<1>4. RowList(reply.rows, r) /\ Len(reply.rows) = r /\ Len(slep.rows) = m
    <2>1. reply.rows = head /\ RowList(have, m) /\ most \in Nat
        BY <1>1, <1>2, <1>3
    <2> HIDE DEF reply, have
    <2>2. RowList(head, r) /\ Len(head) = r /\ Len(have) = m
        BY <2>1, HeadOfRows
    <2>3. QED
        BY <2>1, <2>2 DEF have
<1> HIDE DEF reply
<1>5. IsReading(asking)
    BY <1>4 DEF IsReading, IsSlep
<1>6. /\ \E n : RowList(runs.rows, n) /\ n = Len(runs.rows)
      /\ slep.result = "ok" => runs.rows = reply.rows /\ runs.err = None
      /\ slep.result # "ok" => runs.err = slep.result /\ runs.err # None
    <2>1. asking.result = slep.result /\ asking.rows = reply.rows
        OBVIOUS
    <2> HIDE DEF asking
    <2>2. QED
        BY <1>5, <2>1, GetIs
<1>7. /\ \E n : RowList(trail.rows, n) /\ n = Len(trail.rows)
      /\ audit.result # "ok" => trail.err = audit.result /\ trail.err # None
    BY GetIs
<1>8. feed = A!Feed(A!Events(shown, FALSE) \o A!Events(trail.rows, FALSE), A!Said("runs", runs.err),
                    A!Said("audit", trail.err)
                      \cup IF runs.err = None /\ A!Truncated(runs.rows, reply.served, limit)
                           THEN {<<"runs", "truncated">>} ELSE {})
    BY DEF A!Slep, reply
<1> HIDE DEF runs, trail, feed
<1>9. PICK n : RowList(runs.rows, n) /\ n = Len(runs.rows)
    BY <1>6
<1> DEFINE k == IF n < limit THEN n ELSE limit
<1>10. RowList(shown, k) /\ Len(shown) = k
    BY <1>1, <1>9, HeadOfRows
<1>11. PICK l : RowList(trail.rows, l) /\ l = Len(trail.rows)
    BY <1>7
<1> HIDE DEF shown
<1>12. EventList(A!Events(shown, FALSE), k) /\ EventList(A!Events(trail.rows, FALSE), l)
    BY <1>10, <1>11, EventsAre
<1>13. EventList(feed.events, k + l) /\ Len(feed.events) = k + l
    <2>1. feed.events = A!Events(shown, FALSE) \o A!Events(trail.rows, FALSE)
        BY <1>8 DEF A!Feed
    <2> DEFINE x == A!Events(shown, FALSE)
               y == A!Events(trail.rows, FALSE)
    <2>2. EventList(x, k) /\ EventList(y, l) /\ feed.events = x \o y
        BY <1>12, <2>1
    <2> HIDE DEF k, x, y
    <2>3. QED
        BY <2>2, TwoTrails
<1>14. A!NothingCutInSilence(slep, audit, limit)
    <2> DEFINE asked0 == IF Len(slep.rows) < limit THEN Len(slep.rows) ELSE limit
    <2> SUFFICES ASSUME slep.result = "ok", Len(feed.events) - Len(trail.rows) < asked0
                 PROVE  <<"runs", "truncated">> \in feed.notes
        BY DEF A!NothingCutInSilence, feed, trail
    <2>1. k \in Nat /\ l \in Nat /\ m \in Nat /\ n \in Nat
        BY <1>1, <1>2, <1>9, <1>11 DEF RowList
    <2>2. n = r /\ runs.err = None /\ Len(runs.rows) = r
        BY <1>4, <1>6, <1>9
    <2>3. k < asked0
        BY <1>11, <1>13, <2>1
    <2>4. n = most /\ most < limit
        BY <1>1, <1>4, <2>1, <2>2, <2>3
    <2>5. A!Truncated(runs.rows, reply.served, limit)
        <3>1. CASE slep.age = "old"
            BY <1>1, <1>3, <2>2, <2>4, <3>1 DEF A!Truncated, most
        <3>2. CASE slep.age # "old"
            <4>1. reply.served = most /\ most # None
                BY <1>1, <1>3, <3>2, NoneAssumption
            <4>2. QED
                BY <1>1, <2>2, <2>4, <4>1 DEF A!Truncated
        <3>3. QED
            BY <3>1, <3>2
    <2>6. QED
        BY <1>8, <2>2, <2>5 DEF A!Feed
<1>15. /\ slep.result # "ok" => <<"runs", slep.result>> \in feed.errors
       /\ slep.result = "ok" => feed.errors = {}
    BY <1>6, <1>8 DEF A!Feed, A!Said
<1>16. audit.result # "ok" => <<"audit", audit.result>> \in feed.notes
    BY <1>7, <1>8 DEF A!Feed, A!Said
<1>17. QED
    BY <1>13, <1>14, <1>15, <1>16 DEF feed

\* What the page may be asked: a trail of any length from each application, or none.
Served(q) ==
    /\ q.app \in A!Apps /\ q.limit \in 1..MaxLimit /\ q.routine \in BOOLEAN
    /\ IsReading(q.second) /\ IsSlep(q.slep)
    /\ IF q.app = "baseline" THEN q.first.result \in A!Results /\ \E n : RunList(q.first.rows, n)
       ELSE IsReading(q.first)

LEMMA FeedIs ==
    ASSUME NEW q, Served(q)
    PROVE  LET all == FeedOf(q)
           IN  /\ all = A!Feed(all.events, all.errors, all.notes)
               /\ \E n : EventList(all.events, n)
<1>s. q.app \in {"controller", "slep", "connect", "flashback", "baseline"}
    BY DEF Served, A!Apps
<1> DEFINE one == A!Get(q.first).rows
           two == A!Get(q.second).rows
<1>1. \E n : RowList(two, n)
    BY GetIs DEF Served
<1>2. q.app # "baseline" => \E n : RowList(one, n)
    BY GetIs DEF Served
<1>3. q.app = "baseline" => \E n : RunList(one, n)
    <2>1. RunList(<<>>, 0)
        BY DEF RunList
    <2>2. QED
        BY <2>1 DEF Served, A!Get
<1> HIDE DEF one, two
<1>4. CASE q.app = "controller"
    <2>1. PICK m : RowList(one, m)
        BY <1>2, <1>4
    <2>2. PICK n : RowList(two, n)
        BY <1>1
    <2>3. EventList(A!Events(one, TRUE) \o A!Events(two, FALSE), m + n)
        BY <2>1, <2>2, EventsAre, TwoTrails
    <2>4. QED
        BY <1>4, <2>3 DEF FeedOf, A!Controller, A!Feed, one, two
<1>5. CASE q.app = "slep"
    <2>1. q.limit \in Nat \ {0} /\ IsSlep(q.slep) /\ IsReading(q.second)
        BY DecisionsAssumption DEF Served
    <2>2. \E n : EventList(A!Slep(q.slep, q.second, q.limit).events, n)
        BY <2>1, SlepIs
    <2>3. FeedOf(q) = A!Slep(q.slep, q.second, q.limit)
        BY <1>5 DEF FeedOf
    <2>4. LET all == A!Slep(q.slep, q.second, q.limit)
          IN  all = A!Feed(all.events, all.errors, all.notes)
        BY DEF A!Slep, A!Feed
    <2>5. QED
        BY <2>2, <2>3, <2>4
<1>6. CASE q.app \in {"connect", "flashback"}
    <2>1. PICK n : EventList(A!Events(one, FALSE), n)
        BY <1>2, <1>6, EventsAre
    <2>2. QED
        BY <1>6, <2>1 DEF FeedOf, A!Connect, A!Flashback, A!Feed, one
<1>7. CASE q.app = "baseline"
    <2>1. PICK n : EventList(A!BaselineEvents(one), n)
        BY <1>3, <1>7, RunsAre
    <2>2. QED
        BY <1>7, <2>1 DEF FeedOf, A!Baseline, A!Feed, one
<1>8. QED
    BY <1>s, <1>4, <1>5, <1>6, <1>7

LEMMA FailuresTold ==
    ASSUME NEW q, Served(q)
    PROVE  A!FailuresAreNamed(FeedOf(q), ReadingsOf(q))
<1>s. q.app \in {"controller", "slep", "connect", "flashback", "baseline"}
    BY DEF Served, A!Apps
<1>1. \A r \in {q.first, q.second} :
        r.result # "ok" => A!Get(r).err = r.result /\ A!Get(r).err # None
    BY NoneAssumption DEF Served, IsReading, A!Get
<1> DEFINE e1 == A!Get(q.first).err
           e2 == A!Get(q.second).err
           feed == FeedOf(q)
           readings == ReadingsOf(q)
<1>2. /\ q.first.result # "ok" => \A w : <<w, q.first.result>> \in A!Said(w, e1)
      /\ q.second.result # "ok" => \A w : <<w, q.second.result>> \in A!Said(w, e2)
    BY <1>1 DEF A!Said
<1> HIDE DEF e1, e2
<1>3. CASE q.app = "controller"
    <2>1. /\ feed.errors = A!Said("activity", e1)
          /\ feed.notes = A!Said("admin audit-log", e2)
        BY <1>3 DEF FeedOf, A!Controller, A!Feed, e1, e2
    <2>2. /\ DOMAIN readings = {"activity", "admin audit-log"}
          /\ readings["activity"] = q.first /\ readings["admin audit-log"] = q.second
        BY <1>3 DEF ReadingsOf
    <2> HIDE DEF feed, readings
    <2>3. A!FailuresAreNamed(feed, readings)
        BY <1>2, <2>1, <2>2 DEF A!FailuresAreNamed
    <2>4. QED
        BY <2>3 DEF feed, readings
<1>4. CASE q.app = "slep"
    <2>1. q.limit \in Nat \ {0} /\ IsSlep(q.slep) /\ IsReading(q.second)
        BY DecisionsAssumption DEF Served
    <2>2. feed = A!Slep(q.slep, q.second, q.limit)
        BY <1>4 DEF FeedOf
    <2>3. /\ DOMAIN readings = {"runs", "audit"}
          /\ readings["runs"] = q.slep /\ readings["audit"] = q.second
        BY <1>4 DEF ReadingsOf
    <2> HIDE DEF feed, readings
    <2>4. /\ q.slep.result # "ok" => <<"runs", q.slep.result>> \in feed.errors
          /\ q.second.result # "ok" => <<"audit", q.second.result>> \in feed.notes
        BY <2>1, <2>2, SlepIs
    <2>5. A!FailuresAreNamed(feed, readings)
        BY <2>3, <2>4 DEF A!FailuresAreNamed
    <2>6. QED
        BY <2>5 DEF feed, readings
<1>5. CASE q.app \in {"connect", "flashback"}
    <2>1. feed.errors \cup feed.notes = A!Said("audit", e1)
        BY <1>5 DEF FeedOf, A!Connect, A!Flashback, A!Feed, e1
    <2>2. DOMAIN readings = {"audit"} /\ readings["audit"] = q.first
        BY <1>5 DEF ReadingsOf
    <2> HIDE DEF feed, readings
    <2>3. A!FailuresAreNamed(feed, readings)
        BY <1>2, <2>1, <2>2 DEF A!FailuresAreNamed
    <2>4. QED
        BY <2>3 DEF feed, readings
<1>6. CASE q.app = "baseline"
    <2>1. feed.errors = A!Said("runs", e1)
        BY <1>6 DEF FeedOf, A!Baseline, A!Feed, e1
    <2>2. DOMAIN readings = {"runs"} /\ readings["runs"] = q.first
        BY <1>6 DEF ReadingsOf
    <2> HIDE DEF feed, readings
    <2>3. A!FailuresAreNamed(feed, readings)
        BY <1>2, <2>1, <2>2 DEF A!FailuresAreNamed
    <2>4. QED
        BY <2>3 DEF feed, readings
<1>7. QED
    BY <1>s, <1>3, <1>4, <1>5, <1>6

\* There is an error exactly when the main reading failed, Connect's apart.
LEMMA ErrorsAreOfMain ==
    ASSUME NEW q, Served(q)
    PROVE  FeedOf(q).errors # {} <=> q.app # "connect" /\ Main(q).result # "ok"
<1>s. q.app \in {"controller", "slep", "connect", "flashback", "baseline"}
    BY DEF Served, A!Apps
<1>1. \A w : A!Said(w, A!Get(q.first).err) # {} <=> q.first.result # "ok"
    BY NoneAssumption DEF Served, IsReading, A!Get, A!Said
<1>2. CASE q.app \in {"controller", "flashback", "baseline"}
    <2>1. \E w : FeedOf(q).errors = A!Said(w, A!Get(q.first).err)
        BY <1>2 DEF FeedOf, A!Controller, A!Flashback, A!Baseline, A!Feed
    <2>2. Main(q) = q.first
        BY <1>2 DEF Main
    <2>3. QED
        BY <1>1, <1>2, <2>1, <2>2
<1>3. CASE q.app = "connect"
    BY <1>3 DEF FeedOf, A!Connect, A!Feed
<1>4. CASE q.app = "slep"
    <2>1. q.limit \in Nat \ {0} /\ IsSlep(q.slep) /\ IsReading(q.second)
        BY DecisionsAssumption DEF Served
    <2>2. FeedOf(q) = A!Slep(q.slep, q.second, q.limit) /\ Main(q) = q.slep
        BY <1>4 DEF FeedOf, Main
    <2>3. LET errors == A!Slep(q.slep, q.second, q.limit).errors
          IN  /\ q.slep.result # "ok" => <<"runs", q.slep.result>> \in errors
              /\ q.slep.result = "ok" => errors = {}
        BY <2>1, SlepIs
    <2>4. QED
        BY <1>4, <2>2, <2>3
<1>5. QED
    BY <1>s, <1>2, <1>3, <1>4

LEMMA FailedRunsAreTold ==
    ASSUME NEW q, Served(q), q.app = "baseline"
    PROVE  LET all == FeedOf(q)
           IN  \A i \in DOMAIN all.events :
                 LET run == q.first.rows[i]
                 IN  all.events[i].action = "failed" <=>
                       ~run.preview /\ (run.failed > 0 \/ run.error # "none")
<1> DEFINE rows == A!Get(q.first).rows
           all == FeedOf(q)
<1>1. all.events = A!BaselineEvents(rows)
    BY DEF FeedOf, A!Baseline, A!Feed
<1>2. CASE q.first.result = "ok"
    <2>1. rows = q.first.rows
        BY <1>2 DEF A!Get
    <2>2. PICK n : RunList(rows, n)
        BY <2>1 DEF Served
    <2> HIDE DEF rows, all
    <2>3. /\ DOMAIN all.events = 1..n
          /\ \A i \in 1..n : all.events[i].action = A!BaselineWord(rows[i])
        BY <1>1, <2>2, RunsAre DEF EventList
    <2>4. \A i \in 1..n : A!BaselineWord(rows[i]) = "failed" <=>
            ~rows[i].preview /\ (rows[i].failed > 0 \/ rows[i].error # "none")
        BY <2>2 DEF RunList, A!BaselineWord
    <2>5. QED
        BY <2>1, <2>3, <2>4 DEF all
<1>3. CASE q.first.result # "ok"
    <2>1. rows = <<>>
        BY <1>3 DEF A!Get
    <2>2. DOMAIN all.events = {}
        BY <1>1, <2>1 DEF A!BaselineEvents
    <2>3. QED
        BY <2>2
<1>4. QED
    BY <1>2, <1>3

\* The map names each reading it lacks.
LEMMA MapTellsToo ==
    ASSUME NEW readings, "hosts" \in DOMAIN readings
    PROVE  LET told == A!Topology(readings)
           IN  /\ told.errors \cup told.notes =
                    {r \in DOMAIN readings : readings[r].result # "ok"}
               /\ told.errors # {} <=> readings["hosts"].result # "ok"
<1> DEFINE told == A!Topology(readings)
<1>1. /\ told.errors = {r \in DOMAIN readings \cap {"hosts"} : readings[r].result # "ok"}
      /\ told.notes = {r \in DOMAIN readings \ {"hosts"} : readings[r].result # "ok"}
    BY DEF A!Topology
<1> HIDE DEF told
<1>2. told.errors \cup told.notes = {r \in DOMAIN readings : readings[r].result # "ok"}
    BY <1>1
<1>3. told.errors # {} <=> readings["hosts"].result # "ok"
    BY <1>1
<1>4. QED
    BY <1>2, <1>3 DEF told

\* Whatever the applications answer, however much of it there is and whatever is typed,
\* the page shows the newest, counts what it shows, says of each reading that failed,
\* and of SLEP's runs when SLEP cut them short, that it was, and of an empty table that
\* it could not be read exactly when the main reading failed, Connect's apart.
THEOREM FeedIsAlwaysHonest ==
    ASSUME asked.of = "topology" => "hosts" \in DOMAIN asked.readings,
           asked.of = "feed" => Served(asked)
    PROVE  FeedIsHonest
<1>1. asked.of = "topology" =>
        LET told == A!Topology(asked.readings)
        IN  /\ told.errors \cup told.notes =
                 {r \in DOMAIN asked.readings : asked.readings[r].result # "ok"}
            /\ told.errors # {} <=> asked.readings["hosts"].result # "ok"
    BY MapTellsToo
<1>2. ASSUME asked.of = "feed"
      PROVE  LET all  == FeedOf(asked)
                 feed == A!Fetch(all, asked.limit)
             IN  /\ A!ShowsTheNewest(all.events, feed.events, asked.limit)
                 /\ A!ChipsAddUp(A!Matched(feed.events, asked.hits), asked.routine)
                 /\ A!EmptySaysWhy(feed, asked.hits, asked.routine,
                                   asked.app # "connect" /\ Main(asked).result # "ok")
                 /\ A!FailuresAreNamed(feed, ReadingsOf(asked))
                 /\ asked.app = "slep" => A!NothingCutInSilence(asked.slep, asked.second, asked.limit)
                 /\ asked.app = "baseline" =>
                      \A i \in DOMAIN all.events :
                        LET run == asked.first.rows[i]
                        IN  all.events[i].action = "failed" <=>
                              ~run.preview /\ (run.failed > 0 \/ run.error # "none")
    <2> DEFINE all  == FeedOf(asked)
               feed == A!Fetch(all, asked.limit)
               limit == asked.limit
    <2>1. Served(asked)
        BY <1>2
    <2>2. /\ all = A!Feed(all.events, all.errors, all.notes)
          /\ \E n : EventList(all.events, n)
        BY <2>1, FeedIs
    <2>3. A!FailuresAreNamed(all, ReadingsOf(asked))
        BY <2>1, FailuresTold
    <2>4. asked.app = "baseline" =>
            \A i \in DOMAIN all.events :
              LET run == asked.first.rows[i]
              IN  all.events[i].action = "failed" <=>
                    ~run.preview /\ (run.failed > 0 \/ run.error # "none")
        BY <2>1, FailedRunsAreTold
    <2>5. /\ limit \in 1..MaxLimit /\ limit \in Nat \ {0} /\ A!Clamped(limit) = limit
          /\ asked.routine \in BOOLEAN
        BY <2>1, DecisionsAssumption DEF Served, A!Clamped
    <2>6. asked.app = "slep" => A!NothingCutInSilence(asked.slep, asked.second, asked.limit)
        BY <2>1, <2>5, SlepIs DEF Served
    <2>e. all.errors # {} <=> asked.app # "connect" /\ Main(asked).result # "ok"
        BY <2>1, ErrorsAreOfMain
    <2> HIDE DEF all, limit
    <2>7. PICK n : EventList(all.events, n)
        BY <2>2
    <2>8. /\ feed.events = A!Newest(all.events, limit)
          /\ feed.errors = all.errors /\ feed.notes = all.notes
        BY <2>2, <2>5 DEF A!Fetch, A!Feed, limit
    <2> HIDE DEF feed
    <2> DEFINE m == IF n < limit THEN n ELSE limit
               events == all.events
    <2>9. EventList(feed.events, m) /\ A!ShowsTheNewest(events, feed.events, limit)
        <3> HIDE DEF events
        <3>1. EventList(events, n) /\ feed.events = A!Newest(events, limit)
            BY <2>7, <2>8 DEF events
        <3>2. QED
            BY <2>5, <3>1, NewestShown
    <2>10. A!ChipsAddUp(A!Matched(feed.events, asked.hits), asked.routine)
        <3>1. PICK k : EventList(A!Matched(feed.events, asked.hits), k)
            BY <2>9, MatchedIs
        <3>2. QED
            BY <2>5, <3>1, ChipsCount
    <2>11. A!EmptySaysWhy(feed, asked.hits, asked.routine,
                          asked.app # "connect" /\ Main(asked).result # "ok")
        BY <2>8, <2>e, EmptyIsOfErrors DEF A!EmptySaysWhy
    <2>12. A!FailuresAreNamed(feed, ReadingsOf(asked))
        BY <2>3, <2>8 DEF A!FailuresAreNamed
    <2>13. QED
        BY <2>4, <2>6, <2>9, <2>10, <2>11, <2>12 DEF all, feed, limit
<1>3. QED
    BY <1>1, <1>2 DEF FeedIsHonest

-----------------------------------------------------------------------------
(* The state builder *)

\* The builder names parts of a list as Lists does, and adds as Functions does.
LEMMA BuilderLists ==
    /\ \A s, P : B!At(s, P) = At(s, P)
    /\ \A f, g : B!Joined(f, g) = Joined(f, g)
    /\ \A f : B!Range(f) = {f[x] : x \in DOMAIN f}
    /\ \A S : B!Cardinality(S) = Cardinality(S)
    /\ \A f, S : B!SumFunctionOnSet(f, S) = SumFunctionOnSet(f, S)
    /\ \A f : B!SumFunction(f) = SumFunctionOnSet(f, DOMAIN f)
<1>1. \A S : B!Cardinality(S) = Cardinality(S)
    BY DEF B!Cardinality, Cardinality
<1>2. \A P, n : B!Nth(P, n) = Nth(P, n)
    BY <1>1 DEF B!Nth, Nth
<1>3. \A s, P : B!At(s, P) = At(s, P)
    BY <1>1, <1>2 DEF B!At, At
<1>4. \A f, g : B!Joined(f, g) = Joined(f, g)
    BY DEF B!Joined, Joined
<1>5. \A f, S : B!SumFunctionOnSet(f, S) = SumFunctionOnSet(f, S)
    BY DEF B!SumFunctionOnSet, SumFunctionOnSet, B!FoldFunctionOnSet, FoldFunctionOnSet,
           B!MapThenFoldSet, MapThenFoldSet
<1>6. \A f : B!SumFunction(f) = SumFunctionOnSet(f, DOMAIN f)
    BY <1>5 DEF B!SumFunction
<1>7. QED
    BY <1>1, <1>3, <1>4, <1>5, <1>6 DEF B!Range

\* A value of the form: some words.
Words(v) == \E n \in Nat : v = [i \in 1..n |-> v[i]]

\* To strip what is stripped changes nothing.
LEMMA StrippedIs ==
    ASSUME NEW v, Words(v)
    PROVE  /\ Words(B!Stripped(v)) /\ B!Stripped(B!Stripped(v)) = B!Stripped(v)
           /\ \A i \in DOMAIN B!Stripped(v) : B!Stripped(v)[i] # Blank
           /\ (\E i \in DOMAIN v : v[i] # Blank) => B!Stripped(v) # <<>>
<1>1. PICK n \in Nat : v = [i \in 1..n |-> v[i]]
    BY DEF Words
<1> DEFINE P == {i \in DOMAIN v : v[i] # Blank}
           t == At(v, P)
           c == Cardinality(P)
<1>2. P \in SUBSET (1..n) /\ B!Stripped(v) = t
    BY <1>1, BuilderLists DEF B!Stripped
<1>p. \A i \in P : v[i] # Blank
    OBVIOUS
<1>q. (\E i \in DOMAIN v : v[i] # Blank) => P # {}
    OBVIOUS
<1> HIDE DEF P
<1>3. /\ c \in Nat /\ t = [k \in 1..c |-> v[Nth(P, k)]] /\ DOMAIN t = 1..c
      /\ \A k \in 1..c : Nth(P, k) \in P /\ t[k] = v[Nth(P, k)]
      /\ \A i \in P : \E k \in 1..c : Nth(P, k) = i
    BY <1>1, <1>2, AtIs
<1> HIDE DEF t, c
<1>4. \A k \in 1..c : t[k] # Blank
    BY <1>3, <1>p
<1>5. t = [k \in 1..c |-> t[k]]
    BY <1>3
<1>6. B!Stripped(t) = At(t, {k \in DOMAIN t : t[k] # Blank})
    BY BuilderLists DEF B!Stripped
<1>7. {k \in DOMAIN t : t[k] # Blank} = 1..c
    BY <1>3, <1>4
<1>8. B!Stripped(t) = t
    BY <1>3, <1>5, <1>6, <1>7, AtAll, ZenonT(30)
<1>9. (\E i \in DOMAIN v : v[i] # Blank) => t # <<>>
    <2>1. P # {} => \E k \in 1..c : Nth(P, k) \in P
        BY <1>3
    <2>2. P # {} => c # 0
        BY <1>3, <2>1
    <2>3. QED
        BY <1>3, <1>q, <2>2
<1>10. QED
    BY <1>2, <1>3, <1>4, <1>5, <1>8, <1>9 DEF Words

\* Nothing, one word.
LEMMA FewWords ==
    /\ Words(<<>>) /\ B!Stripped(<<>>) = <<>>
    /\ \A w : Words(<<w>>)
    /\ \A w : w # Blank => B!Stripped(<<w>>) = <<w>>
    /\ \A v : Words(v) => Len(v) \in Nat /\ DOMAIN v = 1..Len(v)
    /\ \A v : Words(v) /\ v # <<>> => Len(v) > 0
    /\ \A v : Words(v) /\ Len(v) = 1 => v = <<v[1]>>
<1>1. \A v : Words(v) => /\ Len(v) \in Nat /\ DOMAIN v = 1..Len(v)
                         /\ v = [i \in 1..Len(v) |-> v[i]]
    BY DEF Words
<1>2. \A v : Words(v) /\ v # <<>> => Len(v) > 0
    BY <1>1
<1>3. \A v : Words(v) /\ Len(v) = 1 => v = <<v[1]>>
    BY <1>1
<1>4. <<>> = [i \in 1..0 |-> <<>>[i]] /\ Words(<<>>)
    BY DEF Words
<1>5. ASSUME NEW w
      PROVE  Words(<<w>>) /\ (w # Blank => B!Stripped(<<w>>) = <<w>>)
    <2> DEFINE v == <<w>>
    <2>1. v = [i \in 1..1 |-> v[i]] /\ DOMAIN v = 1..1 /\ \A i \in 1..1 : v[i] = w
        OBVIOUS
    <2> HIDE DEF v
    <2>2. Words(v)
        BY <2>1 DEF Words
    <2>3. ASSUME w # Blank PROVE B!Stripped(v) = v
        <3>1. {i \in DOMAIN v : v[i] # Blank} = 1..1
            BY <2>1, <2>3
        <3>2. B!Stripped(v) = At(v, 1..1)
            BY <3>1, BuilderLists DEF B!Stripped
        <3>3. QED
            BY <2>1, <3>2, AtAll
    <2>4. QED
        BY <2>2, <2>3 DEF v
<1>6. B!Stripped(<<>>) = <<>>
    <2>1. B!Stripped(<<>>) = At(<<>>, {})
        BY BuilderLists DEF B!Stripped
    <2>2. QED
        BY <2>1, FS_EmptySet DEF At
<1>7. QED
    BY <1>1, <1>2, <1>3, <1>4, <1>5, <1>6

\* The fields of each kind.
FieldSet(kind) ==
    CASE kind = "package"        -> {B!Field("names", "lines", TRUE), B!Text("version")}
      [] kind = "package_absent" -> {B!Field("names", "lines", TRUE)}
      [] kind = "service"        -> {B!Required("name"), B!Field("enable", "bool", FALSE)}
      [] kind \in {"service_off", "group"} -> {B!Required("name")}
      [] kind = "file"           -> {B!Required("path"), B!Field("contents", "body", TRUE),
                                     B!Text("user"), B!Text("group"), B!Text("mode")}
      [] kind = "dir"            -> {B!Required("path"), B!Text("user"), B!Text("group"), B!Text("mode")}
      [] kind = "line"           -> {B!Required("path"), B!Required("line"), B!Text("after")}
      [] kind = "user"           -> {B!Required("name"), B!Text("fullname"),
                                     B!Field("groups", "lines", FALSE), B!Text("shell"),
                                     B!Text("home"), B!Field("system", "bool", FALSE)}
      [] kind = "sysctl"         -> {B!Required("name"), B!Required("value")}
      [] kind = "cron"           -> {B!Required("command"), B!Text("user"), B!Text("minute"),
                                     B!Text("hour"), B!Text("daymonth"), B!Text("month"),
                                     B!Text("dayweek")}
      [] kind = "command"        -> {B!Required("command"), B!Text("unless"), B!Text("creates")}

KindSet == {"package", "package_absent", "service", "service_off", "file", "dir", "line", "user",
            "group", "sysctl", "cron", "command"}

LEMMA FieldsAre ==
    /\ B!Kinds = KindSet
    /\ \A kind \in KindSet : B!Range(B!Fields[kind]) = FieldSet(kind) /\ 1 \in DOMAIN B!Fields[kind]
<1>1. B!Kinds = KindSet
    BY DEF B!Kinds, B!Fields, KindSet
<1> DEFINE Is(f, S) == B!Range(f) = S /\ 1 \in DOMAIN f
<1>2. \A f : B!Range(f) = {f[x] : x \in DOMAIN f}
    BY BuilderLists
<1>3. Is(B!Fields["package"], FieldSet("package"))
    <2> DEFINE f == B!Fields["package"]
    <2>1. /\ DOMAIN f = 1..2
          /\ f[1] = B!Field("names", "lines", TRUE)
          /\ f[2] = B!Text("version")
        BY DEF B!Fields
    <2>2. 1..2 = {1, 2}
        OBVIOUS
    <2> HIDE DEF f
    <2>3. Is(f, {B!Field("names", "lines", TRUE), B!Text("version")})
        BY <1>2, <2>1, <2>2
    <2>4. QED
        BY <2>3 DEF f, FieldSet
<1>4. Is(B!Fields["package_absent"], FieldSet("package_absent"))
    <2> DEFINE f == B!Fields["package_absent"]
    <2>1. /\ DOMAIN f = 1..1
          /\ f[1] = B!Field("names", "lines", TRUE)
        BY DEF B!Fields
    <2>2. 1..1 = {1}
        OBVIOUS
    <2> HIDE DEF f
    <2>3. Is(f, {B!Field("names", "lines", TRUE)})
        <3>1. {f[i] : i \in DOMAIN f} = {f[1]} /\ 1 \in DOMAIN f
            BY <2>1, <2>2
        <3>2. QED
            BY <1>2, <2>1, <3>1
    <2>4. QED
        BY <2>3 DEF f, FieldSet
<1>5. Is(B!Fields["service"], FieldSet("service"))
    <2> DEFINE f == B!Fields["service"]
    <2>1. /\ DOMAIN f = 1..2
          /\ f[1] = B!Required("name")
          /\ f[2] = B!Field("enable", "bool", FALSE)
        BY DEF B!Fields
    <2>2. 1..2 = {1, 2}
        OBVIOUS
    <2> HIDE DEF f
    <2>3. Is(f, {B!Required("name"), B!Field("enable", "bool", FALSE)})
        BY <1>2, <2>1, <2>2
    <2>4. QED
        BY <2>3 DEF f, FieldSet
<1>6. Is(B!Fields["service_off"], FieldSet("service_off"))
    <2> DEFINE f == B!Fields["service_off"]
    <2>1. /\ DOMAIN f = 1..1
          /\ f[1] = B!Required("name")
        BY DEF B!Fields
    <2>2. 1..1 = {1}
        OBVIOUS
    <2> HIDE DEF f
    <2>3. Is(f, {B!Required("name")})
        BY <1>2, <2>1, <2>2
    <2>4. QED
        BY <2>3 DEF f, FieldSet
<1>7. Is(B!Fields["line"], FieldSet("line"))
    <2> DEFINE f == B!Fields["line"]
    <2>1. /\ DOMAIN f = 1..3
          /\ f[1] = B!Required("path")
          /\ f[2] = B!Required("line")
          /\ f[3] = B!Text("after")
        BY DEF B!Fields
    <2>2. 1..3 = {1, 2, 3}
        OBVIOUS
    <2> HIDE DEF f
    <2>3. Is(f, {B!Required("path"), B!Required("line"), B!Text("after")})
        BY <1>2, <2>1, <2>2
    <2>4. QED
        BY <2>3 DEF f, FieldSet
<1>8. Is(B!Fields["user"], FieldSet("user"))
    <2> DEFINE f == B!Fields["user"]
    <2>1. /\ DOMAIN f = 1..6
          /\ f[1] = B!Required("name")
          /\ f[2] = B!Text("fullname")
          /\ f[3] = B!Field("groups", "lines", FALSE)
          /\ f[4] = B!Text("shell")
          /\ f[5] = B!Text("home")
          /\ f[6] = B!Field("system", "bool", FALSE)
        BY DEF B!Fields
    <2>2. 1..6 = {1, 2, 3, 4, 5, 6}
        OBVIOUS
    <2> HIDE DEF f
    <2>3. Is(f, {B!Required("name"), B!Text("fullname"),
                 B!Field("groups", "lines", FALSE), B!Text("shell"), B!Text("home"),
                 B!Field("system", "bool", FALSE)})
        BY <1>2, <2>1, <2>2
    <2>4. QED
        BY <2>3 DEF f, FieldSet
<1>9. Is(B!Fields["group"], FieldSet("group"))
    <2> DEFINE f == B!Fields["group"]
    <2>1. /\ DOMAIN f = 1..1
          /\ f[1] = B!Required("name")
        BY DEF B!Fields
    <2>2. 1..1 = {1}
        OBVIOUS
    <2> HIDE DEF f
    <2>3. Is(f, {B!Required("name")})
        BY <1>2, <2>1, <2>2
    <2>4. QED
        BY <2>3 DEF f, FieldSet
<1>10. Is(B!Fields["sysctl"], FieldSet("sysctl"))
    <2> DEFINE f == B!Fields["sysctl"]
    <2>1. /\ DOMAIN f = 1..2
          /\ f[1] = B!Required("name")
          /\ f[2] = B!Required("value")
        BY DEF B!Fields
    <2>2. 1..2 = {1, 2}
        OBVIOUS
    <2> HIDE DEF f
    <2>3. Is(f, {B!Required("name"), B!Required("value")})
        BY <1>2, <2>1, <2>2
    <2>4. QED
        BY <2>3 DEF f, FieldSet
<1>11. Is(B!Fields["cron"], FieldSet("cron"))
    <2> DEFINE f == B!Fields["cron"]
    <2>1. /\ DOMAIN f = 1..7
          /\ f[1] = B!Required("command")
          /\ f[2] = B!Text("user")
          /\ f[3] = B!Text("minute")
          /\ f[4] = B!Text("hour")
          /\ f[5] = B!Text("daymonth")
          /\ f[6] = B!Text("month")
          /\ f[7] = B!Text("dayweek")
        BY DEF B!Fields
    <2>2. 1..7 = {1, 2, 3, 4, 5, 6, 7}
        OBVIOUS
    <2> HIDE DEF f
    <2>3. Is(f, {B!Required("command"), B!Text("user"), B!Text("minute"),
                 B!Text("hour"), B!Text("daymonth"), B!Text("month"), B!Text("dayweek")})
        BY <1>2, <2>1, <2>2
    <2>4. QED
        BY <2>3 DEF f, FieldSet
<1>12. Is(B!Fields["command"], FieldSet("command"))
    <2> DEFINE f == B!Fields["command"]
    <2>1. /\ DOMAIN f = 1..3
          /\ f[1] = B!Required("command")
          /\ f[2] = B!Text("unless")
          /\ f[3] = B!Text("creates")
        BY DEF B!Fields
    <2>2. 1..3 = {1, 2, 3}
        OBVIOUS
    <2> HIDE DEF f
    <2>3. Is(f, {B!Required("command"), B!Text("unless"), B!Text("creates")})
        BY <1>2, <2>1, <2>2
    <2>4. QED
        BY <2>3 DEF f, FieldSet
<1>13. Is(B!Fields["file"], FieldSet("file"))
    <2> DEFINE x == <<B!Required("path"), B!Field("contents", "body", TRUE)>>
               f == B!Fields["file"]
    <2>1. f = x \o B!Owner
        BY DEF B!Fields
    <2>2. x = [i \in 1..2 |-> x[i]] /\ B!Owner = [i \in 1..3 |-> B!Owner[i]]
        BY DEF B!Owner
    <2>3. f = [i \in 1..5 |-> IF i <= 2 THEN x[i] ELSE B!Owner[i - 2]]
        <3> HIDE DEF x, f
        <3>1. 2 \in Nat /\ 3 \in Nat /\ 2 + 3 = 5
            OBVIOUS
        <3>2. x \o B!Owner = [i \in 1..(2 + 3) |-> IF i <= 2 THEN x[i] ELSE B!Owner[i - 2]]
            BY <2>2, <3>1, CatIs
        <3>3. QED
            BY <2>1, <3>1, <3>2
    <2> HIDE DEF f
    <2>4. /\ DOMAIN f = 1..5
          /\ f[1] = B!Required("path")
          /\ f[2] = B!Field("contents", "body", TRUE)
          /\ f[3] = B!Text("user")
          /\ f[4] = B!Text("group")
          /\ f[5] = B!Text("mode")
        <3>1. /\ B!Owner[1] = B!Text("user") /\ B!Owner[2] = B!Text("group")
              /\ B!Owner[3] = B!Text("mode") /\ x[1] = B!Required("path") /\ x[2] = B!Field("contents", "body", TRUE)
            BY DEF B!Owner
        <3>2. ~(3 <= 2) /\ 3 - 2 = 1 /\ ~(4 <= 2) /\ 4 - 2 = 2 /\ ~(5 <= 2) /\ 5 - 2 = 3
            OBVIOUS
        <3> HIDE DEF x
        <3>3. DOMAIN f = 1..5 /\ f[1] = x[1] /\ f[2] = x[2]
            BY <2>3
        <3>4. f[3] = B!Owner[1]
            BY <2>3, <3>2
        <3>5. f[4] = B!Owner[2]
            BY <2>3, <3>2
        <3>6. f[5] = B!Owner[3]
            BY <2>3, <3>2
        <3>7. QED
            BY <3>1, <3>3, <3>4, <3>5, <3>6
    <2>5. 1..5 = {1, 2, 3, 4, 5}
        OBVIOUS
    <2>6. Is(f, {B!Required("path"), B!Field("contents", "body", TRUE), B!Text("user"),
                 B!Text("group"), B!Text("mode")})
        BY <1>2, <2>4, <2>5
    <2>7. QED
        BY <2>6 DEF f, FieldSet
<1>14. Is(B!Fields["dir"], FieldSet("dir"))
    <2> DEFINE x == <<B!Required("path")>>
               f == B!Fields["dir"]
    <2>1. f = x \o B!Owner
        BY DEF B!Fields
    <2>2. x = [i \in 1..1 |-> x[i]] /\ B!Owner = [i \in 1..3 |-> B!Owner[i]]
        BY DEF B!Owner
    <2>3. f = [i \in 1..4 |-> IF i <= 1 THEN x[i] ELSE B!Owner[i - 1]]
        <3> HIDE DEF x, f
        <3>1. 1 \in Nat /\ 3 \in Nat /\ 1 + 3 = 4
            OBVIOUS
        <3>2. x \o B!Owner = [i \in 1..(1 + 3) |-> IF i <= 1 THEN x[i] ELSE B!Owner[i - 1]]
            BY <2>2, <3>1, CatIs
        <3>3. QED
            BY <2>1, <3>1, <3>2
    <2> HIDE DEF f
    <2>4. /\ DOMAIN f = 1..4
          /\ f[1] = B!Required("path")
          /\ f[2] = B!Text("user")
          /\ f[3] = B!Text("group")
          /\ f[4] = B!Text("mode")
        <3>1. /\ B!Owner[1] = B!Text("user") /\ B!Owner[2] = B!Text("group")
              /\ B!Owner[3] = B!Text("mode") /\ x[1] = B!Required("path")
            BY DEF B!Owner
        <3>2. ~(2 <= 1) /\ 2 - 1 = 1 /\ ~(3 <= 1) /\ 3 - 1 = 2 /\ ~(4 <= 1) /\ 4 - 1 = 3
            OBVIOUS
        <3> HIDE DEF x
        <3>3. QED
            BY <2>3, <3>1, <3>2
    <2>5. 1..4 = {1, 2, 3, 4}
        OBVIOUS
    <2>6. Is(f, {B!Required("path"), B!Text("user"), B!Text("group"), B!Text("mode")})
        BY <1>2, <2>4, <2>5
    <2>7. QED
        BY <2>6 DEF f, FieldSet
<1>15. QED
    BY <1>1, <1>3, <1>4, <1>5, <1>6, <1>7, <1>8, <1>9, <1>10, <1>11, <1>12, <1>13, <1>14 DEF KindSet

\* The field of a key.
FieldOf(kind, k) == CHOOSE f \in B!Range(B!Fields[kind]) : f.key = k

LEMMA KeysAre ==
    ASSUME NEW kind \in KindSet
    PROVE  /\ B!Keys(kind) = {f.key : f \in FieldSet(kind)} /\ "kind" \notin B!Keys(kind)
           /\ \A k \in B!Keys(kind) : FieldOf(kind, k) \in FieldSet(kind) /\ FieldOf(kind, k).key = k
           /\ \A f \in FieldSet(kind) : f.key = "enable" => f.type = "bool" /\ kind = "service"
<1> USE DEF KindSet
<1>1. B!Range(B!Fields[kind]) = FieldSet(kind)
    BY FieldsAre
<1>2. B!Keys(kind) = {f.key : f \in FieldSet(kind)}
    <2>1. {B!Fields[kind][i] : i \in DOMAIN B!Fields[kind]} = FieldSet(kind)
        BY <1>1, BuilderLists
    <2>2. QED
        BY <2>1 DEF B!Keys
<1>3. \A f \in FieldSet(kind) : /\ f.key # "kind"
                                /\ f.key = "enable" => f.type = "bool" /\ kind = "service"
    BY DEF FieldSet, B!Field, B!Text, B!Required
<1>4. \A k \in B!Keys(kind) : \E f \in B!Range(B!Fields[kind]) : f.key = k
    BY <1>1, <1>2
<1>5. \A k \in B!Keys(kind) : FieldOf(kind, k) \in FieldSet(kind) /\ FieldOf(kind, k).key = k
    BY <1>1, <1>4 DEF FieldOf
<1>6. QED
    BY <1>2, <1>3, <1>5

\* An item as the form may send it.
Sent(r) == "kind" \in DOMAIN r /\ \A k \in DOMAIN r \ {"kind"} : Words(r[k])

\* An item that was read: its kind's keys, each with its words; to read it again
\* changes nothing.
LEMMA NormalOne ==
    ASSUME NEW r, Sent(r), r.kind \in KindSet
    PROVE  LET item == B!NormaliseOne(r)
           IN  /\ item = [k \in B!Keys(r.kind) \cup {"kind"} |-> item[k]]
               /\ item.kind = r.kind /\ \A k \in B!Keys(r.kind) : Words(item[k])
               /\ B!NormaliseOne(item) = item
<1> DEFINE kind == r.kind
           item == B!NormaliseOne(r)
           keys == B!Keys(kind)
<1>1. /\ "kind" \notin keys
      /\ \A k \in keys : FieldOf(kind, k) \in FieldSet(kind) /\ FieldOf(kind, k).key = k
      /\ \A f \in FieldSet(kind) : f.key = "enable" => f.type = "bool" /\ kind = "service"
    BY KeysAre
<1>2. \A x : x.kind = kind => B!NormaliseOne(x) =
        [k \in keys \cup {"kind"} |-> IF k = "kind" THEN kind ELSE B!Clean(x, FieldOf(kind, k))]
    BY DEF B!NormaliseOne, FieldOf
<1> HIDE DEF item, keys
<1>3. /\ DOMAIN item = keys \cup {"kind"} /\ item.kind = kind
      /\ item = [k \in keys \cup {"kind"} |-> item[k]]
      /\ \A k \in keys : item[k] = B!Clean(r, FieldOf(kind, k))
    <2>1. item = [k \in keys \cup {"kind"} |->
                    IF k = "kind" THEN kind ELSE B!Clean(r, FieldOf(kind, k))]
        BY <1>2 DEF item
    <2> HIDE DEF kind
    <2>2. QED
        BY <1>1, <2>1
<1>4. \A k \in DOMAIN r \ {"kind"} : Words(r[k])
    BY DEF Sent
<1>5. ASSUME NEW k \in keys
      PROVE  Words(item[k]) /\ B!Clean(item, FieldOf(kind, k)) = item[k]
    <2> DEFINE f == FieldOf(kind, k)
    <2>1. /\ f.key = k /\ k # "kind" /\ k \in DOMAIN item
          /\ k = "enable" => f.type = "bool"
        BY <1>1, <1>3
    <2> HIDE DEF f
    <2>2. item[k] = IF k \notin DOMAIN r THEN B!Default(kind, k)
                    ELSE IF f.type \in {"bool", "body"} THEN r[k] ELSE B!Stripped(r[k])
        <3>1. item[k] = B!Clean(r, f)
            BY <1>3 DEF f
        <3>2. QED
            BY <2>1, <3>1 DEF B!Clean
    <2>3. B!Clean(item, f) = IF f.type \in {"bool", "body"} THEN item[k] ELSE B!Stripped(item[k])
        BY <2>1 DEF B!Clean
    <2>4. CASE k \notin DOMAIN r
        <3>1. item[k] = B!Default(kind, k)
            BY <2>2, <2>4
        <3>2. CASE kind = "service" /\ k = "enable"
            <4>1. item[k] = <<"true">> /\ f.type = "bool"
                BY <2>1, <3>1, <3>2 DEF B!Default, B!Ticked
            <4>2. QED
                BY <2>3, <4>1, FewWords DEF f
        <3>3. CASE ~(kind = "service" /\ k = "enable")
            <4>1. item[k] = <<>>
                BY <3>1, <3>3 DEF B!Default
            <4>2. QED
                BY <2>3, <4>1, FewWords DEF f
        <3>4. QED
            BY <3>2, <3>3
    <2>5. CASE k \in DOMAIN r
        <3>1. Words(r[k])
            BY <1>4, <2>1, <2>5
        <3>2. CASE f.type \in {"bool", "body"}
            <4>1. item[k] = r[k]
                BY <2>2, <2>5, <3>2
            <4>2. QED
                BY <2>3, <3>1, <3>2, <4>1 DEF f
        <3>3. CASE f.type \notin {"bool", "body"}
            <4>1. item[k] = B!Stripped(r[k])
                BY <2>2, <2>5, <3>3
            <4>2. Words(item[k]) /\ B!Stripped(item[k]) = item[k]
                BY <3>1, <4>1, StrippedIs
            <4>3. QED
                BY <2>3, <3>3, <4>2 DEF f
        <3>4. QED
            BY <3>2, <3>3
    <2>6. QED
        BY <2>4, <2>5
<1>6. B!NormaliseOne(item) = item
    <2>1. B!NormaliseOne(item) =
        [k \in keys \cup {"kind"} |-> IF k = "kind" THEN kind ELSE B!Clean(item, FieldOf(kind, k))]
        BY <1>2, <1>3
    <2>2. \A k \in keys \cup {"kind"} :
            (IF k = "kind" THEN kind ELSE B!Clean(item, FieldOf(kind, k))) = item[k]
        BY <1>1, <1>3, <1>5
    <2>3. QED
        BY <1>3, <2>1, <2>2
<1>7. QED
    BY <1>3, <1>5, <1>6 DEF item, keys

\* What of the items there is after they were read: n of them, each of a known kind.
ItemList(items, n) ==
    /\ n \in Nat /\ items = [i \in 1..n |-> items[i]]
    /\ \A i \in 1..n : /\ items[i].kind \in KindSet /\ B!NormaliseOne(items[i]) = items[i]
                       /\ items[i] = [k \in B!Keys(items[i].kind) \cup {"kind"} |-> items[i][k]]
                       /\ \A k \in B!Keys(items[i].kind) : Words(items[i][k])

LEMMA NormalIs ==
    ASSUME NEW m \in Nat, NEW raw, raw = [i \in 1..m |-> raw[i]], \A i \in 1..m : Sent(raw[i])
    PROVE  LET items == B!Normalise(raw)
           IN  (\E n : ItemList(items, n)) /\ B!Normalise(items) = items
<1> DEFINE P == {i \in DOMAIN raw : raw[i].kind \in B!Kinds}
           known == At(raw, P)
           items == B!Normalise(raw)
           n == Cardinality(P)
<1>1. P \in SUBSET (1..m) /\ \A i \in P : raw[i].kind \in KindSet
    BY FieldsAre
<1>2. items = [i \in DOMAIN known |-> B!NormaliseOne(known[i])]
    BY BuilderLists DEF B!Normalise
<1> HIDE DEF P
<1>3. /\ n \in Nat /\ DOMAIN known = 1..n
      /\ \A i \in 1..n : Nth(P, i) \in P /\ known[i] = raw[Nth(P, i)]
    BY <1>1, AtIs
<1> HIDE DEF known, n, items
<1>4. items = [i \in 1..n |-> items[i]] /\ \A i \in 1..n : items[i] = B!NormaliseOne(known[i])
    BY <1>2, <1>3
<1>5. \A i \in 1..n : Sent(known[i]) /\ known[i].kind \in KindSet
    <2> TAKE i \in 1..n
    <2>1. Nth(P, i) \in 1..m /\ raw[Nth(P, i)].kind \in KindSet /\ known[i] = raw[Nth(P, i)]
        BY <1>1, <1>3
    <2>2. QED
        BY <2>1
<1>6. ASSUME NEW i \in 1..n
      PROVE  /\ items[i].kind \in KindSet /\ B!NormaliseOne(items[i]) = items[i]
             /\ items[i] = [k \in B!Keys(items[i].kind) \cup {"kind"} |-> items[i][k]]
             /\ \A k \in B!Keys(items[i].kind) : Words(items[i][k])
    <2> DEFINE r == known[i]
               one == B!NormaliseOne(r)
    <2>1. Sent(r) /\ r.kind \in KindSet /\ items[i] = one
        BY <1>4, <1>5
    <2> HIDE DEF r
    <2>2. /\ one = [k \in B!Keys(r.kind) \cup {"kind"} |-> one[k]]
          /\ one.kind = r.kind /\ \A k \in B!Keys(r.kind) : Words(one[k])
          /\ B!NormaliseOne(one) = one
        BY <2>1, NormalOne
    <2> HIDE DEF one
    <2>3. QED
        BY <2>1, <2>2
<1>7. ItemList(items, n)
    BY <1>3, <1>4, <1>6 DEF ItemList
<1>8. B!Normalise(items) = items
    <2>1. DOMAIN items = 1..n /\ {i \in DOMAIN items : items[i].kind \in B!Kinds} = 1..n
        BY <1>4, <1>6, FieldsAre
    <2>2. At(items, 1..n) = items
        BY <1>3, <1>4, AtAll
    <2>3. B!Normalise(items) = [i \in DOMAIN items |-> B!NormaliseOne(items[i])]
        BY <2>1, <2>2, BuilderLists DEF B!Normalise
    <2>4. QED
        BY <1>4, <1>6, <2>1, <2>3
<1>9. QED
    BY <1>7, <1>8 DEF items

LEMMA KeySets ==
    /\ B!Keys("package") = {"names", "version"}
    /\ B!Keys("package_absent") = {"names"}
    /\ B!Keys("service") = {"name", "enable"}
    /\ B!Keys("service_off") = {"name"}
    /\ B!Keys("file") = {"path", "contents", "user", "group", "mode"}
    /\ B!Keys("dir") = {"path", "user", "group", "mode"}
    /\ B!Keys("line") = {"path", "line", "after"}
    /\ B!Keys("user") = {"name", "fullname", "groups", "shell", "home", "system"}
    /\ B!Keys("group") = {"name"}
    /\ B!Keys("sysctl") = {"name", "value"}
    /\ B!Keys("cron") = {"command", "user", "minute", "hour", "daymonth", "month", "dayweek"}
    /\ B!Keys("command") = {"command", "unless", "creates"}
<1>1. \A kind \in KindSet : B!Keys(kind) = {f.key : f \in FieldSet(kind)}
    BY KeysAre
<1> USE DEF KindSet, FieldSet, B!Field, B!Required, B!Text
<1>2. B!Keys("package") = {"names", "version"}
    BY <1>1
<1>3. B!Keys("package_absent") = {"names"}
    BY <1>1
<1>4. B!Keys("service") = {"name", "enable"}
    BY <1>1
<1>5. B!Keys("service_off") = {"name"}
    BY <1>1
<1>6. B!Keys("file") = {"path", "contents", "user", "group", "mode"}
    BY <1>1
<1>7. B!Keys("dir") = {"path", "user", "group", "mode"}
    BY <1>1
<1>8. B!Keys("line") = {"path", "line", "after"}
    BY <1>1
<1>9. B!Keys("user") = {"name", "fullname", "groups", "shell", "home", "system"}
    BY <1>1
<1>10. B!Keys("group") = {"name"}
    BY <1>1
<1>11. B!Keys("sysctl") = {"name", "value"}
    BY <1>1
<1>12. B!Keys("cron") = {"command", "user", "minute", "hour", "daymonth", "month", "dayweek"}
    BY <1>1
<1>13. B!Keys("command") = {"command", "unless", "creates"}
    BY <1>1
<1>14. QED
    BY <1>2, <1>3, <1>4, <1>5, <1>6, <1>7, <1>8, <1>9, <1>10, <1>11, <1>12, <1>13

\* An argument list has this value under this name; it has what a field of the item
\* holds, if that holds anything.
Has(f, x, v) == x \in DOMAIN f /\ f[x] = v

Gives(f, item, k, x) == item[k] # <<>> => Has(f, x, item[k])

LEMMA JoinedGives ==
    ASSUME NEW f, NEW g, NEW item
    PROVE  /\ DOMAIN B!Joined(f, g) = DOMAIN f \cup DOMAIN g
           /\ \A k, x : Gives(f, item, k, x) => Gives(B!Joined(f, g), item, k, x)
           /\ \A k, x : x \notin DOMAIN f /\ Gives(g, item, k, x) => Gives(B!Joined(f, g), item, k, x)
           /\ \A x, v : x \notin DOMAIN f /\ Has(g, x, v) => Has(B!Joined(f, g), x, v)
    BY BuilderLists DEF Joined, Has, Gives

LEMMA ArgGives ==
    ASSUME NEW item
    PROVE  /\ \A x, v : DOMAIN B!Arg(x, v) = {x} /\ Has(B!Arg(x, v), x, v)
           /\ \A k, x : Gives(B!Arg(x, item[k]), item, k, x)
           /\ \A X : DOMAIN B!Given(item, X) \subseteq X
           /\ \A X : \A x \in X : Gives(B!Given(item, X), item, x, x)
<1>1. \A x, v : DOMAIN B!Arg(x, v) = {x} /\ Has(B!Arg(x, v), x, v)
    BY DEF B!Arg, Has
<1>2. \A k, x : Gives(B!Arg(x, item[k]), item, k, x)
    BY <1>1 DEF Gives
<1>3. \A X : DOMAIN B!Given(item, X) = {x \in X : item[x] # <<>>}
    BY DEF B!Given
<1>4. \A X : \A x \in X : item[x] # <<>> => B!Given(item, X)[x] = item[x]
    BY DEF B!Given
<1>5. \A X : \A x \in X : Gives(B!Given(item, X), item, x, x)
    BY <1>3, <1>4 DEF Gives, Has
<1>6. QED
    BY <1>1, <1>2, <1>3, <1>5

\* An item that was read, and nothing is wrong with.
Right(item) ==
    /\ item.kind \in KindSet /\ ~B!Wrong(item)
    /\ item = [k \in B!Keys(item.kind) \cup {"kind"} |-> item[k]]
    /\ \A k \in B!Keys(item.kind) : Words(item[k])

\* What is in the block of one.
Shipped(item, args) ==
    /\ \A k \in B!Keys(item.kind) : \E x : Gives(args, item, k, x)
    /\ item.kind = "service" => Has(args, "enable", item.enable)

\* The names of packages, each in a block of its own sort.
LEMMA PackageNames ==
    ASSUME NEW item, Right(item), item.kind \in {"package", "package_absent"}
    PROVE  /\ item.names # <<>> /\ Len(item.names) \in Nat \ {0}
           /\ item.kind = "package" /\ item.version # <<>> =>
                item.names = <<item.names[1]>> /\ Len(item.names) = 1
<1>1. "names" \in B!Keys(item.kind) /\ Words(item.names)
    BY KeySets DEF Right
<1>2. B!Range(B!Fields[item.kind]) = FieldSet(item.kind)
    BY FieldsAre DEF Right
<1>3. B!Field("names", "lines", TRUE) \in FieldSet(item.kind)
    BY DEF FieldSet
<1>4. item.names # <<>>
    BY <1>2, <1>3 DEF Right, B!Wrong, B!Field
<1>5. Len(item.names) \in Nat \ {0}
    <2> DEFINE v == item.names
    <2>1. Words(v) /\ v # <<>>
        BY <1>1, <1>4
    <2> HIDE DEF v
    <2>2. Len(v) \in Nat /\ Len(v) > 0
        BY <2>1, FewWords
    <2>3. QED
        BY <2>2 DEF v
<1>6. ASSUME item.kind = "package", item.version # <<>>
      PROVE  item.names = <<item.names[1]>> /\ Len(item.names) = 1
    <2> DEFINE v == item.names
    <2>1. ~(Len(v) > 1) /\ Words(v)
        BY <1>1, <1>6 DEF Right, B!Wrong
    <2>2. Len(v) \in Nat \ {0}
        BY <1>5
    <2> HIDE DEF v
    <2>3. Len(v) = 1
        <3> DEFINE c == Len(v)
        <3>1. c \in Nat \ {0} /\ ~(c > 1)
            BY <2>1, <2>2
        <3> HIDE DEF c
        <3>2. c = 1
            BY <3>1
        <3>3. QED
            BY <3>2 DEF c
    <2>4. v = <<v[1]>>
        BY <2>1, <2>3, FewWords
    <2>5. QED
        BY <2>3, <2>4 DEF v
<1>7. QED
    BY <1>4, <1>5, <1>6

LEMMA EmitsAll ==
    ASSUME NEW item, Right(item)
    PROVE  Shipped(item, B!Emit(item).args)
<1>0. item.kind \in KindSet
    BY DEF Right
<1>1. CASE item.kind = "package"
    <2>1. B!Keys(item.kind) = {"names", "version"}
        BY <1>1, KeySets
    <2>2. CASE item.version = <<>>
        <3> DEFINE a == B!Arg("pkgs", item.names)
        <3>1. B!Emit(item).args = a
            BY <1>1, <2>2 DEF B!Emit, B!EmitPackage
        <3>2. Gives(a, item, "names", "pkgs")
            BY ArgGives
        <3>3. Gives(a, item, "version", "pkgs")
            BY <2>2 DEF Gives
        <3>4. QED
            BY <1>1, <2>1, <3>1, <3>2, <3>3 DEF Shipped
    <2>3. CASE item.version # <<>>
        <3> DEFINE a == B!Arg("name", item.names)
                   b == B!Arg("version", item.version)
        <3>1. item.names = <<item.names[1]>>
            BY <1>1, <2>3, PackageNames
        <3>2. B!Emit(item).args = B!Joined(a, b)
            BY <1>1, <2>3, <3>1 DEF B!Emit, B!EmitPackage
        <3>3. /\ DOMAIN a = {"name"} /\ Gives(a, item, "names", "name")
              /\ Gives(b, item, "version", "version")
            BY ArgGives
        <3> HIDE DEF a, b
        <3>4. /\ Gives(B!Joined(a, b), item, "names", "name")
              /\ Gives(B!Joined(a, b), item, "version", "version")
            BY <3>3, JoinedGives
        <3>5. QED
            BY <1>1, <2>1, <3>2, <3>4 DEF Shipped
    <2>4. QED
        BY <2>2, <2>3
<1>2. CASE item.kind = "package_absent"
    <2> DEFINE a == B!Arg("pkgs", item.names)
    <2>1. B!Emit(item).args = a
        BY <1>2 DEF B!Emit, B!Named
    <2>2. /\ DOMAIN a \subseteq {"pkgs"}
          /\ Gives(a, item, "names", "pkgs")
        BY ArgGives
    <2> HIDE DEF a
    <2>3. B!Keys(item.kind) = {"names"}
        BY <1>2, KeySets
    <2>4. QED
        BY <1>2, <2>1, <2>2, <2>3 DEF Shipped
<1>3. CASE item.kind = "service"
    <2> DEFINE a == B!Arg("name", item.name)
               b == B!Arg("enable", item.enable)
               c == B!Joined(a, b)
    <2>1. B!Emit(item).args = c
        BY <1>3 DEF B!Emit, B!Named, B!EmitService
    <2>2. /\ DOMAIN a \subseteq {"name"}
          /\ Gives(a, item, "name", "name")
        BY ArgGives
    <2> HIDE DEF a
    <2>3. /\ DOMAIN b \subseteq {"enable"}
          /\ Gives(b, item, "enable", "enable")
          /\ Has(b, "enable", item.enable)
        BY ArgGives
    <2> HIDE DEF b
    <2>4. /\ DOMAIN c \subseteq {"name", "enable"}
          /\ Gives(c, item, "name", "name")
          /\ Gives(c, item, "enable", "enable")
          /\ Has(c, "enable", item.enable)
        BY <2>2, <2>3, JoinedGives
    <2> HIDE DEF c
    <2>5. B!Keys(item.kind) = {"name", "enable"}
        BY <1>3, KeySets
    <2>6. QED
        BY <1>3, <2>1, <2>4, <2>5 DEF Shipped
<1>4. CASE item.kind = "service_off"
    <2> DEFINE a == B!Arg("name", item.name)
               b == B!Arg("enable", <<>>)
               c == B!Joined(a, b)
    <2>1. B!Emit(item).args = c
        BY <1>4 DEF B!Emit, B!Named
    <2>2. /\ DOMAIN a \subseteq {"name"}
          /\ Gives(a, item, "name", "name")
        BY ArgGives
    <2> HIDE DEF a
    <2>3. /\ DOMAIN b \subseteq {"enable"}
        BY ArgGives
    <2> HIDE DEF b
    <2>4. /\ DOMAIN c \subseteq {"name", "enable"}
          /\ Gives(c, item, "name", "name")
        BY <2>2, <2>3, JoinedGives
    <2> HIDE DEF c
    <2>5. B!Keys(item.kind) = {"name"}
        BY <1>4, KeySets
    <2>6. QED
        BY <1>4, <2>1, <2>4, <2>5 DEF Shipped
<1>5. CASE item.kind = "file"
    <2> DEFINE a == B!Arg("name", item.path)
               b == B!Arg("contents", item.contents)
               c == B!Joined(a, b)
               d == B!Given(item, {"user", "group", "mode"})
               e == B!Arg("makedirs", B!Ticked)
               f == B!Joined(d, e)
               g == B!Joined(c, f)
    <2>1. B!Emit(item).args = g
        BY <1>5 DEF B!Emit, B!Named, B!EmitFile, B!OwnerKeys
    <2>2. /\ DOMAIN a \subseteq {"name"}
          /\ Gives(a, item, "path", "name")
        BY ArgGives
    <2> HIDE DEF a
    <2>3. /\ DOMAIN b \subseteq {"contents"}
          /\ Gives(b, item, "contents", "contents")
        BY ArgGives
    <2> HIDE DEF b
    <2>4. /\ DOMAIN c \subseteq {"name", "contents"}
          /\ Gives(c, item, "path", "name")
          /\ Gives(c, item, "contents", "contents")
        BY <2>2, <2>3, JoinedGives
    <2> HIDE DEF c
    <2>5. /\ DOMAIN d \subseteq {"user", "group", "mode"}
          /\ Gives(d, item, "user", "user")
          /\ Gives(d, item, "group", "group")
          /\ Gives(d, item, "mode", "mode")
        BY ArgGives
    <2> HIDE DEF d
    <2>6. /\ DOMAIN e \subseteq {"makedirs"}
        BY ArgGives
    <2> HIDE DEF e
    <2>7. /\ DOMAIN f \subseteq {"user", "group", "mode", "makedirs"}
          /\ Gives(f, item, "user", "user")
          /\ Gives(f, item, "group", "group")
          /\ Gives(f, item, "mode", "mode")
        BY <2>5, <2>6, JoinedGives
    <2> HIDE DEF f
    <2>8. /\ DOMAIN g \subseteq {"name", "contents", "user", "group", "mode", "makedirs"}
          /\ Gives(g, item, "path", "name")
          /\ Gives(g, item, "contents", "contents")
          /\ Gives(g, item, "user", "user")
          /\ Gives(g, item, "group", "group")
          /\ Gives(g, item, "mode", "mode")
        BY <2>4, <2>7, JoinedGives
    <2> HIDE DEF g
    <2>9. B!Keys(item.kind) = {"path", "contents", "user", "group", "mode"}
        BY <1>5, KeySets
    <2>10. QED
        BY <1>5, <2>1, <2>8, <2>9 DEF Shipped
<1>6. CASE item.kind = "dir"
    <2> DEFINE a == B!Arg("name", item.path)
               b == B!Given(item, {"user", "group", "mode"})
               c == B!Joined(a, b)
               d == B!Arg("makedirs", B!Ticked)
               e == B!Joined(c, d)
    <2>1. B!Emit(item).args = e
        BY <1>6 DEF B!Emit, B!Named, B!OwnerKeys
    <2>2. /\ DOMAIN a \subseteq {"name"}
          /\ Gives(a, item, "path", "name")
        BY ArgGives
    <2> HIDE DEF a
    <2>3. /\ DOMAIN b \subseteq {"user", "group", "mode"}
          /\ Gives(b, item, "user", "user")
          /\ Gives(b, item, "group", "group")
          /\ Gives(b, item, "mode", "mode")
        BY ArgGives
    <2> HIDE DEF b
    <2>4. /\ DOMAIN c \subseteq {"name", "user", "group", "mode"}
          /\ Gives(c, item, "path", "name")
          /\ Gives(c, item, "user", "user")
          /\ Gives(c, item, "group", "group")
          /\ Gives(c, item, "mode", "mode")
        BY <2>2, <2>3, JoinedGives
    <2> HIDE DEF c
    <2>5. /\ DOMAIN d \subseteq {"makedirs"}
        BY ArgGives
    <2> HIDE DEF d
    <2>6. /\ DOMAIN e \subseteq {"name", "user", "group", "mode", "makedirs"}
          /\ Gives(e, item, "path", "name")
          /\ Gives(e, item, "user", "user")
          /\ Gives(e, item, "group", "group")
          /\ Gives(e, item, "mode", "mode")
        BY <2>4, <2>5, JoinedGives
    <2> HIDE DEF e
    <2>7. B!Keys(item.kind) = {"path", "user", "group", "mode"}
        BY <1>6, KeySets
    <2>8. QED
        BY <1>6, <2>1, <2>6, <2>7 DEF Shipped
<1>7. CASE item.kind = "line"
    <2> DEFINE a == B!Arg("name", item.path)
               b == B!Arg("content", item.line)
               c == B!Joined(a, b)
               d == B!Arg("mode", <<"ensure">>)
               e == IF item.after # <<>> THEN B!Arg("after", item.after) ELSE B!Arg("location", <<"end">>)
               f == B!Joined(d, e)
               g == B!Joined(c, f)
    <2>1. B!Emit(item).args = g
        BY <1>7 DEF B!Emit, B!Named, B!EmitLine
    <2>2. /\ DOMAIN a \subseteq {"name"}
          /\ Gives(a, item, "path", "name")
        BY ArgGives
    <2> HIDE DEF a
    <2>3. /\ DOMAIN b \subseteq {"content"}
          /\ Gives(b, item, "line", "content")
        BY ArgGives
    <2> HIDE DEF b
    <2>4. /\ DOMAIN c \subseteq {"name", "content"}
          /\ Gives(c, item, "path", "name")
          /\ Gives(c, item, "line", "content")
        BY <2>2, <2>3, JoinedGives
    <2> HIDE DEF c
    <2>5. /\ DOMAIN d \subseteq {"mode"}
        BY ArgGives
    <2> HIDE DEF d
    <2>6. /\ DOMAIN e \subseteq {"after", "location"}
          /\ Gives(e, item, "after", "after")
        <3>1. CASE item.after # <<>>
            <4>1. e = B!Arg("after", item.after)
                BY <3>1
            <4>2. /\ DOMAIN B!Arg("after", item.after) = {"after"}
                  /\ Gives(B!Arg("after", item.after), item, "after", "after")
                BY ArgGives
            <4> HIDE DEF e
            <4>3. QED
                BY <4>1, <4>2
        <3>2. CASE item.after = <<>>
            <4>1. e = B!Arg("location", <<"end">>)
                BY <3>2
            <4>2. DOMAIN e = {"location"}
                BY <4>1, ArgGives
            <4> HIDE DEF e
            <4>3. QED
                BY <3>2, <4>2 DEF Gives
        <3>3. QED
            BY <3>1, <3>2
    <2> HIDE DEF e
    <2>7. /\ DOMAIN f \subseteq {"mode", "after", "location"}
          /\ Gives(f, item, "after", "after")
        BY <2>5, <2>6, JoinedGives
    <2> HIDE DEF f
    <2>8. /\ DOMAIN g \subseteq {"name", "content", "mode", "after", "location"}
          /\ Gives(g, item, "path", "name")
          /\ Gives(g, item, "line", "content")
          /\ Gives(g, item, "after", "after")
        BY <2>4, <2>7, JoinedGives
    <2> HIDE DEF g
    <2>9. B!Keys(item.kind) = {"path", "line", "after"}
        BY <1>7, KeySets
    <2>10. QED
        BY <1>7, <2>1, <2>8, <2>9 DEF Shipped
<1>8. CASE item.kind = "user"
    <2> DEFINE a == B!Arg("name", item.name)
               b == B!Given(item, {"groups", "shell", "home", "fullname", "system"})
               c == B!Joined(a, b)
    <2>1. B!Emit(item).args = c
        BY <1>8 DEF B!Emit, B!Named, B!EmitUser
    <2>2. /\ DOMAIN a \subseteq {"name"}
          /\ Gives(a, item, "name", "name")
        BY ArgGives
    <2> HIDE DEF a
    <2>3. /\ DOMAIN b \subseteq {"groups", "shell", "home", "fullname", "system"}
          /\ Gives(b, item, "groups", "groups")
          /\ Gives(b, item, "shell", "shell")
          /\ Gives(b, item, "home", "home")
          /\ Gives(b, item, "fullname", "fullname")
          /\ Gives(b, item, "system", "system")
        BY ArgGives
    <2> HIDE DEF b
    <2>4. /\ DOMAIN c \subseteq {"name", "groups", "shell", "home", "fullname", "system"}
          /\ Gives(c, item, "name", "name")
          /\ Gives(c, item, "groups", "groups")
          /\ Gives(c, item, "shell", "shell")
          /\ Gives(c, item, "home", "home")
          /\ Gives(c, item, "fullname", "fullname")
          /\ Gives(c, item, "system", "system")
        BY <2>2, <2>3, JoinedGives
    <2> HIDE DEF c
    <2>5. B!Keys(item.kind) = {"name", "fullname", "groups", "shell", "home", "system"}
        BY <1>8, KeySets
    <2>6. QED
        BY <1>8, <2>1, <2>4, <2>5 DEF Shipped
<1>9. CASE item.kind = "group"
    <2> DEFINE a == B!Arg("name", item.name)
    <2>1. B!Emit(item).args = a
        BY <1>9 DEF B!Emit, B!Named
    <2>2. /\ DOMAIN a \subseteq {"name"}
          /\ Gives(a, item, "name", "name")
        BY ArgGives
    <2> HIDE DEF a
    <2>3. B!Keys(item.kind) = {"name"}
        BY <1>9, KeySets
    <2>4. QED
        BY <1>9, <2>1, <2>2, <2>3 DEF Shipped
<1>10. CASE item.kind = "sysctl"
    <2> DEFINE a == B!Arg("name", item.name)
               b == B!Arg("value", item.value)
               c == B!Joined(a, b)
    <2>1. B!Emit(item).args = c
        BY <1>10 DEF B!Emit, B!Named
    <2>2. /\ DOMAIN a \subseteq {"name"}
          /\ Gives(a, item, "name", "name")
        BY ArgGives
    <2> HIDE DEF a
    <2>3. /\ DOMAIN b \subseteq {"value"}
          /\ Gives(b, item, "value", "value")
        BY ArgGives
    <2> HIDE DEF b
    <2>4. /\ DOMAIN c \subseteq {"name", "value"}
          /\ Gives(c, item, "name", "name")
          /\ Gives(c, item, "value", "value")
        BY <2>2, <2>3, JoinedGives
    <2> HIDE DEF c
    <2>5. B!Keys(item.kind) = {"name", "value"}
        BY <1>10, KeySets
    <2>6. QED
        BY <1>10, <2>1, <2>4, <2>5 DEF Shipped
<1>11. CASE item.kind = "cron"
    <2> DEFINE a == B!Arg("name", item.command)
               b == B!Arg("user", IF item.user = <<>> THEN <<"root">> ELSE item.user)
               c == B!Joined(a, b)
               d == B!Given(item, {"minute", "hour", "daymonth", "month", "dayweek"})
               e == B!Joined(c, d)
    <2>1. B!Emit(item).args = e
        BY <1>11 DEF B!Emit, B!Named, B!EmitCron
    <2>2. /\ DOMAIN a \subseteq {"name"}
          /\ Gives(a, item, "command", "name")
        BY ArgGives
    <2> HIDE DEF a
    <2>3. /\ DOMAIN b \subseteq {"user"}
          /\ Gives(b, item, "user", "user")
        BY ArgGives DEF Gives
    <2> HIDE DEF b
    <2>4. /\ DOMAIN c \subseteq {"name", "user"}
          /\ Gives(c, item, "command", "name")
          /\ Gives(c, item, "user", "user")
        BY <2>2, <2>3, JoinedGives
    <2> HIDE DEF c
    <2>5. /\ DOMAIN d \subseteq {"minute", "hour", "daymonth", "month", "dayweek"}
          /\ Gives(d, item, "minute", "minute")
          /\ Gives(d, item, "hour", "hour")
          /\ Gives(d, item, "daymonth", "daymonth")
          /\ Gives(d, item, "month", "month")
          /\ Gives(d, item, "dayweek", "dayweek")
        BY ArgGives
    <2> HIDE DEF d
    <2>6. /\ DOMAIN e \subseteq {"name", "user", "minute", "hour", "daymonth", "month", "dayweek"}
          /\ Gives(e, item, "command", "name")
          /\ Gives(e, item, "user", "user")
          /\ Gives(e, item, "minute", "minute")
          /\ Gives(e, item, "hour", "hour")
          /\ Gives(e, item, "daymonth", "daymonth")
          /\ Gives(e, item, "month", "month")
          /\ Gives(e, item, "dayweek", "dayweek")
        BY <2>4, <2>5, JoinedGives
    <2> HIDE DEF e
    <2>7. B!Keys(item.kind) = {"command", "user", "minute", "hour", "daymonth", "month", "dayweek"}
        BY <1>11, KeySets
    <2>8. QED
        BY <1>11, <2>1, <2>6, <2>7 DEF Shipped
<1>12. CASE item.kind = "command"
    <2> DEFINE a == B!Arg("name", item.command)
               b == B!Given(item, {"unless", "creates"})
               c == B!Joined(a, b)
    <2>1. B!Emit(item).args = c
        BY <1>12 DEF B!Emit, B!Named
    <2>2. /\ DOMAIN a \subseteq {"name"}
          /\ Gives(a, item, "command", "name")
        BY ArgGives
    <2> HIDE DEF a
    <2>3. /\ DOMAIN b \subseteq {"unless", "creates"}
          /\ Gives(b, item, "unless", "unless")
          /\ Gives(b, item, "creates", "creates")
        BY ArgGives
    <2> HIDE DEF b
    <2>4. /\ DOMAIN c \subseteq {"name", "unless", "creates"}
          /\ Gives(c, item, "command", "name")
          /\ Gives(c, item, "unless", "unless")
          /\ Gives(c, item, "creates", "creates")
        BY <2>2, <2>3, JoinedGives
    <2> HIDE DEF c
    <2>5. B!Keys(item.kind) = {"command", "unless", "creates"}
        BY <1>12, KeySets
    <2>6. QED
        BY <1>12, <2>1, <2>4, <2>5 DEF Shipped
<1>13. QED
    BY <1>0, <1>1, <1>2, <1>3, <1>4, <1>5, <1>6, <1>7, <1>8, <1>9, <1>10, <1>11, <1>12 DEF KindSet

\* A block counts for what its item declares.
LEMMA CountIs ==
    ASSUME NEW item, Right(item), NEW block,
           block.fn = B!Emit(item).fn, block.args = B!Emit(item).args, block.short = FALSE
    PROVE  B!Count(block) = B!Declares(item) /\ B!Declares(item) \in Nat \ {0}
<1>0. item.kind \in KindSet
    BY DEF Right
<1>1. CASE item.kind \notin {"package", "package_absent"}
    <2>1. B!Emit(item).fn[1] # "pkg"
        BY <1>0, <1>1 DEF B!Emit, KindSet, B!EmitService, B!EmitFile, B!EmitLine, B!EmitUser, B!EmitCron
    <2>2. B!Count(block) = 1
        BY <2>1 DEF B!Count
    <2>3. QED
        BY <1>1, <2>2 DEF B!Declares
<1>2. CASE item.kind \in {"package", "package_absent"}
    <2>1. /\ item.names # <<>> /\ Len(item.names) \in Nat \ {0}
          /\ item.kind = "package" /\ item.version # <<>> =>
               item.names = <<item.names[1]>> /\ Len(item.names) = 1
        BY <1>2, PackageNames
    <2>2. B!Declares(item) = Len(item.names)
        BY <1>2 DEF B!Declares
    <2>3. CASE item.kind = "package" /\ item.version # <<>>
        <3> DEFINE a == B!Arg("name", item.names)
                   b == B!Arg("version", item.version)
        <3>1. B!Emit(item).args = B!Joined(a, b)
            BY <2>1, <2>3 DEF B!Emit, B!EmitPackage
        <3>2. DOMAIN a = {"name"} /\ DOMAIN b = {"version"}
            BY ArgGives
        <3> HIDE DEF a, b
        <3>3. DOMAIN B!Joined(a, b) = {"name", "version"}
            <4>1. DOMAIN B!Joined(a, b) = DOMAIN a \cup DOMAIN b
                BY JoinedGives
            <4>2. QED
                BY ONLY <3>2, <4>1
        <3>4. "pkgs" \notin DOMAIN block.args
            BY <3>1, <3>3
        <3>5. B!Count(block) = 1
            BY <3>4 DEF B!Count
        <3>6. QED
            BY <2>1, <2>2, <2>3, <3>5
    <2>4. CASE ~(item.kind = "package" /\ item.version # <<>>)
        <3> DEFINE a == B!Arg("pkgs", item.names)
        <3>1. B!Emit(item).args = a /\ B!Emit(item).fn[1] = "pkg"
            BY <1>2, <2>4 DEF B!Emit, B!EmitPackage
        <3>2. DOMAIN a = {"pkgs"} /\ a["pkgs"] = item.names
            BY ArgGives DEF Has
        <3> HIDE DEF a
        <3>3. block.fn[1] = "pkg" /\ block.args.pkgs = item.names /\ "pkgs" \in DOMAIN block.args
            BY <3>1, <3>2
        <3>4. B!Count(block) = Len(block.args.pkgs)
            BY <2>1, <3>3 DEF B!Count
        <3>5. QED
            BY <2>1, <2>2, <3>3, <3>4
    <2>5. QED
        BY <2>3, <2>4
<1>3. QED
    BY <1>1, <1>2

\* To add up the classes is to add up all: each of n counts is that of its own things.
CountsOf(count, n) == n \in Nat /\ \A i \in 1..n : count[i] \in Nat \ {0}

LEMMA ClassSums ==
    ASSUME NEW n, NEW count, CountsOf(count, n), NEW class
    PROVE  LET R   == {class[i] : i \in 1..n}
               sum == [r \in R |-> SumFunctionOnSet(count, {i \in 1..n : class[i] = r})]
           IN  SumFunctionOnSet(sum, R) = SumFunctionOnSet(count, 1..n)
<1> DEFINE Of(i) == {<<i, k>> : k \in 1..count[i]}
           D == UNION {Of(i) : i \in 1..n}
           In(I) == {x \in D : x[1] \in I}
           first == [x \in D |-> x[1]]
           kind == [x \in D |-> class[x[1]]]
           Is(r) == {i \in 1..n : class[i] = r}
           R == {class[i] : i \in 1..n}
           sum == [r \in R |-> SumFunctionOnSet(count, Is(r))]
<1>1. n \in Nat /\ \A i \in 1..n : count[i] \in Nat \ {0}
    BY DEF CountsOf
<1>2. ASSUME NEW i \in 1..n
      PROVE  IsFiniteSet(Of(i)) /\ Cardinality(Of(i)) = count[i]
    <2> DEFINE m == count[i]
               g == [k \in 1..m |-> <<i, k>>]
    <2>1. m \in Nat
        BY <1>1
    <2> HIDE DEF m
    <2>2. IsFiniteSet(1..m) /\ Cardinality(1..m) = m
        BY <2>1, FirstNumbers
    <2> DEFINE T == {<<i, k>> : k \in 1..m}
    <2>3. g \in Bijection(1..m, T)
        BY DEF Bijection, Injection, Surjection, IsInjective
    <2>4. ExistsBijection(1..m, T)
        BY <2>3 DEF ExistsBijection
    <2> HIDE DEF T
    <2>5. IsFiniteSet(T) /\ Cardinality(T) = m
        BY <2>2, <2>4, FS_Bijection
    <2>6. QED
        BY <2>5 DEF T, m
<1>3. \A x \in D : x[1] \in 1..n
    OBVIOUS
<1>4. \A i \in 1..n : Of(i) = {x \in D : x[1] = i} /\ Of(i) # {}
    <2> TAKE i \in 1..n
    <2>1. \A j \in 1..n : \A x \in Of(j) : x[1] = j
        OBVIOUS
    <2>2. 1 \in 1..count[i]
        BY <1>1
    <2>3. <<i, 1>> \in Of(i)
        BY <2>2
    <2> HIDE DEF Of
    <2>4. QED
        BY <2>1, <2>3
<1>5. IsFiniteSet(D)
    <2> DEFINE g == [i \in 1..n |-> Of(i)]
               S == {Of(i) : i \in 1..n}
    <2>1. g \in Surjection(1..n, S)
        BY DEF Surjection
    <2>2. IsFiniteSet(1..n)
        BY <1>1, FirstNumbers
    <2>3. \A T \in S : IsFiniteSet(T)
        BY <1>2
    <2> HIDE DEF g, S
    <2>4. IsFiniteSet(S)
        BY <2>1, <2>2, FS_Surjection
    <2>5. IsFiniteSet(UNION S)
        BY <2>3, <2>4, FS_UNION
    <2>6. QED
        BY <2>5 DEF S
<1>6. \A i \in 1..n : Cardinality({x \in D : x[1] = i}) = count[i]
    BY <1>2, <1>4
<1>7. \A i \in 1..n : \E x \in D : x[1] = i
    BY <1>4
<1> HIDE DEF D
<1>8. ASSUME NEW I \in SUBSET (1..n)
      PROVE  SumFunctionOnSet(count, I) = Cardinality(In(I))
    <2>1. IsFiniteSet(In(I))
        <3>1. In(I) \in SUBSET D
            OBVIOUS
        <3>2. QED
            BY <1>5, <3>1, FS_Subset
    <2>2. I = {first[x] : x \in In(I)}
        BY <1>7
    <2>3. \A i \in I : count[i] = Cardinality({x \in In(I) : first[x] = i})
        <3> TAKE i \in I
        <3>1. {x \in In(I) : first[x] = i} = {x \in D : x[1] = i}
            OBVIOUS
        <3>2. QED
            BY <1>6, <3>1
    <2> HIDE DEF In, first
    <2>4. Counts(count, I, first, In(I))
        BY <2>2, <2>3 DEF Counts
    <2>5. QED
        BY <2>1, <2>4, ClassesCover
<1>9. SumFunctionOnSet(count, 1..n) = Cardinality(D)
    <2>1. In(1..n) = D
        BY <1>3
    <2>2. 1..n \in SUBSET (1..n)
        OBVIOUS
    <2> HIDE DEF In
    <2>3. SumFunctionOnSet(count, 1..n) = Cardinality(In(1..n))
        BY <1>8, <2>2
    <2>4. QED
        BY <2>1, <2>3
<1>10. R = {kind[x] : x \in D}
    <2>1. \A i \in 1..n : \E x \in D : kind[x] = class[i]
        BY <1>7
    <2>2. \A x \in D : \E i \in 1..n : kind[x] = class[i]
        BY <1>3
    <2> HIDE DEF kind
    <2>3. R \subseteq {kind[x] : x \in D}
        BY <2>1
    <2>4. {kind[x] : x \in D} \subseteq R
        BY <2>2
    <2>5. QED
        BY <2>3, <2>4
<1>11. \A r \in R : sum[r] = Cardinality({x \in D : kind[x] = r})
    <2> TAKE r \in R
    <2>1. {x \in D : kind[x] = r} = In(Is(r))
        BY <1>3
    <2>2. Is(r) \in SUBSET (1..n)
        OBVIOUS
    <2>3. sum[r] = SumFunctionOnSet(count, Is(r))
        OBVIOUS
    <2> HIDE DEF Is, In, sum, kind
    <2>4. QED
        BY <1>8, <2>1, <2>2, <2>3
<1> HIDE DEF sum, kind, R
<1>12. Counts(sum, R, kind, D)
    BY <1>10, <1>11 DEF Counts
<1>13. SumFunctionOnSet(sum, R) = Cardinality(D)
    BY <1>5, <1>12, ClassesCover
<1>14. QED
    BY <1>9, <1>13 DEF sum, R

\* One more at the end of a list.
LEMMA OneMore ==
    ASSUME NEW m \in Nat, NEW s, s = [i \in 1..m |-> s[i]], NEW e
    PROVE  LET t == Append(s, e)
           IN  /\ t = [i \in 1..(m + 1) |-> t[i]] /\ t[m + 1] = e
               /\ \A i \in 1..m : t[i] = s[i]
<1> DEFINE S == {s[i] : i \in 1..m} \cup {e}
           t == Append(s, e)
<1>1. s \in [1..m -> S] /\ e \in S
    BY Zenon
<1> HIDE DEF S
<1>2. s \in Seq(S) /\ Len(s) = m
    BY <1>1
<1>3. /\ t = [i \in 1..(m + 1) |-> t[i]] /\ t[m + 1] = e
      /\ \A i \in 1..m : t[i] = s[i]
    BY <1>1, <1>2
<1>4. QED
    BY <1>3

\* Two numbers are told apart when they are written.
Numerals == \A k, l \in Nat : Numeral(k) = Numeral(l) => k = l

\* There is always a name that is free.
LEMMA NameIsFree ==
    ASSUME Numerals, NEW base, Words(base), NEW used, IsFiniteSet(used)
    PROVE  B!StateId(base, used) \notin used
<1> DEFINE numbered(k) == base \o <<Numeral(k)>>
           c == B!Cardinality(used)
           free == {k \in 2..(c + 2) : numbered(k) \notin used}
<1>1. PICK m \in Nat : base = [i \in 1..m |-> base[i]]
    BY DEF Words
<1>2. \A k, l \in Nat : Numeral(k) = Numeral(l) => k = l
    BY DEF Numerals
<1>3. \A k : numbered(k)[m + 1] = Numeral(k)
    <2> TAKE k
    <2> DEFINE y == <<Numeral(k)>>
    <2>1. 1 \in Nat /\ y = [i \in 1..1 |-> y[i]] /\ y[1] = Numeral(k) /\ 1 \in 1..1
        OBVIOUS
    <2> HIDE DEF y
    <2>2. (base \o y)[m + 1] = y[1]
        BY <1>1, <2>1, CatIs
    <2>3. QED
        BY <2>1, <2>2 DEF y
<1> HIDE DEF numbered
<1>4. \A k, l \in Nat : numbered(k) = numbered(l) => k = l
    BY <1>2, <1>3
<1>5. c = Cardinality(used) /\ c \in Nat
    BY BuilderLists, FS_CardinalityType
<1> HIDE DEF c
<1>6. free # {}
    <2> SUFFICES ASSUME free = {} PROVE FALSE
        OBVIOUS
    <2> DEFINE K == 2..(c + 2)
               g == [k \in K |-> numbered(k)]
    <2>1. \A k \in K : numbered(k) \in used
        OBVIOUS
    <2>2. \A k, l \in K : numbered(k) = numbered(l) => k = l
        BY <1>4, <1>5
    <2>3. Cardinality(K) = c + 1
        BY <1>5, FS_Interval
    <2> HIDE DEF K
    <2>4. g \in Injection(K, used)
        BY <2>1, <2>2 DEF Injection, IsInjective
    <2> HIDE DEF g
    <2>5. Cardinality(K) <= Cardinality(used)
        BY <2>4, FS_Injection
    <2>6. QED
        BY <1>5, <2>3, <2>5
<1>7. free \in SUBSET Nat
    BY <1>5
<1> HIDE DEF free
<1>8. PICK k \in free : \A l \in free : k <= l
    BY <1>6, <1>7, LeastOf
<1>9. /\ k \in 2..(c + 2) /\ numbered(k) \notin used
      /\ \A l \in 2..(k - 1) : numbered(l) \in used
    <2>1. k \in 2..(c + 2) /\ numbered(k) \notin used
        BY DEF free
    <2>2. \A l \in 2..(k - 1) : l \in 2..(c + 2) /\ ~(k <= l)
        BY <1>5, <2>1
    <2>3. \A l \in 2..(k - 1) : l \notin free
        BY <1>8, <2>2
    <2>4. QED
        BY <2>1, <2>2, <2>3 DEF free
<1> DEFINE Is(j) == numbered(j) \notin used /\ \A l \in 2..(j - 1) : numbered(l) \in used
           first == CHOOSE j \in 2..(c + 2) : Is(j)
<1>10. Is(first)
    BY <1>9
<1>11. B!StateId(base, used) = IF base \notin used THEN base ELSE numbered(first)
    BY DEF B!StateId, numbered, c
<1> HIDE DEF first
<1>12. QED
    BY <1>10, <1>11

\* Each item has what its name is made from.
NameOf(item) == Slug[item.kind] \o B!Hint(item)

Nameable(items, n) ==
    n \in Nat /\ items = [i \in 1..n |-> items[i]] /\ \A i \in 1..n : Words(NameOf(items[i]))

\* The names of the first n items; each is new to those before.
NextName(items, k, ids) == B!StateId(NameOf(items[k]), B!Range(ids))

NamesOf(items, n, f) ==
    f = [k \in 0..n |-> IF k = 0 THEN <<>> ELSE Append(f[k - 1], NextName(items, k, f[k - 1]))]

\* There are such names, whatever their number.
LEMMA NamesExist ==
    ASSUME NEW n \in Nat, NEW items
    PROVE  \E f : NamesOf(items, n, f)
<1> DEFINE Bad == {m \in 0..n : ~\E f : NamesOf(items, m, f)}
<1>1. Bad = {}
    <2> SUFFICES ASSUME Bad # {} PROVE FALSE
        OBVIOUS
    <2>1. Bad \in SUBSET Nat
        OBVIOUS
    <2> HIDE DEF Bad
    <2>2. PICK m \in Bad : \A k \in Bad : m <= k
        BY <2>1, LeastOf
    <2>3. m \in 0..n /\ ~\E f : NamesOf(items, m, f)
        BY DEF Bad
    <2>4. m # 0
        <3> DEFINE f == [k \in 0..0 |-> <<>>]
        <3>1. \A k \in 0..0 : k = 0
            OBVIOUS
        <3>2. NamesOf(items, 0, f)
            BY <3>1 DEF NamesOf
        <3>3. QED
            BY <2>3, <3>2
    <2>5. m - 1 \in 0..n /\ m - 1 < m
        BY <2>3, <2>4
    <2>6. PICK f : NamesOf(items, m - 1, f)
        <3>1. m - 1 \notin Bad
            BY <2>2, <2>3, <2>5
        <3>2. QED
            BY <2>5, <3>1 DEF Bad
    <2> DEFINE last == Append(f[m - 1], NextName(items, m, f[m - 1]))
               g == [k \in 0..m |-> IF k < m THEN f[k] ELSE last]
    <2>7. \A k \in 0..m : g[k] = IF k = 0 THEN <<>> ELSE Append(g[k - 1], NextName(items, k, g[k - 1]))
        <3> TAKE k \in 0..m
        <3>1. CASE k = m
            <4>1. g[k] = last /\ g[k - 1] = f[m - 1] /\ k # 0
                BY <2>3, <2>4, <3>1
            <4>2. QED
                BY <3>1, <4>1
        <3>2. CASE k < m
            <4>1. g[k] = f[k] /\ (k # 0 => g[k - 1] = f[k - 1])
                BY <2>3, <3>2
            <4>2. k \in 0..(m - 1)
                BY <2>3, <3>2
            <4>3. f[k] = IF k = 0 THEN <<>> ELSE Append(f[k - 1], NextName(items, k, f[k - 1]))
                BY <2>6, <4>2 DEF NamesOf
            <4> HIDE DEF g
            <4>4. QED
                BY <4>1, <4>3
        <3>3. QED
            BY <2>3, <3>1, <3>2
    <2>8. NamesOf(items, m, g)
        <3>1. g = [k \in 0..m |-> g[k]]
            OBVIOUS
        <3> HIDE DEF g
        <3>2. QED
            BY <2>7, <3>1 DEF NamesOf
    <2>9. QED
        BY <2>3, <2>8
<1>2. n \in 0..n
    OBVIOUS
<1>3. QED
    BY <1>1, <1>2

\* A list of n that has nothing twice.
Apart(ids, n) ==
    ids = [i \in 1..n |-> ids[i]] /\ \A i, j \in 1..n : ids[i] = ids[j] => i = j

LEMMA NamesApart ==
    ASSUME Numerals, NEW n, NEW items, Nameable(items, n), NEW f, NamesOf(items, n, f)
    PROVE  Apart(f[n], n)
<1>1. n \in Nat /\ \A i \in 1..n : Words(NameOf(items[i]))
    BY DEF Nameable
<1>2. \A k \in 0..n : f[k] = IF k = 0 THEN <<>> ELSE Append(f[k - 1], NextName(items, k, f[k - 1]))
    BY DEF NamesOf
<1> DEFINE Bad == {k \in 0..n : ~Apart(f[k], k)}
<1>3. Bad = {}
    <2> SUFFICES ASSUME Bad # {} PROVE FALSE
        OBVIOUS
    <2>1. Bad \in SUBSET Nat
        OBVIOUS
    <2> HIDE DEF Bad
    <2>2. PICK m \in Bad : \A k \in Bad : m <= k
        BY <2>1, LeastOf
    <2>3. m \in 0..n /\ ~Apart(f[m], m)
        BY DEF Bad
    <2>4. m # 0
        <3>1. f[0] = <<>>
            BY <1>1, <1>2
        <3>2. <<>> = [i \in 1..0 |-> <<>>[i]] /\ \A i \in 1..0 : FALSE
            OBVIOUS
        <3>3. Apart(<<>>, 0)
            BY <3>2 DEF Apart
        <3>4. QED
            BY <2>3, <3>1, <3>3
    <2> DEFINE p == m - 1
               s == f[p]
               e == NextName(items, m, s)
               t == Append(s, e)
    <2>5. p \in Nat /\ p \in 0..n /\ p < m /\ m = p + 1 /\ m \in 1..n
        BY <1>1, <2>3, <2>4
    <2>6. f[m] = t
        BY <1>2, <2>3, <2>4
    <2>7. Apart(s, p)
        <3>1. p \notin Bad
            BY <2>2, <2>3, <2>5
        <3>2. QED
            BY <2>5, <3>1 DEF Bad
    <2> HIDE DEF p, s, e
    <2>8. s = [i \in 1..p |-> s[i]] /\ \A i, j \in 1..p : s[i] = s[j] => i = j
        BY <2>7 DEF Apart
    <2>9. e \notin {s[i] : i \in 1..p}
        <3> DEFINE used == {s[i] : i \in 1..p}
        <3>1. B!Range(s) = used
            <4>1. DOMAIN s = 1..p
                BY <2>8
            <4>2. QED
                BY <4>1, BuilderLists
        <3>2. IsFiniteSet(used)
            <4> DEFINE g == [i \in 1..p |-> s[i]]
            <4>1. g \in Surjection(1..p, used)
                BY DEF Surjection
            <4>2. IsFiniteSet(1..p)
                BY <2>5, FirstNumbers
            <4> HIDE DEF g, used
            <4>3. QED
                BY <4>1, <4>2, FS_Surjection
        <3>3. Words(NameOf(items[m]))
            BY <1>1, <2>5
        <3>4. e = B!StateId(NameOf(items[m]), used)
            BY <3>1 DEF e, NextName
        <3> HIDE DEF used
        <3>5. e \notin used
            BY <3>2, <3>3, <3>4, NameIsFree
        <3>6. QED
            BY <3>5 DEF used
    <2>10. /\ t = [i \in 1..(p + 1) |-> t[i]] /\ t[p + 1] = e
           /\ \A i \in 1..p : t[i] = s[i]
        BY <2>5, <2>8, OneMore
    <2> HIDE DEF t
    <2>11. \A i \in 1..m : i \in 1..p \/ i = m
        BY <2>5
    <2>12. \A i, j \in 1..m : t[i] = t[j] => i = j
        <3>1. \A i \in 1..p : t[i] # e
            BY <2>9, <2>10
        <3>2. t[m] = e
            BY <2>5, <2>10
        <3>3. \A i, j \in 1..p : t[i] = t[j] => i = j
            BY <2>8, <2>10
        <3>4. QED
            BY ONLY <2>11, <3>1, <3>2, <3>3, Zenon
    <2>13. Apart(t, m)
        BY <2>5, <2>10, <2>12 DEF Apart
    <2>14. QED
        BY <2>3, <2>6, <2>13
<1>4. n \in 0..n
    BY <1>1
<1>5. QED
    BY <1>3, <1>4

LEMMA IdsApart ==
    ASSUME Numerals, NEW n, NEW items, Nameable(items, n)
    PROVE  Apart(B!Ids(items), n)
<1>1. n \in Nat /\ Len(items) = n
    <2>1. n \in Nat /\ items = [i \in 1..n |-> items[i]]
        BY DEF Nameable
    <2>2. QED
        BY <2>1
<1> DEFINE f == CHOOSE g : NamesOf(items, n, g)
<1>2. NamesOf(items, n, f)
    BY <1>1, NamesExist
<1>3. B!Ids(items) = f[n]
    <2>1. B!Ids(items) = LET g == CHOOSE h : NamesOf(items, Len(items), h) IN g[Len(items)]
        BY DEF B!Ids, NamesOf, NextName, NameOf
    <2>2. QED
        BY <1>1, <2>1
<1> HIDE DEF f
<1>4. QED
    BY <1>2, <1>3, NamesApart

\* The document of n items that are right.
LEMMA DocumentIs ==
    ASSUME Numerals, NEW n, NEW items, Nameable(items, n), \A i \in 1..n : Right(items[i])
    PROVE  LET doc == B!ToSls(items)
           IN  /\ Len(doc) = n /\ Len(items) = n
               /\ \A i, j \in DOMAIN doc : doc[i].id = doc[j].id => i = j
               /\ \A i \in DOMAIN doc : \A k \in B!Keys(items[i].kind) :
                    /\ items[i][k] # <<>> => items[i][k] \in B!Range(doc[i].args)
                    /\ k = "enable" => doc[i].args.enable = items[i].enable
               /\ B!ItemCount(doc) = B!SumFunction([i \in DOMAIN items |-> B!Declares(items[i])])
<1> DEFINE doc == B!ToSls(items)
           ids == B!Ids(items)
           Block(i) == [id |-> ids[i], fn |-> B!Emit(items[i]).fn, args |-> B!Emit(items[i]).args,
                        short |-> FALSE]
<1>1. n \in Nat /\ items = [i \in 1..n |-> items[i]] /\ DOMAIN items = 1..n
    BY DEF Nameable
<1>2. Len(items) = n
    BY <1>1
<1>3. doc = [i \in 1..n |-> Block(i)]
    BY <1>1 DEF B!ToSls
<1>4. Apart(ids, n)
    BY IdsApart
<1> HIDE DEF doc, ids
<1>5. /\ DOMAIN doc = 1..n /\ Len(doc) = n
      /\ \A i \in 1..n : /\ doc[i].id = ids[i] /\ doc[i].fn = B!Emit(items[i]).fn
                         /\ doc[i].args = B!Emit(items[i]).args /\ doc[i].short = FALSE
    BY <1>1, <1>3
<1>6. \A i, j \in DOMAIN doc : doc[i].id = doc[j].id => i = j
    BY <1>4, <1>5 DEF Apart
<1>7. ASSUME NEW i \in DOMAIN doc, NEW k \in B!Keys(items[i].kind)
      PROVE  /\ items[i][k] # <<>> => items[i][k] \in B!Range(doc[i].args)
             /\ k = "enable" => doc[i].args.enable = items[i].enable
    <2> DEFINE item == items[i]
               args == doc[i].args
    <2>1. Right(item) /\ args = B!Emit(item).args
        BY <1>5
    <2>2. Shipped(item, args)
        BY <2>1, EmitsAll
    <2>3. item.kind \in KindSet /\ k \in B!Keys(item.kind)
        BY <2>1 DEF Right
    <2> HIDE DEF item, args
    <2>4. item[k] # <<>> => item[k] \in B!Range(args)
        <3>1. PICK x : Gives(args, item, k, x)
            BY <2>2, <2>3 DEF Shipped
        <3>2. QED
            BY <3>1, BuilderLists DEF Gives, Has
    <2>5. k = "enable" => args.enable = item.enable
        <3>1. k = "enable" => item.kind = "service"
            BY <2>3, KeysAre
        <3>2. QED
            BY <2>2, <3>1 DEF Shipped, Has
    <2>6. QED
        BY <2>4, <2>5 DEF item, args
<1>8. B!ItemCount(doc) = B!SumFunction([i \in DOMAIN items |-> B!Declares(items[i])])
    <2> DEFINE count == [i \in 1..n |-> B!Declares(items[i])]
               class == [i \in 1..n |-> B!Noun(doc[i].fn)]
               R == {class[i] : i \in 1..n}
               sum == [r \in R |-> SumFunctionOnSet(count, {i \in 1..n : class[i] = r})]
    <2>1. \A i \in 1..n : B!Count(doc[i]) = B!Declares(items[i]) /\ B!Declares(items[i]) \in Nat \ {0}
        <3> TAKE i \in 1..n
        <3> DEFINE block == doc[i]
                   item == items[i]
        <3>1. /\ Right(item) /\ block.fn = B!Emit(item).fn /\ block.args = B!Emit(item).args
              /\ block.short = FALSE
            BY <1>5
        <3> HIDE DEF block, item
        <3>2. B!Count(block) = B!Declares(item) /\ B!Declares(item) \in Nat \ {0}
            BY <3>1, CountIs
        <3>3. QED
            BY <3>2 DEF block, item
    <2>2. [i \in DOMAIN doc |-> B!Count(doc[i])] = count
        BY <1>5, <2>1
    <2>3. CountsOf(count, n)
        BY <1>1, <2>1 DEF CountsOf
    <2>4. {B!Noun(doc[i].fn) : i \in DOMAIN doc} = R
        BY <1>5
    <2>5. \A r : {i \in DOMAIN doc : B!Noun(doc[i].fn) = r} = {i \in 1..n : class[i] = r}
        BY <1>5
    <2>6. B!Tally(doc) = [r \in {B!Noun(doc[i].fn) : i \in DOMAIN doc} |->
                            SumFunctionOnSet([i \in DOMAIN doc |-> B!Count(doc[i])],
                                             {i \in DOMAIN doc : B!Noun(doc[i].fn) = r})]
        BY BuilderLists DEF B!Tally
    <2> HIDE DEF count, class
    <2>7. B!Tally(doc) = sum
        BY <2>2, <2>4, <2>5, <2>6
    <2>8. SumFunctionOnSet(sum, R) = SumFunctionOnSet(count, 1..n)
        BY <2>3, ClassSums
    <2>9. DOMAIN sum = R /\ DOMAIN count = 1..n
        BY DEF count
    <2> HIDE DEF sum, R
    <2>10. B!ItemCount(doc) = SumFunctionOnSet(sum, R)
        BY <2>7, <2>9, BuilderLists DEF B!ItemCount
    <2>11. B!SumFunction(count) = SumFunctionOnSet(count, 1..n)
        BY <2>9, BuilderLists
    <2>12. [i \in DOMAIN items |-> B!Declares(items[i])] = count
        BY <1>1 DEF count
    <2>13. QED
        BY <2>8, <2>10, <2>11, <2>12
<1>9. QED
    BY <1>2, <1>5, <1>6, <1>7, <1>8 DEF doc

\* What the form may send.
Filled(raw) ==
    /\ \E m \in Nat : raw = [i \in 1..m |-> raw[i]]
    /\ \A i \in DOMAIN raw : Sent(raw[i])

\* What the words of the items leave of themselves is enough to name each block.
Nameables(raw) ==
    \A i \in DOMAIN B!Normalise(raw) : Words(NameOf(B!Normalise(raw)[i]))

LEMMA AllIsShipped ==
    ASSUME Numerals, NEW raw, Filled(raw), ~B!Problems(B!Normalise(raw)) => Nameables(raw)
    PROVE  B!ShipsWhatIsAsked(raw)
<1> DEFINE items == B!Normalise(raw)
           doc == B!ToSls(items)
<1>1. PICK m \in Nat : raw = [i \in 1..m |-> raw[i]]
    BY DEF Filled
<1>2. \A i \in 1..m : Sent(raw[i])
    BY <1>1 DEF Filled
<1>3. (\E n : ItemList(items, n)) /\ B!Normalise(items) = items
    BY <1>1, <1>2, NormalIs
<1>4. ASSUME ~B!Problems(items)
      PROVE  /\ Len(doc) = Len(items)
             /\ \A i, j \in DOMAIN doc : doc[i].id = doc[j].id => i = j
             /\ \A i \in DOMAIN doc : \A k \in B!Keys(items[i].kind) :
                  /\ items[i][k] # <<>> => items[i][k] \in B!Range(doc[i].args)
                  /\ k = "enable" => doc[i].args.enable = items[i].enable
             /\ B!ItemCount(doc) = B!SumFunction([i \in DOMAIN items |-> B!Declares(items[i])])
    <2>n. Nameables(raw)
        BY <1>4
    <2> HIDE DEF items
    <2>1. PICK n : ItemList(items, n)
        BY <1>3
    <2>2. DOMAIN items = 1..n /\ n \in Nat /\ items = [i \in 1..n |-> items[i]]
        BY <2>1 DEF ItemList
    <2>3. \A i \in 1..n : Right(items[i])
        BY <1>4, <2>1, <2>2 DEF ItemList, Right, B!Problems
    <2>4. Nameable(items, n)
        BY <2>n, <2>2 DEF Nameable, Nameables, items
    <2>5. QED
        BY <2>3, <2>4, DocumentIs
<1>5. QED
    BY <1>3, <1>4 DEF B!ShipsWhatIsAsked

\* An item of a template: its kind's required fields have words, and no version is
\* asked for.
Offered(r) ==
    /\ Sent(r) /\ r.kind \in KindSet /\ "version" \notin DOMAIN r
    /\ \A f \in FieldSet(r.kind) : f.required => f.key \in DOMAIN r /\ r[f.key] # <<>>

Clear(r) == \A k \in DOMAIN r \ {"kind"} : \A j \in DOMAIN r[k] : r[k][j] \notin {Blank, Broken}

LEMMA OfferedIsRight ==
    ASSUME NEW r, Offered(r), Clear(r)
    PROVE  ~B!Wrong(B!NormaliseOne(r))
<1> DEFINE kind == r.kind
           item == B!NormaliseOne(r)
           keys == B!Keys(kind)
<1>1. /\ "kind" \notin keys /\ keys = {f.key : f \in FieldSet(kind)}
      /\ \A k \in keys : FieldOf(kind, k) \in FieldSet(kind) /\ FieldOf(kind, k).key = k
    BY KeysAre DEF Offered
<1>2. item = [k \in keys \cup {"kind"} |-> IF k = "kind" THEN kind ELSE B!Clean(r, FieldOf(kind, k))]
    BY DEF B!NormaliseOne, FieldOf
<1> HIDE DEF item, keys
<1>3. /\ DOMAIN item = keys \cup {"kind"} /\ item.kind = kind
      /\ \A k \in keys : item[k] = B!Clean(r, FieldOf(kind, k))
    BY <1>1, <1>2
<1>4. ASSUME NEW k \in keys
      PROVE  item[k] = IF k \in DOMAIN r THEN r[k] ELSE B!Default(kind, k)
    <2> DEFINE f == FieldOf(kind, k)
    <2>1. f.key = k /\ k # "kind" /\ item[k] = B!Clean(r, f)
        BY <1>1, <1>3
    <2> HIDE DEF f
    <2>2. CASE k \notin DOMAIN r
        BY <2>1, <2>2 DEF B!Clean
    <2>3. CASE k \in DOMAIN r
        <3> DEFINE v == r[k]
        <3>1. Words(v) /\ \A j \in DOMAIN v : v[j] # Blank
            BY <2>1, <2>3 DEF Offered, Sent, Clear
        <3>2. item[k] = IF f.type \in {"bool", "body"} THEN v ELSE B!Stripped(v)
            BY <2>1, <2>3 DEF B!Clean
        <3> HIDE DEF v
        <3>3. PICK n \in Nat : v = [i \in 1..n |-> v[i]]
            BY <3>1 DEF Words
        <3>4. {i \in DOMAIN v : v[i] # Blank} = 1..n
            BY <3>1, <3>3
        <3>5. B!Stripped(v) = v
            BY <3>3, <3>4, AtAll, BuilderLists DEF B!Stripped
        <3>6. item[k] = v
            BY <3>2, <3>5
        <3>7. QED
            BY <2>3, <3>6 DEF v
    <2>4. QED
        BY <2>2, <2>3
<1>5. ~\E f \in B!Range(B!Fields[item.kind]) : f.required /\ item[f.key] = <<>>
    <2>1. B!Range(B!Fields[item.kind]) = FieldSet(kind)
        BY <1>3, FieldsAre DEF Offered
    <2>2. \A f \in FieldSet(kind) : f.key \in keys
        BY <1>1
    <2>3. \A f \in FieldSet(kind) : f.required => f.key \in DOMAIN r /\ r[f.key] # <<>>
        BY DEF Offered
    <2>4. \A f \in FieldSet(kind) : f.required => item[f.key] = r[f.key]
        BY <1>4, <2>2, <2>3
    <2>5. QED
        BY <2>1, <2>3, <2>4
<1>6. item.kind = "package" => item.version = <<>>
    <2> SUFFICES ASSUME kind = "package" PROVE item["version"] = <<>>
        BY <1>3
    <2>1. "version" \in keys /\ "version" \notin DOMAIN r
        BY KeySets DEF keys, Offered
    <2>2. item["version"] = B!Default(kind, "version")
        BY <1>4, <2>1
    <2>3. QED
        BY <2>2 DEF B!Default
<1>7. ASSUME NEW k \in {"path", "name", "command"} \cap DOMAIN item
      PROVE  item[k] # <<Broken>>
    <2>1. k \in keys /\ k # "kind" /\ k # "enable"
        BY <1>3
    <2>2. CASE k \in DOMAIN r
        <3> DEFINE v == r[k]
        <3>1. \A j \in DOMAIN v : v[j] # Broken
            BY <2>1, <2>2 DEF Clear
        <3>2. item[k] = v
            BY <1>4, <2>1, <2>2
        <3> HIDE DEF v
        <3>3. v # <<Broken>>
            BY <3>1
        <3>4. QED
            BY <3>2, <3>3
    <2>3. CASE k \notin DOMAIN r
        <3>1. item[k] = B!Default(kind, k)
            BY <1>4, <2>1, <2>3
        <3>2. item[k] = <<>>
            BY <2>1, <3>1 DEF B!Default
        <3>3. QED
            BY <3>2
    <2>4. QED
        BY <2>2, <2>3
<1>8. QED
    BY <1>5, <1>6, <1>7 DEF B!Wrong, item

LEMMA OfferedTogether ==
    ASSUME NEW m \in Nat, m > 0, NEW t, t = [i \in 1..m |-> t[i]],
           \A i \in 1..m : Offered(t[i]) /\ Clear(t[i])
    PROVE  ~B!Problems(B!Normalise(t))
<1> DEFINE items == B!Normalise(t)
<1>1. {i \in DOMAIN t : t[i].kind \in B!Kinds} = 1..m
    BY FieldsAre DEF Offered
<1>2. At(t, 1..m) = t
    BY AtAll
<1>3. items = [i \in 1..m |-> B!NormaliseOne(t[i])]
    <2>1. DOMAIN t = 1..m
        OBVIOUS
    <2>2. QED
        BY <1>1, <1>2, <2>1, BuilderLists DEF B!Normalise
<1> HIDE DEF items
<1>4. DOMAIN items = 1..m /\ \A i \in 1..m : items[i] = B!NormaliseOne(t[i])
    BY <1>3
<1>5. \A i \in 1..m : ~B!Wrong(items[i])
    BY <1>4, OfferedIsRight
<1>6. items # <<>>
    BY <1>4
<1>7. QED
    BY <1>4, <1>5, <1>6 DEF B!Problems, items

LEMMA ItemIs ==
    ASSUME NEW kind, NEW given, "kind" \notin DOMAIN given
    PROVE  LET r == B!Item(kind, given)
           IN  /\ DOMAIN r = {"kind"} \cup DOMAIN given /\ r.kind = kind
               /\ \A x \in DOMAIN given : r[x] = given[x]
<1>1. B!Item(kind, given) = Joined([kind |-> kind], given)
    BY BuilderLists DEF B!Item
<1>2. QED
    BY <1>1 DEF Joined

\* An item with these words in it is as a template may offer it.
LEMMA ItemOffered ==
    ASSUME NEW kind \in KindSet, NEW given,
           "kind" \notin DOMAIN given, "version" \notin DOMAIN given,
           \A x \in DOMAIN given : Words(given[x]) /\ given[x] # <<>>,
           \A f \in FieldSet(kind) : f.required => f.key \in DOMAIN given
    PROVE  Offered(B!Item(kind, given))
<1> DEFINE r == B!Item(kind, given)
<1>1. /\ DOMAIN r = {"kind"} \cup DOMAIN given /\ r.kind = kind
      /\ \A x \in DOMAIN given : r[x] = given[x]
    BY ItemIs
<1> HIDE DEF r
<1>2. Sent(r)
    BY <1>1 DEF Sent
<1>3. \A f \in FieldSet(kind) : f.required => f.key \in DOMAIN r /\ r[f.key] # <<>>
    BY <1>1
<1>4. QED
    BY <1>1, <1>2, <1>3 DEF Offered, r

LEMMA TemplateItems ==
    /\ \A p, q : Offered(B!Line(p, q))
    /\ \A p : Offered(B!Service(p))
    /\ \A p : Offered(B!Item("package", [names |-> <<p>>]))
    /\ Offered(B!Item("package", [names |-> <<"curl", "git", "htop", "rsync", "vim", "ca-certificates">>]))
    /\ \A p, q : Offered(B!Item("dir", [path |-> <<p>>, mode |-> <<q>>]))
    /\ \A p : Offered(B!Item("group", [name |-> <<p>>]))
    /\ \A p, q, r, s, u, v :
         Offered(B!Item("user", [name |-> <<p>>, fullname |-> <<q>>, groups |-> <<r, s>>,
                                 shell |-> <<u>>, home |-> <<v>>]))
    /\ \A p, q, r : Offered(B!Item("file", [path |-> <<p>>, mode |-> <<q>>, contents |-> <<r>>]))
<1>w. /\ \A w : Words(<<w>>) /\ <<w>> # <<>>
      /\ \A w, x : Words(<<w, x>>) /\ <<w, x>> # <<>>
      /\ Words(<<"curl", "git", "htop", "rsync", "vim", "ca-certificates">>)
      /\ <<"curl", "git", "htop", "rsync", "vim", "ca-certificates">> # <<>>
    <2>1. \A w : Words(<<w>>)
        BY FewWords
    <2>2. \A w, x : <<w, x>> = [i \in 1..2 |-> <<w, x>>[i]]
        OBVIOUS
    <2> DEFINE many == <<"curl", "git", "htop", "rsync", "vim", "ca-certificates">>
    <2>3. many = [i \in 1..6 |-> many[i]] /\ many # <<>>
        OBVIOUS
    <2> HIDE DEF many
    <2>4. Words(many)
        BY <2>3 DEF Words
    <2>5. \A w, x : Words(<<w, x>>)
        BY <2>2 DEF Words
    <2>6. QED
        BY <2>1, <2>3, <2>4, <2>5 DEF many
<1>1. ASSUME NEW p, NEW q
      PROVE  Offered(B!Line(p, q))
    <2> DEFINE given == [path |-> <<p>>, line |-> <<q>>]
    <2>1. DOMAIN given = {"path", "line"} /\ "line" \in KindSet
        BY DEF KindSet
    <2>2. \A x \in DOMAIN given : Words(given[x]) /\ given[x] # <<>>
        BY <1>w DEF B!Ticked
    <2>3. \A f \in FieldSet("line") : f.required => f.key \in {"path", "line"}
        BY DEF FieldSet, B!Required, B!Text, B!Field
    <2> HIDE DEF given
    <2>4. Offered(B!Item("line", given))
        BY <2>1, <2>2, <2>3, ItemOffered
    <2>5. QED
        BY <2>4 DEF given, B!Line
<1>2. ASSUME NEW p
      PROVE  Offered(B!Service(p))
    <2> DEFINE given == [name |-> <<p>>, enable |-> B!Ticked]
    <2>1. DOMAIN given = {"name", "enable"} /\ "service" \in KindSet
        BY DEF KindSet
    <2>2. \A x \in DOMAIN given : Words(given[x]) /\ given[x] # <<>>
        BY <1>w DEF B!Ticked
    <2>3. \A f \in FieldSet("service") : f.required => f.key \in {"name", "enable"}
        BY DEF FieldSet, B!Required, B!Text, B!Field
    <2> HIDE DEF given
    <2>4. Offered(B!Item("service", given))
        BY <2>1, <2>2, <2>3, ItemOffered
    <2>5. QED
        BY <2>4 DEF given, B!Service
<1>3. ASSUME NEW p
      PROVE  Offered(B!Item("package", [names |-> <<p>>]))
    <2> DEFINE given == [names |-> <<p>>]
    <2>1. DOMAIN given = {"names"} /\ "package" \in KindSet
        BY DEF KindSet
    <2>2. \A x \in DOMAIN given : Words(given[x]) /\ given[x] # <<>>
        BY <1>w DEF B!Ticked
    <2>3. \A f \in FieldSet("package") : f.required => f.key \in {"names"}
        BY DEF FieldSet, B!Required, B!Text, B!Field
    <2> HIDE DEF given
    <2>4. Offered(B!Item("package", given))
        BY <2>1, <2>2, <2>3, ItemOffered
    <2>5. QED
        BY <2>4 DEF given
<1>4. Offered(B!Item("package", [names |-> <<"curl", "git", "htop", "rsync", "vim", "ca-certificates">>]))
    <2> DEFINE given == [names |-> <<"curl", "git", "htop", "rsync", "vim", "ca-certificates">>]
    <2>1. DOMAIN given = {"names"} /\ "package" \in KindSet
        BY DEF KindSet
    <2>2. \A x \in DOMAIN given : Words(given[x]) /\ given[x] # <<>>
        BY <1>w DEF B!Ticked
    <2>3. \A f \in FieldSet("package") : f.required => f.key \in {"names"}
        BY DEF FieldSet, B!Required, B!Text, B!Field
    <2> HIDE DEF given
    <2>4. Offered(B!Item("package", given))
        BY <2>1, <2>2, <2>3, ItemOffered
    <2>5. QED
        BY <2>4 DEF given
<1>5. ASSUME NEW p, NEW q
      PROVE  Offered(B!Item("dir", [path |-> <<p>>, mode |-> <<q>>]))
    <2> DEFINE given == [path |-> <<p>>, mode |-> <<q>>]
    <2>1. DOMAIN given = {"path", "mode"} /\ "dir" \in KindSet
        BY DEF KindSet
    <2>2. \A x \in DOMAIN given : Words(given[x]) /\ given[x] # <<>>
        BY <1>w DEF B!Ticked
    <2>3. \A f \in FieldSet("dir") : f.required => f.key \in {"path", "mode"}
        BY DEF FieldSet, B!Required, B!Text, B!Field
    <2> HIDE DEF given
    <2>4. Offered(B!Item("dir", given))
        BY <2>1, <2>2, <2>3, ItemOffered
    <2>5. QED
        BY <2>4 DEF given
<1>6. ASSUME NEW p
      PROVE  Offered(B!Item("group", [name |-> <<p>>]))
    <2> DEFINE given == [name |-> <<p>>]
    <2>1. DOMAIN given = {"name"} /\ "group" \in KindSet
        BY DEF KindSet
    <2>2. \A x \in DOMAIN given : Words(given[x]) /\ given[x] # <<>>
        BY <1>w DEF B!Ticked
    <2>3. \A f \in FieldSet("group") : f.required => f.key \in {"name"}
        BY DEF FieldSet, B!Required, B!Text, B!Field
    <2> HIDE DEF given
    <2>4. Offered(B!Item("group", given))
        BY <2>1, <2>2, <2>3, ItemOffered
    <2>5. QED
        BY <2>4 DEF given
<1>7. ASSUME NEW p, NEW q, NEW r, NEW s, NEW u, NEW v
      PROVE  Offered(B!Item("user", [name |-> <<p>>, fullname |-> <<q>>, groups |-> <<r, s>>,
                                     shell |-> <<u>>, home |-> <<v>>]))
    <2> DEFINE given == [name |-> <<p>>, fullname |-> <<q>>, groups |-> <<r, s>>,
                                shell |-> <<u>>, home |-> <<v>>]
    <2>1. DOMAIN given = {"name", "fullname", "groups", "shell", "home"} /\ "user" \in KindSet
        BY DEF KindSet
    <2>2. \A x \in DOMAIN given : Words(given[x]) /\ given[x] # <<>>
        BY <1>w DEF B!Ticked
    <2>3. \A f \in FieldSet("user") : f.required => f.key \in {"name", "fullname", "groups", "shell", "home"}
        BY DEF FieldSet, B!Required, B!Text, B!Field
    <2> HIDE DEF given
    <2>4. Offered(B!Item("user", given))
        BY <2>1, <2>2, <2>3, ItemOffered
    <2>5. QED
        BY <2>4 DEF given
<1>8. ASSUME NEW p, NEW q, NEW r
      PROVE  Offered(B!Item("file", [path |-> <<p>>, mode |-> <<q>>, contents |-> <<r>>]))
    <2> DEFINE given == [path |-> <<p>>, mode |-> <<q>>, contents |-> <<r>>]
    <2>1. DOMAIN given = {"path", "mode", "contents"} /\ "file" \in KindSet
        BY DEF KindSet
    <2>2. \A x \in DOMAIN given : Words(given[x]) /\ given[x] # <<>>
        BY <1>w DEF B!Ticked
    <2>3. \A f \in FieldSet("file") : f.required => f.key \in {"path", "mode", "contents"}
        BY DEF FieldSet, B!Required, B!Text, B!Field
    <2> HIDE DEF given
    <2>4. Offered(B!Item("file", given))
        BY <2>1, <2>2, <2>3, ItemOffered
    <2>5. QED
        BY <2>4 DEF given
<1>9. QED
    BY <1>1, <1>2, <1>3, <1>4, <1>5, <1>6, <1>7, <1>8

LEMMA TemplatesOffered ==
    ASSUME NEW t \in B!Templates
    PROVE  \E m \in Nat \ {0} : t = [i \in 1..m |-> t[i]] /\ \A i \in 1..m : Offered(t[i])
<1>1. ASSUME NEW a, Offered(a), t = <<a>>
      PROVE  \E m \in Nat \ {0} : t = [i \in 1..m |-> t[i]] /\ \A i \in 1..m : Offered(t[i])
    <2>1. t = [i \in 1..1 |-> t[i]] /\ \A i \in 1..1 : t[i] = a
        BY <1>1
    <2>2. QED
        BY <1>1, <2>1
<1>2. ASSUME NEW a, NEW b, Offered(a), Offered(b), t = <<a, b>>
      PROVE  \E m \in Nat \ {0} : t = [i \in 1..m |-> t[i]] /\ \A i \in 1..m : Offered(t[i])
    <2>1. t = [i \in 1..2 |-> t[i]] /\ \A i \in 1..2 : t[i] \in {a, b}
        BY <1>2
    <2>2. QED
        BY <1>2, <2>1
<1>3. ASSUME NEW a, NEW b, NEW c, Offered(a), Offered(b), Offered(c), t = <<a, b, c>>
      PROVE  \E m \in Nat \ {0} : t = [i \in 1..m |-> t[i]] /\ \A i \in 1..m : Offered(t[i])
    <2>1. t = [i \in 1..3 |-> t[i]] /\ \A i \in 1..3 : t[i] \in {a, b, c}
        BY <1>3
    <2>2. QED
        BY <1>3, <2>1
<1>4. \A p, q : Offered(B!Line(p, q))
    BY TemplateItems
<1>5. \A p : Offered(B!Service(p))
    BY TemplateItems
<1>6. \A p : Offered(B!Item("package", [names |-> <<p>>]))
    BY TemplateItems
<1> DEFINE web == B!Item("package", [names |-> <<"nginx">>])
           www == B!Item("dir", [path |-> <<"/srv/www">>, mode |-> <<"0755">>])
           root == B!Line("/etc/ssh/sshd_config", "PermitRootLogin no")
           password == B!Line("/etc/ssh/sshd_config", "PasswordAuthentication no")
           tools == B!Item("package", [names |-> <<"curl", "git", "htop", "rsync", "vim", "ca-certificates">>])
           clock == B!Item("package", [names |-> <<"systemd-timesyncd">>])
           group == B!Item("group", [name |-> <<"deploy">>])
           user == B!Item("user", [name |-> <<"deploy">>, fullname |-> <<"Deployment account">>,
                                   groups |-> <<"sudo", "deploy">>, shell |-> <<"/bin/bash">>,
                                   home |-> <<"/home/deploy">>])
           motd == B!Item("file", [path |-> <<"/etc/motd">>, mode |-> <<"0644">>,
                                   contents |-> <<"Managed by Sysible Baseline">>])
           on(name) == B!Service(name)
<1>7. Offered(web) /\ Offered(clock)
    BY <1>6
<1>8. Offered(www)
    BY TemplateItems
<1>9. Offered(root) /\ Offered(password)
    BY <1>4
<1>10. Offered(on("nginx")) /\ Offered(on("ssh")) /\ Offered(on("systemd-timesyncd"))
    BY <1>5
<1>11. Offered(tools)
    BY TemplateItems
<1>12. Offered(group)
    BY TemplateItems
<1>13. Offered(user)
    BY TemplateItems
<1>14. Offered(motd)
    BY TemplateItems
<1>15. \/ t = <<web, www, on("nginx")>>
       \/ t = <<root, password, on("ssh")>>
       \/ t = <<tools>>
       \/ t = <<clock, on("systemd-timesyncd")>>
       \/ t = <<group, user>>
       \/ t = <<motd>>
    BY Zenon DEF B!Templates
<1> HIDE DEF web, www, root, password, tools, clock, group, user, motd, on
<1>16. CASE t = <<web, www, on("nginx")>>
    BY <1>3, <1>7, <1>8, <1>10, <1>16
<1>17. CASE t = <<root, password, on("ssh")>>
    BY <1>3, <1>9, <1>10, <1>17
<1>18. CASE t = <<tools>>
    BY <1>1, <1>11, <1>18
<1>19. CASE t = <<clock, on("systemd-timesyncd")>>
    BY <1>2, <1>7, <1>10, <1>19
<1>20. CASE t = <<group, user>>
    BY <1>2, <1>12, <1>13, <1>20
<1>21. CASE t = <<motd>>
    BY <1>1, <1>14, <1>21
<1>22. QED
    BY <1>15, <1>16, <1>17, <1>18, <1>19, <1>20, <1>21

LEMMA TemplatesSound ==
    B!TemplatesAreSound
<1> SUFFICES ASSUME NEW t \in B!Templates PROVE ~B!Problems(B!Normalise(t))
    BY DEF B!TemplatesAreSound
<1>1. PICK m \in Nat \ {0} : t = [i \in 1..m |-> t[i]] /\ \A i \in 1..m : Offered(t[i])
    BY TemplatesOffered
<1>2. \A i \in 1..m : Clear(t[i])
    <2>1. DOMAIN t = 1..m
        BY <1>1
    <2>2. \A i \in DOMAIN t : \A k \in DOMAIN t[i] \ {"kind"} :
            \A j \in DOMAIN t[i][k] : t[i][k][j] \notin {Blank, Broken}
        BY TemplatesAssumption, Zenon
    <2>3. QED
        BY <2>1, <2>2 DEF Clear
<1>3. m \in Nat /\ m > 0
    OBVIOUS
<1>4. QED
    BY <1>1, <1>2, <1>3, OfferedTogether

\* Whatever the form sends, and however many items: what it accepts is shipped, all of
\* it and under names of its own, and the console's templates are accepted as they stand.
THEOREM BuilderShipsAllThatIsAsked ==
    ASSUME Numerals,
           asked.of = "builder" =>
             /\ Filled(asked.raw)
             /\ ~B!Problems(B!Normalise(asked.raw)) => Nameables(asked.raw)
    PROVE  BuilderShipsWhatIsAsked
BY AllIsShipped, TemplatesSound DEF BuilderShipsWhatIsAsked

=============================================================================
