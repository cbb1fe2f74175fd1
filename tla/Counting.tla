------------------------------ MODULE Counting ------------------------------
(***************************************************************************)
(* Counting who names a thing.  The kernel keeps tables by owner (the      *)
(* descriptors of a process, the page table of a space), each a row of     *)
(* slots, and reference counts that should be numbers of slots.  What a    *)
(* change of one slot or of one row does to such a number.                 *)
(***************************************************************************)
EXTENDS Integers, FiniteSets, FiniteSetTheorems, WellFoundedInduction, TLAPS

\* The slots of table m, owners A by slots B, that hold x; those of one row.
Holding(m, A, B, x) == {s \in A \X B : m[s[1]][s[2]] = x}
InRow(row, B, x) == {b \in B : row[b] = x}

\* Table n differs from m in the row of a at most.
SameBut(m, n, A, B, a) == \A o \in A \ {a} : \A b \in B : n[o][b] = m[o][b]
\* ... or in slot b of that row at most.
SameButSlot(m, n, A, B, a, b) ==
    \A o \in A : \A c \in B : <<o, c>> # <<a, b>> => n[o][c] = m[o][c]

\* A nonempty set of naturals has a least element.
LEMMA LeastNatural ==
    ASSUME NEW T \in SUBSET Nat, T # {}
    PROVE  \E m \in T : \A n \in T : m <= n
<1> DEFINE R == {p \in Nat \X Nat : p[1] < p[2]}
<1>1. IsWellFoundedOn(R, Nat)
  <2>1. OpToRel(<, Nat) = R
    BY DEF OpToRel
  <2> QED
    BY <2>1, NatLessThanWellFounded
<1>2. PICK m \in T : \A n \in T : <<n, m>> \notin R
  <2> HIDE DEF R
  <2> QED
    BY <1>1, WFMin
<1>3. ASSUME NEW n \in T PROVE m <= n
  <2>1. m \in Nat /\ n \in Nat /\ <<n, m>> \notin R
    BY <1>2
  <2> QED
    BY <2>1
<1> QED
  BY <1>3

\* Induction: a set of naturals with 0 and with successors is all of them.
LEMMA NatSetInduction ==
    ASSUME NEW T \in SUBSET Nat, 0 \in T, \A n \in T : n + 1 \in T
    PROVE  T = Nat
<1>1. SUFFICES ASSUME Nat \ T # {} PROVE FALSE
  OBVIOUS
<1>2. PICK m \in Nat \ T : \A n \in Nat \ T : m <= n
  BY <1>1, LeastNatural
<1>3. m # 0 /\ m - 1 \in Nat /\ ~(m <= m - 1)
  BY <1>2
<1>4. m - 1 \in T
  BY <1>2, <1>3
<1>5. (m - 1) + 1 \in T /\ (m - 1) + 1 = m
  BY <1>3, <1>4
<1> QED
  BY <1>5

\* A function that starts with x and goes on by g, which may look at the index:
\* what a recursive function over the naturals is.
Iterates(f, S, x, g) ==
    f \in [Nat -> S] /\ f[0] = x /\ \A n \in Nat : f[n + 1] = g[<<n + 1, f[n]>>]

\* There is one.
LEMMA Iteration ==
    ASSUME NEW S, NEW x \in S, NEW g \in [Nat \X S -> S]
    PROVE  \E f : Iterates(f, S, x, g)
<1> DEFINE Begins(n, h) == /\ h \in [0..n -> S] /\ h[0] = x
                           /\ \A k \in 0..n : k # 0 => h[k] = g[<<k, h[k - 1]>>]
           T == {n \in Nat : \E h : Begins(n, h)}
<1>1. 0 \in T
  <2>1. Begins(0, [k \in 0..0 |-> x])
    OBVIOUS
  <2> QED
    BY <2>1
<1>2. ASSUME NEW n \in T PROVE n + 1 \in T
  <2>1. PICK h : Begins(n, h)
    OBVIOUS
  <2> DEFINE i == [k \in 0..(n + 1) |-> IF k = n + 1 THEN g[<<n + 1, h[n]>>] ELSE h[k]]
  <2>2. n \in Nat /\ n + 1 \in Nat /\ g[<<n + 1, h[n]>>] \in S
    BY <2>1
  <2>3. i \in [0..(n + 1) -> S] /\ i[0] = x
    BY <2>1, <2>2
  <2>4. ASSUME NEW k \in 0..(n + 1), k # 0 PROVE i[k] = g[<<k, i[k - 1]>>]
    <3>1. k - 1 \in 0..n /\ k - 1 # n + 1 /\ i[k - 1] = h[k - 1]
      BY <2>2, <2>4
    <3>2. CASE k = n + 1
      <4>1. i[n + 1] = g[<<n + 1, h[n]>>] /\ k - 1 = n
        BY <3>2, <2>2
      <4>2. i[k] = g[<<n + 1, h[n]>>] /\ i[k - 1] = h[n]
        BY <4>1, <3>1, <3>2
      <4> HIDE DEF i
      <4> QED
        BY <4>1, <4>2, <3>2
    <3>3. CASE k # n + 1
      <4>1. k \in 0..n /\ i[k] = h[k]
        BY <3>3, <2>2, <2>4
      <4> QED
        BY <4>1, <3>1, <2>1, <2>4
    <3> QED
      BY <3>2, <3>3
  <2> HIDE DEF i
  <2>5. Begins(n + 1, i)
    BY <2>3, <2>4
  <2> QED
    BY <2>2, <2>5
<1>3. T = Nat
  <2> HIDE DEF T
  <2>1. T \in SUBSET Nat
    BY DEF T
  <2> QED
    BY <1>1, <1>2, <2>1, NatSetInduction
<1>4. ASSUME NEW n \in Nat, NEW m \in Nat, NEW h, NEW i, Begins(n, h), Begins(m, i), n <= m
      PROVE  h[n] = i[n]
  <2> DEFINE A == {k \in Nat : k <= n => h[k] = i[k]}
  <2>1. 0 \in A
    BY <1>4
  <2>2. ASSUME NEW k \in A PROVE k + 1 \in A
    <3>1. ASSUME k + 1 <= n PROVE h[k + 1] = i[k + 1]
      <4>1. k \in Nat /\ h[k] = i[k] /\ k + 1 \in 0..n /\ k + 1 \in 0..m /\ (k + 1) - 1 = k /\ k + 1 # 0
        BY <3>1, <1>4
      <4> QED
        BY <4>1, <1>4
    <3> QED
      BY <3>1
  <2>3. A = Nat
    <3> HIDE DEF A
    <3>1. A \in SUBSET Nat
      BY DEF A
    <3> QED
      BY <2>1, <2>2, <3>1, NatSetInduction
  <2> QED
    BY <2>3
<1> DEFINE H(n) == CHOOSE h : Begins(n, h)
           f == [n \in Nat |-> H(n)[n]]
<1>5. \A n \in Nat : Begins(n, H(n))
  BY <1>3
<1> HIDE DEF H
<1>6. f \in [Nat -> S] /\ f[0] = x
  BY <1>5
<1>7. ASSUME NEW n \in Nat PROVE f[n + 1] = g[<<n + 1, f[n]>>]
  <2>1. /\ n + 1 \in Nat /\ n <= n + 1 /\ n + 1 \in 0..(n + 1) /\ (n + 1) - 1 = n /\ n + 1 # 0
        /\ Begins(n, H(n)) /\ Begins(n + 1, H(n + 1))
    BY <1>5
  <2>2. H(n)[n] = H(n + 1)[n]
    <3> HIDE DEF Begins
    <3> QED
      BY <2>1, <1>4
  <2>3. H(n + 1)[n + 1] = g[<<n + 1, H(n + 1)[n]>>]
    BY <2>1
  <2> QED
    BY <2>1, <2>2, <2>3
<1> QED
  BY <1>6, <1>7 DEF Iterates

\* A set in one-to-one correspondence with a finite one has its cardinality.
LEMMA SameNumber ==
    ASSUME NEW S, NEW T, IsFiniteSet(S), NEW f \in Bijection(S, T)
    PROVE  IsFiniteSet(T) /\ Cardinality(T) = Cardinality(S)
  BY FS_Bijection DEF ExistsBijection

\* The slots of owner a are as many as the slots of its row.
LEMMA RowCount ==
    ASSUME NEW a, NEW Q, IsFiniteSet(Q)
    PROVE  IsFiniteSet({a} \X Q) /\ Cardinality({a} \X Q) = Cardinality(Q)
<1> DEFINE f == [b \in Q |-> <<a, b>>]
<1>1. f \in Bijection(Q, {a} \X Q)
  BY DEF Bijection, Injection, Surjection, IsInjective
<1> QED
  BY <1>1, SameNumber

\* Two sets without a common element add up.
LEMMA DisjointCount ==
    ASSUME NEW S, NEW T, IsFiniteSet(S), IsFiniteSet(T), S \cap T = {}
    PROVE  /\ IsFiniteSet(S \cup T)
           /\ Cardinality(S) \in Nat /\ Cardinality(T) \in Nat
           /\ Cardinality(S \cup T) = Cardinality(S) + Cardinality(T)
<1>1. /\ IsFiniteSet(S \cup T)
      /\ Cardinality(S \cup T) = Cardinality(S) + Cardinality(T) - Cardinality(S \cap T)
  BY FS_Union
<1>2. Cardinality(S \cap T) = 0 /\ Cardinality(S) \in Nat /\ Cardinality(T) \in Nat
  BY FS_EmptySet, FS_CardinalityType
<1> QED
  BY <1>1, <1>2

\* The number of holders is finite, and so is each row's share of it.
LEMMA HoldingFinite ==
    ASSUME NEW A, NEW B, IsFiniteSet(A), IsFiniteSet(B), NEW m, NEW row, NEW x
    PROVE  /\ IsFiniteSet(Holding(m, A, B, x)) /\ Cardinality(Holding(m, A, B, x)) \in Nat
           /\ IsFiniteSet(InRow(row, B, x)) /\ Cardinality(InRow(row, B, x)) \in Nat
<1>1. IsFiniteSet(A \X B)
  BY FS_Product
<1>2. Holding(m, A, B, x) \in SUBSET (A \X B) /\ InRow(row, B, x) \in SUBSET B
  BY DEF Holding, InRow
<1>3. IsFiniteSet(Holding(m, A, B, x)) /\ IsFiniteSet(InRow(row, B, x))
  BY <1>1, <1>2, FS_Subset
<1> QED
  BY <1>3, FS_CardinalityType

\* Replacing the row of owner a takes away what the old row held and adds
\* what the new one holds: fork, exit, and every change of one table.
LEMMA RowChange ==
    ASSUME NEW A, NEW B, IsFiniteSet(A), IsFiniteSet(B),
           NEW m, NEW n, NEW a \in A, NEW x,
           SameBut(m, n, A, B, a)
    PROVE  /\ Cardinality(Holding(m, A, B, x)) \in Nat
           /\ Cardinality(InRow(m[a], B, x)) \in Nat
           /\ Cardinality(InRow(n[a], B, x)) \in Nat
           /\ Cardinality(Holding(n, A, B, x)) = Cardinality(Holding(m, A, B, x))
                - Cardinality(InRow(m[a], B, x)) + Cardinality(InRow(n[a], B, x))
<1> DEFINE rest == {s \in (A \ {a}) \X B : m[s[1]][s[2]] = x}
           old == {a} \X InRow(m[a], B, x)
           new == {a} \X InRow(n[a], B, x)
<1>1. /\ Holding(m, A, B, x) = rest \cup old /\ rest \cap old = {}
      /\ Holding(n, A, B, x) = rest \cup new /\ rest \cap new = {}
  <2>1. Holding(m, A, B, x) = rest \cup old /\ rest \cap old = {} /\ rest \cap new = {}
    BY DEF Holding, InRow
  <2>2. Holding(n, A, B, x) = rest \cup new
    BY DEF Holding, InRow, SameBut
  <2> QED
    BY <2>1, <2>2
<1>2. /\ IsFiniteSet(old) /\ Cardinality(old) = Cardinality(InRow(m[a], B, x))
      /\ IsFiniteSet(new) /\ Cardinality(new) = Cardinality(InRow(n[a], B, x))
  BY HoldingFinite, RowCount
<1>3. IsFiniteSet(rest)
  <2>1. rest \in SUBSET (A \X B) /\ IsFiniteSet(A \X B)
    BY FS_Product
  <2> HIDE DEF rest
  <2> QED
    BY <2>1, FS_Subset
<1> HIDE DEF rest, old, new
<1>4. /\ Cardinality(Holding(m, A, B, x)) = Cardinality(rest) + Cardinality(old)
      /\ Cardinality(Holding(n, A, B, x)) = Cardinality(rest) + Cardinality(new)
      /\ Cardinality(rest) \in Nat /\ Cardinality(old) \in Nat /\ Cardinality(new) \in Nat
  BY <1>1, <1>2, <1>3, DisjointCount
<1> QED
  BY <1>2, <1>4

\* The same for one slot: it gave up what it held and holds something new.
LEMMA SlotChange ==
    ASSUME NEW A, NEW B, IsFiniteSet(A), IsFiniteSet(B),
           NEW m, NEW n, NEW a \in A, NEW b \in B, NEW x,
           SameButSlot(m, n, A, B, a, b)
    PROVE  /\ Cardinality(Holding(m, A, B, x)) \in Nat
           /\ Cardinality(Holding(n, A, B, x)) = Cardinality(Holding(m, A, B, x))
                - (IF m[a][b] = x THEN 1 ELSE 0) + (IF n[a][b] = x THEN 1 ELSE 0)
<1> DEFINE rest == {c \in B \ {b} : m[a][c] = x}
<1>1. IsFiniteSet(rest) /\ b \notin rest
  BY FS_Subset, rest \in SUBSET B
<1>2. /\ InRow(m[a], B, x) = IF m[a][b] = x THEN rest \cup {b} ELSE rest
      /\ InRow(n[a], B, x) = IF n[a][b] = x THEN rest \cup {b} ELSE rest
  BY DEF InRow, SameButSlot
<1> HIDE DEF rest
<1>3. Cardinality(rest \cup {b}) = Cardinality(rest) + 1 /\ Cardinality(rest) \in Nat
  BY <1>1, FS_AddElement, FS_CardinalityType
<1>4. /\ Cardinality(Holding(m, A, B, x)) \in Nat
      /\ Cardinality(Holding(n, A, B, x)) = Cardinality(Holding(m, A, B, x))
            - Cardinality(InRow(m[a], B, x)) + Cardinality(InRow(n[a], B, x))
  <2>1. SameBut(m, n, A, B, a)
    BY DEF SameBut, SameButSlot
  <2> QED
    BY <2>1, RowChange
<1> QED
  BY <1>2, <1>3, <1>4

\* Nobody holds x exactly if the number of holders is 0.
LEMMA HoldingNone ==
    ASSUME NEW A, NEW B, IsFiniteSet(A), IsFiniteSet(B), NEW m, NEW x
    PROVE  Cardinality(Holding(m, A, B, x)) = 0 <=> \A a \in A : \A b \in B : m[a][b] # x
<1>1. Cardinality(Holding(m, A, B, x)) = 0 <=> Holding(m, A, B, x) = {}
  BY HoldingFinite, FS_EmptySet
<1>2. Holding(m, A, B, x) = {} <=> \A a \in A : \A b \in B : m[a][b] # x
  <2>1. ASSUME Holding(m, A, B, x) = {}, NEW a \in A, NEW b \in B PROVE m[a][b] # x
    <3>1. <<a, b>> \notin Holding(m, A, B, x)
      BY <2>1
    <3> QED
      BY <3>1 DEF Holding
  <2>2. ASSUME \A a \in A : \A b \in B : m[a][b] # x PROVE Holding(m, A, B, x) = {}
    BY <2>2 DEF Holding
  <2> QED
    BY <2>1, <2>2
<1> QED
  BY <1>1, <1>2

----------------------------------------------------------------------------
(* Loops, as recursive functions on the set of their states. *)

\* f is what a loop "while not in stop, take a step" computes from each start.
LoopsTo(f, S, stop, step) == f = [x \in S |-> IF x \in stop THEN x ELSE f[step[x]]]

\* There is such a function, whether or not the loop ends.
LEMMA LoopExists ==
    ASSUME NEW S, NEW stop, NEW step, \A x \in S \ stop : step[x] \in S
    PROVE  \E f : LoopsTo(f, S, stop, step)
<1> DEFINE Closed(P) == P \in SUBSET S /\ \A z \in P : z \notin stop => step[z] \in P
           Ends(x) == {y \in S : y \in stop /\ \A P : Closed(P) /\ x \in P => y \in P}
           f == [x \in S |-> CHOOSE y : y \in Ends(x)]
<1>1. ASSUME NEW x \in S, x \in stop PROVE f[x] = x
  <2>1. x \in Ends(x)
    BY <1>1
  <2>2. ASSUME NEW y \in Ends(x) PROVE y = x
    <3>1. Closed({x})
      BY <1>1
    <3> QED
      BY <3>1
  <2> HIDE DEF Ends
  <2> QED
    BY <2>1, <2>2
<1>2. ASSUME NEW x \in S, x \notin stop PROVE f[x] = f[step[x]]
  <2>1. step[x] \in S
    BY <1>2
  <2>2. ASSUME NEW y \in S, y \in stop
        PROVE  (\A P : Closed(P) /\ x \in P => y \in P) <=> (\A P : Closed(P) /\ step[x] \in P => y \in P)
    <3>1. ASSUME \A P : Closed(P) /\ step[x] \in P => y \in P, NEW P, Closed(P), x \in P PROVE y \in P
      <4>1. step[x] \in P
        BY <1>2, <3>1
      <4> HIDE DEF Closed
      <4> QED
        BY <3>1, <4>1
    <3>2. ASSUME \A P : Closed(P) /\ x \in P => y \in P, NEW P, Closed(P), step[x] \in P PROVE y \in P
      <4>1. Closed(P \cup {x}) /\ x \in P \cup {x}
        BY <1>2, <3>2
      <4> HIDE DEF Closed
      <4>2. y \in P \cup {x}
        BY <3>2, <4>1
      <4> QED
        BY <4>2, <2>2, <1>2
    <3> HIDE DEF Closed
    <3> QED
      BY <3>1, <3>2
  <2>3. Ends(x) = Ends(step[x])
    <3> HIDE DEF Closed
    <3> QED
      BY <2>2
  <2> HIDE DEF Ends
  <2> QED
    BY <2>1, <2>3
<1>3. f = [x \in S |-> IF x \in stop THEN x ELSE f[step[x]]]
  <2>1. f = [x \in S |-> f[x]]
    OBVIOUS
  <2> HIDE DEF f
  <2> QED
    BY <1>1, <1>2, <2>1
<1> HIDE DEF f
<1> QED
  BY <1>3 DEF LoopsTo

\* From a set that the steps keep, along a measure that they lower, the loop
\* ends, in that set.
LEMMA LoopEnds ==
    ASSUME NEW f, NEW S, NEW stop, NEW step, LoopsTo(f, S, stop, step),
           NEW P \in SUBSET S, NEW m \in [P -> Nat],
           \A x \in P \ stop : step[x] \in P /\ m[step[x]] < m[x],
           NEW w \in P
    PROVE  f[w] \in P /\ f[w] \in stop
<1> DEFINE T == {n \in Nat : \A x \in P : m[x] <= n => f[x] \in P /\ f[x] \in stop}
<1>1. \A x \in P : f[x] = IF x \in stop THEN x ELSE f[step[x]]
  BY DEF LoopsTo
<1>2. 0 \in T
  <2>1. ASSUME NEW x \in P, m[x] <= 0 PROVE f[x] \in P /\ f[x] \in stop
    <3>1. CASE x \in stop
      BY <3>1, <1>1
    <3>2. CASE x \notin stop
      <4>1. step[x] \in P /\ m[step[x]] < m[x]
        BY <3>2
      <4> QED
        BY <4>1, <2>1
    <3> QED
      BY <3>1, <3>2
  <2> QED
    BY <2>1
<1>3. ASSUME NEW n \in T PROVE n + 1 \in T
  <2>0. n \in Nat /\ n + 1 \in Nat
    OBVIOUS
  <2>1. ASSUME NEW x \in P, m[x] <= n + 1 PROVE f[x] \in P /\ f[x] \in stop
    <3>1. CASE x \in stop
      BY <3>1, <1>1
    <3>2. CASE x \notin stop
      <4>1. step[x] \in P /\ m[step[x]] < m[x]
        BY <3>2
      <4>2. m[step[x]] <= n
        BY <4>1, <2>1, <2>0
      <4> QED
        BY <4>1, <4>2, <3>2, <1>1
    <3> QED
      BY <3>1, <3>2
  <2> QED
    BY <2>0, <2>1
<1>4. T = Nat
  <2>1. T \in SUBSET Nat
    OBVIOUS
  <2> HIDE DEF T
  <2> QED
    BY <1>2, <1>3, <2>1, NatSetInduction
<1>5. m[w] \in T
  BY <1>4
<1> QED
  BY <1>5
=============================================================================
