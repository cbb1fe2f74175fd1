------------------------------ MODULE VmProofs ------------------------------
(***************************************************************************)
(* Proofs about Vm for any number of spaces, frames, pages and objects,    *)
(* any segments and any lengths of brk, mmap and munmap; and that address  *)
(* spaces implement Memory: fork copies, stores are private unless the     *)
(* page is of a shared object, and no page is lost or overwritten.         *)
(***************************************************************************)
EXTENDS Vm, Counting, SequenceTheorems

----------------------------------------------------------------------------
(* Counting the entries that map a frame.                                  *)

\* Entries of table P, over all spaces, that map frame f; entries of one
\* row, within the pages D; objects of table S that hold f.
OwnersIn(P, f) == Cardinality({x \in Spaces \X Va : P[x[1]][x[2]].frame = f})
PagesOn(row, D, f) == Cardinality({va \in D : row[va].frame = f})
ObjectsIn(S, f) == Cardinality({o \in Objs : S[o] = f})

\* Table Q maps the frames of P in all spaces but s, row new those of old on D.
SameFrames(P, Q, t) == \A va \in Va : Q[t][va].frame = P[t][va].frame
SameElsewhere(P, Q, s) == \A t \in Spaces \ {s} : SameFrames(P, Q, t)
SameOn(old, new, D) == \A va \in D : new[va].frame = old[va].frame

\* There are finitely many pages, and map_page is told a page of the range.
LEMMA Constants ==
    /\ IsFiniteSet(Spaces) /\ IsFiniteSet(Frames) /\ IsFiniteSet(Objs) /\ IsFiniteSet(Va)
    /\ Va \subseteq Nat \ {0} /\ NoFrame \notin Frames
<1>1. IsFiniteSet(Va)
  <2>1. 1 \in Int /\ LastVa \in Int
    BY ConstAssumption
  <2> QED
    BY <2>1, FS_Interval DEF Va
<1> QED
  BY <1>1, ConstAssumption DEF Va

\* The counts are numbers.
LEMMA OwnersNat ==
    ASSUME NEW P, NEW f
    PROVE  OwnersIn(P, f) \in Nat
<1> DEFINE S == {x \in Spaces \X Va : P[x[1]][x[2]].frame = f}
<1>1. IsFiniteSet(Spaces \X Va) /\ S \in SUBSET (Spaces \X Va)
  BY Constants, FS_Product
<1> HIDE DEF S
<1>2. IsFiniteSet(S)
  BY <1>1, FS_Subset
<1>3. Cardinality(S) \in Nat
  BY <1>2, FS_CardinalityType
<1> QED
  BY <1>3 DEF OwnersIn, S

LEMMA PagesNat ==
    ASSUME NEW row, NEW D \in SUBSET Va, NEW f
    PROVE  /\ IsFiniteSet({va \in D : row[va].frame = f})
           /\ PagesOn(row, D, f) \in Nat
<1> DEFINE S == {va \in D : row[va].frame = f}
<1>1. IsFiniteSet(Va) /\ S \in SUBSET Va
  BY Constants
<1> HIDE DEF S
<1>2. IsFiniteSet(S)
  BY <1>1, FS_Subset
<1>3. Cardinality(S) \in Nat
  BY <1>2, FS_CardinalityType
<1> QED
  BY <1>2, <1>3 DEF PagesOn, S

LEMMA ObjectsNat ==
    ASSUME NEW S, NEW f
    PROVE  /\ IsFiniteSet({o \in Objs : S[o] = f})
           /\ ObjectsIn(S, f) \in Nat
<1> DEFINE T == {o \in Objs : S[o] = f}
<1>1. IsFiniteSet(Objs) /\ T \in SUBSET Objs
  BY Constants
<1> HIDE DEF T
<1>2. IsFiniteSet(T)
  BY <1>1, FS_Subset
<1>3. Cardinality(T) \in Nat
  BY <1>2, FS_CardinalityType
<1> QED
  BY <1>2, <1>3 DEF ObjectsIn, T

\* When one space changes its table, its old entries go and its new ones come.
LEMMA OneRow ==
    ASSUME NEW P, NEW Q, NEW s \in Spaces, NEW f, SameElsewhere(P, Q, s)
    PROVE  OwnersIn(Q, f) = OwnersIn(P, f) - PagesOn(P[s], Va, f) + PagesOn(Q[s], Va, f)
<1> DEFINE m == [t \in Spaces |-> [va \in Va |-> P[t][va].frame]]
           n == [t \in Spaces |-> [va \in Va |-> Q[t][va].frame]]
<1>1. SameBut(m, n, Spaces, Va, s)
  BY DEF SameBut, SameElsewhere, SameFrames
<1>2. /\ Holding(m, Spaces, Va, f) = {x \in Spaces \X Va : P[x[1]][x[2]].frame = f}
      /\ Holding(n, Spaces, Va, f) = {x \in Spaces \X Va : Q[x[1]][x[2]].frame = f}
  BY DEF Holding
<1>3. /\ InRow(m[s], Va, f) = {va \in Va : P[s][va].frame = f}
      /\ InRow(n[s], Va, f) = {va \in Va : Q[s][va].frame = f}
  BY DEF InRow
<1> HIDE DEF m, n
<1>4. Cardinality(Holding(n, Spaces, Va, f)) = Cardinality(Holding(m, Spaces, Va, f))
          - Cardinality(InRow(m[s], Va, f)) + Cardinality(InRow(n[s], Va, f))
  BY <1>1, Constants, RowChange
<1> QED
  BY <1>2, <1>3, <1>4 DEF OwnersIn, PagesOn

\* When no entry changes its frame the counts stay.
LEMMA SameOwners ==
    ASSUME NEW P, NEW Q, \A t \in Spaces : SameFrames(P, Q, t)
    PROVE  \A f : OwnersIn(Q, f) = OwnersIn(P, f)
<1> SUFFICES ASSUME NEW f PROVE OwnersIn(Q, f) = OwnersIn(P, f)
  OBVIOUS
<1>1. {x \in Spaces \X Va : Q[x[1]][x[2]].frame = f} = {x \in Spaces \X Va : P[x[1]][x[2]].frame = f}
  BY DEF SameFrames
<1> QED
  BY <1>1 DEF OwnersIn

\* The pages of a row are those on D and the others.
LEMMA PagesSplit ==
    ASSUME NEW row, NEW D \in SUBSET Va, NEW f
    PROVE  /\ PagesOn(row, Va, f) = PagesOn(row, D, f) + PagesOn(row, Va \ D, f)
           /\ PagesOn(row, D, f) \in Nat /\ PagesOn(row, Va \ D, f) \in Nat
<1> DEFINE S == {va \in D : row[va].frame = f}
           T == {va \in Va \ D : row[va].frame = f}
<1>1. {va \in Va : row[va].frame = f} = S \cup T /\ S \cap T = {}
  OBVIOUS
<1>2. IsFiniteSet(S) /\ IsFiniteSet(T)
  <2>1. S \in SUBSET Va /\ T \in SUBSET Va
    OBVIOUS
  <2> HIDE DEF S, T
  <2> QED
    BY <2>1, Constants, FS_Subset
<1> HIDE DEF S, T
<1>3. Cardinality(S \cup T) = Cardinality(S) + Cardinality(T)
      /\ Cardinality(S) \in Nat /\ Cardinality(T) \in Nat
  BY <1>1, <1>2, DisjointCount
<1> QED
  BY <1>1, <1>3 DEF PagesOn, S, T

LEMMA PagesSame ==
    ASSUME NEW old, NEW new, NEW D, SameOn(old, new, D)
    PROVE  \A f : PagesOn(new, D, f) = PagesOn(old, D, f)
<1> SUFFICES ASSUME NEW f PROVE PagesOn(new, D, f) = PagesOn(old, D, f)
  OBVIOUS
<1>1. {va \in D : new[va].frame = f} = {va \in D : old[va].frame = f}
  BY DEF SameOn
<1> QED
  BY <1>1 DEF PagesOn

LEMMA PagesNone ==
    ASSUME NEW row, NEW D, NEW f, \A va \in D : row[va].frame # f
    PROVE  PagesOn(row, D, f) = 0
<1>1. {va \in D : row[va].frame = f} = {}
  OBVIOUS
<1> QED
  BY <1>1, FS_EmptySet DEF PagesOn

\* Pages that pmm_alloc gave different frames map each of them once.
LEMMA PagesPicked ==
    ASSUME NEW row, NEW D, NEW f, NEW p, DOMAIN p = D, IsInjective(p),
           \A va \in D : row[va].frame = p[va]
    PROVE  PagesOn(row, D, f) = IF f \in Range(p) THEN 1 ELSE 0
<1>1. CASE f \in Range(p)
  <2>1. PICK va \in D : p[va] = f
    BY <1>1 DEF Range
  <2>2. {u \in D : row[u].frame = f} = {va}
    BY <2>1 DEF IsInjective
  <2> QED
    BY <1>1, <2>2, FS_Singleton DEF PagesOn
<1>2. CASE f \notin Range(p)
  <2>1. \A va \in D : row[va].frame # f
    BY <1>2 DEF Range
  <2> QED
    BY <1>2, <2>1, PagesNone
<1> QED
  BY <1>1, <1>2

LEMMA PagesAt ==
    ASSUME NEW row, NEW va, NEW f
    PROVE  PagesOn(row, {va}, f) = IF row[va].frame = f THEN 1 ELSE 0
<1>1. {u \in {va} : row[u].frame = f} = IF row[va].frame = f THEN {va} ELSE {}
  OBVIOUS
<1> QED
  BY <1>1, FS_Singleton, FS_EmptySet DEF PagesOn

\* An object that gets a frame is one owner more of it.
LEMMA NewOwner ==
    ASSUME NEW S \in [Objs -> Frames \cup {NoFrame}], NEW o \in Objs, S[o] = NoFrame,
           NEW g \in Frames, NEW f \in Frames
    PROVE  ObjectsIn([S EXCEPT ![o] = g], f) = ObjectsIn(S, f) + (IF f = g THEN 1 ELSE 0)
<1> DEFINE T == {u \in Objs : S[u] = f}
<1>1. IsFiniteSet(T) /\ o \notin T
  BY ObjectsNat, Constants
<1>2. {u \in Objs : [S EXCEPT ![o] = g][u] = f} = IF f = g THEN T \cup {o} ELSE T
  BY Constants
<1> HIDE DEF T
<1>3. Cardinality(T \cup {o}) = Cardinality(T) + 1 /\ Cardinality(T) \in Nat
  BY <1>1, FS_AddElement, FS_CardinalityType
<1> QED
  BY <1>2, <1>3 DEF ObjectsIn, T

\* Whoever maps or holds a frame is counted, and a count of 1 leaves no other.
LEMMA OwnerCounted ==
    ASSUME NEW P, NEW s \in Spaces, NEW va \in Va, NEW f, P[s][va].frame = f
    PROVE  /\ OwnersIn(P, f) >= 1
           /\ OwnersIn(P, f) = 1 => \A t \in Spaces : \A u \in Va :
                 P[t][u].frame = f => t = s /\ u = va
<1> DEFINE S == {x \in Spaces \X Va : P[x[1]][x[2]].frame = f}
<1>1. <<s, va>> \in S
  OBVIOUS
<1>2. IsFiniteSet(Spaces \X Va) /\ S \in SUBSET (Spaces \X Va)
  BY Constants, FS_Product
<1>3. ASSUME NEW t \in Spaces, NEW u \in Va, P[t][u].frame = f PROVE <<t, u>> \in S
  BY <1>3
<1> HIDE DEF S
<1>4. IsFiniteSet(S)
  BY <1>2, FS_Subset
<1>5. Cardinality(S) \in Nat /\ Cardinality(S) # 0
  BY <1>1, <1>4, FS_CardinalityType, FS_EmptySet
<1>6. ASSUME Cardinality(S) = 1, NEW t \in Spaces, NEW u \in Va, P[t][u].frame = f
      PROVE  t = s /\ u = va
  <2>1. PICK x : S = {x}
    BY <1>4, <1>6, FS_Singleton
  <2>2. <<t, u>> = <<s, va>>
    BY <1>1, <1>3, <1>6, <2>1
  <2> QED
    BY <2>2
<1> QED
  BY <1>5, <1>6 DEF OwnersIn, S

LEMMA ObjectCounted ==
    ASSUME NEW S, NEW o \in Objs, NEW f, S[o] = f
    PROVE  ObjectsIn(S, f) >= 1
<1> DEFINE T == {u \in Objs : S[u] = f}
<1>1. IsFiniteSet(T) /\ o \in T
  BY ObjectsNat
<1> HIDE DEF T
<1>2. Cardinality(T) \in Nat /\ Cardinality(T) # 0
  BY <1>1, FS_CardinalityType, FS_EmptySet
<1> QED
  BY <1>2 DEF ObjectsIn, T
----------------------------------------------------------------------------
(* The inductive invariant, whatever the mapping calls do.                 *)

\* An entry is invalid or maps a frame, and only live spaces have entries.
Entries ==
    \A s \in Spaces, va \in Va :
        /\ pte[s][va] = Invalid \/ pte[s][va].frame \in Frames
        /\ s \notin live => pte[s][va] = Invalid

\* The pointers of the heap and of mmap are pages.
Pointers == \A s \in Spaces : heap_end[s] \in Nat \ {0} /\ mmap_next[s] \in Nat \ {0}

\* Every ASID handed out so far belongs to a live space or is in the free list.
AsidCount ==
    /\ next_asid - 1 = Cardinality(live) + Len(asid_free_list)
    /\ next_asid - 1 <= Cardinality(Spaces)

AsidsApart ==
    /\ \A s \in live : asid[s] \in 1..(next_asid - 1)
    /\ \A s, t \in live : s # t => asid[s] # asid[t]
    /\ \A i \in 1..Len(asid_free_list) :
          /\ asid_free_list[i] \in 1..(next_asid - 1)
          /\ \A s \in live : asid_free_list[i] # asid[s]
          /\ \A j \in 1..Len(asid_free_list) : i # j => asid_free_list[i] # asid_free_list[j]

\* A frame is counted at least as often as it is mapped or held, and the PMM
\* has exactly the frames that are not counted.
CountsCover ==
    \A f \in Frames :
        /\ page_ref[f] >= OwnersIn(pte, f) + ObjectsIn(shms, f)
        /\ f \in free <=> page_ref[f] = 0

PagesInv == TypeOK /\ Entries /\ Pointers /\ AsidCount /\ AsidsApart /\ CountsCover

----------------------------------------------------------------------------
(* ASIDs.                                                                  *)

\* The lesser of two numbers.
LEMMA MinPair ==
    ASSUME NEW a \in Nat, NEW b \in Nat
    PROVE  /\ Min({a, b}) \in {a, b}
           /\ Min({a, b}) <= a /\ Min({a, b}) <= b /\ Min({a, b}) \in Nat
<1>1. \E m \in {a, b} : \A n \in {a, b} : m <= n
  OBVIOUS
<1>2. Min({a, b}) \in {a, b} /\ \A n \in {a, b} : Min({a, b}) <= n
  BY <1>1 DEF Min
<1> QED
  BY <1>2

\* There are ASIDs and free-list entries for all spaces.
LEMMA EnoughAsids ==
    /\ Cardinality(Spaces) \in Nat /\ ASID_MAX \in Nat /\ ASID_FREE_MAX \in Nat
    /\ Cardinality(Spaces) <= ASID_MAX /\ Cardinality(Spaces) <= ASID_FREE_MAX
<1>1. Cardinality(Spaces) \in Nat /\ ASID_MAX \in Nat /\ ASID_FREE_MAX \in Nat
  BY Constants, ConstAssumption, FS_CardinalityType
<1>2. LET m == Min({ASID_MAX, ASID_FREE_MAX}) IN m <= ASID_MAX /\ m <= ASID_FREE_MAX /\ m \in Nat
  BY <1>1, MinPair
<1> QED
  BY <1>1, <1>2, AsidAssumption

\* A new space takes one ASID out of the free list or the counter: it differs
\* from those of all live spaces, and the counter stays within ASID_MAX.
LEMMA AsidTaken ==
    ASSUME PagesInv, NEW s \in Spaces, s \notin live, AsidAlloc(s), live' = live \cup {s}
    PROVE  /\ asid' \in [Spaces -> 0..ASID_MAX] /\ next_asid' \in 1..(ASID_MAX + 1)
           /\ asid_free_list' \in Seq(1..ASID_MAX)
           /\ AsidCount' /\ AsidsApart'
           /\ asid' = [asid EXCEPT ![s] = asid'[s]]
<1> DEFINE l == asid_free_list
<1>1. /\ IsFiniteSet(live) /\ Cardinality(live) \in Nat
      /\ Cardinality(live \cup {s}) = Cardinality(live) + 1
      /\ Cardinality(live \cup {s}) <= Cardinality(Spaces)
  <2>1. live \in SUBSET Spaces /\ live \cup {s} \in SUBSET Spaces
    BY DEF PagesInv, TypeOK
  <2>2. IsFiniteSet(live) /\ Cardinality(live \cup {s}) <= Cardinality(Spaces)
    BY <2>1, Constants, FS_Subset
  <2> QED
    BY <2>2, FS_AddElement, FS_CardinalityType
<1>2. /\ asid \in [Spaces -> 0..ASID_MAX] /\ next_asid \in Nat \ {0}
      /\ l \in Seq(1..ASID_MAX) /\ Len(l) \in Nat
      /\ next_asid - 1 = Cardinality(live) + Len(l) /\ next_asid - 1 <= Cardinality(Spaces)
  BY EnoughAsids, LenProperties DEF PagesInv, TypeOK, AsidCount
<1>3. AsidsApart
  BY DEF PagesInv
<1>4. CASE l # <<>>
  <2> DEFINE n == Len(l)
             m == SubSeq(l, 1, n - 1)
  <2>1. n \in Nat \ {0}
    BY <1>2, <1>4, EmptySeq
  <2>2. /\ asid' = [asid EXCEPT ![s] = l[n]] /\ next_asid' = next_asid
        /\ asid_free_list' = m
    BY <1>4 DEF AsidAlloc
  <2>a. \A i \in 1..n : l[i] \in 1..ASID_MAX
    BY <1>2, ElementOfSeq
  <2>3. l[n] \in 1..(next_asid - 1) /\ l[n] \in 1..ASID_MAX
    <3>1. n \in 1..n
      BY <2>1
    <3> QED
      BY <1>3, <2>a, <3>1 DEF AsidsApart
  <2>4. /\ m \in Seq(1..ASID_MAX) /\ Len(m) = n - 1
        /\ \A i \in 1..(n - 1) : m[i] = l[i]
    <3>1. 1 \in Int /\ n - 1 \in Int /\ \A i \in 1..(n - 1) : l[i] \in 1..ASID_MAX
      <4> HIDE DEF n
      <4>1. \A i \in 1..(n - 1) : i \in 1..n
        BY <2>1
      <4> QED
        BY <2>1, <2>a, <4>1
    <3>2. /\ m \in Seq(1..ASID_MAX)
          /\ Len(m) = IF 1 <= n - 1 THEN (n - 1) - 1 + 1 ELSE 0
          /\ \A i \in 1..((n - 1) - 1 + 1) : m[i] = l[1 + i - 1]
      BY ONLY <3>1, SubSeqProperties
    <3> HIDE DEF m, n
    <3>3. (n - 1) - 1 + 1 = n - 1 /\ \A i \in 1..(n - 1) : 1 + i - 1 = i
      BY <2>1
    <3> QED
      BY <2>1, <3>2, <3>3
  <2> HIDE DEF l, n, m
  <2>5. AsidCount'
    BY <1>1, <1>2, <2>1, <2>2, <2>4 DEF AsidCount, n
  <2>6. AsidsApart'
    <3>1. ASSUME NEW i \in 1..(n - 1)
          PROVE  /\ m[i] \in 1..(next_asid - 1) /\ m[i] # l[n] /\ \A t \in live : m[i] # asid[t]
                 /\ \A j \in 1..(n - 1) : i # j => m[i] # m[j]
      <4>1. i \in 1..n /\ i # n /\ n \in 1..n /\ \A j \in 1..(n - 1) : j \in 1..n /\ m[j] = l[j]
        BY <2>1, <2>4
      <4> QED
        BY <1>3, <2>4, <4>1 DEF AsidsApart, l, n
    <3>2. \A t \in live : asid[t] \in 1..(next_asid - 1) /\ l[n] # asid[t] /\ asid'[t] = asid[t]
      <4>1. n \in 1..n
        BY <2>1
      <4>2. \A t \in live : asid[t] \in 1..(next_asid - 1) /\ l[n] # asid[t]
        BY <1>3, <4>1 DEF AsidsApart, l, n
      <4> QED
        BY <1>2, <2>2, <4>2 DEF PagesInv, TypeOK
    <3>3. asid'[s] = l[n]
      BY <1>2, <2>2
    <3>4. \A t, u \in live : t # u => asid[t] # asid[u]
      BY <1>3 DEF AsidsApart
    <3> QED
      BY <2>2, <2>3, <2>4, <3>1, <3>2, <3>3, <3>4 DEF AsidsApart
  <2>7. asid' \in [Spaces -> 0..ASID_MAX] /\ asid' = [asid EXCEPT ![s] = asid'[s]]
    BY <1>2, <2>2, <2>3
  <2>8. next_asid' \in 1..(ASID_MAX + 1)
    BY <2>2 DEF PagesInv, TypeOK
  <2> QED
    BY <2>2, <2>4, <2>5, <2>6, <2>7, <2>8
<1>5. CASE l = <<>>
  <2>1. /\ asid' = [asid EXCEPT ![s] = next_asid] /\ next_asid' = next_asid + 1
        /\ asid_free_list' = l /\ Len(l) = 0
    BY <1>5, EmptySeq DEF AsidAlloc
  <2>2. next_asid \in 1..ASID_MAX /\ next_asid = Cardinality(live) + 1
    BY <1>1, <1>2, <2>1, EnoughAsids
  <2> HIDE DEF l
  <2>3. AsidCount'
    BY <1>1, <1>2, <2>1, <2>2 DEF AsidCount
  <2>4. AsidsApart'
    <3>1. \A t \in live : /\ asid[t] \in 1..(next_asid - 1) /\ asid[t] # next_asid
                          /\ asid'[t] = asid[t] /\ asid[t] \in 1..next_asid
      <4>1. \A t \in live : asid[t] \in 1..(next_asid - 1)
        BY <1>3 DEF AsidsApart
      <4>2. \A t \in live : asid'[t] = asid[t]
        BY <1>2, <2>1 DEF PagesInv, TypeOK
      <4> QED
        BY <1>2, <4>1, <4>2
    <3>2. asid'[s] = next_asid /\ next_asid' - 1 = next_asid /\ next_asid \in 1..next_asid
      BY <1>2, <2>1
    <3>3. \A t, u \in live : t # u => asid[t] # asid[u]
      BY <1>3 DEF AsidsApart
    <3>4. 1..Len(asid_free_list') = {}
      BY <2>1
    <3> QED
      BY <3>1, <3>2, <3>3, <3>4 DEF AsidsApart
  <2>5. asid' \in [Spaces -> 0..ASID_MAX] /\ asid' = [asid EXCEPT ![s] = asid'[s]]
    BY <1>2, <2>1, <2>2
  <2>6. next_asid' \in 1..(ASID_MAX + 1)
    BY <1>2, <2>1, <2>2, EnoughAsids
  <2> QED
    BY <1>2, <2>1, <2>3, <2>4, <2>5, <2>6 DEF l
<1> QED
  BY <1>4, <1>5

\* The ASID of a destroyed space goes to the free list, which has room.
LEMMA AsidGiven ==
    ASSUME PagesInv, NEW s \in live, AsidFree(s), live' = live \ {s}
    PROVE  /\ asid' = asid /\ next_asid' = next_asid
           /\ asid_free_list' \in Seq(1..ASID_MAX)
           /\ AsidCount' /\ AsidsApart'
<1> DEFINE l == asid_free_list
           n == Len(l)
           m == Append(l, asid[s])
<1>1. /\ Cardinality(live) \in Nat /\ Cardinality(live \ {s}) = Cardinality(live) - 1
      /\ Cardinality(live) # 0
  <2>1. live \in SUBSET Spaces
    BY DEF PagesInv, TypeOK
  <2>2. IsFiniteSet(live)
    BY <2>1, Constants, FS_Subset
  <2> QED
    BY <2>2, FS_RemoveElement, FS_CardinalityType, FS_EmptySet
<1>2. /\ next_asid \in Nat \ {0} /\ l \in Seq(1..ASID_MAX) /\ n \in Nat
      /\ next_asid - 1 = Cardinality(live) + n /\ next_asid - 1 <= Cardinality(Spaces)
  BY EnoughAsids, LenProperties DEF PagesInv, TypeOK, AsidCount
<1>3. AsidsApart
  BY DEF PagesInv
<1>4. asid[s] \in 1..(next_asid - 1) /\ asid[s] \in 1..ASID_MAX
  <2>1. asid[s] \in 1..(next_asid - 1)
    BY <1>3 DEF AsidsApart
  <2> QED
    BY <1>2, <2>1, EnoughAsids
<1>5. n < ASID_FREE_MAX
  BY <1>1, <1>2, EnoughAsids
<1>6. asid' = asid /\ next_asid' = next_asid /\ asid_free_list' = m
  BY <1>5 DEF AsidFree
<1>7. /\ m \in Seq(1..ASID_MAX) /\ Len(m) = n + 1
      /\ m[n + 1] = asid[s] /\ \A i \in 1..n : m[i] = l[i]
  BY <1>2, <1>4, AppendProperties
<1> HIDE DEF l, n, m
<1>8. AsidCount'
  BY <1>1, <1>2, <1>6, <1>7 DEF AsidCount
<1>9. AsidsApart'
  <2>1. \A t \in live \ {s} : asid[t] # asid[s] /\ asid[t] \in 1..(next_asid - 1)
    BY <1>3 DEF AsidsApart
  <2>2. \A i \in 1..n : /\ l[i] \in 1..(next_asid - 1) /\ \A t \in live : l[i] # asid[t]
                        /\ \A j \in 1..n : i # j => l[i] # l[j]
    BY <1>3 DEF AsidsApart, l, n
  <2>3. \A i \in 1..(n + 1) : i \in 1..n \/ i = n + 1
    BY <1>2
  <2>4. ASSUME NEW i \in 1..(n + 1)
        PROVE  /\ m[i] \in 1..(next_asid - 1) /\ \A t \in live \ {s} : m[i] # asid[t]
               /\ \A j \in 1..(n + 1) : i # j => m[i] # m[j]
    BY <1>4, <1>7, <2>1, <2>2, <2>3
  <2>5. \A t, u \in live : t # u => asid[t] # asid[u]
    BY <1>3 DEF AsidsApart
  <2> QED
    BY <1>6, <1>7, <2>1, <2>4, <2>5 DEF AsidsApart
<1> QED
  BY <1>6, <1>7, <1>8, <1>9

----------------------------------------------------------------------------
(* Reference counts.                                                       *)

\* The frames that a step counts: what changes in the counts is at least what
\* changes in the tables, and the PMM gets exactly those nobody counts.
Counted(P, S, f) == OwnersIn(P, f) + ObjectsIn(S, f)
FrameStep ==
    /\ page_ref' \in [Frames -> Nat] /\ free' \subseteq Frames
    /\ \A f \in Frames :
          /\ page_ref'[f] - page_ref[f] >= Counted(pte', shms', f) - Counted(pte, shms, f)
          /\ f \in free' <=> page_ref'[f] = 0
FrameExact ==
    \A f \in Frames :
        page_ref'[f] - page_ref[f] = Counted(pte', shms', f) - Counted(pte, shms, f)

\* A count that never grows too little keeps covering the owners.
LEMMA CountsKept ==
    ASSUME PagesInv, FrameStep
    PROVE  CountsCover'
<1> SUFFICES ASSUME NEW f \in Frames
             PROVE  /\ page_ref'[f] >= OwnersIn(pte', f) + ObjectsIn(shms', f)
                    /\ f \in free' <=> page_ref'[f] = 0
  BY DEF CountsCover
<1>1. /\ OwnersIn(pte', f) \in Nat /\ ObjectsIn(shms', f) \in Nat
      /\ OwnersIn(pte, f) \in Nat /\ ObjectsIn(shms, f) \in Nat
  BY OwnersNat, ObjectsNat
<1>2. /\ page_ref[f] \in Nat /\ page_ref'[f] \in Nat
      /\ page_ref[f] >= OwnersIn(pte, f) + ObjectsIn(shms, f)
      /\ page_ref'[f] - page_ref[f] >= Counted(pte', shms', f) - Counted(pte, shms, f)
      /\ f \in free' <=> page_ref'[f] = 0
  BY DEF PagesInv, TypeOK, CountsCover, FrameStep
<1> QED
  BY <1>1, <1>2 DEF Counted

\* What a space maps is within what all spaces map.
LEMMA RowWithin ==
    ASSUME NEW P, NEW s \in Spaces, NEW f \in Frames
    PROVE  PagesOn(P[s], Va, f) <= OwnersIn(P, f) /\ PagesOn(P[s], Va, f) \in Nat
<1> DEFINE Q == [t \in Spaces |-> IF t = s THEN [va \in Va |-> Invalid] ELSE P[t]]
<1>1. SameElsewhere(P, Q, s) /\ \A va \in Va : Q[s][va].frame # f
  BY Constants DEF SameElsewhere, SameFrames, Invalid
<1> HIDE DEF Q
<1>2. OwnersIn(Q, f) = OwnersIn(P, f) - PagesOn(P[s], Va, f) + PagesOn(Q[s], Va, f)
  BY <1>1, OneRow
<1>3. PagesOn(Q[s], Va, f) = 0
  BY <1>1, PagesNone
<1>4. PagesOn(P[s], Va, f) \in Nat /\ OwnersIn(P, f) \in Nat /\ OwnersIn(Q, f) \in Nat
  <2>1. Va \in SUBSET Va
    OBVIOUS
  <2> QED
    BY <2>1, PagesNat, OwnersNat
<1> QED
  BY <1>2, <1>3, <1>4

\* Pages D are on the frames of p, or on none; space s changes its entries for
\* the pages D only.
OnFrames(row, D, p) == \A va \in D : row[va].frame = p[va]
NoFrames(row, D) == \A va \in D : row[va].frame = NoFrame
Within(P, Q, s, D) ==
    s \in Spaces /\ D \subseteq Va /\ SameElsewhere(P, Q, s) /\ SameOn(P[s], Q[s], Va \ D)

LEMMA RowPart ==
    ASSUME NEW P, NEW Q, NEW s, NEW D, NEW f, Within(P, Q, s, D)
    PROVE  /\ OwnersIn(Q, f) = OwnersIn(P, f) - PagesOn(P[s], D, f) + PagesOn(Q[s], D, f)
           /\ PagesOn(P[s], D, f) \in Nat /\ PagesOn(Q[s], D, f) \in Nat
           /\ OwnersIn(P, f) \in Nat /\ OwnersIn(Q, f) \in Nat
<1>a. s \in Spaces /\ D \in SUBSET Va
  BY DEF Within
<1>1. OwnersIn(Q, f) = OwnersIn(P, f) - PagesOn(P[s], Va, f) + PagesOn(Q[s], Va, f)
  BY <1>a, OneRow DEF Within
<1>2. /\ PagesOn(P[s], Va, f) = PagesOn(P[s], D, f) + PagesOn(P[s], Va \ D, f)
      /\ PagesOn(P[s], D, f) \in Nat /\ PagesOn(P[s], Va \ D, f) \in Nat
  BY <1>a, PagesSplit
<1>3. /\ PagesOn(Q[s], Va, f) = PagesOn(Q[s], D, f) + PagesOn(Q[s], Va \ D, f)
      /\ PagesOn(Q[s], D, f) \in Nat /\ PagesOn(Q[s], Va \ D, f) \in Nat
  BY <1>a, PagesSplit
<1>4. PagesOn(Q[s], Va \ D, f) = PagesOn(P[s], Va \ D, f)
  BY PagesSame DEF Within
<1>5. OwnersIn(P, f) \in Nat /\ OwnersIn(Q, f) \in Nat
  BY OwnersNat
<1> QED
  BY <1>1, <1>2, <1>3, <1>4, <1>5

\* Pages that get frames from the PMM: as_create_elf, brk and mmap.  Counts
\* are exact if none of the pages was mapped.
LEMMA FreshFrames ==
    ASSUME PagesInv, NEW s \in Spaces, NEW D \in SUBSET Va, NEW p \in Picks(D),
           Within(pte, pte', s, D), OnFrames(pte'[s], D, p),
           page_ref' = [f \in Frames |-> page_ref[f] + (IF f \in Range(p) THEN 1 ELSE 0)],
           free' = free \ Range(p), shms' = shms
    PROVE  /\ FrameStep
           /\ NoFrames(pte[s], D) => FrameExact
<1>1. DOMAIN p = D /\ IsInjective(p) /\ Range(p) \subseteq free
  BY DEF Picks, Range
<1>2. ASSUME NEW f \in Frames
      PROVE  /\ OwnersIn(pte', f) = OwnersIn(pte, f) - PagesOn(pte[s], D, f)
                                      + (IF f \in Range(p) THEN 1 ELSE 0)
             /\ PagesOn(pte[s], D, f) \in Nat /\ OwnersIn(pte, f) \in Nat
             /\ OwnersIn(pte', f) \in Nat /\ ObjectsIn(shms, f) \in Nat
  <2>1. PagesOn(pte'[s], D, f) = IF f \in Range(p) THEN 1 ELSE 0
    BY <1>1, PagesPicked DEF OnFrames
  <2>3. /\ OwnersIn(pte', f) = OwnersIn(pte, f) - PagesOn(pte[s], D, f) + PagesOn(pte'[s], D, f)
        /\ PagesOn(pte[s], D, f) \in Nat /\ OwnersIn(pte, f) \in Nat /\ OwnersIn(pte', f) \in Nat
    <3> DEFINE P == pte
               Q == pte'
    <3>1. Within(P, Q, s, D)
      OBVIOUS
    <3> HIDE DEF P, Q
    <3>2. /\ OwnersIn(Q, f) = OwnersIn(P, f) - PagesOn(P[s], D, f) + PagesOn(Q[s], D, f)
          /\ PagesOn(P[s], D, f) \in Nat /\ OwnersIn(P, f) \in Nat /\ OwnersIn(Q, f) \in Nat
      BY ONLY <3>1, RowPart
    <3> QED
      BY ONLY <3>2 DEF P, Q
  <2>4. ObjectsIn(shms, f) \in Nat
    BY ONLY ObjectsNat
  <2> QED
    BY ONLY <2>1, <2>3, <2>4
<1>3. /\ page_ref \in [Frames -> Nat] /\ free \subseteq Frames
      /\ \A f \in Frames : f \in free <=> page_ref[f] = 0
  BY DEF PagesInv, TypeOK, CountsCover
<1>4. FrameStep
  <2>1. page_ref' \in [Frames -> Nat] /\ free' \subseteq Frames
    BY <1>3
  <2>2. ASSUME NEW f \in Frames
        PROVE  /\ page_ref'[f] - page_ref[f] >= Counted(pte', shms', f) - Counted(pte, shms, f)
               /\ f \in free' <=> page_ref'[f] = 0
    <3>1. page_ref'[f] = page_ref[f] + (IF f \in Range(p) THEN 1 ELSE 0) /\ page_ref[f] \in Nat
      BY <1>3
    <3>2. page_ref'[f] - page_ref[f] >= Counted(pte', shms', f) - Counted(pte, shms, f)
      BY <1>2, <3>1 DEF Counted
    <3>3. f \in free' <=> page_ref'[f] = 0
      BY <1>1, <1>3, <3>1
    <3> QED
      BY <3>2, <3>3
  <2> QED
    BY <2>1, <2>2 DEF FrameStep
<1>5. ASSUME NoFrames(pte[s], D) PROVE FrameExact
  <2> SUFFICES ASSUME NEW f \in Frames
               PROVE  page_ref'[f] - page_ref[f] = Counted(pte', shms', f) - Counted(pte, shms, f)
    BY DEF FrameExact
  <2>1. PagesOn(pte[s], D, f) = 0
    BY <1>5, PagesNone, Constants DEF NoFrames
  <2>2. page_ref'[f] = page_ref[f] + (IF f \in Range(p) THEN 1 ELSE 0) /\ page_ref[f] \in Nat
    BY <1>3
  <2> QED
    BY <1>2, <2>1, <2>2 DEF Counted
<1> QED
  BY <1>4, <1>5

\* Pages that are given up: munmap and the end of a space.
LEMMA DroppedFrames ==
    ASSUME PagesInv, NEW s \in Spaces, NEW D \in SUBSET Va,
           Within(pte, pte', s, D), NoFrames(pte'[s], D),
           Decref(Uses(s, D)), shms' = shms
    PROVE  FrameStep /\ FrameExact
<1>1. ASSUME NEW f \in Frames
      PROVE  /\ OwnersIn(pte', f) = OwnersIn(pte, f) - PagesOn(pte[s], D, f)
             /\ PagesOn(pte[s], D, f) \in Nat /\ OwnersIn(pte, f) \in Nat
             /\ OwnersIn(pte', f) \in Nat /\ ObjectsIn(shms, f) \in Nat
             /\ Uses(s, D)[f] = PagesOn(pte[s], D, f)
  <2>1. PagesOn(pte'[s], D, f) = 0
    BY PagesNone, Constants DEF NoFrames
  <2>2. Uses(s, D)[f] = PagesOn(pte[s], D, f)
    BY DEF Uses, PagesOn
  <2>3. /\ OwnersIn(pte', f) = OwnersIn(pte, f) - PagesOn(pte[s], D, f) + PagesOn(pte'[s], D, f)
        /\ PagesOn(pte[s], D, f) \in Nat /\ OwnersIn(pte, f) \in Nat /\ OwnersIn(pte', f) \in Nat
    <3> DEFINE P == pte
               Q == pte'
    <3>1. Within(P, Q, s, D)
      OBVIOUS
    <3> HIDE DEF P, Q
    <3>2. /\ OwnersIn(Q, f) = OwnersIn(P, f) - PagesOn(P[s], D, f) + PagesOn(Q[s], D, f)
          /\ PagesOn(P[s], D, f) \in Nat /\ OwnersIn(P, f) \in Nat /\ OwnersIn(Q, f) \in Nat
      BY ONLY <3>1, RowPart
    <3> QED
      BY ONLY <3>2 DEF P, Q
  <2>4. ObjectsIn(shms, f) \in Nat
    BY ONLY ObjectsNat
  <2> QED
    BY ONLY <2>1, <2>2, <2>3, <2>4
<1>2. /\ page_ref \in [Frames -> Nat] /\ free \subseteq Frames
      /\ \A f \in Frames : /\ page_ref[f] >= OwnersIn(pte, f) + ObjectsIn(shms, f)
                           /\ f \in free <=> page_ref[f] = 0
  BY DEF PagesInv, TypeOK, CountsCover
<1> DEFINE delta == Uses(s, D)
           left == [f \in Frames |-> IF page_ref[f] > delta[f] THEN page_ref[f] - delta[f] ELSE 0]
<1>3. page_ref' = left /\ free' = free \cup {f \in Frames : delta[f] > 0 /\ left[f] = 0}
  BY DEF Decref
<1>4. ASSUME NEW f \in Frames
      PROVE  /\ left[f] = page_ref[f] - delta[f] /\ left[f] \in Nat
             /\ delta[f] \in Nat /\ page_ref[f] \in Nat
             /\ delta[f] = PagesOn(pte[s], D, f)
  <2>1. delta[f] \in Nat /\ page_ref[f] \in Nat /\ delta[f] <= page_ref[f]
    BY <1>1, <1>2
  <2> HIDE DEF delta
  <2> QED
    BY <1>1, <2>1 DEF delta
<1> HIDE DEF delta
<1>5. ASSUME NEW f \in Frames
      PROVE  f \in free' <=> left[f] = 0
  BY <1>2, <1>3, <1>4
<1>6. left \in [Frames -> Nat]
  BY <1>4
<1> HIDE DEF left
<1>7. FrameExact
  BY <1>1, <1>3, <1>4 DEF FrameExact, Counted
<1>8. FrameStep
  <2>1. page_ref' \in [Frames -> Nat] /\ free' \subseteq Frames
    BY <1>2, <1>3, <1>6
  <2>2. ASSUME NEW f \in Frames
        PROVE  page_ref'[f] - page_ref[f] >= Counted(pte', shms', f) - Counted(pte, shms, f)
    <3>1. page_ref'[f] - page_ref[f] \in Int
      BY <1>2, <2>1
    <3> QED
      BY <1>7, <3>1 DEF FrameExact
  <2> QED
    BY <1>3, <1>5, <2>1, <2>2 DEF FrameStep
<1> QED
  BY <1>7, <1>8

----------------------------------------------------------------------------
(* The steps.                                                              *)

EntryType ==
    [frame : Frames \cup {NoFrame}, w : BOOLEAN, x : BOOLEAN, cow : BOOLEAN, shared : BOOLEAN]
TlbType == [asid : 1..ASID_MAX, va : Va, frame : Frames, w : BOOLEAN]

\* What a step has to keep of the types, the counts and the ASIDs aside.
Typed ==
    /\ live \subseteq Spaces
    /\ pte \in [Spaces -> [Va -> EntryType]]
    /\ mem \in [Frames -> Values]
    /\ shms \in [Objs -> Frames \cup {NoFrame}]
    /\ heap_end \in [Spaces -> Nat] /\ mmap_next \in [Spaces -> Nat]
    /\ tlb \subseteq TlbType
    /\ Entries /\ Pointers
AsidsKept ==
    /\ asid' \in [Spaces -> 0..ASID_MAX] /\ next_asid' \in 1..(ASID_MAX + 1)
    /\ asid_free_list' \in Seq(1..ASID_MAX)
    /\ AsidCount' /\ AsidsApart'

LEMMA PagesStep ==
    ASSUME PagesInv, Typed', AsidsKept, FrameStep
    PROVE  PagesInv'
<1>1. CountsCover'
  BY CountsKept
<1>2. TypeOK'
  BY DEF Typed, AsidsKept, FrameStep, TypeOK, EntryType, TlbType
<1> QED
  BY <1>1, <1>2 DEF Typed, AsidsKept, PagesInv

LEMMA PagesTyped == PagesInv => Typed
BY DEF PagesInv, TypeOK, Typed, EntryType, TlbType

\* A step that creates and destroys no space.
LEMMA AsidsSame ==
    ASSUME PagesInv, live' = live, UNCHANGED asidVars
    PROVE  AsidsKept
BY DEF PagesInv, TypeOK, AsidsKept, AsidCount, AsidsApart, asidVars

\* A step that counts no frame and changes none of the frames mapped or held.
LEMMA FramesSame ==
    ASSUME PagesInv, page_ref' = page_ref, free' = free, shms' = shms,
           \A t \in Spaces : SameFrames(pte, pte', t)
    PROVE  FrameStep /\ FrameExact
<1>1. ASSUME NEW f \in Frames
      PROVE  /\ Counted(pte', shms', f) = Counted(pte, shms, f)
             /\ Counted(pte, shms, f) \in Nat /\ page_ref[f] \in Nat
  <2>1. OwnersIn(pte', f) = OwnersIn(pte, f)
    BY SameOwners
  <2>2. OwnersIn(pte, f) \in Nat /\ ObjectsIn(shms, f) \in Nat
    BY ONLY OwnersNat, ObjectsNat
  <2> QED
    BY <2>1, <2>2 DEF Counted, PagesInv, TypeOK
<1>2. /\ page_ref \in [Frames -> Nat] /\ free \subseteq Frames
      /\ \A f \in Frames : f \in free <=> page_ref[f] = 0
  BY DEF PagesInv, TypeOK, CountsCover
<1> QED
  BY <1>1, <1>2 DEF FrameStep, FrameExact

\* The kinds of entries the code writes, and what a clone makes of one.
LEMMA EntriesTyped ==
    /\ Invalid \in EntryType /\ Invalid.frame = NoFrame
    /\ \A f \in Frames :
          /\ Data(f) \in EntryType /\ Data(f).frame = f
          /\ Data(f).w /\ ~Data(f).cow /\ ~Data(f).shared /\ Data(f) # Invalid
          /\ SharedEntry(f) \in EntryType /\ SharedEntry(f).frame = f
          /\ SharedEntry(f).w /\ ~SharedEntry(f).cow /\ SharedEntry(f).shared
          /\ SharedEntry(f) # Invalid
          /\ \A w, x \in BOOLEAN :
                /\ Entry(f, w, x) \in EntryType /\ Entry(f, w, x).frame = f
                /\ Entry(f, w, x).w = w /\ ~Entry(f, w, x).cow /\ ~Entry(f, w, x).shared
                /\ Entry(f, w, x) # Invalid
<1>1. Invalid \in EntryType /\ Invalid.frame = NoFrame
  BY DEF Invalid, EntryType
<1>2. ASSUME NEW f \in Frames
      PROVE  /\ Data(f) \in EntryType /\ Data(f).frame = f
             /\ Data(f).w /\ ~Data(f).cow /\ ~Data(f).shared /\ Data(f) # Invalid
  BY Constants DEF Invalid, EntryType, Data, Entry
<1>3. ASSUME NEW f \in Frames
      PROVE  /\ SharedEntry(f) \in EntryType /\ SharedEntry(f).frame = f
             /\ SharedEntry(f).w /\ ~SharedEntry(f).cow /\ SharedEntry(f).shared
             /\ SharedEntry(f) # Invalid
  BY Constants DEF Invalid, EntryType, SharedEntry, Data, Entry
<1>4. ASSUME NEW f \in Frames, NEW w \in BOOLEAN, NEW x \in BOOLEAN
      PROVE  /\ Entry(f, w, x) \in EntryType /\ Entry(f, w, x).frame = f
             /\ Entry(f, w, x).w = w /\ ~Entry(f, w, x).cow /\ ~Entry(f, w, x).shared
             /\ Entry(f, w, x) # Invalid
  BY Constants DEF Invalid, EntryType, Entry
<1> QED
  BY <1>1, <1>2, <1>3, <1>4

LEMMA ClonedEntry ==
    ASSUME NEW e \in EntryType
    PROVE  /\ Cloned(e) \in EntryType /\ Cloned(e).frame = e.frame
           /\ Cloned(e).shared = e.shared
           /\ Cloned(e).w => e.w /\ e.shared
           /\ Cloned(e).cow => e.cow \/ ~e.shared
           /\ Cloned(Invalid) = Invalid
           /\ e.frame # NoFrame => Cloned(e) # Invalid
<1>1. /\ e.w \in BOOLEAN /\ e.cow \in BOOLEAN /\ e.shared \in BOOLEAN
      /\ e.frame \in Frames \cup {NoFrame}
  BY DEF EntryType
<1>2. CASE e.w /\ ~e.shared
  <2> DEFINE k == Cow(e.frame)
  <2>1. /\ k \in EntryType /\ k.frame = e.frame /\ k # Invalid
        /\ k.shared = FALSE /\ ~k.w /\ e.shared = FALSE
    BY <1>1, <1>2 DEF EntryType, Cow, Entry, Invalid
  <2>2. Cloned(e) = k
    BY <1>2 DEF Cloned
  <2>3. Cloned(Invalid) = Invalid
    BY DEF Cloned, Invalid
  <2> HIDE DEF k
  <2> QED
    BY <1>1, <1>2, <2>1, <2>2, <2>3
<1>3. CASE ~(e.w /\ ~e.shared)
  <2>1. Cloned(e) = e /\ Cloned(Invalid) = Invalid /\ Invalid.frame = NoFrame
    BY <1>3 DEF Cloned, Invalid
  <2> QED
    BY <1>1, <1>3, <2>1
<1> QED
  BY <1>2, <1>3

\* What the PMM hands out is free, and each frame goes to one page.
LEMMA Picked ==
    ASSUME PagesInv, NEW D, NEW p \in Picks(D)
    PROVE  /\ DOMAIN p = D /\ IsInjective(p) /\ Range(p) \subseteq free
           /\ \A va \in D : p[va] \in free /\ p[va] \in Frames
BY DEF Picks, Range, PagesInv, TypeOK

\* as_create_elf.
LEMMA CreatePages ==
    ASSUME PagesInv, NEW s \in Spaces, Create(s)
    PROVE  /\ PagesInv' /\ FrameExact
           /\ \A t \in live : t \in live' /\ asid'[t] = asid[t] /\ pte'[t] = pte[t]
<1> DEFINE D == DOMAIN Segments
<1>1. s \notin live /\ live' = live \cup {s} /\ shms' = shms /\ tlb' = tlb
  BY DEF Create
<1>2. PICK p \in Picks(D), c \in [D -> Values] :
         /\ pte' = [pte EXCEPT ![s] =
                [va \in Va |-> IF va \in D
                               THEN Entry(p[va], Segments[va].w, Segments[va].x) ELSE Invalid]]
         /\ page_ref' = [f \in Frames |-> page_ref[f] + (IF f \in Range(p) THEN 1 ELSE 0)]
         /\ free' = free \ Range(p)
         /\ mem' = [f \in Frames |-> IF f \in Range(p)
                                     THEN c[CHOOSE va \in DOMAIN p : p[va] = f] ELSE mem[f]]
  BY DEF Create
<1>3. /\ DOMAIN p = D /\ IsInjective(p) /\ Range(p) \subseteq free
      /\ \A va \in D : p[va] \in free /\ p[va] \in Frames
  BY ONLY PagesInv, <1>2, Picked
<1>4. /\ D \in SUBSET Va
      /\ \A va \in D : Segments[va].w \in BOOLEAN /\ Segments[va].x \in BOOLEAN
  BY ConstAssumption DEF Rights
<1> HIDE DEF D
<1>5. Typed
  BY PagesTyped
<1>6. /\ \A t \in Spaces : t # s => pte'[t] = pte[t]
      /\ pte'[s] = [va \in Va |-> IF va \in D THEN Entry(p[va], Segments[va].w, Segments[va].x)
                                             ELSE Invalid]
  BY <1>2, <1>5 DEF Typed
<1>7. \A va \in Va : pte[s][va] = Invalid /\ pte[s][va].frame = NoFrame
  BY <1>1, <1>5, EntriesTyped DEF Typed, Entries
<1>8. /\ \A va \in Va \ D : pte'[s][va] = Invalid
      /\ \A va \in D : /\ pte'[s][va] = Entry(p[va], Segments[va].w, Segments[va].x)
                       /\ pte'[s][va] \in EntryType /\ pte'[s][va].frame = p[va]
                       /\ pte'[s][va].frame \in Frames
  BY <1>3, <1>4, <1>6, EntriesTyped
<1>9. Within(pte, pte', s, D)
  <2>1. SameElsewhere(pte, pte', s)
    BY <1>6 DEF SameElsewhere, SameFrames
  <2>2. SameOn(pte[s], pte'[s], Va \ D)
    BY <1>7, <1>8, EntriesTyped DEF SameOn
  <2> QED
    BY <1>4, <2>1, <2>2 DEF Within
<1>10. FrameStep /\ FrameExact
  <2>1. NoFrames(pte[s], D)
    BY <1>4, <1>7 DEF NoFrames
  <2>2. OnFrames(pte'[s], D, p)
    BY <1>8 DEF OnFrames
  <2>3. /\ page_ref' = [f \in Frames |-> page_ref[f] + (IF f \in Range(p) THEN 1 ELSE 0)]
        /\ free' = free \ Range(p) /\ shms' = shms
    BY <1>1, <1>2
  <2> QED
    BY ONLY PagesInv, <1>4, <1>9, <2>1, <2>2, <2>3, FreshFrames
<1>11. AsidsKept /\ asid' = [asid EXCEPT ![s] = asid'[s]]
  <2>1. AsidAlloc(s)
    BY DEF Create
  <2> QED
    BY ONLY PagesInv, <1>1, <2>1, AsidTaken DEF AsidsKept
<1>12. Typed'
  <2>1. live' \subseteq Spaces /\ tlb' \subseteq TlbType /\ shms' \in [Objs -> Frames \cup {NoFrame}]
    BY <1>1, <1>5 DEF Typed
  <2>2. pte' \in [Spaces -> [Va -> EntryType]]
    <3>1. pte'[s] \in [Va -> EntryType]
      <4>1. \A va \in Va : (IF va \in D THEN Entry(p[va], Segments[va].w, Segments[va].x)
                                        ELSE Invalid) \in EntryType
        BY <1>3, <1>4, EntriesTyped
      <4> QED
        BY ONLY <1>6, <4>1
    <3> QED
      BY <1>2, <1>5, <1>6, <3>1 DEF Typed
  <2>3. mem' \in [Frames -> Values]
    <3>1. \A f \in Range(p) : (CHOOSE va \in DOMAIN p : p[va] = f) \in D
      BY <1>3 DEF Range
    <3> QED
      BY <1>2, <1>5, <3>1 DEF Typed
  <2>4. /\ heap_end' = [heap_end EXCEPT ![s] = HeapBase]
        /\ mmap_next' = [mmap_next EXCEPT ![s] = MmapBase]
        /\ HeapBase \in Nat \ {0} /\ MmapBase \in Nat \ {0}
    BY ConstAssumption, Constants DEF Create
  <2>5. heap_end' \in [Spaces -> Nat] /\ mmap_next' \in [Spaces -> Nat] /\ Pointers'
    BY <1>5, <2>4 DEF Typed, Pointers
  <2>6. Entries'
    <3>1. ASSUME NEW t \in Spaces, NEW va \in Va
          PROVE  /\ pte'[t][va] = Invalid \/ pte'[t][va].frame \in Frames
                 /\ t \notin live' => pte'[t][va] = Invalid
      <4>1. CASE t = s
        BY <1>1, <1>8, <4>1
      <4>2. CASE t # s
        BY <1>1, <1>5, <1>6, <4>2 DEF Typed, Entries
      <4> QED
        BY <4>1, <4>2
    <3> QED
      BY <3>1 DEF Entries
  <2> QED
    BY <2>1, <2>2, <2>3, <2>5, <2>6 DEF Typed
<1>13. PagesInv'
  BY ONLY PagesInv, <1>10, <1>11, <1>12, PagesStep
<1>14. ASSUME NEW t \in live
       PROVE  t \in live' /\ asid'[t] = asid[t] /\ pte'[t] = pte[t]
  <2>1. t # s /\ t \in Spaces /\ t \in live'
    BY <1>1, <1>5 DEF Typed
  <2>2. asid \in [Spaces -> 0..ASID_MAX]
    BY DEF PagesInv, TypeOK
  <2> QED
    BY <1>6, <1>11, <2>1, <2>2
<1> QED
  BY <1>10, <1>13, <1>14

\* as_clone.
LEMMA ClonePages ==
    ASSUME PagesInv, NEW s \in Spaces, NEW c \in Spaces, Clone(s, c)
    PROVE  /\ PagesInv' /\ FrameExact
           /\ \A t \in live \ {s} : t \in live' /\ asid'[t] = asid[t] /\ pte'[t] = pte[t]
<1>1. /\ s \in live /\ c \notin live /\ live' = live \cup {c} /\ c # s
      /\ shms' = shms /\ mem' = mem /\ free' = free /\ tlb' = Flushed(asid[s])
      /\ page_ref' = [f \in Frames |-> page_ref[f] + Uses(s, Va)[f]]
  BY DEF Clone
<1> DEFINE both == [va \in Va |-> Cloned(pte[s][va])]
<1>2. pte' = [pte EXCEPT ![s] = both, ![c] = both]
  BY DEF Clone
<1>3. Typed
  BY PagesTyped
<1>4. \A va \in Va : /\ both[va] \in EntryType /\ both[va].frame = pte[s][va].frame
                     /\ both[va] = Invalid \/ both[va].frame \in Frames
  <2> SUFFICES ASSUME NEW va \in Va
               PROVE  /\ both[va] \in EntryType /\ both[va].frame = pte[s][va].frame
                      /\ both[va] = Invalid \/ both[va].frame \in Frames
    OBVIOUS
  <2>1. pte[s][va] \in EntryType /\ (pte[s][va] = Invalid \/ pte[s][va].frame \in Frames)
    BY <1>3 DEF Typed, Entries
  <2>2. both[va] = Cloned(pte[s][va])
    OBVIOUS
  <2> HIDE DEF both
  <2> QED
    BY <2>1, <2>2, ClonedEntry
<1>5. both \in [Va -> EntryType]
  BY <1>4
<1> HIDE DEF both
<1>6. /\ pte'[s] = both /\ pte'[c] = both
      /\ \A t \in Spaces : t # s /\ t # c => pte'[t] = pte[t]
  BY <1>1, <1>2, <1>3 DEF Typed
<1>7. \A va \in Va : pte[c][va].frame = NoFrame
  BY <1>1, <1>3, EntriesTyped DEF Typed, Entries
<1>8. ASSUME NEW f \in Frames
      PROVE  /\ OwnersIn(pte', f) = OwnersIn(pte, f) + Uses(s, Va)[f]
             /\ OwnersIn(pte, f) \in Nat /\ ObjectsIn(shms, f) \in Nat
             /\ Uses(s, Va)[f] \in Nat
             /\ Uses(s, Va)[f] <= OwnersIn(pte, f)
  <2>1. SameElsewhere(pte, pte', c)
    BY <1>4, <1>6 DEF SameElsewhere, SameFrames
  <2> DEFINE P == pte
             Q == pte'
  <2>2. SameElsewhere(P, Q, c)
    BY <2>1
  <2> HIDE DEF P, Q
  <2>3. OwnersIn(Q, f) = OwnersIn(P, f) - PagesOn(P[c], Va, f) + PagesOn(Q[c], Va, f)
    BY ONLY <2>2, c \in Spaces, OneRow
  <2>4. PagesOn(pte[c], Va, f) = 0
    BY <1>7, PagesNone, Constants
  <2>5. PagesOn(pte'[c], Va, f) = PagesOn(pte[s], Va, f)
    <3>1. SameOn(pte[s], pte'[c], Va)
      BY <1>4, <1>6 DEF SameOn
    <3> QED
      BY <3>1, PagesSame
  <2>6. PagesOn(pte[s], Va, f) = Uses(s, Va)[f]
    BY DEF PagesOn, Uses
  <2>7. PagesOn(pte[s], Va, f) <= OwnersIn(pte, f) /\ PagesOn(pte[s], Va, f) \in Nat
    BY ONLY RowWithin, s \in Spaces, f \in Frames
  <2>8. OwnersIn(pte, f) \in Nat /\ ObjectsIn(shms, f) \in Nat
    BY ONLY OwnersNat, ObjectsNat
  <2>9. OwnersIn(pte', f) = OwnersIn(pte, f) - PagesOn(pte[c], Va, f) + PagesOn(pte'[c], Va, f)
    BY ONLY <2>3 DEF P, Q
  <2> QED
    BY ONLY <2>4, <2>5, <2>6, <2>7, <2>8, <2>9
<1>9. /\ page_ref \in [Frames -> Nat] /\ free \subseteq Frames
      /\ \A f \in Frames : /\ page_ref[f] >= OwnersIn(pte, f) + ObjectsIn(shms, f)
                           /\ f \in free <=> page_ref[f] = 0
  BY DEF PagesInv, TypeOK, CountsCover
<1>10. ASSUME NEW f \in Frames
       PROVE  /\ page_ref'[f] \in Nat /\ page_ref[f] \in Nat
              /\ page_ref'[f] - page_ref[f] = Counted(pte', shms', f) - Counted(pte, shms, f)
              /\ f \in free' <=> page_ref'[f] = 0
  <2>1. page_ref'[f] = page_ref[f] + Uses(s, Va)[f] /\ page_ref[f] \in Nat
    BY <1>1, <1>9
  <2>2. page_ref'[f] - page_ref[f] = Counted(pte', shms', f) - Counted(pte, shms, f)
    BY <1>1, <1>8, <2>1 DEF Counted
  <2>3. f \in free' <=> page_ref'[f] = 0
    <3>1. page_ref[f] >= OwnersIn(pte, f) + ObjectsIn(shms, f) /\ (f \in free' <=> page_ref[f] = 0)
      BY <1>1, <1>9
    <3>2. /\ OwnersIn(pte, f) \in Nat /\ ObjectsIn(shms, f) \in Nat
          /\ Uses(s, Va)[f] \in Nat /\ Uses(s, Va)[f] <= OwnersIn(pte, f)
      BY <1>8
    <3> QED
      BY ONLY <2>1, <3>1, <3>2
  <2> QED
    BY <1>8, <2>1, <2>2, <2>3
<1>11. FrameStep /\ FrameExact
  <2>1. page_ref' \in [Frames -> Nat] /\ free' \subseteq Frames
    BY <1>1, <1>8, <1>9
  <2>2. FrameExact
    BY <1>10 DEF FrameExact
  <2>3. \A f \in Frames : page_ref'[f] - page_ref[f] \in Int
    BY <1>10
  <2> QED
    BY <1>10, <2>1, <2>2, <2>3 DEF FrameStep
<1>12. AsidsKept /\ asid' = [asid EXCEPT ![c] = asid'[c]]
  <2>1. AsidAlloc(c)
    BY DEF Clone
  <2> QED
    BY ONLY PagesInv, <1>1, <2>1, c \in Spaces, AsidTaken DEF AsidsKept
<1>13. Typed'
  <2>1. /\ live' \subseteq Spaces /\ shms' \in [Objs -> Frames \cup {NoFrame}]
        /\ tlb' \subseteq TlbType /\ mem' \in [Frames -> Values]
    BY <1>1, <1>3 DEF Typed, Flushed
  <2>2. pte' \in [Spaces -> [Va -> EntryType]]
    BY <1>2, <1>3, <1>5 DEF Typed
  <2>3. /\ heap_end' = [heap_end EXCEPT ![c] = heap_end[s]]
        /\ mmap_next' = [mmap_next EXCEPT ![c] = mmap_next[s]]
    BY DEF Clone
  <2>4. heap_end' \in [Spaces -> Nat] /\ mmap_next' \in [Spaces -> Nat] /\ Pointers'
    BY <1>3, <2>3 DEF Typed, Pointers
  <2>5. Entries'
    <3>1. ASSUME NEW t \in Spaces, NEW va \in Va
          PROVE  /\ pte'[t][va] = Invalid \/ pte'[t][va].frame \in Frames
                 /\ t \notin live' => pte'[t][va] = Invalid
      <4>1. CASE t = s \/ t = c
        BY <1>1, <1>4, <1>6, <4>1
      <4>2. CASE t # s /\ t # c
        BY <1>1, <1>3, <1>6, <4>2 DEF Typed, Entries
      <4> QED
        BY <4>1, <4>2
    <3> QED
      BY <3>1 DEF Entries
  <2> QED
    BY <2>1, <2>2, <2>4, <2>5 DEF Typed
<1>14. PagesInv'
  BY ONLY PagesInv, <1>11, <1>12, <1>13, PagesStep
<1>15. ASSUME NEW t \in live \ {s}
       PROVE  t \in live' /\ asid'[t] = asid[t] /\ pte'[t] = pte[t]
  <2>1. t # c /\ t \in Spaces /\ t \in live'
    BY <1>1, <1>3 DEF Typed
  <2>2. asid \in [Spaces -> 0..ASID_MAX]
    BY DEF PagesInv, TypeOK
  <2> QED
    BY <1>6, <1>12, <2>1, <2>2
<1> QED
  BY <1>11, <1>14, <1>15

\* A space that gives up the pages D, of those only or of all it has.
LEMMA Dropping ==
    ASSUME PagesInv, NEW s \in live, NEW D \in SUBSET Va,
           pte' = [pte EXCEPT ![s] = [va \in Va |-> IF va \in D THEN Invalid ELSE pte[s][va]]],
           Decref(Uses(s, D)), shms' = shms, mem' = mem, tlb' = Flushed(asid[s]),
           heap_end' = heap_end, mmap_next' = mmap_next,
           live' = live \/ (live' = live \ {s} /\ D = Va), AsidsKept
    PROVE  /\ PagesInv' /\ FrameExact
           /\ \A t \in live \ {s} : t \in live' /\ pte'[t] = pte[t]
<1>1. Typed /\ s \in Spaces
  BY PagesTyped DEF Typed
<1>2. /\ \A t \in Spaces : t # s => pte'[t] = pte[t]
      /\ \A va \in Va : pte'[s][va] = IF va \in D THEN Invalid ELSE pte[s][va]
  BY <1>1 DEF Typed
<1>3. Within(pte, pte', s, D) /\ NoFrames(pte'[s], D)
  BY <1>1, <1>2, EntriesTyped DEF Within, SameElsewhere, SameFrames, SameOn, NoFrames
<1>4. FrameStep /\ FrameExact
  BY ONLY PagesInv, <1>1, D \in SUBSET Va, <1>3, Decref(Uses(s, D)), shms' = shms, DroppedFrames
<1>5. Typed'
  <2>1. /\ live' \subseteq Spaces /\ shms' \in [Objs -> Frames \cup {NoFrame}]
        /\ tlb' \subseteq TlbType /\ mem' \in [Frames -> Values]
        /\ heap_end' \in [Spaces -> Nat] /\ mmap_next' \in [Spaces -> Nat]
    BY <1>1 DEF Typed, Flushed
  <2>2. pte' \in [Spaces -> [Va -> EntryType]]
    <3>1. \A va \in Va : (IF va \in D THEN Invalid ELSE pte[s][va]) \in EntryType
      BY <1>1, EntriesTyped DEF Typed
    <3>2. [va \in Va |-> IF va \in D THEN Invalid ELSE pte[s][va]] \in [Va -> EntryType]
      BY ONLY <3>1
    <3> QED
      BY <1>1, <3>2 DEF Typed
  <2>3. Pointers'
    BY <1>1 DEF Typed, Pointers
  <2>4. Entries'
    <3>1. ASSUME NEW t \in Spaces, NEW va \in Va
          PROVE  /\ pte'[t][va] = Invalid \/ pte'[t][va].frame \in Frames
                 /\ t \notin live' => pte'[t][va] = Invalid
      <4>1. /\ pte[t][va] = Invalid \/ pte[t][va].frame \in Frames
            /\ t \notin live => pte[t][va] = Invalid
        BY <1>1 DEF Typed, Entries
      <4>2. CASE t = s
        BY <1>2, <4>1, <4>2
      <4>3. CASE t # s
        BY <1>2, <4>1, <4>3
      <4> QED
        BY <4>2, <4>3
    <3> QED
      BY <3>1 DEF Entries
  <2> QED
    BY <2>1, <2>2, <2>3, <2>4 DEF Typed
<1>6. PagesInv'
  BY ONLY PagesInv, <1>4, <1>5, AsidsKept, PagesStep
<1>7. \A t \in live \ {s} : t \in live' /\ pte'[t] = pte[t]
  BY <1>1, <1>2 DEF Typed
<1> QED
  BY <1>4, <1>6, <1>7

\* as_destroy.
LEMMA DestroyPages ==
    ASSUME PagesInv, NEW s \in Spaces, Destroy(s)
    PROVE  /\ PagesInv' /\ FrameExact
           /\ \A t \in live \ {s} : t \in live' /\ asid'[t] = asid[t] /\ pte'[t] = pte[t]
<1>1. s \in live /\ live' = live \ {s} /\ Va \in SUBSET Va /\ AsidFree(s)
  BY DEF Destroy
<1>2. asid' = asid /\ AsidsKept
  <2>1. /\ asid' = asid /\ next_asid' = next_asid
        /\ asid_free_list' \in Seq(1..ASID_MAX)
        /\ AsidCount' /\ AsidsApart'
    BY ONLY PagesInv, <1>1, AsidGiven
  <2> QED
    BY <2>1 DEF AsidsKept, PagesInv, TypeOK
<1>3. /\ Decref(Uses(s, Va)) /\ shms' = shms /\ mem' = mem /\ tlb' = Flushed(asid[s])
      /\ heap_end' = heap_end /\ mmap_next' = mmap_next
      /\ live' = live \/ (live' = live \ {s} /\ Va = Va)
  BY DEF Destroy
<1>4. pte' = [pte EXCEPT ![s] = [va \in Va |-> IF va \in Va THEN Invalid ELSE pte[s][va]]]
  <2>1. [va \in Va |-> Invalid] = [va \in Va |-> IF va \in Va THEN Invalid ELSE pte[s][va]]
    OBVIOUS
  <2> QED
    BY <2>1 DEF Destroy
<1>5. /\ PagesInv' /\ FrameExact
      /\ \A t \in live \ {s} : t \in live' /\ pte'[t] = pte[t]
  <2>1. live' = live \/ (live' = live \ {s} /\ Va = Va)
    BY <1>3
  <2> QED
    BY ONLY PagesInv, <1>1, <1>2, <1>3, <1>4, <2>1, Dropping
<1> QED
  BY <1>2, <1>5

\* as_munmap.
LEMMA MunmapPages ==
    ASSUME PagesInv, NEW s \in Spaces, NEW a \in Va, NEW n \in Lens, Munmap(s, a, n)
    PROVE  /\ PagesInv' /\ FrameExact
           /\ \A t \in live \ {s} : t \in live' /\ asid'[t] = asid[t] /\ pte'[t] = pte[t]
<1> DEFINE D == (a..(a + n - 1)) \cap Va
<1>1. s \in live /\ live' = live /\ D \in SUBSET Va /\ UNCHANGED asidVars
  BY DEF Munmap
<1>2. AsidsKept
  BY ONLY PagesInv, <1>1, AsidsSame
<1>3. /\ Decref(Uses(s, D)) /\ shms' = shms /\ mem' = mem /\ tlb' = Flushed(asid[s])
      /\ heap_end' = heap_end /\ mmap_next' = mmap_next
  BY DEF Munmap
<1>4. pte' = [pte EXCEPT ![s] = [va \in Va |-> IF va \in D THEN Invalid ELSE pte[s][va]]]
  BY DEF Munmap
<1> HIDE DEF D
<1>5. /\ PagesInv' /\ FrameExact
      /\ \A t \in live \ {s} : t \in live' /\ pte'[t] = pte[t]
  <2>1. live' = live \/ (live' = live \ {s} /\ D = Va)
    BY <1>1
  <2> QED
    BY ONLY PagesInv, <1>1, <1>2, <1>3, <1>4, <2>1, Dropping
<1> QED
  BY <1>1, <1>5 DEF asidVars

\* What the CPU may translate with, and what the TLB may keep.
LEMMA Translated ==
    ASSUME PagesInv, NEW s \in live, NEW va \in Va, NEW e \in Translation(s, va)
    PROVE  /\ e \in TlbType
           /\ e \in tlb \/ (Mapped(s, va) /\ e = Walk(s, va))
<1>1. Typed /\ s \in Spaces
  BY PagesTyped DEF Typed
<1>2. asid[s] \in 1..ASID_MAX
  <2>1. asid[s] \in 1..(next_asid - 1) /\ next_asid \in 1..(ASID_MAX + 1)
    BY DEF PagesInv, AsidsApart, TypeOK
  <2> QED
    BY <2>1, EnoughAsids
<1>3. e \in tlb \/ (Mapped(s, va) /\ e = Walk(s, va))
  BY DEF Translation, Cached
<1>4. ASSUME Mapped(s, va), e = Walk(s, va) PROVE e \in TlbType
  <2>1. pte[s][va].frame \in Frames /\ pte[s][va].w \in BOOLEAN
    BY <1>1, <1>4 DEF Typed, Entries, Mapped, EntryType
  <2> QED
    BY <1>2, <1>4, <2>1 DEF Walk, TlbType
<1> QED
  BY <1>1, <1>3, <1>4 DEF Typed

LEMMA Keeping ==
    ASSUME NEW t, NEW e, NEW n \in Keep(t, e)
    PROVE  n \subseteq t \cup {e}
BY DEF Keep

\* Loads and stores through the current tables.
LEMMA AccessPages ==
    ASSUME PagesInv, NEW s \in Spaces, NEW va \in Va, NEW v \in Values,
           Load(s, va) \/ Store(s, va, v)
    PROVE  PagesInv' /\ FrameExact
<1>1. /\ s \in live /\ live' = live /\ pte' = pte /\ page_ref' = page_ref /\ free' = free
      /\ shms' = shms /\ heap_end' = heap_end /\ mmap_next' = mmap_next /\ UNCHANGED asidVars
  BY DEF Load, Store, frameVars
<1>2. PICK e \in Translation(s, va) :
         tlb' \in Keep(tlb, e) /\ (mem' = mem \/ mem' = [mem EXCEPT ![e.frame] = v])
  BY DEF Load, Store, frameVars
<1>3. e \in TlbType /\ e.frame \in Frames
  <2>1. e \in TlbType
    BY ONLY PagesInv, <1>1, <1>2, va \in Va, Translated
  <2> QED
    BY <2>1 DEF TlbType
<1>4. tlb' \subseteq tlb \cup {e}
  BY ONLY <1>2, Keeping
<1>5. AsidsKept
  BY ONLY PagesInv, <1>1, AsidsSame
<1>6. FrameStep /\ FrameExact
  <2>1. \A t \in Spaces : SameFrames(pte, pte', t)
    BY <1>1 DEF SameFrames
  <2> QED
    BY <1>1, <2>1, FramesSame
<1>7. Typed'
  <2>1. Typed
    BY PagesTyped
  <2>2. mem' \in [Frames -> Values] /\ tlb' \subseteq TlbType
    BY <1>2, <1>3, <1>4, <2>1 DEF Typed
  <2> QED
    BY <1>1, <2>1, <2>2 DEF Typed, Entries, Pointers
<1> QED
  BY ONLY PagesInv, <1>5, <1>6, <1>7, PagesStep

\* One page of a space gets another valid entry.
Enters(s, va, e) ==
    /\ s \in live /\ va \in Va /\ e \in EntryType /\ e.frame \in Frames
    /\ pte' = [pte EXCEPT ![s][va] = e] /\ live' = live

\* The tables are tables, and the other entries are what they were.
Entered(s, va, e) ==
    /\ pte' \in [Spaces -> [Va -> EntryType]] /\ Entries'
    /\ pte'[s][va] = e
    /\ \A t \in Spaces, u \in Va : t # s \/ u # va => pte'[t][u] = pte[t][u]

LEMMA EntryEntered ==
    ASSUME PagesInv, NEW s, NEW va, NEW e, Enters(s, va, e)
    PROVE  Entered(s, va, e)
<1>1. Typed /\ s \in Spaces /\ va \in Va /\ e \in EntryType /\ e.frame \in Frames
  BY PagesTyped DEF Typed, Enters
<1>a. pte' = [pte EXCEPT ![s][va] = e] /\ live' = live /\ s \in live
  BY DEF Enters
<1>2. pte' \in [Spaces -> [Va -> EntryType]]
  BY <1>1, <1>a DEF Typed
<1>3. /\ pte'[s][va] = e
      /\ \A t \in Spaces, u \in Va : t # s \/ u # va => pte'[t][u] = pte[t][u]
  BY <1>1, <1>a DEF Typed
<1>4. Entries'
  <2>1. \A t \in Spaces, u \in Va : /\ pte[t][u] = Invalid \/ pte[t][u].frame \in Frames
                                    /\ t \notin live => pte[t][u] = Invalid
    BY <1>1 DEF Typed, Entries
  <2>2. ASSUME NEW t \in Spaces, NEW u \in Va
        PROVE  /\ pte'[t][u] = Invalid \/ pte'[t][u].frame \in Frames
               /\ t \notin live' => pte'[t][u] = Invalid
    <3>1. CASE t = s /\ u = va
      BY <1>1, <1>a, <1>3, <3>1
    <3>2. CASE t # s \/ u # va
      BY <1>a, <1>3, <2>1, <3>2
    <3> QED
      BY <3>1, <3>2
  <2> QED
    BY <2>2 DEF Entries
<1> QED
  BY ONLY <1>2, <1>3, <1>4 DEF Entered

\* The owners of the old frame lose one and those of the new frame gain one.
LEMMA OneEntry ==
    ASSUME PagesInv, NEW s, NEW va, NEW e, Enters(s, va, e)
    PROVE  /\ Entered(s, va, e)
           /\ \A h : /\ OwnersIn(pte', h) = OwnersIn(pte, h)
                           - (IF pte[s][va].frame = h THEN 1 ELSE 0) + (IF e.frame = h THEN 1 ELSE 0)
                     /\ OwnersIn(pte', h) \in Nat /\ OwnersIn(pte, h) \in Nat
<1>1. Typed /\ s \in Spaces /\ va \in Va
  BY PagesTyped DEF Typed, Enters
<1>2. Entered(s, va, e)
  BY ONLY PagesInv, Enters(s, va, e), EntryEntered
<1>3. /\ pte' \in [Spaces -> [Va -> EntryType]] /\ pte'[s][va] = e
      /\ \A t \in Spaces, u \in Va : t # s \/ u # va => pte'[t][u] = pte[t][u]
  BY <1>2 DEF Entered
<1>5. Within(pte, pte', s, {va})
  BY <1>1, <1>3 DEF Within, SameElsewhere, SameFrames, SameOn
<1>6. ASSUME NEW h
      PROVE  /\ OwnersIn(pte', h) = OwnersIn(pte, h)
                    - (IF pte[s][va].frame = h THEN 1 ELSE 0) + (IF e.frame = h THEN 1 ELSE 0)
             /\ OwnersIn(pte', h) \in Nat /\ OwnersIn(pte, h) \in Nat
  <2> DEFINE P == pte
             Q == pte'
             D == {va}
  <2>1. Within(P, Q, s, D)
    BY <1>5
  <2>a. Q[s][va] = e
    BY <1>3
  <2> HIDE DEF P, Q
  <2>2. PagesOn(P[s], D, h) = IF P[s][va].frame = h THEN 1 ELSE 0
    BY PagesAt
  <2>3. PagesOn(Q[s], D, h) = IF e.frame = h THEN 1 ELSE 0
    BY <2>a, PagesAt
  <2> HIDE DEF D
  <2>4. /\ OwnersIn(Q, h) = OwnersIn(P, h) - PagesOn(P[s], D, h) + PagesOn(Q[s], D, h)
        /\ OwnersIn(Q, h) \in Nat /\ OwnersIn(P, h) \in Nat
    BY ONLY <2>1, RowPart
  <2> QED
    BY ONLY <2>2, <2>3, <2>4 DEF P, Q
<1> QED
  BY ONLY <1>2, <1>6

\* The faulting page maps a frame.
LEMMA Faulted ==
    ASSUME PagesInv, NEW s \in Spaces, NEW va \in Va, Faults(s, va)
    PROVE  /\ s \in live /\ pte[s][va].cow /\ pte[s][va] \in EntryType
           /\ pte[s][va] # Invalid /\ pte[s][va].frame \in Frames
           /\ asid[s] \in 1..ASID_MAX
<1>1. Typed /\ s \in live /\ pte[s][va].cow
  BY PagesTyped DEF Faults
<1>2. pte[s][va] \in EntryType /\ (pte[s][va] = Invalid \/ pte[s][va].frame \in Frames)
  BY <1>1 DEF Typed, Entries
<1>3. asid[s] \in 1..ASID_MAX
  <2>1. asid[s] \in 1..(next_asid - 1) /\ next_asid \in 1..(ASID_MAX + 1)
    BY <1>1 DEF PagesInv, AsidsApart, TypeOK
  <2> QED
    BY <2>1, EnoughAsids
<1> QED
  BY <1>1, <1>2, <1>3 DEF Invalid

\* cow_fault of the only owner.
LEMMA ReusePages ==
    ASSUME PagesInv, NEW s \in Spaces, NEW va \in Va, NEW v \in Values, CowReuse(s, va, v)
    PROVE  PagesInv' /\ FrameExact
<1> DEFINE f == pte[s][va].frame
           e == [asid |-> asid[s], va |-> va, frame |-> f, w |-> TRUE]
<1>1. Faults(s, va)
  BY DEF CowReuse
<1>2. s \in live /\ f \in Frames /\ asid[s] \in 1..ASID_MAX
  BY ONLY PagesInv, <1>1, s \in Spaces, va \in Va, Faulted
<1>3. /\ live' = live /\ page_ref' = page_ref /\ free' = free /\ shms' = shms
      /\ heap_end' = heap_end /\ mmap_next' = mmap_next /\ UNCHANGED asidVars
      /\ pte' = [pte EXCEPT ![s][va] = Data(f)] /\ mem' = [mem EXCEPT ![f] = v]
      /\ tlb' \in Keep(Flushed(asid[s]), e)
  BY DEF CowReuse
<1>4. Typed
  BY PagesTyped
<1>5. tlb' \subseteq TlbType
  <2>1. tlb' \subseteq Flushed(asid[s]) \cup {e}
    BY ONLY <1>3, Keeping
  <2>2. e \in TlbType
    BY <1>2 DEF TlbType
  <2> HIDE DEF e
  <2> QED
    BY <1>4, <2>1, <2>2 DEF Typed, Flushed
<1>6. Data(f) \in EntryType /\ Data(f).frame = f
  BY <1>2, EntriesTyped
<1> HIDE DEF f
<1>7. /\ pte' \in [Spaces -> [Va -> EntryType]] /\ Entries'
      /\ pte'[s][va] = Data(f)
      /\ \A t \in Spaces, u \in Va : t # s \/ u # va => pte'[t][u] = pte[t][u]
  <2>1. Data(f).frame \in Frames /\ live' = live /\ pte' = [pte EXCEPT ![s][va] = Data(f)]
    BY <1>2, <1>3, <1>6
  <2>2. Enters(s, va, Data(f))
    BY ONLY <1>2, va \in Va, <1>6, <2>1 DEF Enters
  <2>3. Entered(s, va, Data(f))
    BY ONLY PagesInv, <2>2, EntryEntered
  <2> QED
    BY ONLY <2>3 DEF Entered
<1>8. \A t \in Spaces : SameFrames(pte, pte', t)
  BY <1>6, <1>7 DEF SameFrames, f
<1>9. FrameStep /\ FrameExact
  BY <1>3, <1>8, FramesSame
<1>10. AsidsKept
  BY ONLY PagesInv, <1>3, AsidsSame
<1>11. Typed'
  <2>1. mem' \in [Frames -> Values]
    BY <1>3, <1>4 DEF Typed
  <2> QED
    BY <1>3, <1>4, <1>5, <1>7, <2>1 DEF Typed, Pointers
<1> QED
  BY ONLY PagesInv, <1>9, <1>10, <1>11, PagesStep

\* cow_fault of a shared frame: it loses one owner of at least two, and a
\* free frame gets its first.
LEMMA CopyPages ==
    ASSUME PagesInv, NEW s \in Spaces, NEW va \in Va, NEW v \in Values, CowCopy(s, va, v)
    PROVE  PagesInv' /\ FrameExact
<1> DEFINE f == pte[s][va].frame
<1>1. Faults(s, va) /\ ~SoleOwner(f)
  BY DEF CowCopy
<1>2. s \in live /\ f \in Frames /\ asid[s] \in 1..ASID_MAX
  BY ONLY PagesInv, <1>1, s \in Spaces, va \in Va, Faulted
<1>3. /\ live' = live /\ shms' = shms
      /\ heap_end' = heap_end /\ mmap_next' = mmap_next /\ UNCHANGED asidVars
  BY DEF CowCopy
<1>4. PICK g \in free :
         /\ pte' = [pte EXCEPT ![s][va] = Data(g)] /\ mem' = [mem EXCEPT ![g] = v]
         /\ page_ref' = [page_ref EXCEPT ![f] = @ - 1, ![g] = 1]
         /\ free' = free \ {g}
         /\ tlb' \in Keep(Flushed(asid[s]), [asid |-> asid[s], va |-> va, frame |-> g, w |-> TRUE])
  BY DEF CowCopy
<1> DEFINE e == [asid |-> asid[s], va |-> va, frame |-> g, w |-> TRUE]
           d == Data(g)
<1>5. Typed /\ g \in Frames /\ s \in Spaces
  BY PagesTyped DEF PagesInv, TypeOK
<1>6. tlb' \subseteq TlbType
  <2>1. tlb' \subseteq Flushed(asid[s]) \cup {e}
    BY ONLY <1>4, Keeping
  <2>2. e \in TlbType
    BY <1>2, <1>5 DEF TlbType
  <2> HIDE DEF e
  <2> QED
    BY <1>5, <2>1, <2>2 DEF Typed, Flushed
<1>7. d \in EntryType /\ d.frame = g /\ d.frame \in Frames /\ pte' = [pte EXCEPT ![s][va] = d]
  BY <1>4, <1>5, EntriesTyped
<1> HIDE DEF f, e, d
<1>8. /\ pte' \in [Spaces -> [Va -> EntryType]] /\ Entries'
      /\ \A h : /\ OwnersIn(pte', h) = OwnersIn(pte, h)
                      - (IF pte[s][va].frame = h THEN 1 ELSE 0) + (IF d.frame = h THEN 1 ELSE 0)
                /\ OwnersIn(pte', h) \in Nat /\ OwnersIn(pte, h) \in Nat
  <2>1. Enters(s, va, d)
    BY ONLY <1>2, <1>3, <1>4, <1>7, va \in Va DEF Enters
  <2>2. Entered(s, va, d)
    BY ONLY PagesInv, <2>1, EntryEntered
  <2> QED
    BY ONLY PagesInv, <2>1, <2>2, OneEntry DEF Entered
<1>9. /\ page_ref \in [Frames -> Nat] /\ free \subseteq Frames
      /\ \A h \in Frames : /\ page_ref[h] >= OwnersIn(pte, h) + ObjectsIn(shms, h)
                           /\ h \in free <=> page_ref[h] = 0
  BY DEF PagesInv, TypeOK, CountsCover
<1>10. page_ref[f] \in Nat /\ page_ref[f] >= 2 /\ page_ref[g] = 0 /\ g # f
  <2>1. pte[s][va].frame = f
    BY DEF f
  <2>2. OwnersIn(pte, f) >= 1
    BY ONLY <1>5, va \in Va, <2>1, OwnerCounted
  <2>3. OwnersIn(pte, f) \in Nat /\ ObjectsIn(shms, f) \in Nat
    BY ONLY OwnersNat, ObjectsNat
  <2>4. page_ref[f] \in Nat /\ page_ref[f] >= OwnersIn(pte, f) + ObjectsIn(shms, f) /\ page_ref[f] # 1
    BY <1>1, <1>2, <1>9 DEF SoleOwner
  <2>5. page_ref[g] = 0
    BY <1>4, <1>5, <1>9
  <2> QED
    BY ONLY <2>2, <2>3, <2>4, <2>5
<1>11. /\ page_ref'[f] = page_ref[f] - 1 /\ page_ref'[g] = 1
       /\ \A h \in Frames : h # f /\ h # g => page_ref'[h] = page_ref[h]
       /\ page_ref' \in [Frames -> Nat]
  BY <1>2, <1>4, <1>5, <1>9, <1>10
<1>12. ASSUME NEW h \in Frames
       PROVE  /\ page_ref'[h] - page_ref[h] = Counted(pte', shms', h) - Counted(pte, shms, h)
              /\ page_ref'[h] - page_ref[h] \in Int
              /\ h \in free' <=> page_ref'[h] = 0
  <2>1. ObjectsIn(shms, h) \in Nat
    BY ONLY ObjectsNat
  <2>2. /\ OwnersIn(pte', h) = OwnersIn(pte, h)
               - (IF f = h THEN 1 ELSE 0) + (IF g = h THEN 1 ELSE 0)
        /\ OwnersIn(pte', h) \in Nat /\ OwnersIn(pte, h) \in Nat
    BY <1>7, <1>8 DEF f
  <2>3. page_ref'[h] - page_ref[h] = OwnersIn(pte', h) - OwnersIn(pte, h)
        /\ page_ref'[h] - page_ref[h] \in Int
    <3>1. page_ref[h] \in Nat
      BY <1>9
    <3> QED
      BY <1>10, <1>11, <2>2, <3>1
  <2>4. Counted(pte', shms', h) - Counted(pte, shms, h) = OwnersIn(pte', h) - OwnersIn(pte, h)
    BY <1>3, <2>1, <2>2 DEF Counted
  <2>5. h \in free' <=> page_ref'[h] = 0
    BY <1>4, <1>9, <1>10, <1>11
  <2> QED
    BY <2>3, <2>4, <2>5
<1>13. FrameStep /\ FrameExact
  <2>1. free' \subseteq Frames
    BY <1>4, <1>9
  <2>2. FrameExact
    BY <1>12 DEF FrameExact
  <2> QED
    BY <1>11, <1>12, <2>1, <2>2 DEF FrameStep
<1>14. AsidsKept
  BY ONLY PagesInv, <1>3, AsidsSame
<1>15. Typed'
  <2>1. mem' \in [Frames -> Values]
    BY <1>4, <1>5 DEF Typed
  <2> QED
    BY <1>3, <1>5, <1>6, <1>8, <2>1 DEF Typed, Pointers
<1> QED
  BY ONLY PagesInv, <1>13, <1>14, <1>15, PagesStep

\* Fresh pages for a space; what they replace stays counted.
LEMMA FreshPages ==
    ASSUME PagesInv, NEW s \in live, NEW base \in Nat \ {0}, NEW k \in Nat, base + k - 1 <= LastVa,
           MapFresh(s, base, k), live' = live, shms' = shms, tlb' = tlb, UNCHANGED asidVars,
           heap_end' \in [Spaces -> Nat], mmap_next' \in [Spaces -> Nat], Pointers'
    PROVE  /\ PagesInv'
           /\ NoFrames(pte[s], base..(base + k - 1)) => FrameExact
           /\ \A t \in Spaces, va \in Va :
                 t # s \/ va \notin base..(base + k - 1) => pte'[t][va] = pte[t][va]
<1> DEFINE D == base..(base + k - 1)
<1>1. PICK p \in Picks(D) :
        /\ pte' = [pte EXCEPT ![s] = [va \in Va |-> IF va \in DOMAIN p THEN Data(p[va])
                                                                     ELSE pte[s][va]]]
        /\ page_ref' = [f \in Frames |-> page_ref[f] + (IF f \in Range(p) THEN 1 ELSE 0)]
        /\ free' = free \ Range(p)
        /\ mem' = [f \in Frames |-> IF f \in Range(p) THEN Zero ELSE mem[f]]
  BY DEF MapFresh
<1>2. D \in SUBSET Va
  BY ConstAssumption DEF Va
<1> HIDE DEF D
<1>3. /\ DOMAIN p = D /\ \A va \in D : p[va] \in Frames
  BY ONLY PagesInv, <1>1, Picked
<1>4. Typed /\ s \in Spaces
  BY PagesTyped DEF Typed
<1>5. /\ \A t \in Spaces : t # s => pte'[t] = pte[t]
      /\ \A va \in Va : pte'[s][va] = IF va \in D THEN Data(p[va]) ELSE pte[s][va]
  BY <1>1, <1>3, <1>4 DEF Typed
<1>6. \A va \in D : /\ Data(p[va]) \in EntryType /\ Data(p[va]).frame = p[va]
  BY <1>3, EntriesTyped
<1>7. Within(pte, pte', s, D) /\ OnFrames(pte'[s], D, p)
  <2>1. SameElsewhere(pte, pte', s)
    BY <1>5 DEF SameElsewhere, SameFrames
  <2>2. SameOn(pte[s], pte'[s], Va \ D)
    BY <1>5 DEF SameOn
  <2>3. OnFrames(pte'[s], D, p)
    BY <1>2, <1>5, <1>6 DEF OnFrames
  <2> QED
    BY <1>2, <1>4, <2>1, <2>2, <2>3 DEF Within
<1>8. FrameStep /\ (NoFrames(pte[s], D) => FrameExact)
  <2>1. /\ page_ref' = [f \in Frames |-> page_ref[f] + (IF f \in Range(p) THEN 1 ELSE 0)]
        /\ free' = free \ Range(p) /\ shms' = shms
    BY <1>1
  <2> QED
    BY ONLY PagesInv, <1>2, <1>4, <1>7, <2>1, FreshFrames
<1>9. AsidsKept
  <2>1. live' = live /\ UNCHANGED asidVars
    OBVIOUS
  <2> QED
    BY ONLY PagesInv, <2>1, AsidsSame
<1>10. Typed'
  <2>1. /\ live' \subseteq Spaces /\ tlb' \subseteq TlbType
        /\ shms' \in [Objs -> Frames \cup {NoFrame}]
    BY <1>4 DEF Typed
  <2>2. mem' \in [Frames -> Values]
    BY <1>1, <1>4, ConstAssumption DEF Typed
  <2>3. pte' \in [Spaces -> [Va -> EntryType]]
    <3>1. \A va \in Va : (IF va \in DOMAIN p THEN Data(p[va]) ELSE pte[s][va]) \in EntryType
      BY <1>3, <1>4, <1>6 DEF Typed
    <3>2. [va \in Va |-> IF va \in DOMAIN p THEN Data(p[va]) ELSE pte[s][va]] \in [Va -> EntryType]
      BY ONLY <3>1
    <3> QED
      BY <1>1, <1>4, <3>2 DEF Typed
  <2>4. Entries'
    <3>1. \A t \in Spaces, va \in Va : /\ pte[t][va] = Invalid \/ pte[t][va].frame \in Frames
                                       /\ t \notin live => pte[t][va] = Invalid
      BY <1>4 DEF Typed, Entries
    <3>2. ASSUME NEW t \in Spaces, NEW va \in Va
          PROVE  /\ pte'[t][va] = Invalid \/ pte'[t][va].frame \in Frames
                 /\ t \notin live' => pte'[t][va] = Invalid
      <4>1. CASE t = s /\ va \in D
        BY <1>3, <1>5, <1>6, <4>1
      <4>2. CASE t # s \/ va \notin D
        BY <1>5, <3>1, <4>2
      <4> QED
        BY <4>1, <4>2
    <3> QED
      BY <3>2 DEF Entries
  <2> QED
    BY <2>1, <2>2, <2>3, <2>4 DEF Typed
<1>11. PagesInv'
  BY ONLY PagesInv, <1>8, <1>9, <1>10, PagesStep
<1>12. \A t \in Spaces, va \in Va : t # s \/ va \notin D => pte'[t][va] = pte[t][va]
  BY <1>5
<1> QED
  BY <1>8, <1>11, <1>12 DEF D

\* What memory has of n pages.
LEMMA ObtainedSome ==
    ASSUME PagesInv, NEW n \in Lens
    PROVE  n \in Nat \ {0} /\ Obtained(n) \in Nat /\ Obtained(n) <= n
<1>1. n \in Nat \ {0}
  BY ConstAssumption
<1>2. Cardinality(free) \in Nat
  <2>1. free \in SUBSET Frames
    BY DEF PagesInv, TypeOK
  <2> QED
    BY <2>1, Constants, FS_Subset, FS_CardinalityType
<1> QED
  BY <1>1, <1>2, MinPair DEF Obtained

\* brk.
LEMMA SbrkPages ==
    ASSUME PagesInv, NEW s \in Spaces, NEW n \in Lens, Sbrk(s, n)
    PROVE  /\ PagesInv'
           /\ NoFrames(pte[s], heap_end[s]..(heap_end[s] + Obtained(n) - 1)) => FrameExact
           /\ \A t \in Spaces, va \in Va :
                 t # s \/ va \notin heap_end[s]..(heap_end[s] + Obtained(n) - 1)
                    => pte'[t][va] = pte[t][va]
<1> DEFINE b == heap_end[s]
           k == Obtained(n)
<1>1. /\ s \in live /\ MapFresh(s, b, k) /\ b + n <= MmapBase /\ mmap_next' = mmap_next
      /\ heap_end' = [heap_end EXCEPT ![s] = IF k = n THEN @ + n ELSE @]
      /\ live' = live /\ shms' = shms /\ tlb' = tlb /\ UNCHANGED asidVars
  BY DEF Sbrk
<1>2. n \in Nat \ {0} /\ k \in Nat /\ k <= n
  BY ObtainedSome
<1>3. Typed /\ b \in Nat \ {0}
  BY PagesTyped DEF Typed, Pointers
<1> HIDE DEF b, k
<1>4. b + k - 1 <= LastVa
  <2>1. MmapBase \in Nat /\ MmapBase <= LastVa /\ LastVa \in Nat
    BY ConstAssumption DEF Va
  <2> QED
    BY <1>1, <1>2, <1>3, <2>1
<1>5. /\ heap_end' \in [Spaces -> Nat] /\ mmap_next' \in [Spaces -> Nat] /\ Pointers'
  <2>1. heap_end \in [Spaces -> Nat] /\ mmap_next \in [Spaces -> Nat] /\ Pointers
    BY <1>3 DEF Typed
  <2> QED
    BY ONLY <1>1, <1>2, <2>1, n \in Lens DEF Pointers
<1>6. /\ PagesInv'
      /\ NoFrames(pte[s], b..(b + k - 1)) => FrameExact
      /\ \A t \in Spaces, va \in Va : t # s \/ va \notin b..(b + k - 1) => pte'[t][va] = pte[t][va]
  BY ONLY PagesInv, <1>1, <1>2, <1>3, <1>4, <1>5, FreshPages
<1> QED
  BY ONLY <1>6 DEF b, k

\* mmap.
LEMMA MmapPages ==
    ASSUME PagesInv, NEW s \in Spaces, NEW n \in Lens, Mmap(s, n)
    PROVE  /\ PagesInv'
           /\ NoFrames(pte[s], mmap_next[s]..(mmap_next[s] + Obtained(n) - 1)) => FrameExact
           /\ \A t \in Spaces, va \in Va :
                 t # s \/ va \notin mmap_next[s]..(mmap_next[s] + Obtained(n) - 1)
                    => pte'[t][va] = pte[t][va]
<1> DEFINE b == mmap_next[s]
           k == Obtained(n)
<1>1. /\ s \in live /\ MapFresh(s, b, k) /\ b + n - 1 <= LastVa /\ heap_end' = heap_end
      /\ mmap_next' = [mmap_next EXCEPT ![s] = IF k = n THEN @ + n ELSE @]
      /\ live' = live /\ shms' = shms /\ tlb' = tlb /\ UNCHANGED asidVars
  BY DEF Mmap
<1>2. n \in Nat \ {0} /\ k \in Nat /\ k <= n
  BY ObtainedSome
<1>3. Typed /\ b \in Nat \ {0}
  BY PagesTyped DEF Typed, Pointers
<1> HIDE DEF b, k
<1>4. b + k - 1 <= LastVa
  <2>1. LastVa \in Nat
    BY ConstAssumption
  <2> QED
    BY <1>1, <1>2, <1>3, <2>1
<1>5. /\ heap_end' \in [Spaces -> Nat] /\ mmap_next' \in [Spaces -> Nat] /\ Pointers'
  <2>1. heap_end \in [Spaces -> Nat] /\ mmap_next \in [Spaces -> Nat] /\ Pointers
    BY <1>3 DEF Typed
  <2> QED
    BY ONLY <1>1, <1>2, <2>1, n \in Lens DEF Pointers
<1>6. /\ PagesInv'
      /\ NoFrames(pte[s], b..(b + k - 1)) => FrameExact
      /\ \A t \in Spaces, va \in Va : t # s \/ va \notin b..(b + k - 1) => pte'[t][va] = pte[t][va]
  BY ONLY PagesInv, <1>1, <1>2, <1>3, <1>4, <1>5, FreshPages
<1> QED
  BY ONLY <1>6 DEF b, k

\* shm_map: the object's frame gets another owner.
LEMMA ShmMapPages ==
    ASSUME PagesInv, NEW s \in Spaces, NEW o \in Objs, ShmMap(s, o)
    PROVE  /\ PagesInv' /\ s \in live /\ mmap_next[s] \in Va
           /\ pte[s][mmap_next[s]].frame = NoFrame => FrameExact
           /\ \A t \in Spaces, va \in Va : t # s \/ va # mmap_next[s] => pte'[t][va] = pte[t][va]
<1> DEFINE a == mmap_next[s]
           f == shms[o]
           d == SharedEntry(f)
<1>1. /\ s \in live /\ f # NoFrame /\ a <= LastVa
      /\ pte' = [pte EXCEPT ![s][a] = d]
      /\ page_ref' = [page_ref EXCEPT ![f] = @ + 1]
      /\ mmap_next' = [mmap_next EXCEPT ![s] = @ + 1]
      /\ live' = live /\ free' = free /\ mem' = mem /\ shms' = shms
      /\ heap_end' = heap_end /\ tlb' = tlb /\ UNCHANGED asidVars
  BY DEF ShmMap
<1>2. Typed /\ a \in Nat \ {0}
  BY PagesTyped DEF Typed, Pointers
<1>3. a \in Va /\ f \in Frames
  BY <1>1, <1>2, ConstAssumption DEF Va, Typed
<1>4. d \in EntryType /\ d.frame = f /\ d.frame \in Frames
  BY <1>3, EntriesTyped
<1> HIDE DEF d, a
<1>5. /\ pte' \in [Spaces -> [Va -> EntryType]] /\ Entries'
      /\ pte'[s][a] = d
      /\ \A t \in Spaces, u \in Va : t # s \/ u # a => pte'[t][u] = pte[t][u]
      /\ \A h : /\ OwnersIn(pte', h) = OwnersIn(pte, h)
                      - (IF pte[s][a].frame = h THEN 1 ELSE 0) + (IF d.frame = h THEN 1 ELSE 0)
                /\ OwnersIn(pte', h) \in Nat /\ OwnersIn(pte, h) \in Nat
  <2>1. Enters(s, a, d)
    BY ONLY <1>1, <1>3, <1>4 DEF Enters
  <2>2. Entered(s, a, d)
    BY ONLY PagesInv, <2>1, EntryEntered
  <2> QED
    BY ONLY PagesInv, <2>1, <2>2, OneEntry DEF Entered
<1>6. /\ page_ref \in [Frames -> Nat] /\ free \subseteq Frames
      /\ \A h \in Frames : /\ page_ref[h] >= OwnersIn(pte, h) + ObjectsIn(shms, h)
                           /\ h \in free <=> page_ref[h] = 0
  BY DEF PagesInv, TypeOK, CountsCover
<1>7. page_ref[f] \in Nat /\ page_ref[f] >= 1
  <2>1. ObjectsIn(shms, f) >= 1
    BY ObjectCounted
  <2>2. OwnersIn(pte, f) \in Nat /\ ObjectsIn(shms, f) \in Nat
    BY ONLY OwnersNat, ObjectsNat
  <2> HIDE DEF f
  <2> QED
    BY <1>3, <1>6, <2>1, <2>2
<1> HIDE DEF f
<1>8. /\ page_ref'[f] = page_ref[f] + 1 /\ page_ref' \in [Frames -> Nat]
      /\ \A h \in Frames : h # f => page_ref'[h] = page_ref[h]
  BY <1>1, <1>3, <1>6, <1>7
<1>9. ASSUME NEW h \in Frames
      PROVE  /\ page_ref'[h] - page_ref[h] = (IF f = h THEN 1 ELSE 0)
             /\ Counted(pte', shms', h) - Counted(pte, shms, h)
                    = (IF f = h THEN 1 ELSE 0) - (IF pte[s][a].frame = h THEN 1 ELSE 0)
             /\ h \in free' <=> page_ref'[h] = 0
  <2>1. ObjectsIn(shms, h) \in Nat
    BY ONLY ObjectsNat
  <2>2. /\ OwnersIn(pte', h) = OwnersIn(pte, h)
               - (IF pte[s][a].frame = h THEN 1 ELSE 0) + (IF f = h THEN 1 ELSE 0)
        /\ OwnersIn(pte', h) \in Nat /\ OwnersIn(pte, h) \in Nat
    BY ONLY <1>4, <1>5
  <2>3. Counted(pte', shms', h) - Counted(pte, shms, h)
           = (IF f = h THEN 1 ELSE 0) - (IF pte[s][a].frame = h THEN 1 ELSE 0)
    BY <1>1, <2>1, <2>2 DEF Counted
  <2>4. page_ref[h] \in Nat
    BY <1>6
  <2>5. page_ref'[h] - page_ref[h] = IF f = h THEN 1 ELSE 0
    BY <1>7, <1>8, <2>4
  <2>6. h \in free' <=> page_ref'[h] = 0
    BY <1>1, <1>6, <1>7, <1>8
  <2> QED
    BY <2>3, <2>5, <2>6
<1>10. FrameStep
  <2>1. free' \subseteq Frames
    BY <1>1, <1>6
  <2>2. \A h \in Frames : page_ref'[h] - page_ref[h] >= Counted(pte', shms', h) - Counted(pte, shms, h)
    BY <1>9
  <2> QED
    BY <1>8, <1>9, <2>1, <2>2 DEF FrameStep
<1>11. ASSUME pte[s][a].frame = NoFrame PROVE FrameExact
  BY <1>9, <1>11, Constants DEF FrameExact
<1>12. AsidsKept
  BY ONLY PagesInv, <1>1, AsidsSame
<1>13. Typed'
  <2>1. mmap_next' \in [Spaces -> Nat] /\ Pointers'
    BY <1>1, <1>2 DEF Typed, Pointers, a
  <2> QED
    BY <1>1, <1>2, <1>5, <2>1 DEF Typed
<1>14. PagesInv'
  BY ONLY PagesInv, <1>10, <1>12, <1>13, PagesStep
<1> QED
  BY <1>1, <1>3, <1>5, <1>11, <1>14 DEF a

\* shm_create: a free frame gets its first owner.
LEMMA ShmCreatePages ==
    ASSUME PagesInv, NEW o \in Objs, ShmCreate(o)
    PROVE  /\ PagesInv' /\ FrameExact
           /\ live' = live /\ pte' = pte /\ asid' = asid /\ tlb' = tlb
<1>1. /\ shms[o] = NoFrame /\ live' = live /\ pte' = pte /\ heap_end' = heap_end
      /\ mmap_next' = mmap_next /\ tlb' = tlb /\ UNCHANGED asidVars
  BY DEF ShmCreate
<1>2. PICK g \in free :
         /\ shms' = [shms EXCEPT ![o] = g]
         /\ page_ref' = [page_ref EXCEPT ![g] = @ + 1]
         /\ free' = free \ {g}
         /\ mem' = [mem EXCEPT ![g] = Zero]
  BY DEF ShmCreate
<1>3. /\ page_ref \in [Frames -> Nat] /\ free \subseteq Frames /\ g \in Frames /\ Typed
      /\ \A h \in Frames : h \in free <=> page_ref[h] = 0
  BY PagesTyped DEF PagesInv, TypeOK, CountsCover
<1>4. shms \in [Objs -> Frames \cup {NoFrame}]
  BY <1>3 DEF Typed
<1>5. ASSUME NEW h \in Frames
      PROVE  /\ page_ref'[h] - page_ref[h] = Counted(pte', shms', h) - Counted(pte, shms, h)
             /\ page_ref'[h] \in Nat /\ page_ref[h] \in Nat
             /\ h \in free' <=> page_ref'[h] = 0
  <2>1. ObjectsIn(shms, h) \in Nat /\ OwnersIn(pte, h) \in Nat
    BY ONLY ObjectsNat, OwnersNat
  <2>2. ObjectsIn(shms', h) = ObjectsIn(shms, h) + (IF h = g THEN 1 ELSE 0)
    <3> DEFINE S == shms
    <3>1. S \in [Objs -> Frames \cup {NoFrame}] /\ S[o] = NoFrame
      BY <1>1, <1>4
    <3>2. ObjectsIn(shms', h) = ObjectsIn([S EXCEPT ![o] = g], h)
      BY <1>2
    <3> HIDE DEF S
    <3>3. ObjectsIn([S EXCEPT ![o] = g], h) = ObjectsIn(S, h) + (IF h = g THEN 1 ELSE 0)
      BY ONLY <1>3, <3>1, o \in Objs, h \in Frames, NewOwner
    <3> QED
      BY ONLY <3>2, <3>3 DEF S
  <2>3. OwnersIn(pte', h) = OwnersIn(pte, h)
    BY <1>1
  <2>4. page_ref[h] \in Nat /\ page_ref'[h] = page_ref[h] + (IF h = g THEN 1 ELSE 0)
    BY <1>2, <1>3
  <2>5. page_ref'[h] - page_ref[h] = Counted(pte', shms', h) - Counted(pte, shms, h)
    BY ONLY <2>1, <2>2, <2>3, <2>4 DEF Counted
  <2>6. h \in free' <=> page_ref'[h] = 0
    BY <1>2, <1>3, <2>4
  <2> QED
    BY <2>4, <2>5, <2>6
<1>6. FrameStep /\ FrameExact
  <2>1. page_ref' \in [Frames -> Nat] /\ free' \subseteq Frames
    BY <1>2, <1>3
  <2>2. FrameExact
    BY <1>5 DEF FrameExact
  <2>3. \A h \in Frames : page_ref'[h] - page_ref[h] \in Int
    BY <1>5
  <2> QED
    BY <1>5, <2>1, <2>2, <2>3 DEF FrameStep
<1>7. AsidsKept
  BY ONLY PagesInv, <1>1, AsidsSame
<1>8. Typed'
  <2>1. mem' \in [Frames -> Values] /\ shms' \in [Objs -> Frames \cup {NoFrame}]
    BY <1>2, <1>3, ConstAssumption DEF Typed
  <2> QED
    BY <1>1, <1>3, <2>1 DEF Typed, Entries, Pointers
<1>9. PagesInv'
  BY ONLY PagesInv, <1>6, <1>7, <1>8, PagesStep
<1> QED
  BY <1>1, <1>6, <1>9 DEF asidVars

----------------------------------------------------------------------------
(* The invariant.                                                          *)

LEMMA PagesInit == Init => PagesInv
<1> SUFFICES ASSUME Init PROVE PagesInv
  OBVIOUS
<1>1. \A f \in Frames : OwnersIn(pte, f) = 0 /\ ObjectsIn(shms, f) = 0
  <2> SUFFICES ASSUME NEW f \in Frames PROVE OwnersIn(pte, f) = 0 /\ ObjectsIn(shms, f) = 0
    OBVIOUS
  <2>1. {x \in Spaces \X Va : pte[x[1]][x[2]].frame = f} = {} /\ {o \in Objs : shms[o] = f} = {}
    BY Constants, EntriesTyped DEF Init
  <2> QED
    BY <2>1, FS_EmptySet DEF OwnersIn, ObjectsIn
<1>2. CountsCover
  BY <1>1 DEF Init, CountsCover
<1>3. AsidCount /\ AsidsApart
  <2>1. live = {} /\ asid_free_list = <<>> /\ next_asid = 1
    BY DEF Init
  <2>2. Len(asid_free_list) = 0 /\ Cardinality(live) = 0 /\ 1..Len(asid_free_list) = {}
    BY <2>1, EmptySeq, FS_EmptySet
  <2> QED
    BY ONLY <2>1, <2>2, EnoughAsids DEF AsidCount, AsidsApart
<1>4. Typed
  BY ConstAssumption, Constants, EntriesTyped DEF Init, Typed, Entries, Pointers
<1>5. TypeOK
  <2>1. /\ asid \in [Spaces -> 0..ASID_MAX] /\ next_asid \in 1..(ASID_MAX + 1)
        /\ asid_free_list \in Seq(1..ASID_MAX)
    BY EnoughAsids DEF Init
  <2>2. page_ref \in [Frames -> Nat] /\ free \subseteq Frames
    BY DEF Init
  <2> QED
    BY <1>4, <2>1, <2>2 DEF Typed, TypeOK, EntryType, TlbType
<1> QED
  BY <1>2, <1>3, <1>4, <1>5 DEF PagesInv, Typed

\* Every step keeps it.
LEMMA PagesNext == PagesInv /\ [Next]_vars => PagesInv'
<1> SUFFICES ASSUME PagesInv, [Next]_vars PROVE PagesInv'
  OBVIOUS
<1>1. ASSUME NEW s \in Spaces, Create(s) PROVE PagesInv'
  BY <1>1, CreatePages
<1>2. ASSUME NEW s \in Spaces, Destroy(s) PROVE PagesInv'
  BY <1>2, DestroyPages
<1>3. ASSUME NEW s \in Spaces, NEW c \in Spaces, Clone(s, c) PROVE PagesInv'
  BY <1>3, ClonePages
<1>4. ASSUME NEW s \in Spaces, NEW va \in Va, Load(s, va) PROVE PagesInv'
  BY <1>4, AccessPages, ConstAssumption
<1>5. ASSUME NEW s \in Spaces, NEW va \in Va, NEW v \in Values, Store(s, va, v) PROVE PagesInv'
  BY <1>5, AccessPages
<1>6. ASSUME NEW s \in Spaces, NEW va \in Va, NEW v \in Values, CowReuse(s, va, v) PROVE PagesInv'
  BY <1>6, ReusePages
<1>7. ASSUME NEW s \in Spaces, NEW va \in Va, NEW v \in Values, CowCopy(s, va, v) PROVE PagesInv'
  BY <1>7, CopyPages
<1>8. ASSUME NEW s \in Spaces, NEW va \in Va, NEW n \in Lens, Munmap(s, va, n) PROVE PagesInv'
  BY <1>8, MunmapPages
<1>9. ASSUME NEW s \in Spaces, NEW n \in Lens, Sbrk(s, n) PROVE PagesInv'
  BY <1>9, SbrkPages
<1>10. ASSUME NEW s \in Spaces, NEW n \in Lens, Mmap(s, n) PROVE PagesInv'
  BY <1>10, MmapPages
<1>11. ASSUME NEW s \in Spaces, NEW o \in Objs, ShmMap(s, o) PROVE PagesInv'
  BY <1>11, ShmMapPages
<1>12. ASSUME NEW o \in Objs, ShmCreate(o) PROVE PagesInv'
  BY <1>12, ShmCreatePages
<1>13. ASSUME UNCHANGED vars PROVE PagesInv'
  BY <1>13 DEF vars, frameVars, asidVars, PagesInv, TypeOK, Entries, Pointers, AsidCount, AsidsApart,
         CountsCover
<1> QED
  BY <1>1, <1>2, <1>3, <1>4, <1>5, <1>6, <1>7, <1>8, <1>9, <1>10, <1>11, <1>12, <1>13 DEF Next

\* The invariant holds in all behaviours, whatever is unmapped and mapped over.
LEMMA PagesAlways == Spec => []PagesInv
BY PagesInit, PagesNext, PTL DEF Spec

\* Every variable keeps its type.
THEOREM TypeCorrect == Spec => []TypeOK
<1>1. PagesInv => TypeOK
  BY DEF PagesInv
<1> QED
  BY <1>1, PagesAlways, PTL

\* A frame that some space maps or some object holds is not the PMM's to give
\* away: no fork, fault, munmap, exit or failed allocation frees a page that is
\* still in use (vm.c:338-347, pmm.c).
UsedNotFree ==
    /\ \A s \in Spaces, va \in Va : Mapped(s, va) => pte[s][va].frame \in Frames \ free
    /\ \A o \in Objs : shms[o] # NoFrame => shms[o] \in Frames \ free

LEMMA PagesUsed == PagesInv => UsedNotFree
<1>1. ASSUME PagesInv PROVE UsedNotFree
  <2>1. Typed
    BY <1>1, PagesTyped
  <2>2. \A f \in Frames : /\ page_ref[f] \in Nat
                          /\ page_ref[f] >= OwnersIn(pte, f) + ObjectsIn(shms, f)
                          /\ f \in free <=> page_ref[f] = 0
    BY <1>1 DEF PagesInv, TypeOK, CountsCover
  <2>3. ASSUME NEW f \in Frames, OwnersIn(pte, f) >= 1 \/ ObjectsIn(shms, f) >= 1
        PROVE  f \notin free
    <3>1. OwnersIn(pte, f) \in Nat /\ ObjectsIn(shms, f) \in Nat
      BY ONLY OwnersNat, ObjectsNat
    <3> QED
      BY <2>2, <2>3, <3>1
  <2>4. ASSUME NEW s \in Spaces, NEW va \in Va, Mapped(s, va)
        PROVE  pte[s][va].frame \in Frames \ free
    <3> DEFINE f == pte[s][va].frame
    <3>1. f \in Frames
      BY <2>1, <2>4 DEF Typed, Entries, Mapped
    <3>2. OwnersIn(pte, f) >= 1
      <4>1. pte[s][va].frame = f
        OBVIOUS
      <4> HIDE DEF f
      <4> QED
        BY ONLY <4>1, s \in Spaces, va \in Va, OwnerCounted
    <3> HIDE DEF f
    <3>3. f \notin free
      BY <2>3, <3>1, <3>2
    <3> QED
      BY <3>1, <3>3 DEF f
  <2>5. ASSUME NEW o \in Objs, shms[o] # NoFrame PROVE shms[o] \in Frames \ free
    <3> DEFINE f == shms[o]
    <3>1. f \in Frames
      BY <2>1, <2>5 DEF Typed
    <3>2. ObjectsIn(shms, f) >= 1
      BY ObjectCounted
    <3> HIDE DEF f
    <3>3. f \notin free
      BY <2>3, <3>1, <3>2
    <3> QED
      BY <3>1, <3>3 DEF f
  <2> QED
    BY <2>4, <2>5 DEF UsedNotFree
<1> QED
  BY <1>1

\* No frame that a page table or a shared object still names is on the free
\* list, after any fork, fault, unmap or exit (vm.c, pmm.c).
THEOREM UsedNotFreeAlways == Spec => []UsedNotFree
BY PagesUsed, PagesAlways, PTL

\* Two live spaces never share an ASID, and none has one that is up for reuse.
THEOREM AsidUniqueAlways == Spec => []AsidUnique
<1>1. ASSUME PagesInv PROVE AsidUnique
  <2>1. AsidsApart /\ asid_free_list \in Seq(1..ASID_MAX) /\ next_asid \in Nat
    BY <1>1, EnoughAsids DEF PagesInv, TypeOK
  <2>2. ASSUME NEW s \in live PROVE asid[s] \notin Range(asid_free_list)
    <3>1. DOMAIN asid_free_list = 1..Len(asid_free_list)
      BY <2>1, LenProperties
    <3> QED
      BY <2>1, <3>1 DEF AsidsApart, Range
  <2>3. ASSUME NEW s \in live PROVE asid[s] < next_asid
    BY <2>1 DEF AsidsApart
  <2> QED
    BY <2>1, <2>2, <2>3 DEF AsidsApart, AsidUnique
<1> QED
  BY <1>1, PagesAlways, PTL

----------------------------------------------------------------------------
(* Exact counts and a coherent TLB, where no mapping call lands on a page  *)
(* that is mapped.                                                         *)

\* map_page and as_map_phys overwrite what is there without giving it up; the
\* pages that brk, mmap and shm_map fill in this step are empty.
MapsFree ==
    \A s \in live :
        /\ \A n \in Lens :
              /\ Sbrk(s, n) => \A va \in heap_end[s]..(heap_end[s] + Obtained(n) - 1) : ~Mapped(s, va)
              /\ Mmap(s, n) => \A va \in mmap_next[s]..(mmap_next[s] + Obtained(n) - 1) : ~Mapped(s, va)
        /\ \A o \in Objs : ShmMap(s, o) => ~Mapped(s, mmap_next[s])

\* Every step but those of the mapping calls counts exactly, and those do too
\* where they fill empty pages.
LEMMA ExactNext ==
    ASSUME PagesInv, Next \/ UNCHANGED vars, MapsFree
    PROVE  FrameExact
<1>1. ASSUME NEW s \in Spaces, Create(s) PROVE FrameExact
  BY <1>1, CreatePages
<1>2. ASSUME NEW s \in Spaces, Destroy(s) PROVE FrameExact
  BY <1>2, DestroyPages
<1>3. ASSUME NEW s \in Spaces, NEW c \in Spaces, Clone(s, c) PROVE FrameExact
  BY <1>3, ClonePages
<1>4. ASSUME NEW s \in Spaces, NEW va \in Va, Load(s, va) PROVE FrameExact
  BY <1>4, AccessPages, ConstAssumption
<1>5. ASSUME NEW s \in Spaces, NEW va \in Va, NEW v \in Values, Store(s, va, v) PROVE FrameExact
  BY <1>5, AccessPages
<1>6. ASSUME NEW s \in Spaces, NEW va \in Va, NEW v \in Values, CowReuse(s, va, v) PROVE FrameExact
  BY <1>6, ReusePages
<1>7. ASSUME NEW s \in Spaces, NEW va \in Va, NEW v \in Values, CowCopy(s, va, v) PROVE FrameExact
  BY <1>7, CopyPages
<1>8. ASSUME NEW s \in Spaces, NEW va \in Va, NEW n \in Lens, Munmap(s, va, n) PROVE FrameExact
  BY <1>8, MunmapPages
<1>9. ASSUME NEW s \in Spaces, NEW n \in Lens, Sbrk(s, n) PROVE FrameExact
  <2>1. s \in live
    BY <1>9 DEF Sbrk
  <2>2. NoFrames(pte[s], heap_end[s]..(heap_end[s] + Obtained(n) - 1))
    BY <1>9, <2>1, EntriesTyped DEF MapsFree, NoFrames, Mapped
  <2> QED
    BY <1>9, <2>2, SbrkPages
<1>10. ASSUME NEW s \in Spaces, NEW n \in Lens, Mmap(s, n) PROVE FrameExact
  <2>1. s \in live
    BY <1>10 DEF Mmap
  <2>2. NoFrames(pte[s], mmap_next[s]..(mmap_next[s] + Obtained(n) - 1))
    BY <1>10, <2>1, EntriesTyped DEF MapsFree, NoFrames, Mapped
  <2> QED
    BY <1>10, <2>2, MmapPages
<1>11. ASSUME NEW s \in Spaces, NEW o \in Objs, ShmMap(s, o) PROVE FrameExact
  <2>1. s \in live
    BY <1>11 DEF ShmMap
  <2>2. pte[s][mmap_next[s]].frame = NoFrame
    BY <1>11, <2>1, EntriesTyped DEF MapsFree, Mapped
  <2> QED
    BY <1>11, <2>2, ShmMapPages
<1>12. ASSUME NEW o \in Objs, ShmCreate(o) PROVE FrameExact
  BY <1>12, ShmCreatePages
<1>13. ASSUME UNCHANGED vars PROVE FrameExact
  <2>1. page_ref' = page_ref /\ free' = free /\ shms' = shms /\ \A t \in Spaces : SameFrames(pte, pte', t)
    BY <1>13 DEF vars, frameVars, SameFrames
  <2> QED
    BY <2>1, FramesSame
<1> QED
  BY <1>1, <1>2, <1>3, <1>4, <1>5, <1>6, <1>7, <1>8, <1>9, <1>10, <1>11, <1>12, <1>13 DEF Next

\* A frame's count is the number of entries that map it plus one for a
\* shared-memory object, and the PMM has exactly the frames nobody counts.
THEOREM RefsAreOwnersAlways == Spec /\ [][MapsFree]_vars => []RefsAreOwners
<1> DEFINE Exact == \A f \in Frames : page_ref[f] = OwnersIn(pte, f) + ObjectsIn(shms, f)
<1>1. ASSUME PagesInv, Exact PROVE RefsAreOwners
  BY <1>1 DEF RefsAreOwners, OwnersIn, ObjectsIn, PagesInv, CountsCover
<1>2. Init => Exact
  <2> SUFFICES ASSUME Init, NEW f \in Frames
               PROVE  page_ref[f] = OwnersIn(pte, f) + ObjectsIn(shms, f)
    OBVIOUS
  <2>1. OwnersIn(pte, f) \in Nat /\ ObjectsIn(shms, f) \in Nat
    BY ONLY OwnersNat, ObjectsNat
  <2>2. page_ref[f] = 0 /\ page_ref[f] >= OwnersIn(pte, f) + ObjectsIn(shms, f)
    BY PagesInit DEF Init, PagesInv, CountsCover
  <2> QED
    BY ONLY <2>1, <2>2
<1>3. ASSUME PagesInv, Exact, [Next]_vars, [MapsFree]_vars PROVE Exact'
  <2>1. CASE MapsFree
    <3>1. FrameExact /\ PagesInv'
      BY <1>3, <2>1, ExactNext, PagesNext
    <3>2. ASSUME NEW f \in Frames
          PROVE  page_ref'[f] = OwnersIn(pte', f) + ObjectsIn(shms', f)
      <4>1. /\ OwnersIn(pte, f) \in Nat /\ ObjectsIn(shms, f) \in Nat
            /\ OwnersIn(pte', f) \in Nat /\ ObjectsIn(shms', f) \in Nat
        BY ONLY OwnersNat, ObjectsNat
      <4>2. page_ref'[f] \in Nat /\ page_ref[f] \in Nat
        BY <1>3, <3>1 DEF PagesInv, TypeOK
      <4>3. /\ page_ref[f] = OwnersIn(pte, f) + ObjectsIn(shms, f)
            /\ page_ref'[f] - page_ref[f] = Counted(pte', shms', f) - Counted(pte, shms, f)
        BY <1>3, <3>1 DEF FrameExact
      <4> QED
        BY ONLY <4>1, <4>2, <4>3 DEF Counted
    <3> QED
      BY <3>2
  <2>2. CASE UNCHANGED vars
    BY <1>3, <2>2 DEF vars, frameVars
  <2> QED
    BY <1>3, <2>1, <2>2
<1> HIDE DEF Exact
<1> QED
  BY <1>1, <1>2, <1>3, PagesAlways, PTL DEF Spec

\* The spaces of T go on with the ASID and the table they have.
RowsKept(T) == \A t \in T : t \in live' /\ asid'[t] = asid[t] /\ pte'[t] = pte[t]

\* A space that flushes its ASID may change its table.
LEMMA FlushedTlb ==
    ASSUME TlbCoherent, NEW s, RowsKept(live \ {s}), tlb' \subseteq Flushed(asid[s])
    PROVE  TlbCoherent'
<1> SUFFICES ASSUME NEW e \in tlb'
             PROVE  \E t \in live' : /\ asid'[t] = e.asid /\ (Mapped(t, e.va))'
                                     /\ e = Walk(t, e.va)'
  BY DEF TlbCoherent
<1>1. e \in tlb /\ e.asid # asid[s]
  BY DEF Flushed
<1>2. PICK t \in live : asid[t] = e.asid /\ Mapped(t, e.va) /\ e = Walk(t, e.va)
  BY <1>1 DEF TlbCoherent
<1>3. t \in live' /\ asid'[t] = asid[t] /\ pte'[t] = pte[t]
  BY <1>1, <1>2 DEF RowsKept
<1> QED
  BY <1>2, <1>3 DEF Mapped, Walk

LEMMA UnflushedTlb ==
    ASSUME TlbCoherent, RowsKept(live), tlb' = tlb
    PROVE  TlbCoherent'
<1> SUFFICES ASSUME NEW e \in tlb
             PROVE  \E t \in live' : /\ asid'[t] = e.asid /\ (Mapped(t, e.va))'
                                     /\ e = Walk(t, e.va)'
  BY DEF TlbCoherent
<1>1. PICK t \in live : asid[t] = e.asid /\ Mapped(t, e.va) /\ e = Walk(t, e.va)
  BY DEF TlbCoherent
<1>2. t \in live' /\ asid'[t] = asid[t] /\ pte'[t] = pte[t]
  BY <1>1 DEF RowsKept
<1> QED
  BY <1>1, <1>2 DEF Mapped, Walk

\* New pages where there were none need no flush.
LEMMA FilledTlb ==
    ASSUME PagesInv, TlbCoherent, NEW s \in live, live' = live, asid' = asid, tlb' = tlb,
           \A t \in live, va \in Va : t # s \/ Mapped(s, va) => pte'[t][va] = pte[t][va]
    PROVE  TlbCoherent'
<1> SUFFICES ASSUME NEW e \in tlb
             PROVE  \E t \in live' : /\ asid'[t] = e.asid /\ (Mapped(t, e.va))'
                                     /\ e = Walk(t, e.va)'
  BY DEF TlbCoherent
<1>1. PICK t \in live : asid[t] = e.asid /\ Mapped(t, e.va) /\ e = Walk(t, e.va)
  BY DEF TlbCoherent
<1>2. e.va \in Va
  BY DEF PagesInv, TypeOK
<1>3. pte'[t][e.va] = pte[t][e.va]
  BY <1>1, <1>2
<1> QED
  BY <1>1, <1>3 DEF Mapped, Walk

\* A load or a store may add the translation of the table.
LEMMA AccessTlb ==
    ASSUME PagesInv, TlbCoherent, NEW s \in Spaces, NEW va \in Va, NEW v \in Values,
           Load(s, va) \/ Store(s, va, v)
    PROVE  TlbCoherent'
<1>1. s \in live /\ live' = live /\ pte' = pte /\ asid' = asid
  BY DEF Load, Store, asidVars
<1>2. PICK k \in Translation(s, va) : tlb' \in Keep(tlb, k)
  BY DEF Load, Store
<1>3. k \in tlb \/ (Mapped(s, va) /\ k = Walk(s, va))
  BY ONLY PagesInv, <1>1, <1>2, va \in Va, Translated
<1>4. tlb' \subseteq tlb \cup {k}
  BY ONLY <1>2, Keeping
<1>5. ASSUME NEW e \in tlb'
      PROVE  \E t \in live : asid[t] = e.asid /\ Mapped(t, e.va) /\ e = Walk(t, e.va)
  <2>1. CASE e \in tlb
    BY <2>1 DEF TlbCoherent
  <2>2. CASE Mapped(s, va) /\ e = Walk(s, va)
    BY <1>1, <2>2 DEF Walk
  <2> QED
    BY <1>3, <1>4, <2>1, <2>2
<1>6. ASSUME NEW e \in tlb'
      PROVE  \E t \in live' : /\ asid'[t] = e.asid /\ (Mapped(t, e.va))'
                              /\ e = Walk(t, e.va)'
  BY <1>1, <1>5 DEF Mapped, Walk
<1> QED
  BY <1>6 DEF TlbCoherent

\* A fault flushes, and the retried store brings in the new entry.
LEMMA FaultTlb ==
    ASSUME PagesInv, TlbCoherent, NEW s \in Spaces, NEW va \in Va, NEW v \in Values,
           CowReuse(s, va, v) \/ CowCopy(s, va, v)
    PROVE  TlbCoherent'
<1>1. Faults(s, va)
  BY DEF CowReuse, CowCopy
<1>2. s \in live /\ pte[s][va].frame \in Frames
  BY ONLY PagesInv, <1>1, s \in Spaces, va \in Va, Faulted
<1>3. Typed /\ live' = live /\ asid' = asid
  BY PagesTyped DEF CowReuse, CowCopy, asidVars
<1>4. PICK g \in Frames :
        /\ pte' = [pte EXCEPT ![s][va] = Data(g)]
        /\ tlb' \in Keep(Flushed(asid[s]), [asid |-> asid[s], va |-> va, frame |-> g, w |-> TRUE])
  BY <1>2 DEF CowReuse, CowCopy, PagesInv, TypeOK
<1> DEFINE k == [asid |-> asid[s], va |-> va, frame |-> g, w |-> TRUE]
<1>5. tlb' \subseteq Flushed(asid[s]) \cup {k}
  BY ONLY <1>4, Keeping
<1>6. pte'[s][va] = Data(g) /\ \A t \in Spaces : t # s => pte'[t] = pte[t]
  BY <1>3, <1>4 DEF Typed
<1>7. Data(g).frame = g /\ Data(g).w = TRUE /\ Data(g) # Invalid
  BY Constants DEF Data, Entry, Invalid
<1>8. ASSUME NEW e \in tlb'
      PROVE  \E t \in live' : /\ asid'[t] = e.asid /\ (Mapped(t, e.va))'
                              /\ e = Walk(t, e.va)'
  <2>1. CASE e = k
    BY <1>2, <1>3, <1>6, <1>7, <2>1 DEF Mapped, Walk
  <2>2. CASE e \in Flushed(asid[s])
    <3>1. e \in tlb /\ e.asid # asid[s]
      BY <2>2 DEF Flushed
    <3>2. PICK t \in live : asid[t] = e.asid /\ Mapped(t, e.va) /\ e = Walk(t, e.va)
      BY <3>1 DEF TlbCoherent
    <3>3. pte'[t] = pte[t]
      BY <1>3, <1>6, <3>1, <3>2 DEF Typed
    <3> QED
      BY <1>3, <3>2, <3>3 DEF Mapped, Walk
  <2> QED
    BY <1>5, <2>1, <2>2
<1> QED
  BY <1>8 DEF TlbCoherent

LEMMA TlbNext ==
    ASSUME PagesInv, TlbCoherent, Next \/ UNCHANGED vars, MapsFree
    PROVE  TlbCoherent'
<1>0. Typed
  BY PagesTyped
<1>1. ASSUME NEW s \in Spaces, Create(s) PROVE TlbCoherent'
  <2>1. RowsKept(live)
    BY <1>1, CreatePages DEF RowsKept
  <2>2. tlb' = tlb
    BY <1>1 DEF Create
  <2> QED
    BY ONLY TlbCoherent, <2>1, <2>2, UnflushedTlb
<1>2. ASSUME NEW s \in Spaces, Destroy(s) PROVE TlbCoherent'
  <2>1. RowsKept(live \ {s})
    BY <1>2, DestroyPages DEF RowsKept
  <2>2. tlb' \subseteq Flushed(asid[s])
    BY <1>2 DEF Destroy
  <2> QED
    BY ONLY TlbCoherent, <2>1, <2>2, FlushedTlb
<1>3. ASSUME NEW s \in Spaces, NEW c \in Spaces, Clone(s, c) PROVE TlbCoherent'
  <2>1. RowsKept(live \ {s})
    BY <1>3, ClonePages DEF RowsKept
  <2>2. tlb' \subseteq Flushed(asid[s])
    BY <1>3 DEF Clone
  <2> QED
    BY ONLY TlbCoherent, <2>1, <2>2, FlushedTlb
<1>4. ASSUME NEW s \in Spaces, NEW va \in Va, Load(s, va) PROVE TlbCoherent'
  BY <1>4, AccessTlb, ConstAssumption
<1>5. ASSUME NEW s \in Spaces, NEW va \in Va, NEW v \in Values, Store(s, va, v) PROVE TlbCoherent'
  BY <1>5, AccessTlb
<1>6. ASSUME NEW s \in Spaces, NEW va \in Va, NEW v \in Values, CowReuse(s, va, v) PROVE TlbCoherent'
  BY <1>6, FaultTlb
<1>7. ASSUME NEW s \in Spaces, NEW va \in Va, NEW v \in Values, CowCopy(s, va, v) PROVE TlbCoherent'
  BY <1>7, FaultTlb
<1>8. ASSUME NEW s \in Spaces, NEW va \in Va, NEW n \in Lens, Munmap(s, va, n) PROVE TlbCoherent'
  <2>1. RowsKept(live \ {s})
    BY <1>8, MunmapPages DEF RowsKept
  <2>2. tlb' \subseteq Flushed(asid[s])
    BY <1>8 DEF Munmap
  <2> QED
    BY ONLY TlbCoherent, <2>1, <2>2, FlushedTlb
<1>9. ASSUME NEW s \in Spaces, NEW n \in Lens, Sbrk(s, n) PROVE TlbCoherent'
  <2>1. s \in live /\ live' = live /\ asid' = asid /\ tlb' = tlb
    BY <1>9 DEF Sbrk, asidVars
  <2>2. \A va \in heap_end[s]..(heap_end[s] + Obtained(n) - 1) : ~Mapped(s, va)
    BY <1>9, <2>1 DEF MapsFree
  <2>3. \A t \in live, va \in Va : t # s \/ Mapped(s, va) => pte'[t][va] = pte[t][va]
    BY <1>0, <1>9, <2>2, SbrkPages DEF Typed
  <2> QED
    BY <2>1, <2>3, FilledTlb
<1>10. ASSUME NEW s \in Spaces, NEW n \in Lens, Mmap(s, n) PROVE TlbCoherent'
  <2>1. s \in live /\ live' = live /\ asid' = asid /\ tlb' = tlb
    BY <1>10 DEF Mmap, asidVars
  <2>2. \A va \in mmap_next[s]..(mmap_next[s] + Obtained(n) - 1) : ~Mapped(s, va)
    BY <1>10, <2>1 DEF MapsFree
  <2>3. \A t \in live, va \in Va : t # s \/ Mapped(s, va) => pte'[t][va] = pte[t][va]
    BY <1>0, <1>10, <2>2, MmapPages DEF Typed
  <2> QED
    BY <2>1, <2>3, FilledTlb
<1>11. ASSUME NEW s \in Spaces, NEW o \in Objs, ShmMap(s, o) PROVE TlbCoherent'
  <2>1. s \in live /\ live' = live /\ asid' = asid /\ tlb' = tlb
    BY <1>11 DEF ShmMap, asidVars
  <2>2. ~Mapped(s, mmap_next[s])
    BY <1>11, <2>1 DEF MapsFree
  <2>3. \A t \in live, va \in Va : t # s \/ Mapped(s, va) => pte'[t][va] = pte[t][va]
    BY <1>0, <1>11, <2>2, ShmMapPages DEF Typed
  <2> QED
    BY <2>1, <2>3, FilledTlb
<1>12. ASSUME NEW o \in Objs, ShmCreate(o) PROVE TlbCoherent'
  <2>1. RowsKept(live) /\ tlb' = tlb
    BY <1>12, ShmCreatePages DEF RowsKept
  <2> QED
    BY ONLY TlbCoherent, <2>1, UnflushedTlb
<1>13. ASSUME UNCHANGED vars PROVE TlbCoherent'
  <2>1. RowsKept(live) /\ tlb' = tlb
    BY <1>13 DEF RowsKept, vars, asidVars
  <2> QED
    BY ONLY TlbCoherent, <2>1, UnflushedTlb
<1> QED
  BY <1>1, <1>2, <1>3, <1>4, <1>5, <1>6, <1>7, <1>8, <1>9, <1>10, <1>11, <1>12, <1>13 DEF Next

\* Every cached translation is one its owner's table has: each demotion, copy,
\* unmapping and reuse of an ASID is preceded by the flush it needs.
THEOREM TlbCoherentAlways == Spec /\ [][MapsFree]_vars => []TlbCoherent
<1>1. Init => TlbCoherent
  BY DEF Init, TlbCoherent
<1>2. ASSUME PagesInv, TlbCoherent, [Next]_vars, [MapsFree]_vars PROVE TlbCoherent'
  <2>1. CASE MapsFree
    BY <1>2, <2>1, TlbNext
  <2>2. CASE UNCHANGED vars
    <3>1. RowsKept(live) /\ tlb' = tlb
      BY <2>2 DEF RowsKept, vars, asidVars
    <3> QED
      BY ONLY <1>2, <3>1, UnflushedTlb
  <2> QED
    BY <1>2, <2>1, <2>2
<1> QED
  BY <1>1, <1>2, PagesAlways, PTL DEF Spec

----------------------------------------------------------------------------
(* When the mapping calls land on empty pages: brk and mmap get all the    *)
(* memory they ask for or none, and mmap has not come up to the stack.     *)

\* The segments are below the heap, the stack above the start of mmap.
Layout ==
    /\ HeapBase <= MmapBase
    /\ \A va \in DOMAIN Segments : va < HeapBase \/ MmapBase <= va
BelowStack ==
    \A s \in live, va \in DOMAIN Segments : va < HeapBase \/ mmap_next[s] <= va
WholeOrNothing ==
    \A s \in Spaces, n \in Lens : Sbrk(s, n) \/ Mmap(s, n) => Obtained(n) \in {0, n}

\* A space maps its segments, and pages below its heap pointer or between the
\* start of mmap and its mmap pointer.  A step changes pages D of space s only.
Placed(row, heap, next) ==
    /\ HeapBase <= heap /\ heap <= MmapBase /\ MmapBase <= next
    /\ \A va \in Va : row[va] # Invalid =>
          va \in DOMAIN Segments \/ va < heap \/ (MmapBase <= va /\ va < next)
ChangesOnly(s, D) ==
    \A t \in Spaces, va \in Va : t # s \/ va \notin D => pte'[t][va] = pte[t][va]
AllPlaced == \A s \in live : Placed(pte[s], heap_end[s], mmap_next[s])

\* The mmap pointer moves over the k pages that were mapped.
MmapMoves(s, b, k) ==
    /\ s \in live /\ b = mmap_next[s] /\ live' = live /\ heap_end' = heap_end
    /\ mmap_next' = [mmap_next EXCEPT ![s] = b + k]
    /\ ChangesOnly(s, b..(b + k - 1))

LEMMA MmapPlaced ==
    ASSUME Layout, PagesInv, AllPlaced, NEW s \in Spaces, NEW b \in Nat, NEW k \in Nat,
           MmapMoves(s, b, k)
    PROVE  AllPlaced'
<1>p. /\ Typed /\ HeapBase \in Nat /\ MmapBase \in Nat
      /\ \A t \in live : t \in Spaces /\ heap_end[t] \in Nat /\ mmap_next[t] \in Nat
  BY PagesTyped, ConstAssumption, Constants DEF Typed
<1>h. /\ s \in live /\ b = mmap_next[s] /\ live' = live /\ heap_end' = heap_end
      /\ mmap_next' = [mmap_next EXCEPT ![s] = b + k] /\ ChangesOnly(s, b..(b + k - 1))
  BY DEF MmapMoves
<1>0. \A t \in Spaces, va \in Va : t # s \/ va \notin b..(b + k - 1) => pte'[t][va] = pte[t][va]
  BY <1>h DEF ChangesOnly
<1>1. /\ mmap_next'[s] = b + k /\ \A t \in live \ {s} : mmap_next'[t] = mmap_next[t]
  BY <1>p, <1>h DEF Typed
<1>2. Placed(pte'[s], heap_end[s], b + k)
  <2>1. Placed(pte[s], heap_end[s], b)
    BY <1>h DEF AllPlaced
  <2>2. \A va \in Va : pte'[s][va] # Invalid =>
           pte[s][va] # Invalid \/ (MmapBase <= va /\ va < b + k)
    <3>1. MmapBase <= b
      BY <2>1 DEF Placed
    <3>2. \A va \in Va : va \in Int /\ (va \in b..(b + k - 1) => MmapBase <= va /\ va < b + k)
      BY <1>p, <3>1 DEF Va
    <3> QED
      BY <1>h, <1>0, <3>2
  <2>3. \A va \in Va : va < b => va < b + k
    BY DEF Va
  <2>4. MmapBase <= b + k
    BY <1>p, <2>1 DEF Placed
  <2> QED
    BY <2>1, <2>2, <2>3, <2>4 DEF Placed
<1>3. \A t \in live \ {s} : Placed(pte'[t], heap_end[t], mmap_next[t])
  BY <1>p, <1>h, <1>0 DEF AllPlaced, Placed
<1> QED
  BY <1>h, <1>1, <1>2, <1>3 DEF AllPlaced

LEMMA PlacedNext ==
    ASSUME Layout, PagesInv, AllPlaced, Next \/ UNCHANGED vars, WholeOrNothing
    PROVE  AllPlaced'
<1>0. /\ Typed /\ HeapBase \in Nat /\ MmapBase \in Nat
      /\ \A t \in live : t \in Spaces /\ heap_end[t] \in Nat /\ mmap_next[t] \in Nat
  BY PagesTyped, ConstAssumption, Constants DEF Typed
<1>1. ASSUME NEW s \in Spaces, Create(s) PROVE AllPlaced'
  <2>1. /\ s \notin live /\ live' = live \cup {s}
        /\ heap_end' = [heap_end EXCEPT ![s] = HeapBase]
        /\ mmap_next' = [mmap_next EXCEPT ![s] = MmapBase]
    BY <1>1 DEF Create
  <2>2. \A t \in live : pte'[t] = pte[t] /\ heap_end'[t] = heap_end[t] /\ mmap_next'[t] = mmap_next[t]
    <3>1. \A t \in live : pte'[t] = pte[t]
      BY <1>1, CreatePages
    <3> QED
      BY <1>0, <2>1, <3>1 DEF Typed
  <2>3. \A va \in Va : pte'[s][va] # Invalid => va \in DOMAIN Segments
    BY <1>0, <1>1 DEF Create, Typed
  <2>4. heap_end'[s] = HeapBase /\ mmap_next'[s] = MmapBase
    BY <1>0, <2>1 DEF Typed
  <2>5. Placed(pte'[s], heap_end'[s], mmap_next'[s])
    BY <1>0, <2>3, <2>4 DEF Layout, Placed
  <2> QED
    BY <2>1, <2>2, <2>5 DEF AllPlaced
<1>2. ASSUME NEW s \in Spaces, Destroy(s) PROVE AllPlaced'
  <2>1. live' = live \ {s} /\ heap_end' = heap_end /\ mmap_next' = mmap_next
    BY <1>2 DEF Destroy
  <2>2. \A t \in live \ {s} : pte'[t] = pte[t]
    BY <1>2, DestroyPages
  <2> QED
    BY <2>1, <2>2 DEF AllPlaced
<1>3. ASSUME NEW s \in Spaces, NEW c \in Spaces, Clone(s, c) PROVE AllPlaced'
  <2>1. /\ s \in live /\ c \notin live /\ live' = live \cup {c}
        /\ heap_end' = [heap_end EXCEPT ![c] = heap_end[s]]
        /\ mmap_next' = [mmap_next EXCEPT ![c] = mmap_next[s]]
    BY <1>3 DEF Clone
  <2>2. \A t \in live \ {s} : pte'[t] = pte[t]
    BY <1>3, ClonePages
  <2>3. /\ heap_end'[c] = heap_end[s] /\ mmap_next'[c] = mmap_next[s]
        /\ \A t \in live : heap_end'[t] = heap_end[t] /\ mmap_next'[t] = mmap_next[t]
    BY <1>0, <2>1 DEF Typed
  <2>4. /\ pte'[s] = [va \in Va |-> Cloned(pte[s][va])]
        /\ pte'[c] = [va \in Va |-> Cloned(pte[s][va])]
    BY <1>0, <1>3, <2>1 DEF Clone, Typed
  <2>5. \A va \in Va : pte[s][va] = Invalid => Cloned(pte[s][va]) = Invalid
    BY <1>0, <2>1, ClonedEntry DEF Typed
  <2>6. Placed(pte'[s], heap_end[s], mmap_next[s]) /\ Placed(pte'[c], heap_end[s], mmap_next[s])
    <3>1. Placed(pte[s], heap_end[s], mmap_next[s])
      BY <2>1 DEF AllPlaced
    <3> QED
      BY <2>4, <2>5, <3>1 DEF Placed
  <2> QED
    BY <2>1, <2>2, <2>3, <2>6 DEF AllPlaced
<1>4. ASSUME UNCHANGED <<live, pte, heap_end, mmap_next>> PROVE AllPlaced'
  BY <1>4 DEF AllPlaced
<1>5. ASSUME NEW s \in Spaces, NEW va \in Va, NEW v \in Values, CowReuse(s, va, v) \/ CowCopy(s, va, v)
      PROVE  AllPlaced'
  <2>1. Faults(s, va) /\ live' = live /\ heap_end' = heap_end /\ mmap_next' = mmap_next
    BY <1>5 DEF CowReuse, CowCopy
  <2>2. s \in live /\ pte[s][va] # Invalid
    BY ONLY PagesInv, <2>1, s \in Spaces, va \in Va, Faulted
  <2>3. \A t \in live, u \in Va : t # s \/ u # va => pte'[t][u] = pte[t][u]
    <3>1. PICK e : pte' = [pte EXCEPT ![s][va] = e]
      BY <1>5 DEF CowReuse, CowCopy
    <3>2. pte \in [Spaces -> [Va -> EntryType]]
      BY <1>0 DEF Typed
    <3> QED
      BY ONLY <1>0, <3>1, <3>2
  <2>4. \A t \in live, u \in Va : pte'[t][u] # Invalid => pte[t][u] # Invalid
    BY <2>2, <2>3
  <2> QED
    BY <2>1, <2>4 DEF AllPlaced, Placed
<1>6. ASSUME NEW s \in Spaces, NEW va \in Va, NEW n \in Lens, Munmap(s, va, n) PROVE AllPlaced'
  <2>1. s \in live /\ live' = live /\ heap_end' = heap_end /\ mmap_next' = mmap_next
    BY <1>6 DEF Munmap
  <2>2. \A t \in live, u \in Va : pte'[t][u] # Invalid => pte[t][u] # Invalid
    BY <1>0, <1>6 DEF Munmap, Typed
  <2> QED
    BY <2>1, <2>2 DEF AllPlaced, Placed
<1>7. ASSUME NEW s \in Spaces, NEW n \in Lens, Sbrk(s, n) PROVE AllPlaced'
  <2> DEFINE b == heap_end[s]
             k == Obtained(n)
  <2>1. /\ s \in live /\ live' = live /\ mmap_next' = mmap_next /\ b + n <= MmapBase
        /\ heap_end' = [heap_end EXCEPT ![s] = IF k = n THEN @ + n ELSE @]
        /\ k \in {0, n} /\ n \in Nat \ {0} /\ b \in Nat
    BY <1>0, <1>7, ObtainedSome DEF Sbrk, WholeOrNothing
  <2>2. \A t \in Spaces, va \in Va : t # s \/ va \notin b..(b + k - 1) => pte'[t][va] = pte[t][va]
    BY <1>7, SbrkPages
  <2> HIDE DEF b, k
  <2>3. /\ heap_end'[s] = b + k /\ b + k <= MmapBase /\ b <= b + k /\ b + k \in Nat
        /\ \A t \in live \ {s} : heap_end'[t] = heap_end[t]
    BY <1>0, <2>1 DEF Typed, b
  <2>4. Placed(pte'[s], b + k, mmap_next[s])
    <3>1. Placed(pte[s], b, mmap_next[s])
      BY <2>1 DEF AllPlaced, b
    <3>2. \A va \in Va : pte'[s][va] # Invalid => pte[s][va] # Invalid \/ va < b + k
      <4>1. \A va \in Va : va \in Int /\ (va \in b..(b + k - 1) => va < b + k)
        BY <2>1, <2>3 DEF Va
      <4> QED
        BY <1>0, <2>2, <4>1
    <3>3. \A va \in Va : va \in Int /\ (va < b => va < b + k)
      BY <2>1, <2>3 DEF Va
    <3>4. HeapBase <= b + k
      BY <1>0, <2>1, <2>3, <3>1 DEF Placed
    <3> QED
      BY <2>3, <3>1, <3>2, <3>3, <3>4 DEF Placed
  <2>5. \A t \in live \ {s} : Placed(pte'[t], heap_end[t], mmap_next[t])
    BY <1>0, <2>2 DEF AllPlaced, Placed
  <2> QED
    BY <2>1, <2>3, <2>4, <2>5 DEF AllPlaced
<1>9. ASSUME NEW s \in Spaces, NEW n \in Lens, Mmap(s, n) PROVE AllPlaced'
  <2> DEFINE b == mmap_next[s]
             k == Obtained(n)
  <2>1. /\ s \in live /\ live' = live /\ heap_end' = heap_end
        /\ mmap_next' = [mmap_next EXCEPT ![s] = IF k = n THEN @ + n ELSE @]
        /\ k \in {0, n} /\ n \in Nat \ {0} /\ b \in Nat
    BY <1>0, <1>9, ObtainedSome DEF Mmap, WholeOrNothing
  <2>2. ChangesOnly(s, b..(b + k - 1))
    BY <1>9, MmapPages DEF ChangesOnly
  <2>3. b = mmap_next[s]
    OBVIOUS
  <2> HIDE DEF b, k
  <2>4. mmap_next' = [mmap_next EXCEPT ![s] = b + k] /\ k \in Nat
    <3>1. CASE k = n
      BY <2>1, <2>3, <3>1
    <3>2. CASE k = 0
      <4>1. mmap_next' = [mmap_next EXCEPT ![s] = b]
        BY <2>1, <2>3, <3>2
      <4>2. b + k = b
        BY <2>1, <3>2
      <4>3. k \in Nat
        BY <3>2
      <4> QED
        BY ONLY <4>1, <4>2, <4>3
    <3> QED
      BY <2>1, <3>1, <3>2
  <2>5. MmapMoves(s, b, k) /\ b \in Nat /\ k \in Nat
    BY <2>1, <2>2, <2>3, <2>4 DEF MmapMoves
  <2> QED
    BY ONLY Layout, PagesInv, AllPlaced, <2>5, s \in Spaces, MmapPlaced
<1>10. ASSUME NEW s \in Spaces, NEW o \in Objs, ShmMap(s, o) PROVE AllPlaced'
  <2> DEFINE b == mmap_next[s]
  <2>1. /\ s \in live /\ live' = live /\ heap_end' = heap_end
        /\ mmap_next' = [mmap_next EXCEPT ![s] = b + 1] /\ b \in Nat
    BY <1>0, <1>10 DEF ShmMap
  <2>2. \A t \in Spaces, va \in Va : t # s \/ va # b => pte'[t][va] = pte[t][va]
    BY <1>10, ShmMapPages
  <2>3. b = mmap_next[s]
    OBVIOUS
  <2> HIDE DEF b
  <2>4. ChangesOnly(s, b..(b + 1 - 1)) /\ 1 \in Nat
    <3>1. b \in b..(b + 1 - 1)
      BY <2>1
    <3> QED
      BY <2>2, <3>1 DEF ChangesOnly
  <2>5. MmapMoves(s, b, 1) /\ b \in Nat /\ 1 \in Nat
    BY <2>1, <2>3, <2>4 DEF MmapMoves
  <2> QED
    BY ONLY Layout, PagesInv, AllPlaced, <2>5, s \in Spaces, MmapPlaced
<1>11. ASSUME NEW s \in Spaces, NEW va \in Va, NEW v \in Values, Load(s, va) \/ Store(s, va, v)
       PROVE  AllPlaced'
  BY <1>4, <1>11 DEF Load, Store
<1>12. ASSUME NEW o \in Objs, ShmCreate(o) PROVE AllPlaced'
  BY <1>4, <1>12 DEF ShmCreate
<1>13. ASSUME UNCHANGED vars PROVE AllPlaced'
  BY <1>4, <1>13 DEF vars
<1>14. ASSUME NEW s \in Spaces, NEW va \in Va, Load(s, va) PROVE AllPlaced'
  BY <1>11, <1>14, ConstAssumption
<1> QED
  BY <1>1, <1>2, <1>3, <1>5, <1>6, <1>7, <1>9, <1>10, <1>11, <1>12, <1>13, <1>14 DEF Next

\* A mapping call of a placed space finds its pages empty.
LEMMA PlacedFree ==
    ASSUME Layout, PagesInv, AllPlaced, Next \/ UNCHANGED vars, WholeOrNothing, BelowStack'
    PROVE  MapsFree
<1> SUFFICES ASSUME NEW s \in live
             PROVE  /\ \A n \in Lens :
                         /\ Sbrk(s, n) =>
                              \A va \in heap_end[s]..(heap_end[s] + Obtained(n) - 1) : ~Mapped(s, va)
                         /\ Mmap(s, n) =>
                              \A va \in mmap_next[s]..(mmap_next[s] + Obtained(n) - 1) : ~Mapped(s, va)
                    /\ \A o \in Objs : ShmMap(s, o) => ~Mapped(s, mmap_next[s])
  BY DEF MapsFree
<1>0. /\ Typed /\ HeapBase \in Nat /\ MmapBase \in Nat /\ LastVa \in Nat /\ MmapBase <= LastVa
      /\ s \in Spaces /\ heap_end[s] \in Nat \ {0} /\ mmap_next[s] \in Nat \ {0}
  BY PagesTyped, ConstAssumption DEF Typed, Pointers, Va
<1>1. Placed(pte[s], heap_end[s], mmap_next[s])
  BY DEF AllPlaced
<1>2. ASSUME NEW n \in Lens, Sbrk(s, n),
             NEW va \in heap_end[s]..(heap_end[s] + Obtained(n) - 1)
      PROVE  ~Mapped(s, va)
  <2>1. heap_end[s] + n <= MmapBase /\ Obtained(n) \in Nat /\ Obtained(n) <= n /\ n \in Nat
    BY <1>2, ObtainedSome DEF Sbrk
  <2>2. va \in Int /\ heap_end[s] <= va /\ va < MmapBase /\ va \in Va
    BY <1>0, <1>2, <2>1 DEF Va
  <2>3. HeapBase <= va
    BY <1>0, <1>1, <2>2 DEF Placed
  <2>4. va \notin DOMAIN Segments
    BY <1>0, <2>2, <2>3 DEF Layout
  <2>5. ~(va < heap_end[s]) /\ ~(MmapBase <= va)
    BY <1>0, <2>2
  <2> QED
    BY <1>1, <2>2, <2>4, <2>5 DEF Placed, Mapped
<1>3. ASSUME NEW va \in Va, mmap_next[s] <= va, va < mmap_next'[s], s \in live', mmap_next'[s] \in Nat
      PROVE  ~Mapped(s, va)
  <2>1. va \in Nat /\ HeapBase <= va /\ heap_end[s] <= va /\ ~(va < mmap_next[s])
    BY <1>0, <1>1, <1>3 DEF Placed, Layout, Va
  <2>2. va \notin DOMAIN Segments
    BY <1>0, <1>3, <2>1 DEF BelowStack
  <2> QED
    BY <1>0, <1>1, <2>1, <2>2 DEF Placed, Mapped
<1>4. ASSUME NEW n \in Lens, Mmap(s, n),
             NEW va \in mmap_next[s]..(mmap_next[s] + Obtained(n) - 1)
      PROVE  ~Mapped(s, va)
  <2>1. /\ Obtained(n) \in {0, n} /\ n \in Nat /\ live' = live
        /\ mmap_next[s] + n - 1 <= LastVa
        /\ mmap_next' = [mmap_next EXCEPT ![s] = IF Obtained(n) = n THEN @ + n ELSE @]
    BY <1>0, <1>4, ObtainedSome DEF Mmap, WholeOrNothing
  <2>2. Obtained(n) = n
    BY <1>0, <1>4, <2>1
  <2>3. mmap_next'[s] = mmap_next[s] + n
    BY <1>0, <2>1, <2>2 DEF Typed
  <2>4. /\ va \in Va /\ mmap_next[s] <= va /\ va < mmap_next'[s] /\ mmap_next'[s] \in Nat
    BY <1>0, <1>4, <2>1, <2>2, <2>3 DEF Va
  <2> QED
    BY <1>3, <2>1, <2>4
<1>5. ASSUME NEW o \in Objs, ShmMap(s, o) PROVE ~Mapped(s, mmap_next[s])
  <2>1. live' = live /\ mmap_next[s] <= LastVa /\ mmap_next' = [mmap_next EXCEPT ![s] = @ + 1]
    BY <1>5 DEF ShmMap
  <2>2. mmap_next'[s] = mmap_next[s] + 1 /\ mmap_next[s] \in Va
    BY <1>0, <2>1 DEF Typed, Va
  <2>3. mmap_next[s] <= mmap_next[s] /\ mmap_next[s] < mmap_next'[s] /\ mmap_next'[s] \in Nat
    BY <1>0, <2>2
  <2> QED
    BY <1>3, <2>1, <2>2, <2>3
<1> QED
  BY <1>2, <1>4, <1>5

\* While brk and mmap get all they ask for or nothing, and mmap stays below
\* the stack, no mapping call lands on a mapped page.  Without the first, the
\* pages of a call that ran out of memory stay where the next one maps
\* (vm.c:526); without the second, mmap overwrites the stack (vm.c:529).
THEOREM MapsFreeWhen ==
    ASSUME Layout
    PROVE  Spec /\ []BelowStack /\ [][WholeOrNothing]_vars => [][MapsFree]_vars
<1>1. Init => AllPlaced
  BY DEF Init, AllPlaced
<1>2. ASSUME PagesInv, AllPlaced, [Next]_vars, [WholeOrNothing]_vars PROVE AllPlaced'
  <2>1. CASE WholeOrNothing
    BY <1>2, <2>1, PlacedNext
  <2>2. CASE UNCHANGED vars
    BY <2>2, <1>2 DEF vars, AllPlaced
  <2> QED
    BY <1>2, <2>1, <2>2
<1>3. ASSUME PagesInv, AllPlaced, [Next]_vars, [WholeOrNothing]_vars, BelowStack' PROVE [MapsFree]_vars
  <2>1. CASE WholeOrNothing
    BY <1>3, <2>1, PlacedFree
  <2>2. CASE UNCHANGED vars
    BY <2>2
  <2> QED
    BY <1>3, <2>1, <2>2
<1> QED
  BY <1>1, <1>2, <1>3, PagesAlways, PTL DEF Spec

\* One page at a time and nothing mapped above the heap's start but by mmap:
\* no condition on the behaviours is left.
OnePageLayout ==
    /\ Lens = {1}
    /\ HeapBase <= MmapBase /\ \A va \in DOMAIN Segments : va < HeapBase

LEMMA OnePageMapsFree ==
    ASSUME OnePageLayout
    PROVE  Spec => [][MapsFree]_vars
<1>1. Layout
  BY DEF Layout, OnePageLayout
<1>2. ASSUME PagesInv PROVE WholeOrNothing /\ BelowStack
  <2>1. \A n \in Lens : Obtained(n) \in {0, n}
    BY <1>2, ObtainedSome DEF OnePageLayout
  <2> QED
    BY <2>1 DEF OnePageLayout, WholeOrNothing, BelowStack
<1>3. Spec /\ []BelowStack /\ [][WholeOrNothing]_vars => [][MapsFree]_vars
  BY <1>1, MapsFreeWhen
<1> QED
  BY <1>2, <1>3, PagesAlways, PTL

\* The counts and the TLB of the instances that the runs check.
THEOREM OnePageRefsAreOwners ==
    ASSUME OnePageLayout
    PROVE  Spec => []RefsAreOwners
BY OnePageMapsFree, RefsAreOwnersAlways, PTL

\* The same for the entries that the TLB holds.
THEOREM OnePageTlbCoherent ==
    ASSUME OnePageLayout
    PROVE  Spec => []TlbCoherent
BY OnePageMapsFree, TlbCoherentAlways, PTL

----------------------------------------------------------------------------
(* Who shares what: the invariant that the refinement needs.               *)

\* Entry e is marked shared if and only if an object of S has its frame, and a
\* copy-on-write entry is not.
Shares(e, S) ==
    /\ e.shared => \E o \in Objs : S[o] = e.frame
    /\ ~e.shared => \A o \in Objs : S[o] = e.frame => e.frame = NoFrame
    /\ e.cow => ~e.shared
ObjectsApart(S) == \A o, q \in Objs : S[o] = S[q] /\ S[o] # NoFrame => o = q

\* A page that can be written without a fault and is not of an object has its
\* frame to itself.
Alone(s, va) ==
    pte[s][va].w /\ ~pte[s][va].shared =>
        \A t \in Spaces, u \in Va : pte[t][u].frame = pte[s][va].frame => t = s /\ u = va

SharingInv ==
    /\ \A s \in Spaces, va \in Va : Shares(pte[s][va], shms) /\ Alone(s, va)
    /\ ObjectsApart(shms)

\* What most steps do to a table: an entry stays or goes, comes with a free
\* frame, or comes with the frame of an object; no free frame goes to two pages.
KeptAt(t, u) == pte'[t][u] = pte[t][u] \/ pte'[t][u] = Invalid
FreshAt(t, u) == pte'[t][u].frame \in free /\ ~pte'[t][u].shared /\ ~pte'[t][u].cow
ObjectAt(t, u) ==
    /\ \E o \in Objs : shms[o] \in Frames /\ pte'[t][u].frame = shms[o]
    /\ pte'[t][u].shared /\ ~pte'[t][u].cow
TablesChange ==
    /\ \A t \in Spaces, u \in Va : KeptAt(t, u) \/ FreshAt(t, u) \/ ObjectAt(t, u)
    /\ \A t, t1 \in Spaces, u, u1 \in Va :
          FreshAt(t, u) /\ FreshAt(t1, u1) /\ pte'[t][u].frame = pte'[t1][u1].frame => t = t1 /\ u = u1

LEMMA InvalidEntry ==
    /\ Invalid.frame = NoFrame /\ ~Invalid.w /\ ~Invalid.cow /\ ~Invalid.shared
BY DEF Invalid

LEMMA SharingChange ==
    ASSUME PagesInv, SharingInv, TablesChange, shms' = shms
    PROVE  SharingInv'
<1>0. Typed /\ UsedNotFree /\ NoFrame \notin Frames /\ free \subseteq Frames
  BY PagesTyped, PagesUsed, Constants DEF PagesInv, TypeOK
<1>1. ASSUME NEW t \in Spaces, NEW u \in Va
      PROVE  KeptAt(t, u) \/ FreshAt(t, u) \/ ObjectAt(t, u)
  BY DEF TablesChange
<1>2. ASSUME NEW t \in Spaces, NEW u \in Va
      PROVE  Shares(pte[t][u], shms) /\ Alone(t, u)
  BY DEF SharingInv
<1>3. \A o \in Objs : shms[o] \notin free
  BY <1>0 DEF UsedNotFree
<1>4. \A t \in Spaces, u \in Va : pte[t][u].frame \notin free
  <2>1. \A t \in Spaces, u \in Va : pte[t][u].frame = NoFrame \/ Mapped(t, u)
    BY InvalidEntry DEF Mapped
  <2> QED
    BY <1>0, <2>1 DEF UsedNotFree
<1>5. ASSUME NEW t \in Spaces, NEW u \in Va
      PROVE  Shares(pte'[t][u], shms)
  <2>1. CASE KeptAt(t, u)
    BY <1>2, <2>1, InvalidEntry DEF KeptAt, Shares
  <2>2. CASE FreshAt(t, u)
    BY <1>3, <2>2 DEF FreshAt, Shares
  <2>3. CASE ObjectAt(t, u)
    BY <2>3 DEF ObjectAt, Shares
  <2> QED
    BY <1>1, <2>1, <2>2, <2>3
<1>6. ASSUME NEW t \in Spaces, NEW u \in Va, pte'[t][u].w, ~pte'[t][u].shared,
             NEW t1 \in Spaces, NEW u1 \in Va, pte'[t1][u1].frame = pte'[t][u].frame
      PROVE  t1 = t /\ u1 = u
  <2>1. CASE KeptAt(t, u)
    <3>1. pte'[t][u] = pte[t][u] /\ pte[t][u].frame \in Frames
      <4>1. pte'[t][u] = pte[t][u] /\ pte[t][u] # Invalid
        BY <1>6, <2>1, InvalidEntry DEF KeptAt
      <4> QED
        BY <1>0, <4>1 DEF Typed, Entries
    <3>2. \A o \in Objs : shms[o] # pte[t][u].frame
      BY <1>0, <1>2, <1>6, <3>1 DEF Shares
    <3>3. ~FreshAt(t1, u1) /\ ~ObjectAt(t1, u1)
      BY <1>4, <1>6, <3>1, <3>2 DEF FreshAt, ObjectAt
    <3>4. pte'[t1][u1] = pte[t1][u1]
      BY <1>0, <1>1, <1>6, <3>1, <3>3, InvalidEntry DEF KeptAt
    <3> QED
      BY <1>2, <1>6, <3>1, <3>4 DEF Alone
  <2>2. CASE FreshAt(t, u)
    <3>1. pte'[t][u].frame \in free
      BY <2>2 DEF FreshAt
    <3>2. ~KeptAt(t1, u1) /\ ~ObjectAt(t1, u1)
      BY <1>0, <1>3, <1>4, <1>6, <3>1, InvalidEntry DEF KeptAt, ObjectAt
    <3>3. FreshAt(t1, u1)
      BY <1>1, <3>2
    <3> QED
      BY <1>6, <2>2, <3>3 DEF TablesChange
  <2>3. CASE ObjectAt(t, u)
    BY <1>6, <2>3 DEF ObjectAt
  <2> QED
    BY <1>1, <2>1, <2>2, <2>3
<1>7. ObjectsApart(shms)
  BY DEF SharingInv
<1> QED
  BY <1>5, <1>6, <1>7 DEF SharingInv, Alone

\* What was mapped before the step is not fresh.
LEMMA NotFresh ==
    ASSUME PagesInv, NEW t \in Spaces, NEW u \in Va, KeptAt(t, u)
    PROVE  ~FreshAt(t, u)
<1>1. NoFrame \notin Frames /\ free \subseteq Frames /\ UsedNotFree
  BY Constants, PagesUsed DEF PagesInv, TypeOK
<1> QED
  BY <1>1, InvalidEntry DEF KeptAt, FreshAt, UsedNotFree, Mapped

\* The steps that change entries in these ways.
LEMMA CreateTables ==
    ASSUME PagesInv, NEW s \in Spaces, Create(s)
    PROVE  TablesChange
<1> DEFINE D == DOMAIN Segments
<1>1. PICK p \in Picks(D) :
         pte' = [pte EXCEPT ![s] =
                [va \in Va |-> IF va \in D
                               THEN Entry(p[va], Segments[va].w, Segments[va].x) ELSE Invalid]]
  BY DEF Create
<1>2. IsInjective(p) /\ DOMAIN p = D /\ \A va \in D : p[va] \in free /\ p[va] \in Frames
  BY ONLY PagesInv, <1>1, Picked
<1>3. \A va \in D : va \in Va /\ Segments[va].w \in BOOLEAN /\ Segments[va].x \in BOOLEAN
  BY ConstAssumption DEF Rights
<1> HIDE DEF D
<1>4. Typed
  BY PagesTyped
<1>5. /\ \A t \in Spaces : t # s => pte'[t] = pte[t]
      /\ \A u \in Va \ D : pte'[s][u] = Invalid
      /\ \A u \in D : pte'[s][u] = Entry(p[u], Segments[u].w, Segments[u].x)
  BY <1>1, <1>3, <1>4 DEF Typed
<1>6. \A u \in D : pte'[s][u].frame = p[u] /\ FreshAt(s, u)
  BY <1>2, <1>3, <1>5, EntriesTyped DEF FreshAt
<1>7. \A t \in Spaces, u \in Va : t # s \/ u \notin D => KeptAt(t, u)
  BY <1>5 DEF KeptAt
<1>8. \A t \in Spaces, u \in Va : t # s \/ u \notin D => ~FreshAt(t, u)
  BY <1>7, PagesInv, NotFresh
<1> QED
  BY <1>2, <1>6, <1>7, <1>8 DEF TablesChange, IsInjective

LEMMA FreshTables ==
    ASSUME PagesInv, NEW s \in Spaces, NEW base \in Nat, NEW k \in Nat, base..(base + k - 1) \subseteq Va,
           MapFresh(s, base, k)
    PROVE  TablesChange
<1> DEFINE D == base..(base + k - 1)
<1>1. PICK p \in Picks(D) :
         pte' = [pte EXCEPT ![s] = [va \in Va |-> IF va \in DOMAIN p THEN Data(p[va]) ELSE pte[s][va]]]
  BY DEF MapFresh
<1>2. IsInjective(p) /\ DOMAIN p = D /\ \A va \in D : p[va] \in free /\ p[va] \in Frames
  BY ONLY PagesInv, <1>1, Picked
<1>3. D \subseteq Va
  OBVIOUS
<1> HIDE DEF D
<1>4. Typed
  BY PagesTyped
<1>5. /\ \A t \in Spaces, u \in Va : t # s \/ u \notin D => pte'[t][u] = pte[t][u]
      /\ \A u \in D : pte'[s][u] = Data(p[u])
  BY <1>1, <1>2, <1>3, <1>4 DEF Typed
<1>6. \A u \in D : pte'[s][u].frame = p[u] /\ FreshAt(s, u)
  BY <1>2, <1>5, EntriesTyped DEF FreshAt
<1>7. \A t \in Spaces, u \in Va : t # s \/ u \notin D => KeptAt(t, u)
  BY <1>5 DEF KeptAt
<1>8. \A t \in Spaces, u \in Va : t # s \/ u \notin D => ~FreshAt(t, u)
  BY <1>7, PagesInv, NotFresh
<1> QED
  BY <1>2, <1>6, <1>7, <1>8 DEF TablesChange, IsInjective

LEMMA KeptTables ==
    ASSUME PagesInv, \A t \in Spaces, u \in Va : KeptAt(t, u)
    PROVE  TablesChange
BY NotFresh DEF TablesChange

LEMMA CopyTables ==
    ASSUME PagesInv, NEW s \in Spaces, NEW va \in Va, NEW v \in Values, CowCopy(s, va, v)
    PROVE  TablesChange
<1>1. PICK g \in free : pte' = [pte EXCEPT ![s][va] = Data(g)]
  BY DEF CowCopy
<1>2. Typed /\ g \in Frames
  BY PagesTyped DEF PagesInv, TypeOK
<1>3. /\ pte'[s][va] = Data(g)
      /\ \A t \in Spaces, u \in Va : t # s \/ u # va => pte'[t][u] = pte[t][u]
  BY <1>1, <1>2 DEF Typed
<1>4. FreshAt(s, va)
  BY <1>2, <1>3, EntriesTyped DEF FreshAt
<1>5. \A t \in Spaces, u \in Va : t # s \/ u # va => KeptAt(t, u)
  BY <1>3 DEF KeptAt
<1>6. \A t \in Spaces, u \in Va : t # s \/ u # va => ~FreshAt(t, u)
  BY <1>5, PagesInv, NotFresh
<1> QED
  BY <1>4, <1>5, <1>6 DEF TablesChange

LEMMA ShmMapTables ==
    ASSUME PagesInv, NEW s \in Spaces, NEW o \in Objs, ShmMap(s, o)
    PROVE  TablesChange
<1>1. /\ pte' = [pte EXCEPT ![s][mmap_next[s]] = SharedEntry(shms[o])] /\ shms[o] # NoFrame
      /\ mmap_next[s] \in Va
  BY ShmMapPages DEF ShmMap
<1>2. Typed /\ shms[o] \in Frames
  BY <1>1, PagesTyped DEF Typed
<1>3. /\ pte'[s][mmap_next[s]] = SharedEntry(shms[o])
      /\ \A t \in Spaces, u \in Va : t # s \/ u # mmap_next[s] => pte'[t][u] = pte[t][u]
  BY <1>1, <1>2 DEF Typed
<1>4. ObjectAt(s, mmap_next[s])
  BY <1>1, <1>2, <1>3, EntriesTyped DEF ObjectAt
<1>5. \A t \in Spaces, u \in Va : t # s \/ u # mmap_next[s] => KeptAt(t, u)
  BY <1>3 DEF KeptAt
<1>6. \A t \in Spaces, u \in Va : t # s \/ u # mmap_next[s] => ~FreshAt(t, u)
  BY <1>5, PagesInv, NotFresh
<1>7. ~FreshAt(s, mmap_next[s])
  BY <1>4 DEF FreshAt, ObjectAt
<1> QED
  BY <1>1, <1>4, <1>5, <1>6, <1>7 DEF TablesChange

\* fork: what was written privately is now read-only in both spaces.
LEMMA CloneSharing ==
    ASSUME PagesInv, SharingInv, NEW s \in Spaces, NEW c \in Spaces, Clone(s, c)
    PROVE  SharingInv'
<1>1. /\ s \in live /\ c \notin live /\ c # s /\ shms' = shms
      /\ pte' = [pte EXCEPT ![s] = [va \in Va |-> Cloned(pte[s][va])],
                            ![c] = [va \in Va |-> Cloned(pte[s][va])]]
  BY DEF Clone
<1>2. Typed
  BY PagesTyped
<1>3. /\ \A u \in Va : pte'[s][u] = Cloned(pte[s][u]) /\ pte'[c][u] = Cloned(pte[s][u])
      /\ \A t \in Spaces : t # s /\ t # c => pte'[t] = pte[t]
  BY <1>1, <1>2 DEF Typed
<1>4. \A u \in Va : LET e == pte[s][u] k == Cloned(e)
                    IN /\ k.frame = e.frame /\ k.shared = e.shared /\ (k.w => e.w /\ e.shared)
                       /\ (k.cow => e.cow \/ ~e.shared)
  BY <1>2, ClonedEntry DEF Typed
<1>5. \A t \in Spaces, u \in Va : Shares(pte[t][u], shms) /\ Alone(t, u)
  BY DEF SharingInv
<1>6. ASSUME NEW t \in Spaces, NEW u \in Va
      PROVE  Shares(pte'[t][u], shms)
  <2>1. CASE t = s \/ t = c
    <3> DEFINE e == pte[s][u]
               k == pte'[t][u]
    <3>1. /\ k.frame = e.frame /\ k.shared = e.shared /\ (k.cow => e.cow \/ ~e.shared)
      BY <1>3, <1>4, <2>1
    <3>2. Shares(e, shms)
      BY <1>5
    <3> HIDE DEF e, k
    <3>3. Shares(k, shms)
      BY <3>1, <3>2 DEF Shares
    <3> QED
      BY <3>3 DEF k
  <2>2. CASE t # s /\ t # c
    BY <1>3, <1>5, <2>2
  <2> QED
    BY <2>1, <2>2
<1>7. ASSUME NEW t \in Spaces, NEW u \in Va, pte'[t][u].w, ~pte'[t][u].shared,
             NEW t1 \in Spaces, NEW u1 \in Va, pte'[t1][u1].frame = pte'[t][u].frame
      PROVE  t1 = t /\ u1 = u
  <2>1. t # s /\ t # c /\ pte'[t] = pte[t]
    BY <1>3, <1>4, <1>7
  <2>2. CASE t1 = s \/ t1 = c
    <3>1. pte[s][u1].frame = pte[t][u].frame
      BY <1>3, <1>4, <1>7, <2>1, <2>2
    <3> QED
      BY <1>5, <1>7, <2>1, <3>1 DEF Alone
  <2>3. CASE t1 # s /\ t1 # c
    BY <1>3, <1>5, <1>7, <2>1, <2>3 DEF Alone
  <2> QED
    BY <2>2, <2>3
<1> QED
  BY <1>1, <1>6, <1>7 DEF SharingInv, Alone

\* What the only owner of a counted frame is told by the count.
LEMMA SoleOwners ==
    ASSUME PagesInv, NEW s \in Spaces, NEW va \in Va, pte[s][va].frame \in Frames,
           SoleOwner(pte[s][va].frame)
    PROVE  /\ \A t \in Spaces, u \in Va : pte[t][u].frame = pte[s][va].frame => t = s /\ u = va
           /\ \A o \in Objs : shms[o] # pte[s][va].frame
<1> DEFINE f == pte[s][va].frame
<1>0. pte[s][va].frame = f
  OBVIOUS
<1>1. f \in Frames /\ page_ref[f] = 1 /\ page_ref[f] >= OwnersIn(pte, f) + ObjectsIn(shms, f)
  BY DEF SoleOwner, PagesInv, CountsCover
<1> HIDE DEF f
<1>2. OwnersIn(pte, f) \in Nat /\ ObjectsIn(shms, f) \in Nat
  BY ONLY OwnersNat, ObjectsNat
<1>3. /\ OwnersIn(pte, f) >= 1
      /\ OwnersIn(pte, f) = 1 => \A t \in Spaces : \A u \in Va :
            pte[t][u].frame = f => t = s /\ u = va
  BY ONLY <1>0, s \in Spaces, va \in Va, OwnerCounted
<1>4. OwnersIn(pte, f) = 1 /\ ObjectsIn(shms, f) = 0
  BY ONLY <1>1, <1>2, <1>3
<1>5. \A o \in Objs : shms[o] # f
  BY <1>4, ObjectCounted
<1> QED
  BY <1>3, <1>4, <1>5 DEF f

LEMMA ReuseSharing ==
    ASSUME PagesInv, SharingInv, NEW s \in Spaces, NEW va \in Va, NEW v \in Values, CowReuse(s, va, v)
    PROVE  SharingInv'
<1> DEFINE f == pte[s][va].frame
<1>1. Faults(s, va) /\ SoleOwner(f) /\ shms' = shms /\ pte' = [pte EXCEPT ![s][va] = Data(f)]
  BY DEF CowReuse
<1>2. f \in Frames
  BY ONLY PagesInv, <1>1, s \in Spaces, va \in Va, Faulted
<1>3. /\ \A t \in Spaces, u \in Va : pte[t][u].frame = f => t = s /\ u = va
      /\ \A o \in Objs : shms[o] # f
  BY <1>1, <1>2, SoleOwners
<1> HIDE DEF f
<1>4. /\ pte'[s][va] = Data(f)
      /\ \A t \in Spaces, u \in Va : t # s \/ u # va => pte'[t][u] = pte[t][u]
  BY <1>1, PagesTyped DEF Typed
<1>5. Data(f).frame = f /\ ~Data(f).shared /\ ~Data(f).cow
  BY <1>2, EntriesTyped
<1>6. \A t \in Spaces, u \in Va : Shares(pte[t][u], shms) /\ Alone(t, u)
  BY DEF SharingInv
<1>7. \A t \in Spaces, u \in Va : Shares(pte'[t][u], shms)
  BY <1>3, <1>4, <1>5, <1>6 DEF Shares
<1>8. ASSUME NEW t \in Spaces, NEW u \in Va, pte'[t][u].w, ~pte'[t][u].shared,
             NEW t1 \in Spaces, NEW u1 \in Va, pte'[t1][u1].frame = pte'[t][u].frame
      PROVE  t1 = t /\ u1 = u
  <2>1. CASE t = s /\ u = va
    BY <1>3, <1>4, <1>5, <1>8, <2>1
  <2>2. CASE t # s \/ u # va
    <3>1. pte'[t][u] = pte[t][u] /\ pte[t][u].frame # f
      BY <1>3, <1>4, <2>2
    <3>2. pte'[t1][u1] = pte[t1][u1]
      BY <1>4, <1>5, <1>8, <3>1
    <3> QED
      BY <1>6, <1>8, <3>1, <3>2 DEF Alone
  <2> QED
    BY <2>1, <2>2
<1> QED
  BY <1>1, <1>7, <1>8 DEF SharingInv, Alone

LEMMA ShmCreateSharing ==
    ASSUME PagesInv, SharingInv, NEW o \in Objs, ShmCreate(o)
    PROVE  SharingInv'
<1>1. PICK g \in free : shms' = [shms EXCEPT ![o] = g]
  BY DEF ShmCreate
<1>2. pte' = pte /\ Typed /\ UsedNotFree /\ g \in Frames /\ NoFrame \notin Frames
  BY ShmCreatePages, PagesTyped, PagesUsed, Constants DEF PagesInv, TypeOK
<1>3. /\ shms'[o] = g /\ \A q \in Objs : q # o => shms'[q] = shms[q] /\ shms[q] # g
      /\ shms[o] = NoFrame
  BY <1>1, <1>2 DEF Typed, UsedNotFree, ShmCreate
<1>4. \A t \in Spaces, u \in Va : pte[t][u].frame # g
  <2>1. \A t \in Spaces, u \in Va : pte[t][u].frame = NoFrame \/ Mapped(t, u)
    BY InvalidEntry DEF Mapped
  <2> QED
    BY <1>2, <2>1 DEF UsedNotFree
<1>5. \A t \in Spaces, u \in Va : Shares(pte[t][u], shms) /\ Alone(t, u) /\ pte[t][u] \in EntryType
  BY <1>2 DEF SharingInv, Typed
<1>6. ASSUME NEW t \in Spaces, NEW u \in Va
      PROVE  Shares(pte'[t][u], shms')
  <2> DEFINE e == pte[t][u]
  <2>1. Shares(e, shms) /\ e.frame # g /\ e \in EntryType /\ pte'[t][u] = e
    BY <1>2, <1>4, <1>5
  <2>a. e.shared => Mapped(t, u)
    BY InvalidEntry DEF Mapped
  <2>b. Mapped(t, u) => e.frame \in Frames
    BY <1>2 DEF UsedNotFree
  <2> HIDE DEF e
  <2>2. e.shared => \E q \in Objs : shms'[q] = e.frame
    BY <1>2, <1>3, <2>1, <2>a, <2>b DEF Shares
  <2>3. ~e.shared => \A q \in Objs : shms'[q] = e.frame => e.frame = NoFrame
    BY <1>3, <2>1 DEF Shares
  <2> QED
    BY <2>1, <2>2, <2>3 DEF Shares
<1>7. ObjectsApart(shms')
  BY <1>3 DEF ObjectsApart, SharingInv
<1> QED
  BY <1>2, <1>5, <1>6, <1>7 DEF SharingInv, Alone

LEMMA SharingNext ==
    ASSUME PagesInv, SharingInv, Next \/ UNCHANGED vars
    PROVE  SharingInv'
<1>0. Typed
  BY PagesTyped
<1>1. ASSUME \A t \in Spaces, u \in Va : KeptAt(t, u), shms' = shms PROVE SharingInv'
  BY <1>1, KeptTables, SharingChange
<1>2. ASSUME NEW s \in Spaces, Create(s) PROVE SharingInv'
  BY <1>2, CreateTables, SharingChange DEF Create
<1>3. ASSUME NEW s \in Spaces, Destroy(s) PROVE SharingInv'
  BY <1>0, <1>1, <1>3 DEF Destroy, KeptAt, Typed
<1>4. ASSUME NEW s \in Spaces, NEW c \in Spaces, Clone(s, c) PROVE SharingInv'
  BY <1>4, CloneSharing
<1>5. ASSUME NEW s \in Spaces, NEW va \in Va, Load(s, va) PROVE SharingInv'
  BY <1>1, <1>5 DEF Load, KeptAt
<1>6. ASSUME NEW s \in Spaces, NEW va \in Va, NEW v \in Values, Store(s, va, v) PROVE SharingInv'
  BY <1>1, <1>6 DEF Store, KeptAt
<1>7. ASSUME NEW s \in Spaces, NEW va \in Va, NEW v \in Values, CowReuse(s, va, v) PROVE SharingInv'
  BY <1>7, ReuseSharing
<1>8. ASSUME NEW s \in Spaces, NEW va \in Va, NEW v \in Values, CowCopy(s, va, v) PROVE SharingInv'
  BY <1>8, CopyTables, SharingChange DEF CowCopy
<1>9. ASSUME NEW s \in Spaces, NEW va \in Va, NEW n \in Lens, Munmap(s, va, n) PROVE SharingInv'
  BY <1>0, <1>1, <1>9 DEF Munmap, KeptAt, Typed
<1>10. ASSUME NEW s \in Spaces, NEW n \in Lens, Sbrk(s, n) PROVE SharingInv'
  <2>1. /\ MapFresh(s, heap_end[s], Obtained(n)) /\ shms' = shms
        /\ heap_end[s] \in Nat \ {0} /\ heap_end[s] + n <= MmapBase
    BY <1>0, <1>10 DEF Sbrk, Typed, Pointers
  <2>2. Obtained(n) \in Nat /\ Obtained(n) <= n /\ n \in Nat /\ MmapBase \in Nat /\ MmapBase <= LastVa
        /\ LastVa \in Nat
    BY ObtainedSome, ConstAssumption DEF Va
  <2>3. heap_end[s]..(heap_end[s] + Obtained(n) - 1) \subseteq Va
    BY <2>1, <2>2 DEF Va
  <2> QED
    BY <2>1, <2>2, <2>3, FreshTables, SharingChange
<1>11. ASSUME NEW s \in Spaces, NEW n \in Lens, Mmap(s, n) PROVE SharingInv'
  <2>1. /\ MapFresh(s, mmap_next[s], Obtained(n)) /\ shms' = shms
        /\ mmap_next[s] \in Nat \ {0} /\ mmap_next[s] + n - 1 <= LastVa
    BY <1>0, <1>11 DEF Mmap, Typed, Pointers
  <2>2. Obtained(n) \in Nat /\ Obtained(n) <= n /\ n \in Nat /\ LastVa \in Nat
    BY ObtainedSome, ConstAssumption
  <2>3. mmap_next[s]..(mmap_next[s] + Obtained(n) - 1) \subseteq Va
    BY <2>1, <2>2 DEF Va
  <2> QED
    BY <2>1, <2>2, <2>3, FreshTables, SharingChange
<1>12. ASSUME NEW s \in Spaces, NEW o \in Objs, ShmMap(s, o) PROVE SharingInv'
  BY <1>12, ShmMapTables, SharingChange DEF ShmMap
<1>13. ASSUME NEW o \in Objs, ShmCreate(o) PROVE SharingInv'
  BY <1>13, ShmCreateSharing
<1>14. ASSUME UNCHANGED vars PROVE SharingInv'
  BY <1>1, <1>14 DEF vars, KeptAt
<1> QED
  BY <1>2, <1>3, <1>4, <1>5, <1>6, <1>7, <1>8, <1>9, <1>10, <1>11, <1>12, <1>13, <1>14 DEF Next

\* Every shared entry belongs to an object, every writable page that is not
\* shared has its frame to itself, and objects have frames of their own.
THEOREM SharingAlways == Spec => []SharingInv
<1>1. Init => SharingInv
  BY EntriesTyped, InvalidEntry DEF Init, SharingInv, Shares, Alone, ObjectsApart
<1>2. PagesInv /\ SharingInv /\ [Next]_vars => SharingInv'
  BY SharingNext
<1> QED
  BY <1>1, <1>2, PagesAlways, PTL DEF Spec

----------------------------------------------------------------------------
(* The refinement.                                                         *)

\* The images and objects that Memory sees.
Image == [s \in Spaces |-> [va \in Va |-> Cell(s, va)]]
Object == [o \in Objs |-> IF shms[o] = NoFrame THEN [kind |-> "absent"]
                          ELSE [kind |-> "own", value |-> mem[shms[o]]]]
Holder(S, f) == CHOOSE o \in Objs : S[o] = f
CellOf(alive, e, S, M) ==
    IF ~alive \/ e = Invalid THEN [kind |-> "unmapped"]
    ELSE IF e.shared THEN [kind |-> "shared", obj |-> Holder(S, e.frame)]
    ELSE [kind |-> "own", value |-> M[e.frame]]

LEMMA CellIs ==
    /\ \A s, va : Cell(s, va) = CellOf(s \in live, pte[s][va], shms, mem)
    /\ \A s, va : Cell(s, va)' = CellOf(s \in live', pte'[s][va], shms', mem')
BY DEF Cell, CellOf, Holder

\* An object's frame tells the object.
LEMMA HolderIs ==
    ASSUME NEW S, ObjectsApart(S), NEW o \in Objs, S[o] # NoFrame
    PROVE  Holder(S, S[o]) = o
<1>1. Holder(S, S[o]) \in Objs /\ S[Holder(S, S[o])] = S[o]
  BY DEF Holder
<1> QED
  BY <1>1 DEF ObjectsApart

\* What a page shows is told by its entry and, unless shared, by its frame.
LEMMA CellKept ==
    ASSUME NEW t \in Spaces, NEW u \in Va, t \in live' <=> t \in live, shms' = shms,
           pte'[t][u].frame = pte[t][u].frame, pte'[t][u].shared = pte[t][u].shared,
           pte'[t][u] = Invalid <=> pte[t][u] = Invalid,
           pte[t][u] # Invalid /\ ~pte[t][u].shared => mem'[pte[t][u].frame] = mem[pte[t][u].frame]
    PROVE  Cell(t, u)' = Cell(t, u)
BY CellIs DEF CellOf

\* Frames in use keep what they hold; all spaces but s keep their tables.
MemKept == \A f \in Frames \ free : mem'[f] = mem[f]
OthersSame(s) == \A t \in Spaces \ {s} : (t \in live' <=> t \in live) /\ pte'[t] = pte[t]
OtherCells(s) == \A t \in Spaces \ {s}, u \in Va : Cell(t, u)' = Cell(t, u)

LEMMA OthersKept ==
    ASSUME PagesInv, NEW s \in Spaces, shms' = shms, OthersSame(s), MemKept
    PROVE  OtherCells(s)
<1> SUFFICES ASSUME NEW t \in Spaces \ {s}, NEW u \in Va PROVE Cell(t, u)' = Cell(t, u)
  BY DEF OtherCells
<1>1. (t \in live' <=> t \in live) /\ pte'[t][u] = pte[t][u]
  BY DEF OthersSame
<1>2. pte[t][u] # Invalid => mem'[pte[t][u].frame] = mem[pte[t][u].frame]
  BY PagesUsed DEF UsedNotFree, Mapped, MemKept
<1> QED
  BY <1>1, <1>2, CellKept

LEMMA ObjectsKept ==
    ASSUME PagesInv, shms' = shms, MemKept
    PROVE  Object' = Object
<1>1. \A o \in Objs : shms[o] # NoFrame => mem'[shms[o]] = mem[shms[o]]
  BY PagesUsed DEF UsedNotFree, MemKept
<1> QED
  BY <1>1 DEF Object

\* One row of the images changes, or one page.
LEMMA RowChanges ==
    ASSUME NEW s \in Spaces, NEW row, OtherCells(s), [va \in Va |-> Cell(s, va)'] = row
    PROVE  Image' = [Image EXCEPT ![s] = row]
<1>1. Image' = [t \in Spaces |-> [va \in Va |-> Cell(t, va)']]
  BY DEF Image
<1>2. ASSUME NEW t \in Spaces
      PROVE  [va \in Va |-> Cell(t, va)'] = IF t = s THEN row ELSE Image[t]
  BY DEF OtherCells, Image
<1>3. [Image EXCEPT ![s] = row] = [t \in Spaces |-> IF t = s THEN row ELSE Image[t]]
  BY DEF Image
<1> QED
  BY <1>1, <1>2, <1>3

LEMMA PageChanges ==
    ASSUME NEW s \in Spaces, NEW va \in Va, NEW c, OtherCells(s), Cell(s, va)' = c,
           \A u \in Va \ {va} : Cell(s, u)' = Cell(s, u)
    PROVE  Image' = [Image EXCEPT ![s][va] = c]
<1> DEFINE row == [Image[s] EXCEPT ![va] = c]
<1>1. [u \in Va |-> Cell(s, u)'] = row
  <2>1. Image[s] = [u \in Va |-> Cell(s, u)]
    BY DEF Image
  <2>2. \A u \in Va : Cell(s, u)' = IF u = va THEN c ELSE Cell(s, u)
    OBVIOUS
  <2> QED
    BY <2>1, <2>2
<1> HIDE DEF row
<1>2. Image' = [Image EXCEPT ![s] = row]
  BY <1>1, RowChanges
<1> QED
  BY <1>2 DEF row

LEMMA ImagesKept ==
    ASSUME \A t \in Spaces, u \in Va : Cell(t, u)' = Cell(t, u)
    PROVE  Image' = Image
BY DEF Image

\* The steps of Memory, and the names that its instance gives things here.
LEMMA MemoryNames ==
    /\ Promise!Unmapped = [kind |-> "unmapped"] /\ Promise!Absent = [kind |-> "absent"]
    /\ \A v : Promise!Own(v) = [kind |-> "own", value |-> v]
    /\ \A o : Promise!Shared(o) = [kind |-> "shared", obj |-> o]
BY DEF Promise!Unmapped, Promise!Absent, Promise!Own, Promise!Shared

\* as_create_elf starts an image of its own pages.
LEMMA CreateIsStart ==
    ASSUME PagesInv, SharingInv, NEW s \in Spaces, Create(s)
    PROVE  Promise!Next
<1>1. /\ s \notin live /\ live' = live \cup {s} /\ shms' = shms
  BY ONLY Create(s) DEF Create
<1>2. Typed /\ PagesInv'
  BY PagesTyped, CreatePages
<1>3. Typed'
  BY <1>2 DEF PagesInv, TypeOK, Typed, EntryType, TlbType
<1>4. OthersSame(s)
  <2>1. \A t \in Spaces : t # s => pte'[t] = pte[t]
    BY <1>2 DEF Create, Typed
  <2> QED
    BY <1>1, <2>1 DEF OthersSame
<1>5. MemKept
  <2>1. PICK p \in Picks(DOMAIN Segments), c \in [DOMAIN Segments -> Values] : mem' =
           [f \in Frames |-> IF f \in Range(p) THEN c[CHOOSE va \in DOMAIN p : p[va] = f] ELSE mem[f]]
    BY ONLY Create(s), Zenon DEF Create
  <2>2. Range(p) \subseteq free
    BY ONLY PagesInv, <2>1, Picked
  <2> QED
    BY <2>1, <2>2 DEF MemKept
<1>6. OtherCells(s) /\ Object' = Object
  BY <1>1, <1>4, <1>5, OthersKept, ObjectsKept
<1> DEFINE row == [va \in Va |-> Cell(s, va)']
<1>7. ASSUME NEW va \in Va
      PROVE  Cell(s, va)' = [kind |-> "unmapped"]
             \/ \E v \in Values : Cell(s, va)' = [kind |-> "own", value |-> v]
  <2>1. pte'[s][va] = Invalid \/ (pte'[s][va].frame \in Frames /\ ~pte'[s][va].shared)
    <3>1. pte'[s][va] = Invalid \/ pte'[s][va].frame \in Frames
      BY <1>3 DEF Typed, Entries
    <3>2. PICK p : pte' = [pte EXCEPT ![s] = [u \in Va |->
               IF u \in DOMAIN Segments THEN Entry(p[u], Segments[u].w, Segments[u].x) ELSE Invalid]]
      BY DEF Create
    <3>3. pte'[s] = [u \in Va |->
               IF u \in DOMAIN Segments THEN Entry(p[u], Segments[u].w, Segments[u].x) ELSE Invalid]
      BY ONLY <1>2, <3>2, s \in Spaces DEF Typed
    <3>4. ~pte'[s][va].shared
      BY ONLY <3>3, va \in Va, InvalidEntry DEF Entry
    <3> QED
      BY <3>1, <3>4
  <2>2. \A f \in Frames : mem'[f] \in Values
    BY <1>3 DEF Typed
  <2> QED
    BY <1>1, <2>1, <2>2, CellIs DEF CellOf
<1>8. row \in [Va -> {Promise!Unmapped} \cup {Promise!Own(v) : v \in Values}]
  BY <1>7, MemoryNames
<1> HIDE DEF row
<1>9. Image' = [Image EXCEPT ![s] = row]
  BY <1>6, RowChanges DEF row
<1>10. Promise!Start(s, row)
  BY <1>1, <1>6, <1>9 DEF Promise!Start, Image, Object
<1> QED
  BY <1>8, <1>10 DEF Promise!Next

\* as_destroy ends it.
LEMMA DestroyIsExit ==
    ASSUME PagesInv, SharingInv, NEW s \in Spaces, Destroy(s)
    PROVE  Promise!Next
<1>1. s \in live /\ live' = live \ {s} /\ shms' = shms /\ mem' = mem
  BY DEF Destroy
<1>2. OthersSame(s) /\ MemKept
  <2>1. \A t \in Spaces : t # s => pte'[t] = pte[t]
    BY PagesTyped DEF Destroy, Typed
  <2> QED
    BY <1>1, <2>1 DEF OthersSame, MemKept
<1>3. OtherCells(s) /\ Object' = Object
  BY <1>1, <1>2, OthersKept, ObjectsKept
<1>4. [va \in Va |-> Cell(s, va)'] = [va \in Va |-> Promise!Unmapped]
  <2>1. \A va \in Va : Cell(s, va)' = Promise!Unmapped
    BY <1>1, CellIs, MemoryNames DEF CellOf
  <2> QED
    BY <2>1
<1>5. Image' = [Image EXCEPT ![s] = [va \in Va |-> Promise!Unmapped]]
  BY <1>3, <1>4, RowChanges
<1>6. Promise!Exit(s)
  BY <1>1, <1>3, <1>5 DEF Promise!Exit, Image, Object
<1> QED
  BY <1>6 DEF Promise!Next

\* as_clone copies it: the pages that become copy-on-write show what they did.
LEMMA CloneIsFork ==
    ASSUME PagesInv, SharingInv, NEW s \in Spaces, NEW c \in Spaces, Clone(s, c)
    PROVE  Promise!Next
<1>1. /\ s \in live /\ c \notin live /\ c # s /\ live' = live \cup {c} /\ shms' = shms /\ mem' = mem
      /\ pte' = [pte EXCEPT ![s] = [va \in Va |-> Cloned(pte[s][va])],
                            ![c] = [va \in Va |-> Cloned(pte[s][va])]]
  BY DEF Clone
<1>2. Typed
  BY PagesTyped
<1>3. /\ \A u \in Va : pte'[s][u] = Cloned(pte[s][u]) /\ pte'[c][u] = Cloned(pte[s][u])
      /\ \A t \in Spaces : t # s /\ t # c => pte'[t] = pte[t]
  BY <1>1, <1>2 DEF Typed
<1>4. ASSUME NEW u \in Va
      PROVE  LET e == pte[s][u] k == Cloned(e)
             IN k.frame = e.frame /\ k.shared = e.shared /\ (k = Invalid <=> e = Invalid)
  <2>1. pte[s][u] \in EntryType /\ (pte[s][u] = Invalid \/ pte[s][u].frame \in Frames)
    BY <1>2 DEF Typed, Entries
  <2> QED
    BY <2>1, ClonedEntry, Constants
<1>5. \A u \in Va : Cell(s, u)' = Cell(s, u) /\ Cell(c, u)' = Cell(s, u)
  <2>1. ASSUME NEW u \in Va, NEW k, k = Cloned(pte[s][u])
        PROVE  CellOf(TRUE, k, shms, mem) = CellOf(TRUE, pte[s][u], shms, mem)
    BY ONLY <1>4, <2>1 DEF CellOf
  <2>2. s \in live /\ s \in live' /\ c \in live' /\ shms' = shms /\ mem' = mem
    BY ONLY <1>1
  <2>3. ASSUME NEW t, t \in live', NEW u \in Va, pte'[t][u] = Cloned(pte[s][u])
        PROVE  Cell(t, u)' = Cell(s, u)
    <3>1. Cell(t, u)' = CellOf(TRUE, Cloned(pte[s][u]), shms, mem)
      BY ONLY <2>2, <2>3, CellIs
    <3>2. Cell(s, u) = CellOf(TRUE, pte[s][u], shms, mem)
      BY ONLY <2>2, CellIs
    <3> QED
      BY ONLY <3>1, <3>2, <2>1
  <2> QED
    BY ONLY <1>3, <2>2, <2>3
<1>6. ASSUME NEW t \in Spaces, t # s, t # c, NEW u \in Va PROVE Cell(t, u)' = Cell(t, u)
  <2>1. (t \in live' <=> t \in live) /\ pte'[t][u] = pte[t][u]
    BY <1>1, <1>3, <1>6
  <2> QED
    BY <1>1, <2>1, CellKept
<1>7. OtherCells(c)
  BY <1>5, <1>6 DEF OtherCells
<1>8. [va \in Va |-> Cell(c, va)'] = Image[s]
  BY <1>5 DEF Image
<1>9. Image' = [Image EXCEPT ![c] = Image[s]]
  BY <1>7, <1>8, RowChanges
<1>10. Object' = Object
  BY <1>1 DEF Object
<1>11. Promise!Fork(s, c)
  BY <1>1, <1>9, <1>10 DEF Promise!Fork, Image, Object
<1> QED
  BY <1>11 DEF Promise!Next

\* A store to a page that is not shared: it ends in a frame g that no other
\* page and no object has.
OwnFrame(s, va, g) ==
    /\ \A t \in Spaces, u \in Va : t # s \/ u # va => pte[t][u].frame # g /\ pte'[t][u] = pte[t][u]
    /\ \A o \in Objs : shms[o] # g
StoredIn(g, v) == mem'[g] = v /\ \A h \in Frames : h # g => mem'[h] = mem[h]

LEMMA PrivateStore ==
    ASSUME PagesInv, NEW s \in live, NEW va \in Va, NEW v \in Values, NEW g,
           Mapped(s, va), ~pte[s][va].shared,
           pte'[s][va] # Invalid, ~pte'[s][va].shared, pte'[s][va].frame = g,
           OwnFrame(s, va, g), StoredIn(g, v), live' = live, shms' = shms
    PROVE  Promise!Next
<1>0. Typed /\ s \in Spaces
  BY PagesTyped DEF Typed
<1>1. ASSUME NEW t \in Spaces, NEW u \in Va, t # s \/ u # va
      PROVE  Cell(t, u)' = Cell(t, u)
  <2>1. pte'[t][u] = pte[t][u] /\ pte[t][u].frame # g
    BY <1>1 DEF OwnFrame
  <2>2. pte[t][u] # Invalid => mem'[pte[t][u].frame] = mem[pte[t][u].frame]
    BY <1>0, <2>1 DEF Typed, Entries, StoredIn
  <2> QED
    BY <2>1, <2>2, CellKept
<1>2. Cell(s, va)' = Promise!Own(v)
  BY CellIs, MemoryNames DEF CellOf, StoredIn
<1>3. Cell(s, va).kind = "own"
  BY CellIs DEF CellOf, Mapped
<1>4. OtherCells(s) /\ \A u \in Va \ {va} : Cell(s, u)' = Cell(s, u)
  BY <1>0, <1>1 DEF OtherCells
<1>5. Image' = [Image EXCEPT ![s][va] = Promise!Own(v)]
  BY <1>0, <1>2, <1>4, PageChanges
<1>6. Object' = Object
  <2>1. \A o \in Objs : shms[o] # NoFrame => mem'[shms[o]] = mem[shms[o]]
    BY <1>0 DEF OwnFrame, StoredIn, Typed
  <2> QED
    BY <2>1 DEF Object
<1>7. Image[s][va].kind = "own"
  BY <1>0, <1>3 DEF Image
<1>8. Promise!Store(s, va, v)
  BY <1>5, <1>6, <1>7 DEF Promise!Store, Image, Object
<1> QED
  BY <1>0, <1>8 DEF Promise!Next

\* The CPU translates with what the table of the running space has.
LEMMA Current ==
    ASSUME PagesInv, TlbCoherent, NEW s \in live, NEW va \in Va, NEW e \in Translation(s, va)
    PROVE  Mapped(s, va) /\ e = Walk(s, va)
<1>1. CASE e \in Cached(s, va)
  <2>1. e \in tlb /\ e.asid = asid[s] /\ e.va = va
    BY <1>1 DEF Cached
  <2>2. PICK t \in live : asid[t] = e.asid /\ Mapped(t, e.va) /\ e = Walk(t, e.va)
    BY <2>1 DEF TlbCoherent
  <2>3. t = s
    BY <2>1, <2>2 DEF PagesInv, AsidsApart
  <2> QED
    BY <2>1, <2>2, <2>3
<1>2. CASE e \notin Cached(s, va)
  BY <1>2 DEF Translation
<1> QED
  BY <1>1, <1>2

LEMMA StoreIsStore ==
    ASSUME PagesInv, SharingInv, TlbCoherent, NEW s \in Spaces, NEW va \in Va, NEW v \in Values,
           Store(s, va, v)
    PROVE  Promise!Next
<1>1. s \in live /\ live' = live /\ pte' = pte /\ shms' = shms /\ Typed
  BY PagesTyped DEF Store
<1>2. PICK e \in Translation(s, va) : e.w /\ mem' = [mem EXCEPT ![e.frame] = v]
  BY DEF Store
<1>3. Mapped(s, va) /\ e = Walk(s, va)
  BY ONLY PagesInv, TlbCoherent, <1>1, <1>2, va \in Va, Current
<1> DEFINE k == pte[s][va]
           f == pte[s][va].frame
<1>4. k.w /\ mem' = [mem EXCEPT ![f] = v] /\ f \in Frames /\ f # NoFrame
  BY <1>1, <1>2, <1>3, Constants DEF Walk, Typed, Entries, Mapped
<1>5. StoredIn(f, v)
  BY <1>1, <1>4 DEF StoredIn, Typed
<1>6. \A t \in Spaces, u \in Va : Shares(pte[t][u], shms) /\ Alone(t, u)
  BY DEF SharingInv
<1>7. CASE ~k.shared
  <2>1. OwnFrame(s, va, f)
    <3>1. \A o \in Objs : shms[o] # f
      BY <1>4, <1>6, <1>7 DEF Shares
    <3>2. \A t \in Spaces, u \in Va : t # s \/ u # va => pte[t][u].frame # f
      BY <1>4, <1>6, <1>7 DEF Alone
    <3> QED
      BY <1>1, <3>1, <3>2 DEF OwnFrame
  <2> QED
    BY <1>1, <1>3, <1>5, <1>7, <2>1, PrivateStore DEF Mapped
<1>8. CASE k.shared
  <2>1. PICK o \in Objs : shms[o] = f
    BY <1>6, <1>8 DEF Shares
  <2>2. ObjectsApart(shms)
    BY DEF SharingInv
  <2>3. Holder(shms, f) = o
    BY <1>4, <2>1, <2>2, HolderIs
  <2>4. ASSUME NEW t \in Spaces, NEW u \in Va PROVE Cell(t, u)' = Cell(t, u)
    <3>1. pte[t][u] # Invalid /\ ~pte[t][u].shared => pte[t][u].frame # f /\ pte[t][u].frame \in Frames
      BY <1>1, <1>4, <1>6, <2>1 DEF Shares, Typed, Entries
    <3>2. pte[t][u] # Invalid /\ ~pte[t][u].shared => mem'[pte[t][u].frame] = mem[pte[t][u].frame]
      BY <1>5, <3>1 DEF StoredIn
    <3> QED
      BY <1>1, <3>2, CellKept
  <2>5. Image' = Image
    BY <2>4, ImagesKept
  <2>6. Object' = [Object EXCEPT ![o] = Promise!Own(v)]
    <3>1. ASSUME NEW q \in Objs
          PROVE  (IF shms'[q] = NoFrame THEN [kind |-> "absent"] ELSE [kind |-> "own", value |-> mem'[shms'[q]]])
                 = IF q = o THEN Promise!Own(v) ELSE Object[q]
      <4>1. CASE q = o
        BY <1>1, <1>4, <1>5, <2>1, <4>1, MemoryNames DEF StoredIn
      <4>2. CASE q # o
        <5>1. shms[q] = NoFrame \/ (shms[q] \in Frames /\ shms[q] # f)
          BY <1>1, <2>1, <2>2, <4>2 DEF ObjectsApart, Typed
        <5> QED
          BY <1>1, <1>5, <4>2, <5>1 DEF StoredIn, Object
      <4> QED
        BY <4>1, <4>2
    <3>2. Object' = [q \in Objs |-> IF q = o THEN Promise!Own(v) ELSE Object[q]]
      BY <3>1 DEF Object
    <3>3. [Object EXCEPT ![o] = Promise!Own(v)] = [q \in Objs |-> IF q = o THEN Promise!Own(v) ELSE Object[q]]
      BY DEF Object
    <3> QED
      BY ONLY <3>2, <3>3
  <2>7. Image[s][va].kind = "shared" /\ Image[s][va].obj = o
    <3>1. Cell(s, va) = [kind |-> "shared", obj |-> Holder(shms, f)]
      BY <1>1, <1>3, <1>8, CellIs DEF CellOf, Mapped
    <3> QED
      BY <2>3, <3>1 DEF Image
  <2>8. Promise!Store(s, va, v)
    BY <1>1, <2>5, <2>6, <2>7 DEF Promise!Store, Image, Object
  <2> QED
    BY <2>8 DEF Promise!Next
<1> QED
  BY <1>7, <1>8

\* The two ends of a copy-on-write fault.
LEMMA ReuseIsStore ==
    ASSUME PagesInv, SharingInv, NEW s \in Spaces, NEW va \in Va, NEW v \in Values, CowReuse(s, va, v)
    PROVE  Promise!Next
<1> DEFINE f == pte[s][va].frame
<1>1. /\ Faults(s, va) /\ SoleOwner(f) /\ live' = live /\ shms' = shms
      /\ pte' = [pte EXCEPT ![s][va] = Data(f)] /\ mem' = [mem EXCEPT ![f] = v]
  BY DEF CowReuse
<1>2. s \in live /\ pte[s][va].cow /\ pte[s][va] # Invalid /\ f \in Frames
  BY ONLY PagesInv, <1>1, s \in Spaces, va \in Va, Faulted
<1>3. /\ \A t \in Spaces, u \in Va : pte[t][u].frame = f => t = s /\ u = va
      /\ \A o \in Objs : shms[o] # f
  BY <1>1, <1>2, SoleOwners
<1>4. ~pte[s][va].shared /\ Mapped(s, va)
  BY <1>2 DEF SharingInv, Shares, Mapped
<1> HIDE DEF f
<1>5. Typed
  BY PagesTyped
<1>6. /\ pte'[s][va] = Data(f) /\ StoredIn(f, v)
      /\ \A t \in Spaces, u \in Va : t # s \/ u # va => pte'[t][u] = pte[t][u]
  BY <1>1, <1>2, <1>5 DEF StoredIn, Typed
<1>7. OwnFrame(s, va, f)
  BY <1>3, <1>6 DEF OwnFrame
<1>8. pte'[s][va] # Invalid /\ ~pte'[s][va].shared /\ pte'[s][va].frame = f
  BY <1>2, <1>6, EntriesTyped
<1> QED
  BY <1>1, <1>2, <1>4, <1>6, <1>7, <1>8, PrivateStore

LEMMA CopyIsStore ==
    ASSUME PagesInv, SharingInv, NEW s \in Spaces, NEW va \in Va, NEW v \in Values, CowCopy(s, va, v)
    PROVE  Promise!Next
<1>1. Faults(s, va) /\ live' = live /\ shms' = shms
  BY DEF CowCopy
<1>2. PICK g \in free : pte' = [pte EXCEPT ![s][va] = Data(g)] /\ mem' = [mem EXCEPT ![g] = v]
  BY DEF CowCopy
<1>3. s \in live /\ pte[s][va].cow /\ pte[s][va] # Invalid
  BY ONLY PagesInv, <1>1, s \in Spaces, va \in Va, Faulted
<1>4. ~pte[s][va].shared /\ Mapped(s, va)
  BY <1>3 DEF SharingInv, Shares, Mapped
<1>5. Typed /\ UsedNotFree /\ g \in Frames /\ NoFrame \notin Frames
  BY PagesTyped, PagesUsed, Constants DEF PagesInv, TypeOK
<1>6. /\ pte'[s][va] = Data(g) /\ StoredIn(g, v)
      /\ \A t \in Spaces, u \in Va : t # s \/ u # va => pte'[t][u] = pte[t][u]
  BY <1>2, <1>5 DEF StoredIn, Typed
<1>7. /\ \A t \in Spaces, u \in Va : pte[t][u].frame # g
      /\ \A o \in Objs : shms[o] # g
  <2>1. \A t \in Spaces, u \in Va : pte[t][u].frame = NoFrame \/ Mapped(t, u)
    BY InvalidEntry DEF Mapped
  <2> QED
    BY <1>5, <2>1 DEF UsedNotFree
<1>8. OwnFrame(s, va, g)
  BY <1>6, <1>7 DEF OwnFrame
<1>9. pte'[s][va] # Invalid /\ ~pte'[s][va].shared /\ pte'[s][va].frame = g
  BY <1>5, <1>6, EntriesTyped
<1> QED
  BY <1>1, <1>3, <1>4, <1>6, <1>8, <1>9, PrivateStore

\* munmap takes pages away.
LEMMA MunmapIsUnmap ==
    ASSUME PagesInv, SharingInv, NEW s \in Spaces, NEW a \in Va, NEW n \in Lens, Munmap(s, a, n)
    PROVE  Promise!Next
<1> DEFINE D == (a..(a + n - 1)) \cap Va
<1>1. /\ s \in live /\ live' = live /\ shms' = shms /\ mem' = mem
      /\ pte' = [pte EXCEPT ![s] = [u \in Va |-> IF u \in D THEN Invalid ELSE pte[s][u]]]
      /\ D \in SUBSET Va
  BY DEF Munmap
<1> HIDE DEF D
<1>2. /\ \A t \in Spaces : t # s => pte'[t] = pte[t]
      /\ \A u \in Va : pte'[s][u] = IF u \in D THEN Invalid ELSE pte[s][u]
  BY <1>1, PagesTyped DEF Typed
<1>3. OthersSame(s) /\ MemKept
  BY <1>1, <1>2 DEF OthersSame, MemKept
<1>4. OtherCells(s) /\ Object' = Object
  BY <1>1, <1>3, OthersKept, ObjectsKept
<1>5. ASSUME NEW u \in Va
      PROVE  Cell(s, u)' = IF u \in D THEN Promise!Unmapped ELSE Cell(s, u)
  <2>1. CASE u \in D
    BY <1>1, <1>2, <2>1, CellIs, MemoryNames DEF CellOf
  <2>2. CASE u \notin D
    BY <1>1, <1>2, <2>2, CellKept
  <2> QED
    BY <2>1, <2>2
<1>6. [u \in Va |-> Cell(s, u)'] = [u \in Va |-> IF u \in D THEN Promise!Unmapped ELSE Image[s][u]]
  BY <1>5 DEF Image
<1>7. Image' = [Image EXCEPT ![s] = [u \in Va |-> IF u \in D THEN Promise!Unmapped ELSE Image[s][u]]]
  BY <1>4, <1>6, RowChanges
<1>8. Promise!Unmap(s, D)
  BY <1>1, <1>4, <1>7 DEF Promise!Unmap, Image, Object
<1> QED
  BY <1>1, <1>8 DEF Promise!Next

\* brk and mmap bring in zeroed pages where there were none.
LEMMA FreshIsGrow ==
    ASSUME PagesInv, SharingInv, NEW s \in live, NEW base \in Nat, NEW k \in Nat,
           base..(base + k - 1) \subseteq Va,
           MapFresh(s, base, k), live' = live, shms' = shms,
           \A va \in base..(base + k - 1) : ~Mapped(s, va)
    PROVE  Promise!Next
<1> DEFINE D == base..(base + k - 1)
<1>1. PICK p \in Picks(D) :
         /\ pte' = [pte EXCEPT ![s] = [va \in Va |-> IF va \in DOMAIN p THEN Data(p[va]) ELSE pte[s][va]]]
         /\ mem' = [f \in Frames |-> IF f \in Range(p) THEN Zero ELSE mem[f]]
  BY DEF MapFresh
<1>2. /\ DOMAIN p = D /\ Range(p) \subseteq free /\ \A va \in D : p[va] \in Frames
  BY ONLY PagesInv, <1>1, Picked
<1>3. D \in SUBSET Va /\ \A va \in D : ~Mapped(s, va)
  OBVIOUS
<1> HIDE DEF D
<1>4. Typed /\ s \in Spaces /\ SharingInv
  BY PagesTyped DEF Typed
<1>5. /\ \A t \in Spaces : t # s => pte'[t] = pte[t]
      /\ \A u \in Va : pte'[s][u] = IF u \in D THEN Data(p[u]) ELSE pte[s][u]
  BY <1>1, <1>2, <1>4 DEF Typed
<1>6. MemKept /\ OthersSame(s)
  BY <1>1, <1>2, <1>5 DEF MemKept, OthersSame
<1>7. OtherCells(s) /\ Object' = Object
  BY <1>4, <1>6, OthersKept, ObjectsKept
<1>8. ASSUME NEW u \in Va
      PROVE  Cell(s, u)' = IF u \in D THEN Promise!Own(Zero) ELSE Cell(s, u)
  <2>1. CASE u \in D
    <3>1. pte'[s][u] = Data(p[u]) /\ p[u] \in Range(p) /\ p[u] \in Frames
      BY <1>2, <1>5, <2>1 DEF Range
    <3>2. mem'[p[u]] = Zero
      BY <1>1, <3>1
    <3>3. pte'[s][u] # Invalid /\ ~pte'[s][u].shared /\ pte'[s][u].frame = p[u]
      BY <3>1, EntriesTyped
    <3> QED
      BY <2>1, <3>2, <3>3, CellIs, MemoryNames DEF CellOf
  <2>2. CASE u \notin D
    <3>1. pte'[s][u] = pte[s][u]
      BY <1>5, <2>2
    <3>2. pte[s][u] # Invalid => mem'[pte[s][u].frame] = mem[pte[s][u].frame]
      BY <1>4, <1>6, PagesUsed DEF UsedNotFree, Mapped, MemKept
    <3> QED
      BY <1>4, <2>2, <3>1, <3>2, CellKept
  <2> QED
    BY <2>1, <2>2
<1>9. [u \in Va |-> Cell(s, u)'] = [u \in Va |-> IF u \in D THEN Promise!Own(Zero) ELSE Image[s][u]]
  BY <1>4, <1>8 DEF Image
<1>10. Image' = [Image EXCEPT ![s] = [u \in Va |-> IF u \in D THEN Promise!Own(Zero) ELSE Image[s][u]]]
  BY <1>4, <1>7, <1>9, RowChanges
<1>11. \A u \in D : Image[s][u] = Promise!Unmapped
  BY <1>3, <1>4, CellIs, MemoryNames DEF CellOf, Mapped, Image
<1>12. Promise!Grow(s, D)
  BY <1>7, <1>10, <1>11 DEF Promise!Grow, Image, Object
<1> QED
  BY <1>3, <1>4, <1>12 DEF Promise!Next

\* shm_map attaches the object.
LEMMA ShmMapIsAttach ==
    ASSUME PagesInv, SharingInv, NEW s \in Spaces, NEW o \in Objs, ShmMap(s, o),
           ~Mapped(s, mmap_next[s])
    PROVE  Promise!Next
<1>a. PICK a \in Va : a = mmap_next[s]
  BY ShmMapPages
<1>1. /\ s \in live /\ live' = live /\ shms' = shms /\ mem' = mem
      /\ pte' = [pte EXCEPT ![s][a] = SharedEntry(shms[o])] /\ shms[o] # NoFrame
      /\ ~Mapped(s, a)
  BY <1>a DEF ShmMap
<1>2. Typed /\ shms[o] \in Frames /\ ObjectsApart(shms)
  BY <1>1, PagesTyped DEF Typed, SharingInv
<1>3. /\ pte'[s][a] = SharedEntry(shms[o])
      /\ \A t \in Spaces, u \in Va : t # s \/ u # a => pte'[t][u] = pte[t][u]
  BY <1>1, <1>2 DEF Typed
<1>4. Cell(s, a)' = Promise!Shared(o)
  <2>1. Holder(shms, shms[o]) = o
    BY <1>1, <1>2, HolderIs
  <2>2. /\ pte'[s][a] # Invalid /\ pte'[s][a].shared /\ pte'[s][a].frame = shms[o]
    BY <1>2, <1>3, EntriesTyped
  <2> QED
    BY <1>1, <2>1, <2>2, CellIs, MemoryNames DEF CellOf
<1>5. ASSUME NEW t \in Spaces, NEW u \in Va, t # s \/ u # a PROVE Cell(t, u)' = Cell(t, u)
  BY <1>1, <1>3, <1>5, CellKept
<1>6. OtherCells(s) /\ \A u \in Va \ {a} : Cell(s, u)' = Cell(s, u)
  BY <1>5 DEF OtherCells
<1>7. Image' = [Image EXCEPT ![s][a] = Promise!Shared(o)]
  BY <1>1, <1>4, <1>6, PageChanges
<1>8. Object' = Object
  BY <1>1 DEF Object
<1>9. Image[s][a] = Promise!Unmapped /\ Object[o] # Promise!Absent
  <2>1. Cell(s, a) = Promise!Unmapped
    BY <1>1, CellIs, MemoryNames DEF CellOf, Mapped
  <2>2. Object[o] # Promise!Absent
    <3>1. Object[o].kind = "own" /\ Promise!Absent.kind = "absent"
      BY <1>1, MemoryNames DEF Object
    <3> QED
      BY <3>1
  <2> QED
    BY <1>1, <2>1, <2>2 DEF Image
<1>10. Promise!Attach(s, a, o)
  BY <1>1, <1>7, <1>8, <1>9 DEF Promise!Attach, Image, Object
<1> QED
  BY <1>1, <1>10 DEF Promise!Next

\* shm_create makes one, zeroed.
LEMMA ShmCreateIsNewObject ==
    ASSUME PagesInv, SharingInv, NEW o \in Objs, ShmCreate(o)
    PROVE  Promise!Next
<1>1. PICK g \in free : shms' = [shms EXCEPT ![o] = g] /\ mem' = [mem EXCEPT ![g] = Zero]
  BY DEF ShmCreate
<1>2. /\ shms[o] = NoFrame /\ live' = live /\ pte' = pte
  BY DEF ShmCreate
<1>3. Typed /\ UsedNotFree /\ g \in Frames /\ NoFrame \notin Frames /\ free \subseteq Frames
  BY PagesTyped, PagesUsed, Constants DEF PagesInv, TypeOK
<1>4. /\ shms'[o] = g /\ mem'[g] = Zero
      /\ \A q \in Objs : q # o => shms'[q] = shms[q]
      /\ \A f \in Frames \ free : mem'[f] = mem[f]
  BY <1>1, <1>3 DEF Typed
<1>5. Object' = [Object EXCEPT ![o] = Promise!Own(Zero)]
  <2>1. ASSUME NEW q \in Objs
        PROVE  (IF shms'[q] = NoFrame THEN [kind |-> "absent"] ELSE [kind |-> "own", value |-> mem'[shms'[q]]])
               = IF q = o THEN Promise!Own(Zero) ELSE Object[q]
    <3>1. CASE q = o
      BY <1>3, <1>4, <3>1, MemoryNames
    <3>2. CASE q # o
      <4>1. shms[q] # NoFrame => mem'[shms[q]] = mem[shms[q]]
        BY <1>3, <1>4 DEF UsedNotFree
      <4> QED
        BY <1>4, <3>2, <4>1 DEF Object
    <3> QED
      BY <3>1, <3>2
  <2>2. Object' = [q \in Objs |-> IF q = o THEN Promise!Own(Zero) ELSE Object[q]]
    BY <2>1 DEF Object
  <2>3. [Object EXCEPT ![o] = Promise!Own(Zero)] = [q \in Objs |-> IF q = o THEN Promise!Own(Zero) ELSE Object[q]]
    BY DEF Object
  <2> QED
    BY ONLY <2>2, <2>3
<1>6. ASSUME NEW t \in Spaces, NEW u \in Va PROVE Cell(t, u)' = Cell(t, u)
  <2> DEFINE e == pte[t][u]
  <2>1. e # Invalid => e.frame \in Frames \ free
    BY <1>3 DEF UsedNotFree, Mapped
  <2>2. e # Invalid => mem'[e.frame] = mem[e.frame]
    BY <1>4, <2>1
  <2>3. e.shared /\ e # Invalid => Holder(shms', e.frame) = Holder(shms, e.frame)
    <3>1. SUFFICES ASSUME e.shared, e # Invalid PROVE Holder(shms', e.frame) = Holder(shms, e.frame)
      OBVIOUS
    <3>2. PICK q \in Objs : shms[q] = e.frame
      BY <3>1 DEF SharingInv, Shares
    <3>3. e.frame # NoFrame /\ q # o /\ shms'[q] = e.frame
      BY <1>2, <1>3, <1>4, <2>1, <3>1, <3>2
    <3>4. ObjectsApart(shms) /\ ObjectsApart(shms')
      BY ShmCreateSharing DEF SharingInv
    <3>5. Holder(shms, shms[q]) = q
      BY <3>2, <3>3, <3>4, HolderIs
    <3>6. Holder(shms', shms'[q]) = q
      <4> DEFINE S == shms'
      <4>1. ObjectsApart(S) /\ q \in Objs /\ S[q] # NoFrame
        BY <3>2, <3>3, <3>4
      <4> HIDE DEF S
      <4>2. Holder(S, S[q]) = q
        BY ONLY <4>1, HolderIs
      <4> QED
        BY <4>2 DEF S
    <3> QED
      BY <3>2, <3>3, <3>5, <3>6
  <2> QED
    BY <1>2, <2>2, <2>3, CellIs DEF CellOf
<1>7. Image' = Image
  BY <1>6, ImagesKept
<1>8. Object[o] = Promise!Absent
  BY <1>2, MemoryNames DEF Object
<1>9. Promise!NewObject(o)
  BY <1>2, <1>5, <1>7, <1>8 DEF Promise!NewObject, Image, Object
<1> QED
  BY <1>9 DEF Promise!Next

\* Steps that only move translations.
LEMMA StillIsLoad ==
    ASSUME pte' = pte, mem' = mem, shms' = shms, live' = live
    PROVE  UNCHANGED Promise!vars
<1>1. \A t \in Spaces, u \in Va : Cell(t, u)' = Cell(t, u)
  BY CellIs
<1>2. Image' = Image /\ Object' = Object
  BY <1>1, ImagesKept DEF Object
<1> QED
  BY <1>2 DEF Promise!vars, Image, Object

LEMMA MemoryNext ==
    ASSUME PagesInv, SharingInv, TlbCoherent, Next \/ UNCHANGED vars, MapsFree
    PROVE  Promise!Next \/ UNCHANGED Promise!vars
<1>0. Typed
  BY PagesTyped
<1>1. ASSUME NEW s \in Spaces, Create(s) PROVE Promise!Next
  BY <1>1, CreateIsStart
<1>2. ASSUME NEW s \in Spaces, Destroy(s) PROVE Promise!Next
  BY <1>2, DestroyIsExit
<1>3. ASSUME NEW s \in Spaces, NEW c \in Spaces, Clone(s, c) PROVE Promise!Next
  BY <1>3, CloneIsFork
<1>4. ASSUME NEW s \in Spaces, NEW va \in Va, Load(s, va) PROVE UNCHANGED Promise!vars
  BY <1>4, StillIsLoad DEF Load, frameVars
<1>5. ASSUME NEW s \in Spaces, NEW va \in Va, NEW v \in Values, Store(s, va, v) PROVE Promise!Next
  BY <1>5, StoreIsStore
<1>6. ASSUME NEW s \in Spaces, NEW va \in Va, NEW v \in Values, CowReuse(s, va, v) PROVE Promise!Next
  BY <1>6, ReuseIsStore
<1>7. ASSUME NEW s \in Spaces, NEW va \in Va, NEW v \in Values, CowCopy(s, va, v) PROVE Promise!Next
  BY <1>7, CopyIsStore
<1>8. ASSUME NEW s \in Spaces, NEW va \in Va, NEW n \in Lens, Munmap(s, va, n) PROVE Promise!Next
  BY <1>8, MunmapIsUnmap
<1>9. ASSUME NEW s \in Spaces, NEW n \in Lens, Sbrk(s, n) PROVE Promise!Next
  <2>1. /\ MapFresh(s, heap_end[s], Obtained(n)) /\ shms' = shms /\ live' = live /\ s \in live
        /\ heap_end[s] \in Nat \ {0} /\ heap_end[s] + n <= MmapBase
    BY <1>0, <1>9 DEF Sbrk, Typed, Pointers
  <2>2. Obtained(n) \in Nat /\ Obtained(n) <= n /\ n \in Nat /\ MmapBase \in Nat /\ MmapBase <= LastVa
        /\ LastVa \in Nat
    BY ObtainedSome, ConstAssumption DEF Va
  <2>3. heap_end[s]..(heap_end[s] + Obtained(n) - 1) \subseteq Va
    BY <2>1, <2>2 DEF Va
  <2>4. \A va \in heap_end[s]..(heap_end[s] + Obtained(n) - 1) : ~Mapped(s, va)
    BY <1>9, <2>1 DEF MapsFree
  <2> QED
    BY <2>1, <2>2, <2>3, <2>4, FreshIsGrow
<1>10. ASSUME NEW s \in Spaces, NEW n \in Lens, Mmap(s, n) PROVE Promise!Next
  <2>1. /\ MapFresh(s, mmap_next[s], Obtained(n)) /\ shms' = shms /\ live' = live /\ s \in live
        /\ mmap_next[s] \in Nat \ {0} /\ mmap_next[s] + n - 1 <= LastVa
    BY <1>0, <1>10 DEF Mmap, Typed, Pointers
  <2>2. Obtained(n) \in Nat /\ Obtained(n) <= n /\ n \in Nat /\ LastVa \in Nat
    BY ObtainedSome, ConstAssumption
  <2>3. mmap_next[s]..(mmap_next[s] + Obtained(n) - 1) \subseteq Va
    BY <2>1, <2>2 DEF Va
  <2>4. \A va \in mmap_next[s]..(mmap_next[s] + Obtained(n) - 1) : ~Mapped(s, va)
    BY <1>10, <2>1 DEF MapsFree
  <2> QED
    BY <2>1, <2>2, <2>3, <2>4, FreshIsGrow
<1>11. ASSUME NEW s \in Spaces, NEW o \in Objs, ShmMap(s, o) PROVE Promise!Next
  <2>1. ~Mapped(s, mmap_next[s])
    BY <1>11 DEF MapsFree, ShmMap
  <2> QED
    BY <1>11, <2>1, ShmMapIsAttach
<1>12. ASSUME NEW o \in Objs, ShmCreate(o) PROVE Promise!Next
  BY <1>12, ShmCreateIsNewObject
<1>13. ASSUME UNCHANGED vars PROVE UNCHANGED Promise!vars
  BY <1>13, StillIsLoad DEF vars, frameVars
<1> QED
  BY <1>1, <1>2, <1>3, <1>4, <1>5, <1>6, <1>7, <1>8, <1>9, <1>10, <1>11, <1>12, <1>13 DEF Next

LEMMA MemoryInit == Init => Promise!Init
<1> SUFFICES ASSUME Init PROVE Promise!Init
  OBVIOUS
<1>1. \A s \in Spaces, va \in Va : Cell(s, va) = Promise!Unmapped
  BY CellIs, MemoryNames DEF Init, CellOf
<1>2. Image = [s \in Spaces |-> [va \in Va |-> Promise!Unmapped]]
  BY <1>1 DEF Image
<1>3. Object = [o \in Objs |-> Promise!Absent]
  BY MemoryNames DEF Init, Object
<1> QED
  BY <1>2, <1>3 DEF Init, Promise!Init, Image, Object

\* The address spaces of vm.c implement Memory wherever no mapping call lands
\* on a mapped page: fork copies an image whatever is copied late, a store is
\* seen by nobody else unless the page is shared, and no page is lost.
THEOREM VmImplementsMemory == Spec /\ [][MapsFree]_vars => IsMemory
<1>1. ASSUME PagesInv, SharingInv, TlbCoherent, [Next]_vars, [MapsFree]_vars
      PROVE  [Promise!Next]_(Promise!vars)
  <2>1. CASE MapsFree
    BY <1>1, <2>1, MemoryNext
  <2>2. CASE UNCHANGED vars
    BY <2>2, StillIsLoad DEF vars, frameVars
  <2> QED
    BY <1>1, <2>1, <2>2
<1> QED
  BY <1>1, MemoryInit, PagesAlways, SharingAlways, TlbCoherentAlways, PTL DEF Spec, IsMemory, Promise!Spec

\* The same for the instances that the runs check, without a condition.
THEOREM OnePageImplementsMemory ==
    ASSUME OnePageLayout
    PROVE  Spec => IsMemory
BY OnePageMapsFree, VmImplementsMemory, PTL
=============================================================================
