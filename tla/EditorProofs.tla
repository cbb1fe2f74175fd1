---------------------------- MODULE EditorProofs ----------------------------
(***************************************************************************)
(* Proofs about the editor in the Lisp machine, src/rd_core.c.             *)
(*  - The text buffer of Text implements Styled, for any store, table and  *)
(*    characters.                                                          *)
(*  - The window tree of Windows stays a tree, nothing of the pool is      *)
(*    lost, and it implements WindowRow, for a pool of any size.           *)
(***************************************************************************)
EXTENDS Text, Windows, Counting, SequenceTheorems

----------------------------------------------------------------------------
(* The table of intervals.  It is sorted, its intervals are not empty and  *)
(* do not overlap; so at most one lies over a position and gives it its    *)
(* properties.                                                             *)

Plists == UNION {[D -> PropVals] : D \in SUBSET PropKeys}
Interval == [start : Nat, end : Nat, plist : Plists]
Table(iv, n) ==
    /\ iv \in Seq(Interval)
    /\ \A i \in DOMAIN iv : iv[i].start < iv[i].end /\ iv[i].end <= n
    /\ \A i, j \in DOMAIN iv : i < j => iv[i].end <= iv[j].start

Over(v, p) == v.start <= p /\ p < v.end
PropsIn(iv, p) ==
    LET over == {i \in DOMAIN iv : Over(iv[i], p)}
    IN IF over = {} THEN Plain ELSE iv[CHOOSE i \in over : \A j \in over : i <= j].plist

\* The properties at a position are those of the table there.
LEMMA PropsAtIs == \A p : PropsAt(p) = PropsIn(ivals, p)
  BY DEF PropsAt, PropsIn, Over

\* The fields of an interval.
LEMMA IntervalFields ==
    ASSUME NEW s \in Nat, NEW e \in Nat, NEW x \in Plists
    PROVE  Ival(s, e, x) \in Interval /\ Ival(s, e, x).start = s
           /\ Ival(s, e, x).end = e /\ Ival(s, e, x).plist = x
  BY DEF Ival, Interval

\* Any two positions and a property list make an interval.
LEMMA IntervalTyped ==
    ASSUME NEW v \in Interval
    PROVE  v.start \in Nat /\ v.end \in Nat /\ v.plist \in Plists
  BY DEF Interval

\* What a table is, index by index.
LEMMA TableIs ==
    ASSUME NEW n, NEW iv, Table(iv, n)
    PROVE  /\ Len(iv) \in Nat /\ DOMAIN iv = 1 .. Len(iv)
           /\ \A i \in 1 .. Len(iv) : /\ iv[i] \in Interval
                                      /\ iv[i].start \in Nat /\ iv[i].end \in Nat /\ iv[i].plist \in Plists
                                      /\ iv[i].start < iv[i].end /\ iv[i].end <= n
           /\ \A i, j \in 1 .. Len(iv) : i < j => iv[i].end <= iv[j].start
<1>1. iv \in Seq(Interval)
  BY DEF Table
<1>2. Len(iv) \in Nat /\ DOMAIN iv = 1 .. Len(iv) /\ \A i \in 1 .. Len(iv) : iv[i] \in Interval
  BY <1>1
<1>3. \A i \in 1 .. Len(iv) : iv[i].start \in Nat /\ iv[i].end \in Nat /\ iv[i].plist \in Plists
  BY <1>2, IntervalTyped
<1> QED
  BY <1>2, <1>3 DEF Table

\* An interval over p gives it its properties.
LEMMA PropsThere ==
    ASSUME NEW n, NEW iv, Table(iv, n), NEW p \in Nat, NEW i \in 1 .. Len(iv), Over(iv[i], p)
    PROVE  PropsIn(iv, p) = iv[i].plist
<1> DEFINE over == {k \in DOMAIN iv : Over(iv[k], p)}
<1>1. i \in over
  BY TableIs
<1>2. ASSUME NEW k \in over PROVE k = i
  <2>1. k \in 1 .. Len(iv) /\ Over(iv[k], p)
    BY TableIs
  <2>2. k \in Nat /\ i \in Nat
    BY <2>1, TableIs
  <2>3. ~(k < i) /\ ~(i < k)
    BY <2>1, <2>2, TableIs DEF Over
  <2> QED
    BY <2>2, <2>3
<1>3. over = {i} /\ i <= i
  BY <1>1, <1>2, TableIs
<1>4. (CHOOSE k \in over : \A j \in over : k <= j) = i
  BY <1>3
<1> QED
  BY <1>1, <1>4 DEF PropsIn

\* Where none lies there are no properties.
LEMMA PropsNone ==
    ASSUME NEW iv, NEW p, \A i \in DOMAIN iv : ~Over(iv[i], p)
    PROVE  PropsIn(iv, p) = Plain
  BY DEF PropsIn

\* Position q of table jv has the properties of position p of table iv, or
\* what f makes of them, when the intervals over them do.
LEMMA PropsCarried ==
    ASSUME NEW n, NEW m, NEW iv, NEW jv, Table(iv, n), Table(jv, m), NEW p \in Nat, NEW q \in Nat,
           \A j \in 1 .. Len(jv) : Over(jv[j], q) =>
             \E i \in 1 .. Len(iv) : Over(iv[i], p) /\ iv[i].plist = jv[j].plist,
           \A i \in 1 .. Len(iv) : Over(iv[i], p) => \E j \in 1 .. Len(jv) : Over(jv[j], q)
    PROVE  PropsIn(jv, q) = PropsIn(iv, p)
<1>1. CASE \E j \in 1 .. Len(jv) : Over(jv[j], q)
  <2>1. PICK j \in 1 .. Len(jv) : Over(jv[j], q)
    BY <1>1
  <2>2. PICK i \in 1 .. Len(iv) : Over(iv[i], p) /\ iv[i].plist = jv[j].plist
    BY <2>1
  <2> QED
    BY <2>1, <2>2, PropsThere
<1>2. CASE ~\E j \in 1 .. Len(jv) : Over(jv[j], q)
  <2>1. DOMAIN jv = 1 .. Len(jv) /\ DOMAIN iv = 1 .. Len(iv)
    BY TableIs
  <2> QED
    BY <1>2, <2>1, PropsNone
<1> QED
  BY <1>1, <1>2

\* The same for one position of two tables of a document.
LEMMA PropsKept ==
    ASSUME NEW n, NEW iv, NEW jv, Table(iv, n), Table(jv, n), NEW p \in Nat,
           \A j \in 1 .. Len(jv) : Over(jv[j], p) =>
             \E i \in 1 .. Len(iv) : Over(iv[i], p) /\ iv[i].plist = jv[j].plist,
           \A i \in 1 .. Len(iv) : Over(iv[i], p) => \E j \in 1 .. Len(jv) : Over(jv[j], p)
    PROVE  PropsIn(jv, p) = PropsIn(iv, p)
  BY PropsCarried, SMTT(40)

----------------------------------------------------------------------------
(* Changes of properties.                                                  *)

\* Property lists by their keys; an empty one is one.
LEMMA PlistIs == \A x : x \in Plists <=> \E D \in SUBSET PropKeys : x \in [D -> PropVals]
  BY DEF Plists

LEMMA PlainPlist == Plain \in Plists
<1>1. Plain \in [{} -> PropVals]
  BY DEF Plain
<1> QED
  BY <1>1, PlistIs

\* A change makes properties of properties.
LEMMA ChangedPlist ==
    ASSUME NEW c \in Changes, NEW x \in Plists
    PROVE  Changed(c, x) \in Plists
<1>1. PICK D \in SUBSET PropKeys : x \in [D -> PropVals]
  BY PlistIs
<1>2. \/ c.how \in {"put", "remove"} /\ c.plist \in One
      \/ c.how = "set" /\ c.plist \in {Plain} \cup [PropKeys -> PropVals]
  BY DEF Changes
<1>3. CASE c.how = "put"
  <2>1. PICK k \in PropKeys : c.plist \in [{k} -> PropVals]
    BY <1>2, <1>3 DEF One
  <2>2. Overlaid(x, c.plist) \in [D \cup {k} -> PropVals]
    BY <1>1, <2>1 DEF Overlaid
  <2>3. D \cup {k} \in SUBSET PropKeys
    OBVIOUS
  <2> QED
    BY <1>3, <2>2, <2>3, PlistIs DEF Changed
<1>4. CASE c.how = "set"
  <2>1. c.plist \in Plists
    BY <1>2, <1>4, PlistIs, PlainPlist
  <2> QED
    BY <1>4, <2>1 DEF Changed
<1>5. CASE c.how = "remove"
  <2>1. [k \in DOMAIN x \ DOMAIN c.plist |-> x[k]] \in [D \ DOMAIN c.plist -> PropVals]
    BY <1>1
  <2>2. D \ DOMAIN c.plist \in SUBSET PropKeys
    OBVIOUS
  <2>3. Changed(c, x) = [k \in DOMAIN x \ DOMAIN c.plist |-> x[k]]
    BY <1>5 DEF Changed
  <2> QED
    BY <2>1, <2>2, <2>3, PlistIs
<1> QED
  BY <1>2, <1>3, <1>4, <1>5

----------------------------------------------------------------------------
(* Changes of the table.                                                   *)

\* One more interval between two neighbours.
LEMMA Inserting ==
    ASSUME NEW iv \in Seq(Interval), NEW v \in Interval, NEW i \in 1 .. Len(iv) + 1
    PROVE  /\ InsertAt(iv, i, v) \in Seq(Interval)
           /\ Len(InsertAt(iv, i, v)) = Len(iv) + 1
           /\ InsertAt(iv, i, v)[i] = v
           /\ \A k \in 1 .. Len(iv) + 1 : k < i => InsertAt(iv, i, v)[k] = iv[k]
           /\ \A k \in 1 .. Len(iv) + 1 : i < k => InsertAt(iv, i, v)[k] = iv[k - 1]
<1> DEFINE a == SubSeq(iv, 1, i - 1)
           b == SubSeq(iv, i, Len(iv))
<1>1. a \in Seq(Interval) /\ Len(a) = i - 1 /\ \A k \in 1 .. i - 1 : a[k] = iv[k]
  OBVIOUS
<1>2. b \in Seq(Interval) /\ Len(b) = Len(iv) - i + 1 /\ \A k \in 1 .. Len(iv) - i + 1 : b[k] = iv[k + i - 1]
  OBVIOUS
<1>3. InsertAt(iv, i, v) = a \o <<v>> \o b
  BY DEF InsertAt
<1> HIDE DEF a, b
<1>4. a \o <<v>> \in Seq(Interval) /\ Len(a \o <<v>>) = i
      /\ (a \o <<v>>)[i] = v /\ \A k \in 1 .. i - 1 : (a \o <<v>>)[k] = iv[k]
  BY <1>1
<1> DEFINE av == a \o <<v>>
<1>5. InsertAt(iv, i, v) = av \o b
  BY <1>3
<1>6. av \in Seq(Interval) /\ Len(av) = i /\ av[i] = v /\ \A k \in 1 .. i - 1 : av[k] = iv[k]
  BY <1>4
<1> HIDE DEF av
<1>7. Len(av \o b) = Len(iv) + 1 /\ av \o b \in Seq(Interval)
  <2>1. av \o b \in Seq(Interval) /\ Len(av \o b) = Len(av) + Len(b)
    BY <1>2, <1>6, ConcatProperties
  <2>2. Len(iv) \in Nat /\ Len(av) = i /\ Len(b) = Len(iv) - i + 1
    BY <1>2, <1>6
  <2> QED
    BY <2>1, <2>2
<1>8. \A k \in 1 .. i : (av \o b)[k] = av[k]
  BY <1>2, <1>6
<1>9. ASSUME NEW k \in 1 .. Len(iv) + 1, i < k PROVE (av \o b)[k] = iv[k - 1]
  <2>1. (av \o b)[k] = b[k - i]
    BY <1>2, <1>6, <1>9
  <2>2. k - i \in 1 .. Len(iv) - i + 1 /\ (k - i) + i - 1 = k - 1
    BY <1>9
  <2> QED
    BY <1>2, <2>1, <2>2
<1> QED
  BY <1>5, <1>6, <1>7, <1>8, <1>9

\* One interval less.
LEMMA Removing ==
    ASSUME NEW iv \in Seq(Interval), NEW i \in 1 .. Len(iv)
    PROVE  /\ RemoveAt(iv, i) \in Seq(Interval)
           /\ Len(RemoveAt(iv, i)) = Len(iv) - 1
           /\ \A k \in 1 .. Len(iv) - 1 : k < i => RemoveAt(iv, i)[k] = iv[k]
           /\ \A k \in 1 .. Len(iv) - 1 : i <= k => RemoveAt(iv, i)[k] = iv[k + 1]
<1> DEFINE a == SubSeq(iv, 1, i - 1)
           b == SubSeq(iv, i + 1, Len(iv))
<1>1. a \in Seq(Interval) /\ Len(a) = i - 1 /\ \A k \in 1 .. i - 1 : a[k] = iv[k]
  OBVIOUS
<1>2. b \in Seq(Interval) /\ Len(b) = Len(iv) - i /\ \A k \in 1 .. Len(iv) - i : b[k] = iv[k + i]
  OBVIOUS
<1>3. RemoveAt(iv, i) = a \o b
  BY DEF RemoveAt
<1> HIDE DEF a, b
<1>4. Len(a \o b) = Len(iv) - 1 /\ a \o b \in Seq(Interval)
  <2>1. a \o b \in Seq(Interval) /\ Len(a \o b) = Len(a) + Len(b)
    BY <1>1, <1>2, ConcatProperties
  <2>2. Len(iv) \in Nat /\ Len(a) = i - 1 /\ Len(b) = Len(iv) - i
    BY <1>1, <1>2
  <2> QED
    BY <2>1, <2>2
<1>5. \A k \in 1 .. i - 1 : (a \o b)[k] = a[k]
  BY <1>1, <1>2
<1>6. ASSUME NEW k \in 1 .. Len(iv) - 1, i <= k PROVE (a \o b)[k] = iv[k + 1]
  <2>1. (a \o b)[k] = b[k - (i - 1)]
    BY <1>1, <1>2, <1>6
  <2>2. k - (i - 1) \in 1 .. Len(iv) - i /\ (k - (i - 1)) + i = k + 1
    BY <1>6
  <2> QED
    BY <1>2, <2>1, <2>2
<1>7. ASSUME NEW k \in 1 .. Len(iv) - 1, k < i PROVE (a \o b)[k] = iv[k]
  <2>1. k \in 1 .. i - 1
    BY <1>7
  <2> QED
    BY <2>1, <1>1, <1>5
<1> QED
  BY <1>3, <1>4, <1>6, <1>7

\* An interval put between its neighbours leaves a table.
LEMMA InsertedTable ==
    ASSUME NEW n \in Nat, NEW iv, Table(iv, n), NEW v \in Interval, v.start < v.end, v.end <= n,
           NEW i \in 1 .. Len(iv) + 1,
           \A k \in 1 .. i - 1 : iv[k].end <= v.start,
           i <= Len(iv) => v.end <= iv[i].start
    PROVE  Table(InsertAt(iv, i, v), n)
<1> DEFINE jv == InsertAt(iv, i, v)
<1>1. iv \in Seq(Interval) /\ Len(iv) \in Nat
  BY DEF Table
<1>2. /\ jv \in Seq(Interval) /\ Len(jv) = Len(iv) + 1 /\ jv[i] = v
      /\ \A k \in 1 .. Len(iv) + 1 : k < i => jv[k] = iv[k]
      /\ \A k \in 1 .. Len(iv) + 1 : i < k => jv[k] = iv[k - 1]
  BY <1>1, Inserting
<1> HIDE DEF jv
<1>3. v.start \in Nat /\ v.end \in Nat
  BY IntervalTyped
<1>4. ASSUME NEW k \in 1 .. Len(iv), i <= k PROVE v.end <= iv[k].start
  <2>1. i \in 1 .. Len(iv) /\ v.end <= iv[i].start
    BY <1>1, <1>4
  <2>2. i = k \/ iv[i].end <= iv[k].start
    BY <2>1, <1>4, TableIs
  <2>3. iv[i].start < iv[i].end /\ iv[i].start \in Nat /\ iv[i].end \in Nat /\ iv[k].start \in Nat
    BY <2>1, TableIs
  <2> QED
    BY <2>1, <2>2, <2>3, <1>3
<1>5. ASSUME NEW k \in 1 .. Len(jv) PROVE jv[k].start < jv[k].end /\ jv[k].end <= n
  <2>1. CASE k = i
    BY <2>1, <1>2
  <2>2. CASE k < i
    <3>1. k \in 1 .. Len(iv) /\ jv[k] = iv[k]
      BY <2>2, <1>1, <1>2
    <3> QED
      BY <3>1, TableIs
  <2>3. CASE i < k
    <3>1. k - 1 \in 1 .. Len(iv) /\ jv[k] = iv[k - 1]
      BY <2>3, <1>1, <1>2
    <3> QED
      BY <3>1, TableIs
  <2> QED
    BY <2>1, <2>2, <2>3
<1>6. ASSUME NEW k \in 1 .. Len(jv), NEW l \in 1 .. Len(jv), k < l PROVE jv[k].end <= jv[l].start
  <2>1. CASE l < i
    <3>1. k \in 1 .. Len(iv) /\ l \in 1 .. Len(iv) /\ jv[k] = iv[k] /\ jv[l] = iv[l]
      BY <2>1, <1>1, <1>2, <1>6
    <3> QED
      BY <3>1, <1>6, TableIs
  <2>2. CASE l = i
    <3>1. k \in 1 .. i - 1 /\ jv[k] = iv[k] /\ jv[l] = v
      BY <2>2, <1>1, <1>2, <1>6
    <3> QED
      BY <3>1
  <2>3. CASE k = i
    <3>1. l - 1 \in 1 .. Len(iv) /\ i <= l - 1 /\ jv[l] = iv[l - 1] /\ jv[k] = v
      BY <2>3, <1>1, <1>2, <1>6
    <3> QED
      BY <3>1, <1>4
  <2>4. CASE k < i /\ i < l
    <3>1. k \in 1 .. Len(iv) /\ l - 1 \in 1 .. Len(iv) /\ k < l - 1 /\ jv[k] = iv[k] /\ jv[l] = iv[l - 1]
      BY <2>4, <1>1, <1>2, <1>6
    <3> QED
      BY <3>1, TableIs
  <2>5. CASE i < k
    <3>1. k - 1 \in 1 .. Len(iv) /\ l - 1 \in 1 .. Len(iv) /\ k - 1 < l - 1
          /\ jv[k] = iv[k - 1] /\ jv[l] = iv[l - 1]
      <4>1. k \in i + 1 .. Len(jv) /\ l \in i + 1 .. Len(jv)
        BY <2>5, <1>1, <1>6
      <4>2. jv[k] = iv[k - 1] /\ jv[l] = iv[l - 1]
        BY <4>1, <1>1, <1>2
      <4> QED
        BY <4>1, <4>2, <1>1, <1>2, <1>6
    <3> QED
      BY <3>1, TableIs
  <2> QED
    BY <2>1, <2>2, <2>3, <2>4, <2>5
<1>7. DOMAIN jv = 1 .. Len(jv)
  BY <1>2
<1>8. Table(jv, n)
  BY <1>2, <1>5, <1>6, <1>7 DEF Table
<1> QED
  BY <1>8 DEF jv

\* So does the removal of one.
LEMMA RemovedTable ==
    ASSUME NEW n \in Nat, NEW iv, Table(iv, n), NEW i \in 1 .. Len(iv)
    PROVE  Table(RemoveAt(iv, i), n)
<1> DEFINE jv == RemoveAt(iv, i)
<1>1. iv \in Seq(Interval) /\ Len(iv) \in Nat
  BY DEF Table
<1>2. /\ jv \in Seq(Interval) /\ Len(jv) = Len(iv) - 1
      /\ \A k \in 1 .. Len(iv) - 1 : k < i => jv[k] = iv[k]
      /\ \A k \in 1 .. Len(iv) - 1 : i <= k => jv[k] = iv[k + 1]
  BY <1>1, Removing
<1> HIDE DEF jv
<1> DEFINE at(k) == IF k < i THEN k ELSE k + 1
<1>3. \A k \in 1 .. Len(jv) : at(k) \in 1 .. Len(iv) /\ jv[k] = iv[at(k)]
  BY <1>1, <1>2
<1>4. \A k, l \in 1 .. Len(jv) : k < l => at(k) < at(l)
  BY <1>1, <1>2
<1>5. DOMAIN jv = 1 .. Len(jv)
  BY <1>2
<1> HIDE DEF at
<1>6. ASSUME NEW k \in 1 .. Len(jv) PROVE jv[k].start < jv[k].end /\ jv[k].end <= n
  <2>1. at(k) \in 1 .. Len(iv) /\ jv[k] = iv[at(k)]
    BY <1>3
  <2> QED
    BY <2>1, TableIs
<1>7. ASSUME NEW k \in 1 .. Len(jv), NEW l \in 1 .. Len(jv), k < l PROVE jv[k].end <= jv[l].start
  <2>1. at(k) \in 1 .. Len(iv) /\ jv[k] = iv[at(k)] /\ at(l) \in 1 .. Len(iv) /\ jv[l] = iv[at(l)]
        /\ at(k) < at(l)
    BY <1>3, <1>4, <1>7
  <2> QED
    BY <2>1, TableIs
<1>8. Table(jv, n)
  BY <1>2, <1>5, <1>6, <1>7 DEF Table
<1> QED
  BY <1>8 DEF jv

----------------------------------------------------------------------------
(* The walk over a range.  Wherever it stands, the range up to there has   *)
(* been changed and nothing else; no interval lies across where it stands, *)
(* or across the end.                                                      *)

NoneAcross(iv, p) == \A i \in 1 .. Len(iv) : ~(iv[i].start < p /\ p < iv[i].end)

\* Table jv gives the positions from a to b the changed properties of iv, and
\* the others those of iv.
ChangedIn(c, iv, jv, a, b) ==
    \A p \in Nat : PropsIn(jv, p) = IF a <= p /\ p < b THEN Changed(c, PropsIn(iv, p)) ELSE PropsIn(iv, p)

\* An interval straddles p unless none lies across p.
LEMMA StraddlesIs ==
    ASSUME NEW n, NEW iv, Table(iv, n), NEW p
    PROVE  Straddles(iv, p) <=> ~NoneAcross(iv, p)
  BY TableIs DEF Straddles, NoneAcross

\* There is a first interval that ends beyond pos, or the end of the table.
LEMMA BeyondIs ==
    ASSUME NEW n, NEW iv, Table(iv, n), NEW pos \in Nat
    PROVE  /\ Beyond(iv, pos) \in 1 .. Len(iv) + 1
           /\ Beyond(iv, pos) <= Len(iv) => iv[Beyond(iv, pos)].end > pos
           /\ \A j \in 1 .. Beyond(iv, pos) - 1 : iv[j].end <= pos
<1> DEFINE T == {k \in 1 .. Len(iv) + 1 : k <= Len(iv) => iv[k].end > pos}
<1>1. Len(iv) \in Nat
  BY TableIs
<1>2. T \in SUBSET Nat /\ Len(iv) + 1 \in T
  BY <1>1
<1>3. PICK m \in T : \A k \in T : m <= k
  BY <1>2, LeastNatural
<1>4. ASSUME NEW j \in 1 .. m - 1 PROVE iv[j].end <= pos
  <2>1. j \in 1 .. Len(iv) /\ j \notin T
    BY <1>1, <1>3
  <2>2. iv[j].end \in Nat
    BY <2>1, TableIs
  <2> QED
    BY <2>1, <2>2, <1>1
<1>5. \E k \in 1 .. Len(iv) + 1 : /\ k <= Len(iv) => iv[k].end > pos
                                  /\ \A j \in 1 .. k - 1 : iv[j].end <= pos
  BY <1>3, <1>4
<1> QED
  BY <1>5 DEF Beyond

\* Between pos and the first interval beyond there are no properties.
LEMMA GapPlain ==
    ASSUME NEW n, NEW iv, Table(iv, n), NEW pos \in Nat, NEW p \in Nat, pos <= p,
           Beyond(iv, pos) <= Len(iv) => p < iv[Beyond(iv, pos)].start
    PROVE  PropsIn(iv, p) = Plain /\ \A k \in 1 .. Len(iv) : ~Over(iv[k], p)
<1> DEFINE i == Beyond(iv, pos)
<1>1. i \in 1 .. Len(iv) + 1 /\ Len(iv) \in Nat /\ DOMAIN iv = 1 .. Len(iv)
  BY BeyondIs, TableIs
<1>2. ASSUME NEW k \in 1 .. Len(iv) PROVE ~Over(iv[k], p)
  <2>1. iv[k].start \in Nat /\ iv[k].end \in Nat
    BY TableIs
  <2>2. CASE k < i
    <3>1. k \in 1 .. i - 1
      BY <2>2, <1>1
    <3>2. iv[k].end <= pos
      BY <3>1, BeyondIs
    <3> QED
      BY <2>1, <3>2 DEF Over
  <2>3. CASE k = i
    BY <2>1, <2>3 DEF Over
  <2>4. CASE i < k
    <3>1. i \in 1 .. Len(iv) /\ iv[i].end <= iv[k].start /\ iv[i].start < iv[i].end
          /\ iv[i].start \in Nat /\ iv[i].end \in Nat
      BY <1>1, <2>4, TableIs
    <3> QED
      BY <2>1, <3>1, <1>1 DEF Over
  <2> QED
    BY <2>2, <2>3, <2>4, <1>1
<1> QED
  BY <1>1, <1>2, PropsNone

\* The list of one interval changes.
LEMMA ChangeOne ==
    ASSUME NEW n \in Nat, NEW iv, Table(iv, n), NEW c \in Changes, NEW i \in 1 .. Len(iv)
    PROVE  LET jv == [iv EXCEPT ![i].plist = Changed(c, iv[i].plist)]
           IN /\ Table(jv, n)
              /\ ChangedIn(c, iv, jv, iv[i].start, iv[i].end)
              /\ \A p \in Nat : NoneAcross(iv, p) => NoneAcross(jv, p)
<1> DEFINE x == Changed(c, iv[i].plist)
           jv == [iv EXCEPT ![i].plist = x]
<1>1. x \in Plists
  BY TableIs, ChangedPlist
<1>2. iv \in Seq(Interval) /\ Len(iv) \in Nat
  BY DEF Table
<1>3. iv[i] \in Interval
  BY TableIs
<1>4. [iv[i] EXCEPT !.plist = x] \in Interval
  BY <1>1, <1>3 DEF Interval
<1>5. jv = [iv EXCEPT ![i] = [iv[i] EXCEPT !.plist = x]]
  BY <1>2
<1> HIDE DEF x
<1>6. jv \in Seq(Interval) /\ Len(jv) = Len(iv) /\ DOMAIN jv = 1 .. Len(iv)
  BY <1>2, <1>4, <1>5
<1>7. /\ \A k \in 1 .. Len(iv) : jv[k].start = iv[k].start /\ jv[k].end = iv[k].end
      /\ \A k \in 1 .. Len(iv) : k # i => jv[k].plist = iv[k].plist
      /\ jv[i].plist = x
  BY <1>2, <1>3 DEF Interval
<1> HIDE DEF jv
<1>8. Table(jv, n)
  BY <1>6, <1>7, TableIs, SMTT(20) DEF Table
<1>9. ASSUME NEW p \in Nat
      PROVE  PropsIn(jv, p) = IF iv[i].start <= p /\ p < iv[i].end
                              THEN Changed(c, PropsIn(iv, p)) ELSE PropsIn(iv, p)
  <2>1. CASE Over(iv[i], p)
    <3>1. Over(jv[i], p) /\ i \in 1 .. Len(jv)
      BY <2>1, <1>6, <1>7 DEF Over
    <3>2. PropsIn(jv, p) = x /\ PropsIn(iv, p) = iv[i].plist
      BY <2>1, <3>1, <1>7, <1>8, PropsThere
    <3> QED
      BY <2>1, <3>2 DEF Over, x
  <2>2. CASE ~Over(iv[i], p)
    <3>1. \A k \in 1 .. Len(iv) : Over(jv[k], p) <=> Over(iv[k], p)
      BY <1>7 DEF Over
    <3>2. \A k \in 1 .. Len(jv) : Over(jv[k], p) =>
            \E l \in 1 .. Len(iv) : Over(iv[l], p) /\ iv[l].plist = jv[k].plist
      <4> TAKE k \in 1 .. Len(jv)
      <4> HAVE Over(jv[k], p)
      <4>1. k \in 1 .. Len(iv) /\ Over(iv[k], p) /\ k # i
        BY <2>2, <3>1, <1>6
      <4>2. jv[k].plist = iv[k].plist
        BY <4>1, <1>6, <1>7
      <4> QED
        BY <4>1, <4>2
    <3>3. \A l \in 1 .. Len(iv) : Over(iv[l], p) => \E k \in 1 .. Len(jv) : Over(jv[k], p)
      BY <3>1, <1>6
    <3>4. PropsIn(jv, p) = PropsIn(iv, p)
      BY ONLY <3>2, <3>3, <1>8, Table(iv, n), p \in Nat, PropsKept, SMTT(30)
    <3> QED
      BY <2>2, <3>4 DEF Over
  <2> QED
    BY <2>1, <2>2
<1>10. \A p \in Nat : NoneAcross(iv, p) => NoneAcross(jv, p)
  BY <1>6, <1>7 DEF NoneAcross
<1> QED
  BY <1>8, <1>9, <1>10 DEF ChangedIn, jv, x

\* An interval whose list becomes empty goes.
LEMMA DropOne ==
    ASSUME NEW n \in Nat, NEW iv, Table(iv, n), NEW c, NEW i \in 1 .. Len(iv),
           Changed(c, iv[i].plist) = Plain
    PROVE  /\ Table(RemoveAt(iv, i), n)
           /\ ChangedIn(c, iv, RemoveAt(iv, i), iv[i].start, iv[i].end)
           /\ \A p \in Nat : NoneAcross(iv, p) => NoneAcross(RemoveAt(iv, i), p)
<1> DEFINE jv == RemoveAt(iv, i)
<1>1. iv \in Seq(Interval) /\ Len(iv) \in Nat
  BY DEF Table
<1>2. /\ Len(jv) = Len(iv) - 1
      /\ \A k \in 1 .. Len(iv) - 1 : k < i => jv[k] = iv[k]
      /\ \A k \in 1 .. Len(iv) - 1 : i <= k => jv[k] = iv[k + 1]
  BY <1>1, Removing
<1>3. Table(jv, n)
  BY RemovedTable
<1> HIDE DEF jv
<1>4. \A k \in 1 .. Len(jv) : \E l \in 1 .. Len(iv) : l # i /\ jv[k] = iv[l]
  <2> TAKE k \in 1 .. Len(jv)
  <2>1. CASE k < i
    <3>1. k \in 1 .. Len(iv) - 1 /\ k \in 1 .. Len(iv) /\ k # i
      BY ONLY <2>1, <1>1, <1>2, k \in 1 .. Len(jv), i \in 1 .. Len(iv)
    <3> QED
      BY <3>1, <2>1, <1>2
  <2>2. CASE i <= k
    <3>1. k + 1 \in 1 .. Len(iv) /\ k + 1 # i /\ jv[k] = iv[k + 1]
      BY <2>2, <1>1, <1>2
    <3> QED
      BY <3>1
  <2> QED
    BY <2>1, <2>2, <1>2
<1>5. \A l \in 1 .. Len(iv) : l # i => \E k \in 1 .. Len(jv) : jv[k] = iv[l]
  <2> TAKE l \in 1 .. Len(iv)
  <2> HAVE l # i
  <2>1. CASE l < i
    BY <2>1, <1>1, <1>2
  <2>2. CASE i < l
    <3>1. l - 1 \in 1 .. Len(jv) /\ (l - 1) + 1 = l /\ jv[l - 1] = iv[(l - 1) + 1]
      BY <2>2, <1>1, <1>2
    <3> QED
      BY <3>1
  <2> QED
    BY <2>1, <2>2
<1>6. ASSUME NEW p \in Nat
      PROVE  PropsIn(jv, p) = IF iv[i].start <= p /\ p < iv[i].end
                              THEN Changed(c, PropsIn(iv, p)) ELSE PropsIn(iv, p)
  <2>1. CASE Over(iv[i], p)
    <3>1. PropsIn(iv, p) = iv[i].plist
      BY <2>1, PropsThere
    <3>2. ASSUME NEW l \in 1 .. Len(iv), l # i PROVE ~Over(iv[l], p)
      <4>1. /\ i < l => iv[i].end <= iv[l].start
            /\ l < i => iv[l].end <= iv[i].start
        BY <3>2, TableIs
      <4>2. iv[i].start \in Nat /\ iv[i].end \in Nat /\ iv[l].start \in Nat /\ iv[l].end \in Nat
        BY <3>2, TableIs
      <4>3. i < l \/ l < i
        BY ONLY <1>1, <3>2, l \in 1 .. Len(iv), i \in 1 .. Len(iv)
      <4>4. iv[i].start <= p /\ p < iv[i].end
        BY <2>1 DEF Over
      <4>5. ~(iv[l].start <= p /\ p < iv[l].end)
        BY ONLY <4>1, <4>2, <4>3, <4>4, p \in Nat
      <4> QED
        BY <4>5 DEF Over
    <3>3. \A k \in 1 .. Len(jv) : ~Over(jv[k], p)
      BY <3>2, <1>4
    <3>4. DOMAIN jv = 1 .. Len(jv)
      BY <1>3, TableIs
    <3> QED
      BY <2>1, <3>1, <3>3, <3>4, PropsNone DEF Over
  <2>2. CASE ~Over(iv[i], p)
    <3>1. \A k \in 1 .. Len(jv) : Over(jv[k], p) =>
            \E l \in 1 .. Len(iv) : Over(iv[l], p) /\ iv[l].plist = jv[k].plist
      BY <1>4
    <3>2. \A l \in 1 .. Len(iv) : Over(iv[l], p) => \E k \in 1 .. Len(jv) : Over(jv[k], p)
      BY <1>5, <2>2
    <3>3. PropsIn(jv, p) = PropsIn(iv, p)
      BY ONLY <3>1, <3>2, <1>3, Table(iv, n), p \in Nat, PropsKept, SMTT(30)
    <3> QED
      BY <2>2, <3>3 DEF Over
  <2> QED
    BY <2>1, <2>2
<1>7. \A p \in Nat : NoneAcross(iv, p) => NoneAcross(jv, p)
  BY <1>4 DEF NoneAcross
<1> QED
  BY <1>3, <1>6, <1>7 DEF ChangedIn, jv

\* A stretch without properties is given an interval of its own.
LEMMA FillGap ==
    ASSUME NEW n \in Nat, NEW iv, Table(iv, n), NEW c \in Changes, NEW a \in Nat, NEW b \in Nat,
           a < b, b <= n, NEW i, i = Beyond(iv, a), i <= Len(iv) => b <= iv[i].start
    PROVE  LET jv == InsertAt(iv, i, Ival(a, b, Changed(c, Plain)))
           IN /\ Table(jv, n)
              /\ ChangedIn(c, iv, jv, a, b)
              /\ \A p \in Nat : NoneAcross(iv, p) /\ (p <= a \/ b <= p) => NoneAcross(jv, p)
<1> DEFINE x == Changed(c, Plain)
           v == Ival(a, b, x)
           jv == InsertAt(iv, i, v)
<1>1. x \in Plists
  BY PlainPlist, ChangedPlist
<1>2. v \in Interval /\ v.start = a /\ v.end = b /\ v.plist = x
  BY <1>1, IntervalFields
<1>3. iv \in Seq(Interval) /\ Len(iv) \in Nat
  BY DEF Table
<1>4. i \in 1 .. Len(iv) + 1 /\ \A j \in 1 .. i - 1 : iv[j].end <= a
  BY BeyondIs
<1> HIDE DEF v, x
<1>5. Table(jv, n)
  BY <1>2, <1>4, InsertedTable
<1>6. /\ Len(jv) = Len(iv) + 1 /\ jv[i] = v
      /\ \A k \in 1 .. Len(iv) + 1 : k < i => jv[k] = iv[k]
      /\ \A k \in 1 .. Len(iv) + 1 : i < k => jv[k] = iv[k - 1]
  BY <1>2, <1>3, <1>4, Inserting
<1> HIDE DEF jv
<1>7. \A k \in 1 .. Len(jv) : k # i => \E l \in 1 .. Len(iv) : jv[k] = iv[l]
  <2> TAKE k \in 1 .. Len(jv)
  <2> HAVE k # i
  <2>1. CASE k < i
    <3>1. k \in 1 .. Len(iv) /\ jv[k] = iv[k]
      BY <2>1, <1>3, <1>4, <1>6
    <3> QED
      BY <3>1
  <2>2. CASE i < k
    <3>1. k - 1 \in 1 .. Len(iv) /\ jv[k] = iv[k - 1]
      BY <2>2, <1>3, <1>4, <1>6
    <3> QED
      BY <3>1
  <2>3. k < i \/ i < k
    <3>1. k \in Int /\ i \in Int
      BY <1>3, <1>4, <1>6
    <3> QED
      BY ONLY <3>1, k # i
  <2> QED
    BY <2>1, <2>2, <2>3
<1>8. \A l \in 1 .. Len(iv) : \E k \in 1 .. Len(jv) : jv[k] = iv[l]
  <2> TAKE l \in 1 .. Len(iv)
  <2>1. CASE l < i
    <3>1. l \in 1 .. Len(iv) + 1 /\ Len(jv) = Len(iv) + 1
      BY <1>3, <1>6
    <3>2. jv[l] = iv[l]
      BY <3>1, <2>1, <1>6
    <3> QED
      BY <3>1, <3>2
  <2>2. CASE ~(l < i)
    <3>1. l + 1 \in 1 .. Len(iv) + 1 /\ i < l + 1 /\ (l + 1) - 1 = l /\ Len(jv) = Len(iv) + 1
      BY <2>2, <1>3, <1>4, <1>6
    <3>2. jv[l + 1] = iv[(l + 1) - 1]
      BY <3>1, <1>6
    <3> QED
      BY <3>1, <3>2
  <2> QED
    BY <2>1, <2>2
<1>9. ASSUME NEW p \in Nat
      PROVE  PropsIn(jv, p) = IF a <= p /\ p < b THEN Changed(c, PropsIn(iv, p)) ELSE PropsIn(iv, p)
  <2>1. CASE a <= p /\ p < b
    <3>1. Over(jv[i], p) /\ i \in 1 .. Len(jv) /\ jv[i].plist = x
      BY <2>1, <1>2, <1>3, <1>4, <1>6 DEF Over
    <3>2. PropsIn(jv, p) = x
      BY <3>1, <1>5, PropsThere
    <3>3. i <= Len(iv) => p < iv[i].start
      <4>1. ASSUME i <= Len(iv) PROVE iv[i].start \in Nat
        BY <4>1, <1>3, <1>4, TableIs
      <4> QED
        BY <4>1, <2>1
    <3>4. PropsIn(iv, p) = Plain
      BY <3>3, <2>1, GapPlain
    <3> QED
      BY <2>1, <3>2, <3>4 DEF x
  <2>2. CASE ~(a <= p /\ p < b)
    <3>1. ~Over(jv[i], p)
      BY <2>2, <1>2, <1>6 DEF Over
    <3>2. \A k \in 1 .. Len(jv) : Over(jv[k], p) =>
            \E l \in 1 .. Len(iv) : Over(iv[l], p) /\ iv[l].plist = jv[k].plist
      BY <3>1, <1>7
    <3>3. \A l \in 1 .. Len(iv) : Over(iv[l], p) => \E k \in 1 .. Len(jv) : Over(jv[k], p)
      BY <1>8
    <3>4. PropsIn(jv, p) = PropsIn(iv, p)
      BY ONLY <3>2, <3>3, <1>5, Table(iv, n), p \in Nat, PropsKept, SMTT(30)
    <3> QED
      BY <2>2, <3>4
  <2> QED
    BY <2>1, <2>2
<1>10. ASSUME NEW p \in Nat, NoneAcross(iv, p), p <= a \/ b <= p PROVE NoneAcross(jv, p)
  <2>1. ~(v.start < p /\ p < v.end)
    BY <1>2, <1>10
  <2>2. \A k \in 1 .. Len(jv) : ~(jv[k].start < p /\ p < jv[k].end)
    BY <2>1, <1>6, <1>7, <1>10 DEF NoneAcross
  <2> QED
    BY <2>2 DEF NoneAcross
<1> QED
  BY <1>5, <1>9, <1>10 DEF ChangedIn, jv, v, x

\* What the walk that began at a, on table iv, has done when it is at w.
Walked(w, c, iv, n, a, end) ==
    /\ w \in [iv : Seq(Interval), pos : Nat]
    /\ Table(w.iv, n)
    /\ a <= w.pos /\ w.pos <= end
    /\ NoneAcross(w.iv, end) /\ (w.pos < end => NoneAcross(w.iv, w.pos))
    /\ \E b \in a .. end : (w.pos < end => b = w.pos) /\ ChangedIn(c, iv, w.iv, a, b)

\* Changes of two adjoining stretches are one of both.
LEMMA ChangedFurther ==
    ASSUME NEW c, NEW iv, NEW jv, NEW kv, NEW a \in Nat, NEW b \in Nat, NEW d \in Nat, a <= b, b <= d,
           ChangedIn(c, iv, jv, a, b), ChangedIn(c, jv, kv, b, d)
    PROVE  ChangedIn(c, iv, kv, a, d)
  BY DEF ChangedIn

\* One stop.
LEMMA OnwardWalks ==
    ASSUME NEW n \in Nat, NEW c \in Changes, NEW iv, NEW a \in Nat, NEW end \in Nat, end <= n,
           NEW w, Walked(w, c, iv, n, a, end)
    PROVE  Walked(Onward(c, w, end), c, iv, n, a, end)
<1> DEFINE jv == w.iv
           pos == w.pos
           i == Beyond(jv, pos)
           there == i <= Len(jv) /\ jv[i].start <= pos
           x == Changed(c, jv[i].plist)
           upto == IF i <= Len(jv) /\ jv[i].start < end THEN jv[i].start ELSE end
           fresh == Changed(c, Plain)
           v == Onward(c, w, end)
<1>1. /\ w \in [iv : Seq(Interval), pos : Nat] /\ Table(jv, n) /\ a <= pos /\ pos <= end
      /\ NoneAcross(jv, end) /\ (pos < end => NoneAcross(jv, pos))
  BY DEF Walked
<1>2. PICK b \in a .. end : (pos < end => b = pos) /\ ChangedIn(c, iv, jv, a, b)
  BY DEF Walked
<1>3. jv \in Seq(Interval) /\ pos \in Nat /\ Len(jv) \in Nat
  BY <1>1
<1>4. i \in 1 .. Len(jv) + 1 /\ (i <= Len(jv) => jv[i].end > pos)
  BY <1>1, <1>3, BeyondIs
\* A state of the walk that has gone on to q, having changed what lies between.
<1>5. ASSUME NEW kv, NEW q \in Nat, Table(kv, n), pos < end, pos <= q, q <= end, NoneAcross(kv, end),
             NoneAcross(kv, q), ChangedIn(c, jv, kv, pos, q)
      PROVE  Walked([iv |-> kv, pos |-> q], c, iv, n, a, end)
  <2>1. ChangedIn(c, iv, kv, a, q) /\ q \in a .. end
    BY <1>1, <1>2, <1>3, <1>5, ChangedFurther
  <2>2. kv \in Seq(Interval)
    BY <1>5 DEF Table
  <2> QED
    BY <2>1, <2>2, <1>1, <1>3, <1>5 DEF Walked
<1>6. CASE pos >= end
  <2>1. v = w
    BY <1>3, <1>6 DEF Onward
  <2> QED
    BY <2>1
<1>7. CASE pos < end /\ there
  <2>1. v = [iv |-> IF x = Plain THEN RemoveAt(jv, i) ELSE [jv EXCEPT ![i].plist = x], pos |-> jv[i].end]
    BY <1>7, <1>3 DEF Onward
  <2>2. i \in 1 .. Len(jv) /\ jv[i].start \in Nat /\ jv[i].end \in Nat /\ jv[i].start < jv[i].end
    BY <1>1, <1>4, <1>7, TableIs
  <2>3. jv[i].start = pos /\ pos <= jv[i].end
    <3>1. ~(jv[i].start < pos /\ pos < jv[i].end)
      BY <1>1, <1>7, <2>2 DEF NoneAcross
    <3> QED
      BY <3>1, <1>3, <1>4, <1>7, <2>2
  <2>4. jv[i].end <= end
    <3>1. ~(jv[i].start < end /\ end < jv[i].end)
      BY <1>1, <2>2 DEF NoneAcross
    <3> QED
      BY <3>1, <1>3, <1>7, <2>2, <2>3
  <2>5. NoneAcross(jv, jv[i].end)
    <3>1. ASSUME NEW k \in 1 .. Len(jv) PROVE ~(jv[k].start < jv[i].end /\ jv[i].end < jv[k].end)
      <4>1. /\ i < k => jv[i].end <= jv[k].start
            /\ k < i => jv[k].end <= jv[i].start
        BY <1>1, <2>2, TableIs
      <4>2. jv[k].start \in Nat /\ jv[k].end \in Nat
        BY <1>1, TableIs
      <4>3. k = i \/ i < k \/ k < i
        <5>1. i \in Int /\ k \in Int
          BY <2>2
        <5> QED
          BY ONLY <5>1
      <4> QED
        BY ONLY <4>1, <4>2, <4>3, <2>2
    <3> QED
      BY <3>1 DEF NoneAcross
  <2>6. CASE x = Plain
    <3> DEFINE kv == RemoveAt(jv, i)
    <3>1. /\ Table(kv, n) /\ ChangedIn(c, jv, kv, jv[i].start, jv[i].end)
          /\ \A p \in Nat : NoneAcross(jv, p) => NoneAcross(kv, p)
      BY <1>1, <2>2, <2>6, DropOne
    <3> HIDE DEF kv
    <3>2. Walked([iv |-> kv, pos |-> jv[i].end], c, iv, n, a, end)
      BY <3>1, <1>1, <1>5, <1>7, <2>2, <2>3, <2>4, <2>5
    <3> QED
      BY <3>2, <2>1, <2>6 DEF kv
  <2>7. CASE x # Plain
    <3> DEFINE kv == [jv EXCEPT ![i].plist = x]
    <3>1. /\ Table(kv, n) /\ ChangedIn(c, jv, kv, jv[i].start, jv[i].end)
          /\ \A p \in Nat : NoneAcross(jv, p) => NoneAcross(kv, p)
      BY <1>1, <2>2, ChangeOne
    <3> HIDE DEF kv
    <3>2. Walked([iv |-> kv, pos |-> jv[i].end], c, iv, n, a, end)
      BY <3>1, <1>1, <1>5, <1>7, <2>2, <2>3, <2>4, <2>5
    <3> QED
      BY <3>2, <2>1, <2>7 DEF kv
  <2> QED
    BY <2>6, <2>7
<1>8. CASE pos < end /\ ~there
  <2>1. i <= Len(jv) => jv[i].start \in Nat /\ jv[i].start > pos
    <3>1. ASSUME i <= Len(jv) PROVE jv[i].start \in Nat
      BY <3>1, <1>1, <1>3, <1>4, TableIs
    <3> QED
      BY <3>1, <1>3, <1>8
  <2>2. upto \in Nat /\ pos < upto /\ upto <= end
    BY <2>1, <1>8, <1>3
  <2>3. i <= Len(jv) => upto <= jv[i].start
    BY <2>1
  <2>4. NoneAcross(jv, upto)
    <3>1. CASE upto = end
      BY <3>1, <1>1
    <3>2. CASE upto # end
      <4>1. i \in 1 .. Len(jv) /\ upto = jv[i].start
        BY <3>2, <1>3, <1>4
      <4>2. ASSUME NEW k \in 1 .. Len(jv) PROVE ~(jv[k].start < jv[i].start /\ jv[i].start < jv[k].end)
        <5>1. /\ i < k => jv[i].end <= jv[k].start
              /\ k < i => jv[k].end <= jv[i].start
              /\ jv[i].start < jv[i].end /\ jv[i].start \in Nat /\ jv[i].end \in Nat
          BY <1>1, <4>1, TableIs
        <5>2. jv[k].start \in Nat /\ jv[k].end \in Nat
          BY <1>1, TableIs
        <5>3. k \in Int /\ i \in Int
          BY <4>1
        <5> QED
          BY ONLY <5>1, <5>2, <5>3, SMTT(20)
      <4> QED
        BY <4>1, <4>2 DEF NoneAcross
    <3> QED
      BY <3>1, <3>2
  <2>5. CASE fresh = Plain
    <3>1. v = [iv |-> jv, pos |-> upto]
      BY <1>3, <1>8, <2>5 DEF Onward
    <3>2. ASSUME NEW p \in Nat, pos <= p, p < upto PROVE PropsIn(jv, p) = Plain
      <4>1. i <= Len(jv) => p < jv[i].start
        BY <3>2, <2>1, <2>2, <2>3
      <4> QED
        BY <4>1, <3>2, <1>1, <1>3, GapPlain
    <3> HIDE DEF upto
    <3>3. ChangedIn(c, jv, jv, pos, upto)
      BY <3>2, <2>5 DEF ChangedIn
    <3>4. Walked([iv |-> jv, pos |-> upto], c, iv, n, a, end)
      BY <3>3, <1>1, <1>5, <1>8, <2>2, <2>4
    <3> QED
      BY <3>1, <3>4
  <2>6. CASE fresh # Plain /\ Room(jv)
    <3> DEFINE kv == InsertAt(jv, i, Ival(pos, upto, fresh))
    <3>1. v = [iv |-> kv, pos |-> upto]
      BY <1>3, <1>8, <2>6 DEF Onward
    <3>2. upto <= n
      BY <2>2
    <3> HIDE DEF upto, i
    <3>3. /\ Table(kv, n) /\ ChangedIn(c, jv, kv, pos, upto)
          /\ \A p \in Nat : NoneAcross(jv, p) /\ (p <= pos \/ upto <= p) => NoneAcross(kv, p)
      BY <3>2, <1>1, <1>3, <2>2, <2>3, FillGap DEF i
    <3> HIDE DEF kv
    <3>4. Walked([iv |-> kv, pos |-> upto], c, iv, n, a, end)
      BY <3>3, <1>1, <1>5, <1>8, <2>2, <2>4
    <3> QED
      BY <3>1, <3>4
  <2>7. CASE fresh # Plain /\ ~Room(jv)
    <3>1. v = [iv |-> jv, pos |-> end]
      BY <1>3, <1>8, <2>7 DEF Onward
    <3> QED
      BY <3>1, <1>1, <1>2, <1>3 DEF Walked
  <2> QED
    BY <2>5, <2>6, <2>7
<1> QED
  BY <1>3, <1>6, <1>7, <1>8

\* And all of it.
LEMMA WalkChanges ==
    ASSUME NEW n \in Nat, NEW c \in Changes, NEW iv, NEW a \in Nat, NEW end \in Nat, a < end, end <= n,
           Table(iv, n), NoneAcross(iv, a), NoneAcross(iv, end)
    PROVE  /\ Table(Walk(c, iv, a, end), n)
           /\ \E b \in a .. end : ChangedIn(c, iv, Walk(c, iv, a, end), a, b)
<1> DEFINE S == {w \in [iv : Seq(Interval), pos : Nat] : Walked(w, c, iv, n, a, end)}
           first == [iv |-> iv, pos |-> a]
           g == [p \in Nat \X S |-> Onward(c, p[2], end)]
           stop == CHOOSE f : f = [m \in Nat |-> IF m = 0 THEN first ELSE Onward(c, f[m - 1], end)]
<1>1. \A w : Walked(w, c, iv, n, a, end) => w \in S
  BY DEF Walked
<1>2. first \in S
  <2>1. iv \in Seq(Interval)
    BY DEF Table
  <2>2. ChangedIn(c, iv, iv, a, a) /\ a \in a .. end
    BY DEF ChangedIn
  <2>3. Walked(first, c, iv, n, a, end)
    BY <2>1, <2>2 DEF Walked
  <2> QED
    BY <1>1, <2>3
<1>3. \A w \in S : Onward(c, w, end) \in S
  BY <1>1, OnwardWalks
<1> HIDE DEF S, first
<1>4. g \in [Nat \X S -> S] /\ \A m \in Nat : \A w \in S : g[<<m, w>>] = Onward(c, w, end)
  BY <1>3
<1> HIDE DEF g
<1>5. PICK f : Iterates(f, S, first, g)
  BY <1>2, <1>4, Iteration
<1>6. f \in [Nat -> S] /\ f[0] = first /\ \A m \in Nat : f[m + 1] = Onward(c, f[m], end)
  <2>1. f \in [Nat -> S] /\ f[0] = first /\ \A m \in Nat : f[m + 1] = g[<<m + 1, f[m]>>]
    BY <1>5 DEF Iterates
  <2>2. ASSUME NEW m \in Nat PROVE f[m + 1] = Onward(c, f[m], end)
    <3>1. m + 1 \in Nat /\ f[m] \in S
      BY <2>1
    <3> QED
      BY <2>1, <3>1, <1>4
  <2> QED
    BY <2>1, <2>2
<1>7. f = [m \in Nat |-> IF m = 0 THEN first ELSE Onward(c, f[m - 1], end)]
  <2>1. ASSUME NEW m \in Nat, m # 0 PROVE f[m] = Onward(c, f[m - 1], end)
    <3>1. m - 1 \in Nat /\ (m - 1) + 1 = m
      BY <2>1
    <3> QED
      BY <3>1, <1>6
  <2> QED
    BY <2>1, <1>6
<1>8. stop = [m \in Nat |-> IF m = 0 THEN first ELSE Onward(c, stop[m - 1], end)]
  BY <1>7
<1>9. Walk(c, iv, a, end) = stop[end - a].iv
  BY DEF Walk, first
<1> HIDE DEF stop
<1> DEFINE T == {m \in Nat : stop[m] \in S}
<1>10. 0 \in T /\ \A m \in T : m + 1 \in T
  <2>1. stop[0] = first
    BY <1>8
  <2>2. ASSUME NEW m \in T PROVE stop[m + 1] = Onward(c, stop[m], end)
    <3>1. m + 1 \in Nat /\ m + 1 # 0 /\ (m + 1) - 1 = m
      OBVIOUS
    <3> QED
      BY <3>1, <1>8
  <2> QED
    BY <2>1, <2>2, <1>2, <1>3
<1>11. T = Nat
  <2>1. T \in SUBSET Nat
    OBVIOUS
  <2> HIDE DEF T
  <2> QED
    BY <1>10, <2>1, NatSetInduction
<1>12. stop[end - a] \in S
  <2>1. end - a \in T
    BY <1>11
  <2> QED
    BY <2>1
<1>13. Walked(stop[end - a], c, iv, n, a, end)
  BY <1>12 DEF S
<1> QED
  BY <1>9, <1>13 DEF Walked

----------------------------------------------------------------------------
(* Splitting an interval changes no position's properties.                 *)

\* A split at p puts a boundary there and changes nobody's properties.
LEMMA SplitKeeps ==
    ASSUME NEW n \in Nat, NEW iv, Table(iv, n), NEW p \in Nat
    PROVE  /\ Table(Split(iv, p), n) /\ NoneAcross(Split(iv, p), p)
           /\ \A q \in Nat : PropsIn(Split(iv, p), q) = PropsIn(iv, q)
           /\ \A q \in Nat : NoneAcross(iv, q) => NoneAcross(Split(iv, p), q)
<1>1. CASE ~Straddles(iv, p)
  <2>1. Split(iv, p) = iv
    BY <1>1 DEF Split
  <2> QED
    BY <1>1, <2>1, StraddlesIs
<1>2. CASE Straddles(iv, p)
  <2> DEFINE i == CHOOSE k \in DOMAIN iv : iv[k].start < p /\ p < iv[k].end
  <2>1. iv \in Seq(Interval) /\ Len(iv) \in Nat /\ DOMAIN iv = 1 .. Len(iv)
    BY TableIs DEF Table
  <2>2. i \in 1 .. Len(iv) /\ iv[i].start < p /\ p < iv[i].end
    BY <1>2, <2>1 DEF Straddles
  <2> DEFINE x == iv[i].plist
             u == Ival(iv[i].start, p, x)
             v == Ival(p, iv[i].end, x)
             kv == [iv EXCEPT ![i] = u]
             jv == InsertAt(kv, i + 1, v)
  <2>3. Split(iv, p) = jv
    <3>1. [iv EXCEPT ![i] = Ival(@.start, p, @.plist)] = kv
      BY <2>1, <2>2
    <3> HIDE DEF i
    <3> QED
      BY <1>2, <3>1 DEF Split, i
  <2> HIDE DEF i
  <2>4. iv[i].start \in Nat /\ iv[i].end \in Nat /\ x \in Plists /\ iv[i].end <= n
    BY <2>2, TableIs
  <2>5. /\ u \in Interval /\ u.start = iv[i].start /\ u.end = p /\ u.plist = x
        /\ v \in Interval /\ v.start = p /\ v.end = iv[i].end /\ v.plist = x
    BY <2>4, IntervalFields
  <2> HIDE DEF u, v
  <2>6. /\ kv \in Seq(Interval) /\ Len(kv) = Len(iv) /\ DOMAIN kv = 1 .. Len(iv) /\ kv[i] = u
        /\ \A k \in 1 .. Len(iv) : k # i => kv[k] = iv[k]
    BY <2>1, <2>2, <2>5
  <2> HIDE DEF kv
  <2>7. Table(kv, n)
    <3>1. \A k \in 1 .. Len(iv) : kv[k].start = iv[k].start
      BY <2>5, <2>6
    <3>2. \A k \in 1 .. Len(iv) : kv[k].end <= iv[k].end
      <4> TAKE k \in 1 .. Len(iv)
      <4>1. iv[k].end \in Nat
        BY TableIs
      <4> QED
        BY <4>1, <2>2, <2>4, <2>5, <2>6
    <3>3. \A k \in 1 .. Len(iv) : kv[k].end \in Nat /\ kv[k].start < kv[k].end
      BY <2>2, <2>5, <2>6, TableIs
    <3>4. ASSUME NEW k \in 1 .. Len(iv) PROVE kv[k].end <= n
      <4>1. iv[k].end \in Nat /\ iv[k].end <= n
        BY TableIs
      <4> QED
        BY <4>1, <3>2, <3>3
    <3>5. ASSUME NEW k \in 1 .. Len(iv), NEW l \in 1 .. Len(iv), k < l PROVE kv[k].end <= kv[l].start
      <4>1. iv[k].end <= iv[l].start /\ iv[k].end \in Nat /\ iv[l].start \in Nat
        BY <3>5, TableIs
      <4> QED
        BY <4>1, <3>1, <3>2, <3>3
    <3> QED
      BY <2>6, <3>3, <3>4, <3>5 DEF Table
  <2>8. Table(jv, n)
    <3>1. i + 1 \in 1 .. Len(kv) + 1
      BY <2>1, <2>2, <2>6
    <3>2. ASSUME NEW k \in 1 .. (i + 1) - 1 PROVE kv[k].end <= v.start
      <4>1. k = i \/ k < i
        BY <2>2
      <4>2. k < i => iv[k].end <= iv[i].start /\ iv[k].end \in Nat /\ kv[k] = iv[k]
        BY <2>1, <2>2, <2>6, TableIs
      <4> QED
        BY <4>1, <4>2, <2>2, <2>4, <2>5, <2>6
    <3>3. ASSUME i + 1 <= Len(kv) PROVE v.end <= kv[i + 1].start
      <4>1. i + 1 \in 1 .. Len(iv) /\ i < i + 1 /\ i + 1 # i
        BY <3>3, <2>1, <2>2, <2>6
      <4>2. iv[i].end <= iv[i + 1].start
        BY <4>1, <2>2, TableIs
      <4> QED
        BY <4>1, <4>2, <2>5, <2>6
    <3>4. v.start < v.end /\ v.end <= n
      BY <2>2, <2>4, <2>5
    <3> HIDE DEF jv
    <3>5. Table(InsertAt(kv, i + 1, v), n)
      BY <2>5, <2>7, <3>1, <3>2, <3>3, <3>4, InsertedTable
    <3> QED
      BY <3>5 DEF jv
  <2>9. /\ Len(jv) = Len(iv) + 1 /\ jv[i + 1] = v
        /\ \A k \in 1 .. Len(iv) + 1 : k < i + 1 => jv[k] = kv[k]
        /\ \A k \in 1 .. Len(iv) + 1 : i + 1 < k => jv[k] = kv[k - 1]
    <3>1. i + 1 \in 1 .. Len(kv) + 1
      BY <2>1, <2>2, <2>6
    <3>2. v \in Interval /\ kv \in Seq(Interval)
      BY <2>5, <2>6
    <3>3. /\ Len(jv) = Len(kv) + 1 /\ jv[i + 1] = v
          /\ \A k \in 1 .. Len(kv) + 1 : k < i + 1 => jv[k] = kv[k]
          /\ \A k \in 1 .. Len(kv) + 1 : i + 1 < k => jv[k] = kv[k - 1]
      <4> DEFINE at == i + 1
      <4>1. jv = InsertAt(kv, at, v) /\ at \in 1 .. Len(kv) + 1
        BY <3>1
      <4> HIDE DEF at, jv
      <4>2. /\ Len(InsertAt(kv, at, v)) = Len(kv) + 1 /\ InsertAt(kv, at, v)[at] = v
            /\ \A k \in 1 .. Len(kv) + 1 : k < at => InsertAt(kv, at, v)[k] = kv[k]
            /\ \A k \in 1 .. Len(kv) + 1 : at < k => InsertAt(kv, at, v)[k] = kv[k - 1]
        BY ONLY <3>2, <4>1, Inserting, SMTT(30)
      <4> QED
        BY <4>1, <4>2 DEF at
    <3> QED
      BY <3>3, <2>6
  <2> HIDE DEF jv
  <2>10. \A k \in 1 .. Len(jv) : \/ jv[k] = u \/ jv[k] = v
                                 \/ \E l \in 1 .. Len(iv) : l # i /\ jv[k] = iv[l]
    <3> TAKE k \in 1 .. Len(jv)
    <3>1. k \in 1 .. Len(iv) + 1
      BY <2>9
    <3>2. CASE k < i + 1
      <4>1. k \in 1 .. Len(iv) /\ jv[k] = kv[k]
        BY <3>1, <3>2, <2>1, <2>2, <2>9
      <4> QED
        BY <4>1, <2>6
    <3>3. CASE k = i + 1
      BY <3>3, <2>9
    <3>4. CASE i + 1 < k
      <4>1. k - 1 \in 1 .. Len(iv) /\ k - 1 # i /\ jv[k] = kv[k - 1]
        BY <3>1, <3>4, <2>1, <2>2, <2>9
      <4> QED
        BY <4>1, <2>6
    <3> QED
      BY <3>1, <3>2, <3>3, <3>4, <2>2
  <2>11. /\ \E k \in 1 .. Len(jv) : jv[k] = u
         /\ \E k \in 1 .. Len(jv) : jv[k] = v
    <3>1. i \in 1 .. Len(jv) /\ i \in 1 .. Len(iv) + 1 /\ i < i + 1 /\ i + 1 \in 1 .. Len(jv)
      BY <2>1, <2>2, <2>9
    <3>2. jv[i] = u
      BY <3>1, <2>6, <2>9
    <3> QED
      BY <3>1, <3>2, <2>9
  <2>12. \A l \in 1 .. Len(iv) : l # i => \E k \in 1 .. Len(jv) : jv[k] = iv[l]
    <3> TAKE l \in 1 .. Len(iv)
    <3> HAVE l # i
    <3>1. CASE l < i
      <4>1. l \in 1 .. Len(iv) + 1 /\ l \in 1 .. Len(jv) /\ l < i + 1
        BY <3>1, <2>1, <2>2, <2>9
      <4>2. jv[l] = iv[l]
        BY <4>1, <2>6, <2>9
      <4> QED
        BY <4>1, <4>2
    <3>2. CASE i < l
      <4>1. l + 1 \in 1 .. Len(iv) + 1 /\ l + 1 \in 1 .. Len(jv) /\ i + 1 < l + 1 /\ (l + 1) - 1 = l
        BY <3>2, <2>1, <2>2, <2>9
      <4>2. jv[l + 1] = iv[l]
        BY <4>1, <2>6, <2>9
      <4> QED
        BY <4>1, <4>2
    <3> QED
      BY <3>1, <3>2, <2>2
  <2>13. ASSUME NEW q \in Nat PROVE PropsIn(jv, q) = PropsIn(iv, q)
    <3>1. Over(iv[i], q) <=> Over(u, q) \/ Over(v, q)
      BY <2>2, <2>4, <2>5 DEF Over
    <3>2. \A k \in 1 .. Len(jv) : Over(jv[k], q) =>
            \E l \in 1 .. Len(iv) : Over(iv[l], q) /\ iv[l].plist = jv[k].plist
      <4> TAKE k \in 1 .. Len(jv)
      <4> HAVE Over(jv[k], q)
      <4>1. CASE jv[k] = u \/ jv[k] = v
        <5>1. Over(iv[i], q) /\ iv[i].plist = jv[k].plist
          BY <3>1, <4>1, <2>5
        <5> QED
          BY <5>1, <2>2
      <4>2. CASE \E l \in 1 .. Len(iv) : l # i /\ jv[k] = iv[l]
        BY <4>2
      <4> QED
        BY <4>1, <4>2, <2>10
    <3>3. \A l \in 1 .. Len(iv) : Over(iv[l], q) => \E k \in 1 .. Len(jv) : Over(jv[k], q)
      <4> TAKE l \in 1 .. Len(iv)
      <4> HAVE Over(iv[l], q)
      <4>1. CASE l = i
        BY <4>1, <3>1, <2>11
      <4>2. CASE l # i
        BY <4>2, <2>12
      <4> QED
        BY <4>1, <4>2
    <3> QED
      BY ONLY <3>2, <3>3, <2>8, Table(iv, n), q \in Nat, PropsCarried
  <2>14. ASSUME NEW q \in Nat, q = p \/ NoneAcross(iv, q) PROVE NoneAcross(jv, q)
    <3>1. ~(u.start < q /\ q < u.end) /\ ~(v.start < q /\ q < v.end)
      BY <2>14, <2>2, <2>4, <2>5 DEF NoneAcross
    <3>2. ASSUME NEW l \in 1 .. Len(iv), l # i PROVE ~(iv[l].start < q /\ q < iv[l].end)
      <4>1. CASE q = p
        <5>1. /\ i < l => iv[i].end <= iv[l].start
              /\ l < i => iv[l].end <= iv[i].start
              /\ iv[l].start \in Nat /\ iv[l].end \in Nat
          BY <2>2, TableIs
        <5> QED
          BY <5>1, <4>1, <3>2, <2>1, <2>2, <2>4
      <4> QED
        BY <4>1, <2>14 DEF NoneAcross
    <3>3. ASSUME NEW k \in 1 .. Len(jv) PROVE ~(jv[k].start < q /\ q < jv[k].end)
      BY <3>1, <3>2, <2>10
    <3> QED
      BY <3>3 DEF NoneAcross
  <2> QED
    BY <2>3, <2>8, <2>13, <2>14
<1> QED
  BY <1>1, <1>2

\* A change of the properties from start to end ends with the properties from
\* start to some place changed, and no others.
LEMMA ChangePropsChanges ==
    ASSUME NEW c \in Changes, NEW start \in Nat, NEW end \in Nat, BufLen \in Nat, Table(ivals, BufLen),
           ChangeProps(c, start, end)
    PROVE  /\ Table(ivals', BufLen)
           /\ \E b \in start .. end : ChangedIn(c, ivals, ivals', start, b)
<1> DEFINE left == Split(ivals, start)
           both == Split(left, end)
<1>1. /\ start < end /\ end <= BufLen
      /\ ivals' = IF Straddles(ivals, start) /\ ~Room(ivals) THEN ivals
                  ELSE IF Straddles(left, end) /\ ~Room(left) THEN left
                  ELSE Walk(c, both, start, end)
  BY DEF ChangeProps
<1>2. /\ Table(left, BufLen) /\ NoneAcross(left, start)
      /\ \A q \in Nat : PropsIn(left, q) = PropsIn(ivals, q)
  BY SplitKeeps
<1>3. /\ Table(both, BufLen) /\ NoneAcross(both, end)
      /\ \A q \in Nat : PropsIn(both, q) = PropsIn(left, q)
      /\ \A q \in Nat : NoneAcross(left, q) => NoneAcross(both, q)
  <2> HIDE DEF left
  <2> QED
    BY <1>2, SplitKeeps
<1> HIDE DEF left, both
<1>4. start \in start .. end
  BY <1>1
<1>5. CASE ivals' = ivals
  BY <1>4, <1>5 DEF ChangedIn
<1>6. CASE ivals' = left
  BY <1>2, <1>4, <1>6 DEF ChangedIn
<1>7. CASE ivals' = Walk(c, both, start, end)
  <2>1. Table(Walk(c, both, start, end), BufLen)
        /\ \E b \in start .. end : ChangedIn(c, both, Walk(c, both, start, end), start, b)
    BY <1>1, <1>2, <1>3, WalkChanges
  <2>2. PICK b \in start .. end : ChangedIn(c, both, ivals', start, b)
    BY <2>1, <1>7
  <2>3. ChangedIn(c, ivals, ivals', start, b)
    BY <2>2, <1>2, <1>3 DEF ChangedIn
  <2> QED
    BY <2>1, <2>3, <1>7
<1> QED
  BY <1>1, <1>5, <1>6, <1>7

----------------------------------------------------------------------------
(* The table after characters have gone.                                   *)

ClosedIval(v, d0, d1) == Ival(Closed(v.start, d0, d1), Closed(v.end, d0, d1), v.plist)

\* Where the characters from d0 to d1 have gone, a boundary lies right of a
\* position exactly when it did.
LEMMA ClosedNat ==
    ASSUME NEW d0 \in Nat, NEW d1 \in Nat, d0 <= d1, NEW x \in Nat
    PROVE  Closed(x, d0, d1) \in Nat
  BY DEF Closed

\* Deleting d0 .. d1 - 1 leaves what is before it in place ...
LEMMA ClosedBefore ==
    ASSUME NEW d0 \in Nat, NEW d1 \in Nat, d0 <= d1, NEW x \in Nat, NEW p \in Nat, p < d0
    PROVE  p < Closed(x, d0, d1) <=> p < x
  BY DEF Closed

\* ... moves what is after it down ...
LEMMA ClosedAfter ==
    ASSUME NEW d0 \in Nat, NEW d1 \in Nat, d0 <= d1, NEW x \in Nat, NEW p \in Nat, d0 <= p
    PROVE  p < Closed(x, d0, d1) <=> p + (d1 - d0) < x
  BY DEF Closed

\* Boundaries stay within the text and keep their order.
LEMMA ClosedWithin ==
    ASSUME NEW d0 \in Nat, NEW d1 \in Nat, d0 <= d1, NEW x \in Nat, NEW n \in Nat, d1 <= n, x <= n
    PROVE  Closed(x, d0, d1) <= n - (d1 - d0)
  BY DEF Closed

\* ... and keeps the order of positions.
LEMMA ClosedOrder ==
    ASSUME NEW d0 \in Nat, NEW d1 \in Nat, d0 <= d1, NEW x \in Nat, NEW y \in Nat, x <= y
    PROVE  Closed(x, d0, d1) <= Closed(y, d0, d1)
  BY DEF Closed

\* What an interval is then.
LEMMA ClosedIvalIs ==
    ASSUME NEW d0 \in Nat, NEW d1 \in Nat, d0 <= d1, NEW v \in Interval
    PROVE  /\ ClosedIval(v, d0, d1) \in Interval
           /\ ClosedIval(v, d0, d1).start = Closed(v.start, d0, d1)
           /\ ClosedIval(v, d0, d1).end = Closed(v.end, d0, d1)
           /\ ClosedIval(v, d0, d1).plist = v.plist
           /\ \A p \in Nat : p < d0 => (Over(ClosedIval(v, d0, d1), p) <=> Over(v, p))
           /\ \A p \in Nat : d0 <= p => (Over(ClosedIval(v, d0, d1), p) <=> Over(v, p + (d1 - d0)))
<1>1. v.start \in Nat /\ v.end \in Nat /\ v.plist \in Plists
  BY IntervalTyped
<1> DEFINE u == ClosedIval(v, d0, d1)
<1>2. Closed(v.start, d0, d1) \in Nat /\ Closed(v.end, d0, d1) \in Nat
  BY <1>1, ClosedNat
<1>3. /\ u \in Interval /\ u.start = Closed(v.start, d0, d1) /\ u.end = Closed(v.end, d0, d1)
      /\ u.plist = v.plist
  BY <1>1, <1>2, IntervalFields DEF ClosedIval
<1> HIDE DEF u
<1>4. ASSUME NEW p \in Nat, p < d0 PROVE Over(u, p) <=> Over(v, p)
  <2>1. (p < u.start <=> p < v.start) /\ (p < u.end <=> p < v.end)
    BY <1>1, <1>3, <1>4, ClosedBefore
  <2> QED
    BY <2>1, <1>1, <1>2, <1>3 DEF Over
<1>5. ASSUME NEW p \in Nat, d0 <= p PROVE Over(u, p) <=> Over(v, p + (d1 - d0))
  <2>1. (p < u.start <=> p + (d1 - d0) < v.start) /\ (p < u.end <=> p + (d1 - d0) < v.end)
    BY <1>1, <1>3, <1>5, ClosedAfter
  <2> QED
    BY <2>1, <1>1, <1>2, <1>3 DEF Over
<1> QED
  BY <1>3, <1>4, <1>5 DEF u

\* The table kv holds what is left of the first m intervals of iv.
Kept(kv, m, iv, n, d0, d1) ==
    /\ Table(kv, n)
    /\ \A k \in 1 .. Len(kv) : \E l \in 1 .. m : kv[k] = ClosedIval(iv[l], d0, d1)
    /\ \A l \in 1 .. m : ClosedIval(iv[l], d0, d1).start < ClosedIval(iv[l], d0, d1).end
                           => \E k \in 1 .. Len(kv) : kv[k] = ClosedIval(iv[l], d0, d1)

\* Appending an interval that lies behind all.
LEMMA AppendedTable ==
    ASSUME NEW n \in Nat, NEW kv, Table(kv, n), NEW v \in Interval, v.start < v.end, v.end <= n,
           \A k \in 1 .. Len(kv) : kv[k].end <= v.start
    PROVE  /\ Table(Append(kv, v), n) /\ Len(Append(kv, v)) = Len(kv) + 1
           /\ Append(kv, v)[Len(kv) + 1] = v
           /\ \A k \in 1 .. Len(kv) : Append(kv, v)[k] = kv[k]
<1> DEFINE jv == Append(kv, v)
<1>1. kv \in Seq(Interval) /\ Len(kv) \in Nat
  BY DEF Table
<1>2. /\ jv \in Seq(Interval) /\ Len(jv) = Len(kv) + 1 /\ jv[Len(kv) + 1] = v
      /\ \A k \in 1 .. Len(kv) : jv[k] = kv[k]
  BY <1>1
<1> HIDE DEF jv
<1>3. ASSUME NEW k \in 1 .. Len(jv) PROVE jv[k].start < jv[k].end /\ jv[k].end <= n
  <2>1. CASE k = Len(kv) + 1
    BY <2>1, <1>2
  <2>2. CASE k # Len(kv) + 1
    <3>1. k \in 1 .. Len(kv)
      BY <2>2, <1>1, <1>2
    <3> QED
      BY <3>1, <1>2, TableIs
  <2> QED
    BY <2>1, <2>2
<1>4. ASSUME NEW k \in 1 .. Len(jv), NEW l \in 1 .. Len(jv), k < l PROVE jv[k].end <= jv[l].start
  <2>1. k \in 1 .. Len(kv)
    BY <1>1, <1>2, <1>4
  <2>2. CASE l = Len(kv) + 1
    BY <2>1, <2>2, <1>2
  <2>3. CASE l # Len(kv) + 1
    <3>1. l \in 1 .. Len(kv)
      BY <2>3, <1>1, <1>2
    <3> QED
      BY <2>1, <3>1, <1>2, <1>4, TableIs
  <2> QED
    BY <2>2, <2>3
<1>5. DOMAIN jv = 1 .. Len(jv)
  BY <1>2
<1>6. Table(jv, n)
  BY <1>2, <1>3, <1>4, <1>5 DEF Table
<1> QED
  BY <1>2, <1>6 DEF jv

\* One interval more is looked at.
LEMMA KeptOneMore ==
    ASSUME NEW n \in Nat, NEW iv, Table(iv, n), NEW d0 \in Nat, NEW d1 \in Nat, d0 <= d1, d1 <= n,
           NEW m \in Nat, m + 1 <= Len(iv), NEW kv, Kept(kv, m, iv, n - (d1 - d0), d0, d1)
    PROVE  LET v == ClosedIval(iv[m + 1], d0, d1)
           IN Kept(IF v.start < v.end THEN Append(kv, v) ELSE kv, m + 1, iv, n - (d1 - d0), d0, d1)
<1> DEFINE v == ClosedIval(iv[m + 1], d0, d1)
           nn == n - (d1 - d0)
           jv == IF v.start < v.end THEN Append(kv, v) ELSE kv
<1>1. m + 1 \in 1 .. Len(iv) /\ Len(iv) \in Nat /\ \A l \in 1 .. m : l \in 1 .. Len(iv) /\ l < m + 1
  BY TableIs
<1>2. nn \in Nat
  OBVIOUS
<1>3. /\ Table(kv, nn)
      /\ \A k \in 1 .. Len(kv) : \E l \in 1 .. m : kv[k] = ClosedIval(iv[l], d0, d1)
      /\ \A l \in 1 .. m : ClosedIval(iv[l], d0, d1).start < ClosedIval(iv[l], d0, d1).end
                           => \E k \in 1 .. Len(kv) : kv[k] = ClosedIval(iv[l], d0, d1)
  BY DEF Kept
<1>4. iv[m + 1] \in Interval /\ iv[m + 1].start \in Nat /\ iv[m + 1].end \in Nat /\ iv[m + 1].end <= n
  BY <1>1, TableIs
<1>5. v \in Interval /\ v.start = Closed(iv[m + 1].start, d0, d1) /\ v.end = Closed(iv[m + 1].end, d0, d1)
  BY <1>4, ClosedIvalIs
<1>6. v.end <= nn
  BY <1>4, <1>5, ClosedWithin
<1> HIDE DEF v, nn
<1>7. ASSUME NEW k \in 1 .. Len(kv) PROVE kv[k].end <= v.start
  <2>1. PICK l \in 1 .. m : kv[k] = ClosedIval(iv[l], d0, d1)
    BY <1>3
  <2>2. iv[l] \in Interval /\ iv[l].end \in Nat /\ iv[l].end <= iv[m + 1].start
    BY <1>1, TableIs
  <2>3. kv[k].end = Closed(iv[l].end, d0, d1)
    <3>1. ClosedIval(iv[l], d0, d1).end = Closed(iv[l].end, d0, d1)
      BY <2>2, ClosedIvalIs
    <3> QED
      BY <2>1, <3>1
  <2> QED
    BY <2>2, <2>3, <1>4, <1>5, ClosedOrder
<1>8. CASE v.start < v.end
  <2>1. /\ Table(Append(kv, v), nn) /\ Len(Append(kv, v)) = Len(kv) + 1
        /\ Append(kv, v)[Len(kv) + 1] = v
        /\ \A k \in 1 .. Len(kv) : Append(kv, v)[k] = kv[k]
    BY <1>2, <1>3, <1>5, <1>6, <1>7, <1>8, AppendedTable
  <2>2. jv = Append(kv, v) /\ Len(kv) \in Nat
    BY <1>3, <1>8, TableIs
  <2> HIDE DEF jv
  <2>3. ASSUME NEW k \in 1 .. Len(jv) PROVE \E l \in 1 .. m + 1 : jv[k] = ClosedIval(iv[l], d0, d1)
    <3>1. CASE k = Len(kv) + 1
      <4>1. m + 1 \in 1 .. m + 1 /\ jv[k] = ClosedIval(iv[m + 1], d0, d1)
        BY <3>1, <2>1, <2>2 DEF v
      <4> QED
        BY <4>1
    <3>2. CASE k # Len(kv) + 1
      <4>1. k \in 1 .. Len(kv) /\ jv[k] = kv[k]
        BY <3>2, <2>1, <2>2
      <4>2. PICK l \in 1 .. m : kv[k] = ClosedIval(iv[l], d0, d1)
        BY <4>1, <1>3
      <4>3. l \in 1 .. m + 1
        OBVIOUS
      <4> QED
        BY <4>1, <4>2, <4>3
    <3> QED
      BY <3>1, <3>2
  <2>4. ASSUME NEW l \in 1 .. m + 1, ClosedIval(iv[l], d0, d1).start < ClosedIval(iv[l], d0, d1).end
        PROVE  \E k \in 1 .. Len(jv) : jv[k] = ClosedIval(iv[l], d0, d1)
    <3>1. CASE l = m + 1
      <4>1. Len(kv) + 1 \in 1 .. Len(jv) /\ jv[Len(kv) + 1] = ClosedIval(iv[l], d0, d1)
        BY <3>1, <2>1, <2>2 DEF v
      <4> QED
        BY <4>1
    <3>2. CASE l # m + 1
      <4>1. l \in 1 .. m
        BY <3>2
      <4>2. PICK k \in 1 .. Len(kv) : kv[k] = ClosedIval(iv[l], d0, d1)
        BY <4>1, <1>3, <2>4
      <4>3. k \in 1 .. Len(jv) /\ jv[k] = kv[k]
        BY <2>1, <2>2
      <4> QED
        BY <4>2, <4>3
    <3> QED
      BY <3>1, <3>2
  <2>5. Kept(jv, m + 1, iv, nn, d0, d1)
    BY <2>1, <2>2, <2>3, <2>4 DEF Kept
  <2> QED
    BY <2>5, <1>8, <2>2 DEF v, nn
<1>9. CASE ~(v.start < v.end)
  <2>1. \A k \in 1 .. Len(kv) : \E l \in 1 .. m + 1 : kv[k] = ClosedIval(iv[l], d0, d1)
    <3>1. \A l \in 1 .. m : l \in 1 .. m + 1
      OBVIOUS
    <3> QED
      BY <3>1, <1>3
  <2>2. ASSUME NEW l \in 1 .. m + 1, ClosedIval(iv[l], d0, d1).start < ClosedIval(iv[l], d0, d1).end
        PROVE  \E k \in 1 .. Len(kv) : kv[k] = ClosedIval(iv[l], d0, d1)
    <3>1. l # m + 1
      BY <1>9, <2>2 DEF v
    <3>2. l \in 1 .. m
      BY <3>1
    <3> QED
      BY <3>2, <2>2, <1>3
  <2>3. Kept(kv, m + 1, iv, nn, d0, d1)
    BY <1>3, <2>1, <2>2 DEF Kept
  <2> QED
    BY <2>3, <1>9 DEF v, nn
<1> QED
  BY <1>8, <1>9

\* All are looked at.
LEMMA IvalsClosedKept ==
    ASSUME NEW n \in Nat, NEW iv, Table(iv, n), NEW d0 \in Nat, NEW d1 \in Nat, d0 <= d1, d1 <= n
    PROVE  Kept(IvalsClosed(iv, d0, d1), Len(iv), iv, n - (d1 - d0), d0, d1)
<1> DEFINE N == Len(iv)
           S == Seq(Interval)
           closed == [i \in DOMAIN iv |-> Ival(Closed(iv[i].start, d0, d1), Closed(iv[i].end, d0, d1), iv[i].plist)]
           Next1(kv, i) == IF closed[i].start < closed[i].end THEN Append(kv, closed[i]) ELSE kv
           kept == CHOOSE f : f = [i \in 0 .. N |-> IF i = 0 THEN <<>>
                                     ELSE IF closed[i].start < closed[i].end THEN Append(f[i - 1], closed[i])
                                     ELSE f[i - 1]]
           g == [p \in Nat \X S |-> IF p[1] \in 1 .. N THEN Next1(p[2], p[1]) ELSE p[2]]
           K(kv, m) == Kept(kv, m, iv, n - (d1 - d0), d0, d1)
<1>1. N \in Nat /\ DOMAIN iv = 1 .. N
  BY TableIs
<1>2. \A i \in 1 .. N : closed[i] = ClosedIval(iv[i], d0, d1) /\ closed[i] \in Interval
  <2> TAKE i \in 1 .. N
  <2>1. iv[i] \in Interval
    BY TableIs
  <2>2. closed[i] = ClosedIval(iv[i], d0, d1)
    BY <1>1 DEF ClosedIval
  <2> QED
    BY <2>1, <2>2, ClosedIvalIs
<1>3. IvalsClosed(iv, d0, d1) = kept[N]
  BY DEF IvalsClosed
<1> HIDE DEF closed, N
<1>4. \A i \in 1 .. N : \A kv \in S : Next1(kv, i) \in S
  BY <1>2
<1>5. <<>> \in S
  OBVIOUS
<1> HIDE DEF S
<1>6. g \in [Nat \X S -> S] /\ \A i \in 1 .. N : \A kv \in S : g[<<i, kv>>] = Next1(kv, i)
  <2> HIDE DEF Next1
  <2> QED
    BY <1>1, <1>4
<1> HIDE DEF g
<1>7. PICK h : Iterates(h, S, <<>>, g)
  BY <1>5, <1>6, Iteration
<1>8. h \in [Nat -> S] /\ h[0] = <<>> /\ \A i \in Nat : h[i + 1] = g[<<i + 1, h[i]>>]
  BY <1>7 DEF Iterates
<1> DEFINE f == [i \in 0 .. N |-> h[i]]
<1>9. ASSUME NEW i \in 1 .. N PROVE f[i] = Next1(f[i - 1], i)
  <2> HIDE DEF Next1
  <2>1. i - 1 \in Nat /\ (i - 1) + 1 = i /\ i \in 0 .. N /\ i - 1 \in 0 .. N
    BY <1>1, <1>9
  <2>2. h[i] = g[<<i, h[i - 1]>>] /\ h[i - 1] \in S
    BY <1>8, <2>1
  <2> QED
    BY <1>6, <1>9, <2>1, <2>2
<1>10. f[0] = <<>>
  BY <1>1, <1>8
<1> HIDE DEF f
<1>11. f = [i \in 0 .. N |-> IF i = 0 THEN <<>>
                             ELSE IF closed[i].start < closed[i].end THEN Append(f[i - 1], closed[i])
                             ELSE f[i - 1]]
  <2>1. ASSUME NEW i \in 0 .. N, i # 0
        PROVE  f[i] = IF closed[i].start < closed[i].end THEN Append(f[i - 1], closed[i]) ELSE f[i - 1]
    <3>1. i \in 1 .. N
      BY <1>1, <2>1
    <3> QED
      BY <3>1, <1>9
  <2>2. f = [i \in 0 .. N |-> f[i]]
    BY DEF f
  <2> QED
    BY <2>1, <2>2, <1>10
<1>12. kept = [i \in 0 .. N |-> IF i = 0 THEN <<>>
                                ELSE IF closed[i].start < closed[i].end THEN Append(kept[i - 1], closed[i])
                                ELSE kept[i - 1]]
  BY <1>11
<1> HIDE DEF kept
<1>13. kept[0] = <<>>
  BY <1>1, <1>12
<1>14. ASSUME NEW i \in Nat, i + 1 <= N PROVE kept[i + 1] = Next1(kept[i], i + 1)
  <2>1. i + 1 \in 0 .. N /\ i + 1 # 0 /\ (i + 1) - 1 = i
    BY <1>1, <1>14
  <2> QED
    BY <2>1, <1>12
<1> DEFINE T == {i \in Nat : i <= N => K(kept[i], i)}
<1>15. K(<<>>, 0)
  <2>1. Table(<<>>, n - (d1 - d0))
    BY DEF Table
  <2> QED
    BY <2>1 DEF Kept
<1>16. ASSUME NEW i \in T PROVE i + 1 \in T
  <2>1. CASE i + 1 <= N
    <3>1. K(kept[i], i) /\ i + 1 \in 1 .. N /\ i \in Nat
      BY <2>1, <1>1
    <3>2. closed[i + 1] = ClosedIval(iv[i + 1], d0, d1)
      BY <3>1, <1>2
    <3>3. kept[i + 1] = Next1(kept[i], i + 1)
      BY <3>1, <2>1, <1>14
    <3>4. i + 1 <= Len(iv)
      BY <2>1 DEF N
    <3>5. K(Next1(kept[i], i + 1), i + 1)
      BY <3>1, <3>2, <3>4, KeptOneMore
    <3> HIDE DEF K, Next1
    <3> QED
      BY <3>3, <3>5, <3>1
  <2>2. CASE ~(i + 1 <= N)
    BY <2>2
  <2> QED
    BY <2>1, <2>2
<1> HIDE DEF K
<1>17. 0 \in T
  BY <1>13, <1>15
<1>18. T = Nat
  <2>1. T \in SUBSET Nat
    OBVIOUS
  <2> HIDE DEF T
  <2> QED
    BY <1>16, <1>17, <2>1, NatSetInduction
<1>19. K(kept[N], N)
  <2>1. N \in T
    BY <1>1, <1>18
  <2> QED
    BY <2>1, <1>1
<1> QED
  BY <1>3, <1>19 DEF K, N

\* So a position left of the gap keeps its properties, and one right of it has
\* those of the character that comes to lie there.
LEMMA IvalsClosedProps ==
    ASSUME NEW n \in Nat, NEW iv, Table(iv, n), NEW d0 \in Nat, NEW d1 \in Nat, d0 <= d1, d1 <= n
    PROVE  /\ Table(IvalsClosed(iv, d0, d1), n - (d1 - d0))
           /\ \A p \in Nat : PropsIn(IvalsClosed(iv, d0, d1), p) =
                               PropsIn(iv, IF p < d0 THEN p ELSE p + (d1 - d0))
<1> DEFINE jv == IvalsClosed(iv, d0, d1)
<1>1. Kept(jv, Len(iv), iv, n - (d1 - d0), d0, d1)
  BY IvalsClosedKept
<1> HIDE DEF jv
<1>2. Table(jv, n - (d1 - d0))
  BY <1>1 DEF Kept
<1>3. ASSUME NEW p \in Nat PROVE PropsIn(jv, p) = PropsIn(iv, IF p < d0 THEN p ELSE p + (d1 - d0))
  <2> DEFINE q == IF p < d0 THEN p ELSE p + (d1 - d0)
  <2>1. q \in Nat
    OBVIOUS
  <2>2. \A l \in 1 .. Len(iv) : /\ Over(ClosedIval(iv[l], d0, d1), p) <=> Over(iv[l], q)
                                /\ ClosedIval(iv[l], d0, d1).plist = iv[l].plist
    <3> TAKE l \in 1 .. Len(iv)
    <3>1. iv[l] \in Interval
      BY TableIs
    <3>2. CASE p < d0
      BY <3>1, <3>2, ClosedIvalIs
    <3>3. CASE ~(p < d0)
      <4>1. d0 <= p
        BY <3>3
      <4> QED
        BY <3>1, <3>3, <4>1, ClosedIvalIs
    <3> QED
      BY <3>2, <3>3
  <2> HIDE DEF q
  <2>3. \A k \in 1 .. Len(jv) : Over(jv[k], p) =>
          \E l \in 1 .. Len(iv) : Over(iv[l], q) /\ iv[l].plist = jv[k].plist
    <3> TAKE k \in 1 .. Len(jv)
    <3> HAVE Over(jv[k], p)
    <3>1. PICK l \in 1 .. Len(iv) : jv[k] = ClosedIval(iv[l], d0, d1)
      BY <1>1 DEF Kept
    <3>2. Over(iv[l], q) /\ iv[l].plist = jv[k].plist
      BY <3>1, <2>2
    <3> QED
      BY <3>2
  <2>4. \A l \in 1 .. Len(iv) : Over(iv[l], q) => \E k \in 1 .. Len(jv) : Over(jv[k], p)
    <3> TAKE l \in 1 .. Len(iv)
    <3> HAVE Over(iv[l], q)
    <3> DEFINE v == ClosedIval(iv[l], d0, d1)
    <3>1. Over(v, p)
      BY <2>2
    <3>2. v.start < v.end
      <4>1. v \in Interval
        <5>1. iv[l] \in Interval
          BY TableIs
        <5> QED
          BY <5>1, ClosedIvalIs
      <4>2. v.start \in Nat /\ v.end \in Nat
        BY <4>1, IntervalTyped
      <4> QED
        BY <3>1, <4>2 DEF Over
    <3>3. \E k \in 1 .. Len(jv) : jv[k] = v
      BY <3>2, <1>1 DEF Kept
    <3> QED
      BY <3>1, <3>3
  <2>5. PropsIn(jv, p) = PropsIn(iv, q)
    <3>1. n - (d1 - d0) \in Nat
      OBVIOUS
    <3> QED
      BY ONLY <2>1, <2>3, <2>4, <1>2, Table(iv, n), p \in Nat, PropsCarried
  <2> QED
    BY <2>5 DEF q
<1> QED
  BY <1>2, <1>3 DEF jv

\* Where n characters have come at p every interval moves right, or grows when
\* p lies inside it.
LEMMA ShiftedProps ==
    ASSUME NEW m \in Nat, NEW iv, Table(iv, m), NEW p \in Nat, NEW n \in Nat
    PROVE  LET jv == [i \in DOMAIN iv |-> Shifted(iv[i], p, n)]
           IN /\ Table(jv, m + n)
              /\ \A q \in Nat : q < p => PropsIn(jv, q) = PropsIn(iv, q)
              /\ \A q \in Nat : p <= q => PropsIn(jv, q + n) = PropsIn(iv, q)
              /\ \/ \A q \in p .. p + n - 1 : PropsIn(jv, q) = Plain
                 \/ /\ 0 < p /\ p < m /\ PropsIn(iv, p - 1) = PropsIn(iv, p)
                    /\ \A q \in p .. p + n - 1 : PropsIn(jv, q) = PropsIn(iv, p)
<1> DEFINE jv == [i \in DOMAIN iv |-> Shifted(iv[i], p, n)]
           N == Len(iv)
<1>1. iv \in Seq(Interval) /\ N \in Nat /\ DOMAIN iv = 1 .. N
  BY TableIs DEF Table
<1>2. \A i \in 1 .. N : iv[i].start \in Nat /\ iv[i].end \in Nat /\ iv[i].plist \in Plists
                        /\ iv[i].start < iv[i].end /\ iv[i].end <= m
  BY TableIs
<1>3. \A i \in 1 .. N : /\ jv[i] \in Interval
                        /\ jv[i].start = IF iv[i].start >= p THEN iv[i].start + n ELSE iv[i].start
                        /\ jv[i].end = IF iv[i].end > p THEN iv[i].end + n ELSE iv[i].end
                        /\ jv[i].plist = iv[i].plist
  <2> TAKE i \in 1 .. N
  <2> DEFINE s == IF iv[i].start >= p THEN iv[i].start + n ELSE iv[i].start
             e == IF iv[i].end > p THEN iv[i].end + n ELSE iv[i].end
  <2>1. jv[i] = Ival(s, e, iv[i].plist)
    BY <1>1 DEF Shifted
  <2>2. s \in Nat /\ e \in Nat
    BY <1>2
  <2> HIDE DEF s, e, jv
  <2>3. jv[i] \in Interval /\ jv[i].start = s /\ jv[i].end = e /\ jv[i].plist = iv[i].plist
    BY <2>1, <2>2, <1>2, IntervalFields
  <2> QED
    BY <2>3 DEF s, e
<1>4. jv \in Seq(Interval) /\ Len(jv) = N /\ DOMAIN jv = 1 .. N
  <2>1. DOMAIN jv = 1 .. N
    BY <1>1
  <2>2. jv \in [1 .. N -> Interval]
    BY <1>1, <1>3, <2>1
  <2> HIDE DEF jv
  <2> QED
    BY <1>1, <2>1, <2>2
<1> HIDE DEF jv, N
<1>5. Table(jv, m + n)
  <2>1. ASSUME NEW i \in 1 .. N PROVE jv[i].start < jv[i].end /\ jv[i].end <= m + n
    BY <1>2, <1>3
  <2>2. ASSUME NEW i \in 1 .. N, NEW j \in 1 .. N, i < j PROVE jv[i].end <= jv[j].start
    <3>1. iv[i].end <= iv[j].start
      BY <2>2, TableIs DEF N
    <3> QED
      BY <3>1, <1>2, <1>3
  <2> QED
    BY <1>4, <2>1, <2>2 DEF Table
<1>6. ASSUME NEW q \in Nat, NEW r \in Nat, \A i \in 1 .. N : Over(jv[i], r) <=> Over(iv[i], q)
      PROVE  PropsIn(jv, r) = PropsIn(iv, q)
  <2>1. \A k \in 1 .. Len(jv) : Over(jv[k], r) =>
          \E l \in 1 .. Len(iv) : Over(iv[l], q) /\ iv[l].plist = jv[k].plist
    BY <1>3, <1>4, <1>6 DEF N
  <2>2. \A l \in 1 .. Len(iv) : Over(iv[l], q) => \E k \in 1 .. Len(jv) : Over(jv[k], r)
    BY <1>4, <1>6 DEF N
  <2> QED
    BY ONLY <2>1, <2>2, <1>5, Table(iv, m), q \in Nat, r \in Nat, PropsCarried
<1>7. ASSUME NEW q \in Nat, q < p PROVE PropsIn(jv, q) = PropsIn(iv, q)
  <2>1. \A i \in 1 .. N : Over(jv[i], q) <=> Over(iv[i], q)
    BY <1>2, <1>3, <1>7 DEF Over
  <2> QED
    BY <2>1, <1>6
<1>8. ASSUME NEW q \in Nat, p <= q PROVE PropsIn(jv, q + n) = PropsIn(iv, q)
  <2>1. \A i \in 1 .. N : Over(jv[i], q + n) <=> Over(iv[i], q)
    BY <1>2, <1>3, <1>8 DEF Over
  <2>2. q + n \in Nat
    OBVIOUS
  <2> QED
    BY <2>1, <2>2, <1>6
<1>9. CASE \A i \in 1 .. N : ~(iv[i].start < p /\ p < iv[i].end)
  <2>1. ASSUME NEW q \in p .. p + n - 1, NEW i \in 1 .. N PROVE ~Over(jv[i], q)
    BY <1>2, <1>3, <1>9 DEF Over
  <2>2. \A q \in p .. p + n - 1 : PropsIn(jv, q) = Plain
    BY <2>1, <1>4, PropsNone
  <2> QED
    BY <2>2, <1>5, <1>7, <1>8 DEF jv
<1>10. CASE \E i \in 1 .. N : iv[i].start < p /\ p < iv[i].end
  <2>1. PICK i \in 1 .. N : iv[i].start < p /\ p < iv[i].end
    BY <1>10
  <2>2. i \in 1 .. Len(iv) /\ i \in 1 .. Len(jv)
    BY <1>4 DEF N
  <2>3. 0 < p /\ p < m /\ p - 1 \in Nat /\ Over(iv[i], p - 1) /\ Over(iv[i], p)
    BY <1>2, <2>1 DEF Over
  <2>4. PropsIn(iv, p) = iv[i].plist /\ PropsIn(iv, p - 1) = iv[i].plist
    BY <2>2, <2>3, PropsThere
  <2>5. ASSUME NEW q \in p .. p + n - 1 PROVE PropsIn(jv, q) = iv[i].plist
    <3>1. Over(jv[i], q) /\ q \in Nat
      BY <1>2, <1>3, <2>1 DEF Over
    <3> QED
      BY <3>1, <2>2, <1>3, <1>5, PropsThere
  <2> QED
    BY <2>3, <2>4, <2>5, <1>5, <1>7, <1>8 DEF jv
<1> QED
  BY <1>9, <1>10

----------------------------------------------------------------------------
(* The gap buffer.                                                         *)

TextInv ==
    /\ gap_start \in 0 .. CAP /\ gap_end \in 0 .. CAP /\ gap_start <= gap_end
    /\ pt \in 0 .. BufLen
    /\ Table(ivals, BufLen)

Styled1(ch, props) == [ch |-> ch, props |-> props]
Doc == [i \in 1 .. BufLen |-> Styled1(CharAt(i - 1), PropsAt(i - 1))]

\* Parts of two sequences, put together.
LEMMA Joining ==
    ASSUME NEW S, NEW d \in Seq(S), NEW p \in 0 .. Len(d), NEW q \in 0 .. Len(d)
    PROVE  LET r == SubSeq(d, 1, p) \o SubSeq(d, q + 1, Len(d))
           IN /\ r \in Seq(S) /\ Len(r) = p + Len(d) - q
              /\ \A i \in 1 .. p : r[i] = d[i]
              /\ \A i \in p + 1 .. p + Len(d) - q : r[i] = d[i - p + q]
<1> DEFINE a == SubSeq(d, 1, p)
           b == SubSeq(d, q + 1, Len(d))
<1>1. Len(d) \in Nat
  OBVIOUS
<1>2. a \in Seq(S) /\ Len(a) = p /\ \A i \in 1 .. p : a[i] = d[i]
  BY <1>1
<1>3. b \in Seq(S) /\ Len(b) = Len(d) - q /\ \A i \in 1 .. Len(d) - q : b[i] = d[i + q]
  BY <1>1
<1> HIDE DEF a, b
<1>4. a \o b \in Seq(S) /\ Len(a \o b) = Len(a) + Len(b)
  BY <1>2, <1>3, ConcatProperties
<1>5. \A i \in 1 .. p : (a \o b)[i] = d[i]
  <2> TAKE i \in 1 .. p
  <2>1. (a \o b)[i] = a[i]
    BY <1>2, <1>3
  <2> QED
    BY <2>1, <1>2
<1>6. ASSUME NEW i \in p + 1 .. p + Len(d) - q PROVE (a \o b)[i] = d[i - p + q]
  <2>1. i - p \in 1 .. Len(d) - q /\ (i - p) + q = i - p + q
    BY <1>1
  <2>2. (a \o b)[i] = b[i - p]
    BY <1>1, <1>2, <1>3, <2>1
  <2> QED
    BY <2>1, <2>2, <1>3
<1> QED
  BY <1>1, <1>2, <1>3, <1>4, <1>5, <1>6 DEF a, b

\* A sequence with another put in at p, piece by piece.
LEMMA JoiningThree ==
    ASSUME NEW S, NEW d \in Seq(S), NEW m \in Seq(S), NEW p \in 0 .. Len(d)
    PROVE  LET r == SubSeq(d, 1, p) \o m \o SubSeq(d, p + 1, Len(d))
           IN /\ r \in Seq(S) /\ Len(r) = Len(d) + Len(m)
              /\ \A i \in 1 .. p : r[i] = d[i]
              /\ \A i \in 1 .. Len(m) : r[p + i] = m[i]
              /\ \A i \in p + 1 .. Len(d) : r[Len(m) + i] = d[i]
<1> DEFINE a == SubSeq(d, 1, p)
           b == SubSeq(d, p + 1, Len(d))
           am == a \o m
<1>1. Len(d) \in Nat /\ Len(m) \in Nat
  OBVIOUS
<1>2. a \in Seq(S) /\ Len(a) = p /\ \A i \in 1 .. p : a[i] = d[i]
  BY <1>1
<1>3. b \in Seq(S) /\ Len(b) = Len(d) - p /\ \A i \in 1 .. Len(d) - p : b[i] = d[i + p]
  BY <1>1
<1> HIDE DEF a, b
<1>4. am \in Seq(S) /\ Len(am) = p + Len(m)
  BY <1>2, ConcatProperties
<1>5. \A i \in 1 .. p : am[i] = d[i]
  BY <1>2
<1>6. \A i \in 1 .. Len(m) : am[p + i] = m[i]
  <2> TAKE i \in 1 .. Len(m)
  <2>1. p + i \in Len(a) + 1 .. Len(a) + Len(m) /\ (p + i) - Len(a) = i
    BY <1>1, <1>2
  <2>2. am[p + i] = m[(p + i) - Len(a)]
    BY <1>2, <2>1
  <2> QED
    BY <2>1, <2>2
<1> HIDE DEF am
<1>7. am \o b \in Seq(S) /\ Len(am \o b) = Len(d) + Len(m)
  <2>1. am \o b \in Seq(S) /\ Len(am \o b) = Len(am) + Len(b)
    BY <1>3, <1>4, ConcatProperties
  <2> QED
    BY <2>1, <1>1, <1>3, <1>4
<1>8. ASSUME NEW i \in 1 .. p + Len(m) PROVE (am \o b)[i] = am[i]
  BY <1>3, <1>4
<1>9. \A i \in 1 .. p : (am \o b)[i] = d[i]
  <2> TAKE i \in 1 .. p
  <2>1. i \in 1 .. p + Len(m)
    BY <1>1
  <2> QED
    BY <2>1, <1>5, <1>8
<1>10. \A i \in 1 .. Len(m) : (am \o b)[p + i] = m[i]
  <2> TAKE i \in 1 .. Len(m)
  <2>1. p + i \in 1 .. p + Len(m)
    BY <1>1
  <2> QED
    BY <2>1, <1>6, <1>8
<1>11. ASSUME NEW i \in p + 1 .. Len(d) PROVE (am \o b)[Len(m) + i] = d[i]
  <2>1. i - p \in 1 .. Len(d) - p /\ (i - p) + p = i
    BY <1>1
  <2>2. Len(m) + i \in Len(am) + 1 .. Len(am) + Len(b) /\ (Len(m) + i) - Len(am) = i - p
    BY <1>1, <1>3, <1>4, <2>1
  <2>3. (am \o b)[Len(m) + i] = b[(Len(m) + i) - Len(am)]
    BY <1>3, <1>4, <2>2, SMTT(20)
  <2> QED
    BY <1>3, <2>1, <2>2, <2>3
<1> QED
  BY <1>7, <1>9, <1>10, <1>11 DEF a, b, am

\* A sequence is the function that lists it.
LEMMA SeqIs ==
    ASSUME NEW S, NEW r \in Seq(S), NEW f, f = [i \in 1 .. Len(r) |-> f[i]],
           \A i \in 1 .. Len(r) : f[i] = r[i]
    PROVE  f = r
<1>1. r = [i \in 1 .. Len(r) |-> r[i]]
  OBVIOUS
<1> QED
  BY <1>1

\* The hole is where the characters after it come in again; after gap_move(pt)
\* those before point lie before it.
LEMMA GapMovedChars ==
    ASSUME TextInv, NEW p \in 0 .. BufLen - 1
    PROVE  /\ p < pt => GapMoved(pt)[p] = CharAt(p)
           /\ pt <= p => GapMoved(pt)[p + (gap_end - gap_start)] = CharAt(p)
<1>1. /\ gap_start \in 0 .. CAP /\ gap_end \in 0 .. CAP /\ gap_start <= gap_end /\ CAP \in Nat
      /\ BufLen = CAP - (gap_end - gap_start) /\ pt \in 0 .. BufLen
  BY TextAssumption DEF TextInv, BufLen
<1>2. CASE p < pt
  <2>1. p \in 0 .. CAP - 1 /\ p \notin pt + (gap_end - gap_start) .. gap_end - 1
    BY <1>1, <1>2
  <2> QED
    BY <1>1, <1>2, <2>1 DEF GapMoved, CharAt
<1>3. CASE pt <= p
  <2> DEFINE i == p + (gap_end - gap_start)
  <2>1. i \in 0 .. CAP - 1 /\ i \notin gap_start .. pt - 1 /\ i - (gap_end - gap_start) = p
    BY <1>1, <1>3
  <2>2. i \in pt + (gap_end - gap_start) .. gap_end - 1 <=> p < gap_start
    BY <1>1, <1>3
  <2>3. GapMoved(pt)[i] = IF p < gap_start THEN text[p] ELSE text[i]
    BY <2>1, <2>2 DEF GapMoved
  <2> QED
    BY <1>1, <1>3, <2>3 DEF CharAt
<1> QED
  BY <1>1, <1>2, <1>3

\* The document of the abstraction, character by character.
LEMMA DocIs ==
    ASSUME BufLen \in Nat
    PROVE  /\ DOMAIN Doc = 1 .. BufLen /\ Len(Doc) = BufLen
           /\ Doc \in Seq({Doc[i] : i \in 1 .. BufLen})
           /\ \A i \in 1 .. BufLen : Doc[i] = Styled1(CharAt(i - 1), PropsIn(ivals, i - 1))
           /\ \A i \in 1 .. BufLen : Doc[i].props = PropsIn(ivals, i - 1)
<1>1. DOMAIN Doc = 1 .. BufLen /\ \A i \in 1 .. BufLen : Doc[i] = Styled1(CharAt(i - 1), PropsIn(ivals, i - 1))
  BY PropsAtIs DEF Doc
<1>2. Doc = [i \in 1 .. BufLen |-> Doc[i]]
  BY DEF Doc
<1>3. Doc \in [1 .. BufLen -> {Doc[i] : i \in 1 .. BufLen}]
  BY <1>2
<1>4. \A i \in 1 .. BufLen : Doc[i].props = PropsIn(ivals, i - 1)
  BY <1>1 DEF Styled1
<1> HIDE DEF Doc
<1> QED
  BY <1>1, <1>3, <1>4

\* rd_buf_insert inserts.
LEMMA InsertStep ==
    ASSUME TextInv, NEW s \in Strings, BufInsert(s)
    PROVE  TextInv' /\ Document!Insert(s)
<1> DEFINE hole == gap_end - gap_start
           B == BufLen
<1>1. /\ gap_start \in 0 .. CAP /\ gap_end \in 0 .. CAP /\ gap_start <= gap_end /\ CAP \in Nat
      /\ B = CAP - hole /\ pt \in 0 .. B /\ hole \in Nat /\ B \in Nat /\ pt \in Nat
      /\ Table(ivals, B)
  BY TextAssumption DEF TextInv, BufLen
<1>2. s \in Seq(Chars) /\ Len(s) \in Nat
  <2>1. PICK k \in 1 .. MaxInsert : s \in [1 .. k -> Chars]
    BY DEF Strings
  <2>2. k \in Nat
    BY TextAssumption
  <2> QED
    BY <2>1, <2>2
<1>3. PICK n \in Nat : n = (IF Len(s) < hole THEN Len(s) ELSE hole) /\ n <= hole /\ n <= Len(s)
  BY <1>1, <1>2
<1>4. /\ text' = [i \in 0 .. CAP - 1 |-> IF i \in pt .. pt + n - 1 THEN s[i - pt + 1] ELSE GapMoved(pt)[i]]
      /\ gap_start' = pt + n /\ gap_end' = pt + hole /\ pt' = pt + n
      /\ ivals' = [i \in DOMAIN ivals |-> Shifted(ivals[i], pt, n)]
  BY <1>3 DEF BufInsert
<1> HIDE DEF B
<1>5. BufLen' = B + n
  <2>1. BufLen' = CAP - (gap_end' - gap_start')
    BY DEF BufLen
  <2> HIDE DEF hole
  <2> QED
    BY <2>1, <1>1, <1>3, <1>4
<1>6. n = Document!Min2(Len(s), CAP - B)
  BY <1>1, <1>2, <1>3 DEF Document!Min2
<1>0. /\ B \in Nat /\ pt \in Nat /\ pt <= B /\ n \in Nat /\ hole \in Nat /\ n <= hole
      /\ CAP \in Nat /\ B = CAP - hole
      /\ gap_start' = pt + n /\ gap_end' = pt + hole /\ pt' = pt + n /\ BufLen' = B + n
  BY <1>1, <1>3, <1>4, <1>5
<1> HIDE DEF hole
<1> DEFINE jv == [i \in DOMAIN ivals |-> Shifted(ivals[i], pt, n)]
<1>7. /\ Table(jv, B + n)
      /\ \A q \in Nat : q < pt => PropsIn(jv, q) = PropsIn(ivals, q)
      /\ \A q \in Nat : pt <= q => PropsIn(jv, q + n) = PropsIn(ivals, q)
      /\ \/ \A q \in pt .. pt + n - 1 : PropsIn(jv, q) = Plain
         \/ /\ 0 < pt /\ pt < B /\ PropsIn(ivals, pt - 1) = PropsIn(ivals, pt)
            /\ \A q \in pt .. pt + n - 1 : PropsIn(jv, q) = PropsIn(ivals, pt)
  <2>1. Table(ivals, B) /\ B \in Nat /\ pt \in Nat /\ n \in Nat
    BY <1>0, <1>1
  <2> QED
    BY ONLY <2>1, ShiftedProps
<1>8. ivals' = jv
  BY <1>4
<1> HIDE DEF jv
<1>9. TextInv'
  <2>1. gap_start' \in 0 .. CAP /\ gap_end' \in 0 .. CAP /\ gap_start' <= gap_end'
    BY <1>0
  <2>2. pt' \in 0 .. BufLen'
    BY <1>0
  <2> QED
    BY <2>1, <2>2, <1>5, <1>7, <1>8 DEF TextInv
\* The characters, one by one.
<1>10. /\ \A p \in 0 .. B - 1 : p < pt => CharAt(p)' = CharAt(p)
       /\ \A p \in pt .. pt + n - 1 : CharAt(p)' = s[p - pt + 1]
       /\ \A p \in 0 .. B - 1 : pt <= p => CharAt(p + n)' = CharAt(p)
  <2>1. ASSUME NEW p \in 0 .. B - 1, p < pt PROVE CharAt(p)' = CharAt(p)
    <3>1. p \in 0 .. CAP - 1 /\ p \notin pt .. pt + n - 1 /\ p < gap_start'
      BY <1>0, <2>1
    <3>2. GapMoved(pt)[p] = CharAt(p)
      BY <2>1, GapMovedChars DEF B
    <3> QED
      BY <3>1, <3>2, <1>4 DEF CharAt
  <2>2. ASSUME NEW p \in pt .. pt + n - 1 PROVE CharAt(p)' = s[p - pt + 1]
    <3>1. p \in 0 .. CAP - 1 /\ p < gap_start'
      BY <1>0
    <3> QED
      BY <3>1, <1>4 DEF CharAt
  <2>3. ASSUME NEW p \in 0 .. B - 1, pt <= p PROVE CharAt(p + n)' = CharAt(p)
    <3> DEFINE i == (p + n) + (gap_end' - gap_start')
    <3>1. i = p + hole /\ i \in 0 .. CAP - 1 /\ i \notin pt .. pt + n - 1 /\ ~(p + n < gap_start')
      BY <1>0, <2>3
    <3>2. GapMoved(pt)[p + hole] = CharAt(p)
      BY <2>3, GapMovedChars DEF B, hole
    <3>3. CharAt(p + n)' = text'[i]
      BY <3>1 DEF CharAt
    <3> HIDE DEF i
    <3> QED
      BY <3>1, <3>2, <3>3, <1>4
  <2> QED
    BY <2>1, <2>2, <2>3
<1>11. /\ Len(Doc) = B /\ Doc \in Seq({Doc[i] : i \in 1 .. B})
       /\ \A i \in 1 .. B : Doc[i] = Styled1(CharAt(i - 1), PropsIn(ivals, i - 1))
       /\ \A i \in 1 .. B : Doc[i].props = PropsIn(ivals, i - 1)
  BY <1>1, DocIs DEF B
<1>12. /\ DOMAIN Doc' = 1 .. B + n /\ Doc' = [i \in 1 .. B + n |-> Doc'[i]]
       /\ \A i \in 1 .. B + n : Doc'[i] = Styled1(CharAt(i - 1)', PropsIn(jv, i - 1))
  <2>1. \A p : PropsAt(p)' = PropsIn(jv, p)
    BY <1>8 DEF PropsAt, PropsIn, Over
  <2> QED
    BY <2>1, <1>5 DEF Doc
<1>13. \E y \in Document!Styling(Doc, pt) : \A q \in pt .. pt + n - 1 : PropsIn(jv, q) = y
  <2>1. CASE \A q \in pt .. pt + n - 1 : PropsIn(jv, q) = Plain
    <3>1. Plain \in Document!Styling(Doc, pt)
      BY DEF Document!Styling
    <3> QED
      BY <2>1, <3>1
  <2>2. CASE /\ 0 < pt /\ pt < B /\ PropsIn(ivals, pt - 1) = PropsIn(ivals, pt)
             /\ \A q \in pt .. pt + n - 1 : PropsIn(jv, q) = PropsIn(ivals, pt)
    <3>1. pt \in 1 .. B /\ pt + 1 \in 1 .. B /\ (pt + 1) - 1 = pt /\ pt \in 1 .. Len(Doc) - 1
      BY <2>2, <1>1, <1>11
    <3>2. Doc[pt].props = PropsIn(ivals, pt - 1) /\ Doc[pt + 1].props = PropsIn(ivals, pt)
      BY <3>1, <1>11
    <3>3. Doc[pt].props \in Document!Styling(Doc, pt)
      BY <2>2, <3>1, <3>2 DEF Document!Styling
    <3> QED
      BY <2>2, <3>2, <3>3
  <2> QED
    BY <2>1, <2>2, <1>7
<1>14. PICK y \in Document!Styling(Doc, pt) : \A q \in pt .. pt + n - 1 : PropsIn(jv, q) = y
  BY <1>13
<1> DEFINE fits == SubSeq(s, 1, n)
           m == [i \in DOMAIN fits |-> [ch |-> fits[i], props |-> y]]
           r == SubSeq(Doc, 1, pt) \o m \o SubSeq(Doc, pt + 1, Len(Doc))
           S == {Doc[i] : i \in 1 .. B} \cup {Styled1(s[i], y) : i \in 1 .. n}
<1>15. Len(fits) = n /\ DOMAIN fits = 1 .. n /\ \A i \in 1 .. n : fits[i] = s[i]
  BY <1>2, <1>3
<1> HIDE DEF fits
<1>16. m \in Seq(S) /\ Len(m) = n /\ \A i \in 1 .. n : m[i] = Styled1(s[i], y)
  <2>1. DOMAIN m = 1 .. n /\ \A i \in 1 .. n : m[i] = Styled1(s[i], y)
    BY <1>15 DEF Styled1
  <2>2. m \in [1 .. n -> S]
    BY <1>15 DEF Styled1
  <2> HIDE DEF m, S
  <2> QED
    BY <2>1, <2>2, <1>3
<1>17. Doc \in Seq(S)
  BY <1>11
<1> HIDE DEF m, S
<1>18. /\ r \in Seq(S) /\ Len(r) = B + n
       /\ \A i \in 1 .. pt : r[i] = Doc[i]
       /\ \A i \in 1 .. n : r[pt + i] = m[i]
       /\ \A i \in pt + 1 .. B : r[n + i] = Doc[i]
  <2>1. m \in Seq(S) /\ Doc \in Seq(S) /\ pt \in 0 .. Len(Doc)
    BY <1>1, <1>11, <1>16, <1>17
  <2>2. /\ r \in Seq(S) /\ Len(r) = Len(Doc) + Len(m)
        /\ \A i \in 1 .. pt : r[i] = Doc[i]
        /\ \A i \in 1 .. Len(m) : r[pt + i] = m[i]
        /\ \A i \in pt + 1 .. Len(Doc) : r[Len(m) + i] = Doc[i]
    BY ONLY <2>1, JoiningThree, ZenonT(30)
  <2> QED
    BY <2>2, <1>11, <1>16
<1> HIDE DEF r
<1>19. ASSUME NEW i \in 1 .. B + n PROVE Doc'[i] = r[i]
  <2>1. Doc'[i] = Styled1(CharAt(i - 1)', PropsIn(jv, i - 1)) /\ i - 1 \in Nat
    BY <1>12
  <2>2. CASE i <= pt
    <3>1. i \in 1 .. B /\ i \in 1 .. pt /\ i - 1 \in 0 .. B - 1 /\ i - 1 < pt
      BY <2>2, <1>0
    <3>2. CharAt(i - 1)' = CharAt(i - 1) /\ PropsIn(jv, i - 1) = PropsIn(ivals, i - 1)
      BY <3>1, <2>1, <1>7, <1>10
    <3> QED
      BY <3>1, <3>2, <2>1, <1>11, <1>18
  <2>3. CASE pt < i /\ i <= pt + n
    <3>1. i - pt \in 1 .. n /\ pt + (i - pt) = i /\ i - 1 \in pt .. pt + n - 1 /\ (i - 1) - pt + 1 = i - pt
      BY <2>3, <1>0
    <3>2. CharAt(i - 1)' = s[i - pt] /\ PropsIn(jv, i - 1) = y
      BY <3>1, <1>10, <1>14
    <3>3. r[i] = m[i - pt]
      BY <3>1, <1>18
    <3> QED
      BY <3>1, <3>2, <3>3, <2>1, <1>16
  <2>4. CASE pt + n < i
    <3> DEFINE k == i - n
    <3>1. k \in 1 .. B /\ k \in pt + 1 .. B /\ n + k = i /\ k - 1 \in 0 .. B - 1 /\ pt <= k - 1
          /\ (k - 1) + n = i - 1 /\ k - 1 \in Nat
      BY <2>4, <1>0
    <3> HIDE DEF k
    <3>2. CharAt((k - 1) + n)' = CharAt(k - 1)
      BY <3>1, <1>10
    <3>3. PropsIn(jv, (k - 1) + n) = PropsIn(ivals, k - 1)
      BY <3>1, <1>7
    <3>4. r[i] = Doc[k]
      BY <3>1, <1>18
    <3> QED
      BY <3>1, <3>2, <3>3, <3>4, <2>1, <1>11
  <2> QED
    BY <2>2, <2>3, <2>4, <1>0
<1>20. Doc' = r
  BY <1>12, <1>18, <1>19, SeqIs
<1>21. Document!Inserted(Doc, pt, fits, y) = r
  BY DEF Document!Inserted, r, m
<1>22. fits \in {SubSeq(s, 1, Document!Min2(Len(s), CAP - Len(Doc)))}
  BY <1>6, <1>11 DEF fits
<1> HIDE DEF r
<1>23. pt' = pt + Len(fits)
  BY <1>4, <1>15
<1>24. Document!Insert(s)
  BY <1>14, <1>20, <1>21, <1>22, <1>23 DEF Document!Insert, Doc, Styled1
<1> QED
  BY <1>9, <1>24

\* rd_buf_delete deletes.
LEMMA DeleteStep ==
    ASSUME TextInv, NEW n \in 0 .. CAP, BufDelete(n)
    PROVE  TextInv' /\ Document!Delete(n)
<1> DEFINE hole == gap_end - gap_start
           B == BufLen
<1>1. /\ gap_start \in 0 .. CAP /\ gap_end \in 0 .. CAP /\ gap_start <= gap_end /\ CAP \in Nat
      /\ B = CAP - hole /\ pt \in 0 .. B /\ hole \in Nat /\ B \in Nat /\ pt \in Nat
      /\ Table(ivals, B)
  BY TextAssumption DEF TextInv, BufLen
<1> HIDE DEF B, hole
<1> DEFINE e == IF n < pt THEN pt - n ELSE 0
<1>a. e \in Nat /\ e <= pt
  <2>1. n \in Nat /\ pt \in Nat
    BY <1>1
  <2> QED
    BY ONLY <2>1
<1>2. PICK d0 \in Nat : d0 = e /\ d0 <= pt
  BY <1>a, Zenon
<1> USE DEF hole
<1>3. PICK k \in Nat : k = pt - d0
  BY <1>1, <1>2
<1>4. /\ text' = GapMoved(pt)
      /\ gap_start' = d0 /\ gap_end' = pt + hole /\ pt' = d0
      /\ ivals' = IvalsClosed(ivals, d0, pt)
  BY <1>2 DEF BufDelete
<1>5. BufLen' = B - k
  <2>1. BufLen' = CAP - (gap_end' - gap_start')
    BY DEF BufLen
  <2> HIDE DEF hole
  <2> QED
    BY <2>1, <1>1, <1>2, <1>3, <1>4
<1>6. d0 = pt - Document!Min2(n, pt)
  BY <1>1, <1>2 DEF Document!Min2
<1>0. /\ B \in Nat /\ pt \in Nat /\ pt <= B /\ d0 \in Nat /\ k \in Nat /\ d0 + k = pt /\ hole \in Nat
      /\ CAP \in Nat /\ B = CAP - hole
      /\ gap_start' = d0 /\ gap_end' = pt + hole /\ pt' = d0 /\ BufLen' = B - k
  BY <1>1, <1>2, <1>3, <1>4, <1>5
<1> HIDE DEF hole
<1> DEFINE jv == IvalsClosed(ivals, d0, pt)
<1>7. /\ Table(jv, B - k)
      /\ \A p \in Nat : PropsIn(jv, p) = PropsIn(ivals, IF p < d0 THEN p ELSE p + k)
  <2>1. Table(ivals, B) /\ B \in Nat /\ pt \in Nat /\ d0 \in Nat /\ d0 <= pt /\ pt <= B
    BY <1>0, <1>1
  <2>2. /\ Table(jv, B - (pt - d0))
        /\ \A p \in Nat : PropsIn(jv, p) = PropsIn(ivals, IF p < d0 THEN p ELSE p + (pt - d0))
    BY ONLY <2>1, IvalsClosedProps
  <2> QED
    BY <2>2, <1>3
<1>8. ivals' = jv
  BY <1>4
<1> HIDE DEF jv
<1>9. TextInv'
  <2>1. gap_start' \in 0 .. CAP /\ gap_end' \in 0 .. CAP /\ gap_start' <= gap_end'
    BY <1>0
  <2>2. pt' \in 0 .. BufLen'
    BY <1>0
  <2> QED
    BY <2>1, <2>2, <1>5, <1>7, <1>8 DEF TextInv
<1>10. /\ \A p \in 0 .. B - 1 : p < d0 => CharAt(p)' = CharAt(p)
       /\ \A p \in d0 .. B - k - 1 : CharAt(p)' = CharAt(p + k)
  <2>1. ASSUME NEW p \in 0 .. B - 1, p < d0 PROVE CharAt(p)' = CharAt(p)
    <3>1. p < gap_start' /\ p < pt
      BY <1>0, <2>1
    <3>2. GapMoved(pt)[p] = CharAt(p)
      BY <2>1, <3>1, GapMovedChars DEF B
    <3> QED
      BY <3>1, <3>2, <1>4 DEF CharAt
  <2>2. ASSUME NEW p \in d0 .. B - k - 1 PROVE CharAt(p)' = CharAt(p + k)
    <3> DEFINE i == p + (gap_end' - gap_start')
    <3>1. i = (p + k) + hole /\ ~(p < gap_start') /\ p + k \in 0 .. B - 1 /\ pt <= p + k
      BY <1>0
    <3>2. GapMoved(pt)[(p + k) + hole] = CharAt(p + k)
      BY <3>1, GapMovedChars DEF B, hole
    <3>3. CharAt(p)' = text'[i]
      BY <3>1 DEF CharAt
    <3> HIDE DEF i
    <3> QED
      BY <3>1, <3>2, <3>3, <1>4
  <2> QED
    BY <2>1, <2>2
<1>11. /\ Len(Doc) = B /\ Doc \in Seq({Doc[i] : i \in 1 .. B})
       /\ \A i \in 1 .. B : Doc[i] = Styled1(CharAt(i - 1), PropsIn(ivals, i - 1))
  BY <1>1, DocIs DEF B
<1>12. /\ Doc' = [i \in 1 .. B - k |-> Doc'[i]]
       /\ \A i \in 1 .. B - k : Doc'[i] = Styled1(CharAt(i - 1)', PropsIn(jv, i - 1))
  <2>1. \A p : PropsAt(p)' = PropsIn(jv, p)
    BY <1>8 DEF PropsAt, PropsIn, Over
  <2> QED
    BY <2>1, <1>5 DEF Doc
<1> DEFINE S == {Doc[i] : i \in 1 .. B}
           r == SubSeq(Doc, 1, d0) \o SubSeq(Doc, pt + 1, Len(Doc))
<1> HIDE DEF S
<1>13. /\ r \in Seq(S) /\ Len(r) = B - k
       /\ \A i \in 1 .. d0 : r[i] = Doc[i]
       /\ \A i \in d0 + 1 .. B - k : r[i] = Doc[i + k]
  <2>1. Doc \in Seq(S) /\ d0 \in 0 .. Len(Doc) /\ pt \in 0 .. Len(Doc)
    BY <1>0, <1>11 DEF S
  <2>2. /\ r \in Seq(S) /\ Len(r) = d0 + Len(Doc) - pt
        /\ \A i \in 1 .. d0 : r[i] = Doc[i]
        /\ \A i \in d0 + 1 .. d0 + Len(Doc) - pt : r[i] = Doc[i - d0 + pt]
    BY ONLY <2>1, Joining
  <2> HIDE DEF r
  <2>3. d0 + Len(Doc) - pt = B - k
    BY <1>0, <1>11
  <2>4. ASSUME NEW i \in d0 + 1 .. B - k PROVE r[i] = Doc[i + k]
    <3>1. i - d0 + pt = i + k
      BY <1>0
    <3> QED
      BY <3>1, <2>2, <2>3
  <2> QED
    BY <2>2, <2>3, <2>4
<1> HIDE DEF r
<1>14. ASSUME NEW i \in 1 .. B - k PROVE Doc'[i] = r[i]
  <2>1. Doc'[i] = Styled1(CharAt(i - 1)', PropsIn(jv, i - 1)) /\ i - 1 \in Nat
    BY <1>12
  <2>2. CASE i <= d0
    <3>1. i \in 1 .. B /\ i \in 1 .. d0 /\ i - 1 \in 0 .. B - 1 /\ i - 1 < d0
      BY <2>2, <1>0
    <3>2. CharAt(i - 1)' = CharAt(i - 1) /\ PropsIn(jv, i - 1) = PropsIn(ivals, i - 1)
      BY <3>1, <2>1, <1>7, <1>10
    <3> QED
      BY <3>1, <3>2, <2>1, <1>11, <1>13
  <2>3. CASE d0 < i
    <3>1. /\ i + k \in 1 .. B /\ i \in d0 + 1 .. B - k /\ i - 1 \in d0 .. B - k - 1 /\ ~(i - 1 < d0)
          /\ (i - 1) + k = (i + k) - 1
      BY <2>3, <1>0
    <3>2. CharAt(i - 1)' = CharAt((i + k) - 1) /\ PropsIn(jv, i - 1) = PropsIn(ivals, (i + k) - 1)
      BY <3>1, <2>1, <1>7, <1>10
    <3>3. Doc[i + k] = Styled1(CharAt((i + k) - 1), PropsIn(ivals, (i + k) - 1))
      BY <3>1, <1>11
    <3> QED
      BY <3>1, <3>2, <3>3, <2>1, <1>13
  <2> QED
    BY <2>2, <2>3, <1>0
<1>15. Doc' = r
  BY <1>12, <1>13, <1>14, SeqIs
<1>16. pt' = pt - Document!Min2(n, pt)
  BY <1>4, <1>6
<1>17. Document!Delete(n)
  BY <1>6, <1>15, <1>16 DEF Document!Delete, Doc, Styled1, r
<1> QED
  BY <1>9, <1>17

\* A change of properties changes those of one range.
LEMMA ChangeStep ==
    ASSUME TextInv, NEW c \in Changes, NEW start \in 0 .. CAP, NEW end \in 0 .. CAP,
           ChangeProps(c, start, end)
    PROVE  TextInv' /\ Document!Change
<1>1. /\ BufLen \in Nat /\ Table(ivals, BufLen) /\ start \in Nat /\ end \in Nat
  BY TextAssumption DEF TextInv, BufLen
<1>2. PICK b \in start .. end : ChangedIn(c, ivals, ivals', start, b)
  BY <1>1, ChangePropsChanges
<1>3. UNCHANGED <<text, gap_start, gap_end, pt>> /\ end <= BufLen
  BY DEF ChangeProps
<1>4. BufLen' = BufLen /\ \A p : CharAt(p)' = CharAt(p)
  BY <1>3 DEF BufLen, CharAt
<1>5. TextInv'
  <2>1. Table(ivals', BufLen)
    BY <1>1, ChangePropsChanges
  <2> QED
    BY <2>1, <1>3, <1>4 DEF TextInv
<1>6. /\ DOMAIN Doc = 1 .. BufLen /\ Len(Doc) = BufLen
      /\ \A i \in 1 .. BufLen : Doc[i] = Styled1(CharAt(i - 1), PropsIn(ivals, i - 1))
  BY <1>1, DocIs
<1>7. /\ Doc' = [i \in 1 .. BufLen |-> Doc'[i]]
      /\ \A i \in 1 .. BufLen : Doc'[i] = Styled1(CharAt(i - 1), PropsIn(ivals', i - 1))
  <2>1. \A p : PropsAt(p)' = PropsIn(ivals', p)
    BY DEF PropsAt, PropsIn, Over
  <2> QED
    BY <2>1, <1>4 DEF Doc
<1>8. Len(Doc') = BufLen
  BY <1>1, <1>7
<1>9. Doc' = Document!Restyled(Doc, c, start, b)
  <2>1. ASSUME NEW i \in 1 .. BufLen
        PROVE  Doc'[i] = IF i \in start + 1 .. b THEN [Doc[i] EXCEPT !.props = Changed(c, @)] ELSE Doc[i]
    <3>1. i - 1 \in Nat /\ (i \in start + 1 .. b <=> start <= i - 1 /\ i - 1 < b)
      BY <1>1
    <3>2. PropsIn(ivals', i - 1) = IF start <= i - 1 /\ i - 1 < b THEN Changed(c, PropsIn(ivals, i - 1))
                                   ELSE PropsIn(ivals, i - 1)
      BY <3>1, <1>2 DEF ChangedIn
    <3>3. [Doc[i] EXCEPT !.props = Changed(c, @)] = Styled1(CharAt(i - 1), Changed(c, PropsIn(ivals, i - 1)))
      BY <1>6 DEF Styled1
    <3> QED
      BY <3>1, <3>2, <3>3, <1>6, <1>7
  <2> HIDE DEF Doc
  <2> QED
    BY <2>1, <1>6, <1>7 DEF Document!Restyled
<1>10. start \in 0 .. Len(Doc) /\ b \in 0 .. Len(Doc)
  BY <1>1, <1>3, <1>6
<1>11. Document!Change
  <2>1. Len(Doc') = Len(Doc)
    BY <1>6, <1>8
  <2>2. \E e, f \in 0 .. Len(Doc) : Doc' = Document!Restyled(Doc, c, e, f)
    BY <1>9, <1>10
  <2> QED
    BY <2>1, <2>2, <1>3 DEF Document!Change, Doc, Styled1
<1> QED
  BY <1>5, <1>11

\* Point moves.
LEMMA SetPointStep ==
    ASSUME TextInv, NEW p \in 0 .. CAP, BufSetPoint(p)
    PROVE  TextInv' /\ Document!SetPoint(p) /\ p \in 0 .. Len(Doc)
<1>1. BufLen \in Nat
  BY TextAssumption DEF TextInv, BufLen
<1>2. BufLen' = BufLen /\ UNCHANGED <<text, gap_start, gap_end, ivals>> /\ pt' = p /\ p \in 0 .. BufLen
  BY DEF BufSetPoint, BufLen
<1>3. TextInv'
  BY <1>2 DEF TextInv
<1>4. Doc' = Doc
  BY <1>2 DEF Doc, CharAt, PropsAt, BufLen
<1>5. Len(Doc) = BufLen
  BY <1>1, DocIs
<1> QED
  BY <1>2, <1>3, <1>4, <1>5 DEF Document!SetPoint, Doc, Styled1

\* The invariant of the gap buffer and its table: the hole lies in the store,
\* point in the text, and the table is sorted, without overlaps, in the text.
LEMMA TextStep ==
    ASSUME TextInv, [TextNext]_textVars
    PROVE  TextInv' /\ [Document!Next]_(Document!styledVars)
<1>1. ASSUME NEW s \in Strings, BufInsert(s) PROVE TextInv' /\ Document!Next
  BY <1>1, InsertStep DEF Document!Next
<1>2. ASSUME NEW n \in 0 .. CAP, BufDelete(n) PROVE TextInv' /\ Document!Next
  BY <1>2, DeleteStep DEF Document!Next
<1>3. ASSUME NEW p \in 0 .. CAP, BufSetPoint(p) PROVE TextInv' /\ Document!Next
  BY <1>3, SetPointStep DEF Document!Next, Doc, Styled1
<1>4. ASSUME NEW c \in Changes, NEW start \in 0 .. CAP, NEW end \in 0 .. CAP, ChangeProps(c, start, end)
      PROVE TextInv' /\ Document!Next
  BY <1>4, ChangeStep DEF Document!Next
<1>5. CASE UNCHANGED textVars
  <2>1. BufLen' = BufLen /\ TextInv'
    BY <1>5 DEF textVars, TextInv, BufLen
  <2>2. Doc' = Doc
    BY <1>5 DEF textVars, Doc, CharAt, PropsAt, BufLen
  <2>3. UNCHANGED Document!styledVars
    BY <2>2, <1>5 DEF Document!styledVars, Doc, Styled1, textVars
  <2> QED
    BY <2>1, <2>3
<1> QED
  BY <1>1, <1>2, <1>3, <1>4, <1>5 DEF TextNext

\* The empty buffer.
LEMMA TextBegins == TextInit => TextInv /\ Document!Init
<1> SUFFICES ASSUME TextInit PROVE TextInv /\ Document!Init
  OBVIOUS
<1>1. BufLen = 0 /\ pt = 0 /\ ivals = <<>> /\ gap_start = 0 /\ gap_end = CAP /\ CAP \in Nat
  BY TextAssumption DEF TextInit, BufLen
<1>2. Table(<<>>, 0)
  BY DEF Table
<1>3. Doc = <<>>
  <2>1. DOMAIN Doc = 1 .. 0 /\ Len(Doc) = 0 /\ Doc \in Seq({Doc[i] : i \in 1 .. 0})
    BY <1>1, DocIs
  <2> HIDE DEF Doc
  <2> QED
    BY <2>1
<1>4. Document!Init
  BY <1>1, <1>3 DEF Document!Init, Doc, Styled1
<1> QED
  BY <1>1, <1>2, <1>4 DEF TextInv

\* The gap buffer with its table of intervals is a sequence of characters that
\* carry their properties with them (rd_core.c): no insertion, no deletion and
\* no change, one that finds the table full included, gives a character the
\* properties of a neighbour, for any store, table, characters and keys.
THEOREM TextImplementsStyled == TextSpec => IsStyled
<1>1. TextInv /\ [TextNext]_textVars => TextInv' /\ [Document!Next]_(Document!styledVars)
  BY TextStep
<1> QED
  BY <1>1, TextBegins, PTL DEF TextSpec, IsStyled, Document!Spec

----------------------------------------------------------------------------
(* The window tree.                                                        *)
(*                                                                         *)
(* Its leaves are numbered from left to right, and the leaves below a node *)
(* are an interval lo[w] .. hi[w] - 1 of them.  Links that agree and such  *)
(* a numbering make the loops up and down the tree end and name the leaf   *)
(* they end at; each command gives the numbering that it leaves.           *)

Node == [leaf : BOOLEAN, a : 0 .. RD_MAX_WIN, b : 0 .. RD_MAX_WIN,
         parent : 0 .. RD_MAX_WIN, buf : Buffers \cup {"free"}]

Taken(t) == {w \in Pool : t[w] # Unused}

\* The links of the tree down and up agree.
LinksAgree(t, rt) ==
    /\ t \in [Pool -> Node] /\ rt \in Taken(t) /\ t[rt].parent = NoWin
    /\ \A w \in Taken(t) :
         /\ t[w].buf \in Buffers
         /\ t[w].leaf => t[w].a = NoWin /\ t[w].b = NoWin
         /\ ~t[w].leaf => /\ t[w].a \in Taken(t) /\ t[t[w].a].parent = w
                          /\ t[w].b \in Taken(t) /\ t[t[w].b].parent = w
         /\ w # rt => /\ t[w].parent \in Taken(t) /\ ~t[t[w].parent].leaf
                      /\ w \in {t[t[w].parent].a, t[t[w].parent].b}

\* s lists the leaves; the leaves below w are those from lo[w] to hi[w] - 1.
Numbered(t, rt, s, lo, hi) ==
    /\ s \in Seq(Pool) /\ lo \in [Pool -> Nat] /\ hi \in [Pool -> Nat]
    /\ lo[rt] = 1 /\ hi[rt] = Len(s) + 1
    /\ \A w \in Taken(t) :
         /\ 1 <= lo[w] /\ lo[w] < hi[w] /\ hi[w] <= Len(s) + 1
         /\ t[w].leaf => hi[w] = lo[w] + 1 /\ s[lo[w]] = w
         /\ ~t[w].leaf => lo[t[w].a] = lo[w] /\ hi[t[w].a] = lo[t[w].b] /\ hi[t[w].b] = hi[w]
    /\ \A i \in 1 .. Len(s) : s[i] \in Taken(t) /\ t[s[i]].leaf /\ lo[s[i]] = i

Whole(t, rt, s, lo, hi) ==
    LinksAgree(t, rt) /\ Numbered(t, rt, s, lo, hi) /\ Cardinality(Taken(t)) = 2 * Len(s) - 1

\* What a whole tree says of itself, of its nodes, of its leaves and splits and
\* of the places in the list of its leaves.
LEMMA TreeIs ==
    ASSUME NEW t, NEW rt, NEW s, NEW lo, NEW hi, Whole(t, rt, s, lo, hi)
    PROVE  /\ t \in [Pool -> Node] /\ rt \in Taken(t) /\ t[rt].parent = NoWin
           /\ s \in Seq(Pool) /\ Len(s) \in Nat /\ DOMAIN s = 1 .. Len(s)
           /\ lo \in [Pool -> Nat] /\ hi \in [Pool -> Nat] /\ lo[rt] = 1 /\ hi[rt] = Len(s) + 1
           /\ Cardinality(Taken(t)) = 2 * Len(s) - 1 /\ Taken(t) \in SUBSET Pool
<1>1. t \in [Pool -> Node] /\ rt \in Taken(t) /\ t[rt].parent = NoWin
  BY DEF Whole, LinksAgree
<1>2. /\ s \in Seq(Pool) /\ lo \in [Pool -> Nat] /\ hi \in [Pool -> Nat]
      /\ lo[rt] = 1 /\ hi[rt] = Len(s) + 1
  BY DEF Whole, Numbered
<1>3. Cardinality(Taken(t)) = 2 * Len(s) - 1 /\ Taken(t) \in SUBSET Pool
  BY DEF Whole, Taken
<1>4. Len(s) \in Nat /\ DOMAIN s = 1 .. Len(s)
  BY <1>2
<1> QED
  BY <1>1, <1>2, <1>3, <1>4

LEMMA NodesIn ==
    ASSUME NEW t, NEW rt, NEW s, NEW lo, NEW hi, Whole(t, rt, s, lo, hi)
    PROVE  \A w \in Taken(t) : w \in Pool /\ t[w].buf \in Buffers
  BY DEF Whole, LinksAgree, Taken

LEMMA ParentsOf ==
    ASSUME NEW t, NEW rt, NEW s, NEW lo, NEW hi, Whole(t, rt, s, lo, hi)
    PROVE  \A w \in Taken(t) : w # rt =>
             /\ t[w].parent \in Taken(t) /\ ~t[t[w].parent].leaf
             /\ w \in {t[t[w].parent].a, t[t[w].parent].b}
  BY DEF Whole, LinksAgree

LEMMA HalvesOf ==
    ASSUME NEW t, NEW rt, NEW s, NEW lo, NEW hi, Whole(t, rt, s, lo, hi)
    PROVE  \A w \in Taken(t) : ~t[w].leaf =>
             /\ t[w].a \in Taken(t) /\ t[t[w].a].parent = w
             /\ t[w].b \in Taken(t) /\ t[t[w].b].parent = w
  BY DEF Whole, LinksAgree

LEMMA SpansOf ==
    ASSUME NEW t, NEW rt, NEW s, NEW lo, NEW hi, Whole(t, rt, s, lo, hi)
    PROVE  \A w \in Taken(t) : /\ 1 <= lo[w] /\ lo[w] < hi[w] /\ hi[w] <= Len(s) + 1
                               /\ lo[w] \in Nat /\ hi[w] \in Nat
<1> TAKE w \in Taken(t)
<1>1. 1 <= lo[w] /\ lo[w] < hi[w] /\ hi[w] <= Len(s) + 1
  BY DEF Whole, Numbered
<1>2. w \in Pool /\ lo \in [Pool -> Nat] /\ hi \in [Pool -> Nat]
  BY TreeIs
<1> QED
  BY <1>1, <1>2

LEMMA CutsOf ==
    ASSUME NEW t, NEW rt, NEW s, NEW lo, NEW hi, Whole(t, rt, s, lo, hi)
    PROVE  \A w \in Taken(t) : ~t[w].leaf =>
             lo[t[w].a] = lo[w] /\ hi[t[w].a] = lo[t[w].b] /\ hi[t[w].b] = hi[w]
  BY DEF Whole, Numbered

LEMMA LeavesOf ==
    ASSUME NEW t, NEW rt, NEW s, NEW lo, NEW hi, Whole(t, rt, s, lo, hi)
    PROVE  \A w \in Taken(t) : t[w].leaf =>
             t[w].a = NoWin /\ t[w].b = NoWin /\ hi[w] = lo[w] + 1 /\ s[lo[w]] = w
<1>1. \A w \in Taken(t) : t[w].leaf => t[w].a = NoWin /\ t[w].b = NoWin
  BY DEF Whole, LinksAgree
<1>2. \A w \in Taken(t) : t[w].leaf => hi[w] = lo[w] + 1 /\ s[lo[w]] = w
  BY DEF Whole, Numbered
<1> QED
  BY <1>1, <1>2

LEMMA PlacesOf ==
    ASSUME NEW t, NEW rt, NEW s, NEW lo, NEW hi, Whole(t, rt, s, lo, hi)
    PROVE  \A i \in 1 .. Len(s) : s[i] \in Taken(t) /\ t[s[i]].leaf /\ lo[s[i]] = i /\ hi[s[i]] = i + 1
<1>1. \A i \in 1 .. Len(s) : s[i] \in Taken(t) /\ t[s[i]].leaf /\ lo[s[i]] = i
  BY DEF Whole, Numbered
<1> QED
  BY <1>1, LeavesOf

\* down the left spine: from w to the first leaf below it
LEMMA FirstLeafIs ==
    ASSUME NEW t, NEW rt, NEW s, NEW lo, NEW hi, Whole(t, rt, s, lo, hi), NEW w \in Taken(t)
    PROVE  FirstLeaf(t, w) = s[lo[w]]
<1> DEFINE S == Pool
           stop == {v \in Pool : t[v].leaf}
           step == [v \in Pool |-> t[v].a]
           down == CHOOSE f : f = [v \in Pool |-> IF t[v].leaf THEN v ELSE f[t[v].a]]
           P == {v \in Taken(t) : lo[v] = lo[w]}
           m == [v \in P |-> hi[v] - lo[v]]
<1>1. \A v \in Pool : ~t[v].leaf => v \in Taken(t)
  BY DEF Taken, Unused
<1>2. \A v \in Pool \ stop : step[v] \in Pool
  BY <1>1 DEF Whole, LinksAgree, Taken
<1>3. \A f : f = [v \in Pool |-> IF t[v].leaf THEN v ELSE f[t[v].a]] <=> LoopsTo(f, Pool, stop, step)
  <2> TAKE f
  <2>1. [v \in Pool |-> IF t[v].leaf THEN v ELSE f[t[v].a]] = [v \in Pool |-> IF v \in stop THEN v ELSE f[step[v]]]
    OBVIOUS
  <2> QED
    BY <2>1 DEF LoopsTo
<1>4. LoopsTo(down, Pool, stop, step)
  <2>1. \E f : LoopsTo(f, Pool, stop, step)
    <3> HIDE DEF stop, step
    <3> QED
      BY <1>2, LoopExists
  <2> HIDE DEF stop, step
  <2> QED
    BY <2>1, <1>3
<1>5. FirstLeaf(t, w) = down[w]
  BY DEF FirstLeaf
<1>6. w \in P /\ P \in SUBSET Pool
  BY DEF Taken
<1>7. m \in [P -> Nat]
  <2>1. \A v \in P : lo[v] \in Nat /\ hi[v] \in Nat /\ lo[v] < hi[v]
    BY <1>6 DEF Whole, Numbered
  <2> HIDE DEF P
  <2> QED
    BY <2>1
<1>8. ASSUME NEW x \in P \ stop PROVE step[x] \in P /\ m[step[x]] < m[x]
  <2>1. x \in Taken(t) /\ x \in Pool /\ ~t[x].leaf /\ lo[x] = lo[w]
    BY DEF Taken
  <2>2. t[x].a \in Taken(t) /\ t[x].b \in Taken(t)
    BY <2>1 DEF Whole, LinksAgree
  <2>3. /\ lo[t[x].a] = lo[x] /\ hi[t[x].a] = lo[t[x].b] /\ hi[t[x].b] = hi[x]
        /\ lo[t[x].b] < hi[t[x].b]
        /\ lo[x] \in Nat /\ hi[x] \in Nat /\ hi[t[x].a] \in Nat
    BY <2>1, <2>2 DEF Whole, Numbered, Taken
  <2>4. step[x] = t[x].a /\ t[x].a \in P /\ m[t[x].a] = hi[t[x].a] - lo[t[x].a] /\ m[x] = hi[x] - lo[x]
    BY <2>1, <2>2, <2>3
  <2> QED
    BY <2>3, <2>4
<1> HIDE DEF stop, step, P, m, down
<1>9. down[w] \in P /\ down[w] \in stop
  BY <1>4, <1>6, <1>7, <1>8, LoopEnds
<1>10. down[w] \in Taken(t) /\ t[down[w]].leaf /\ lo[down[w]] = lo[w]
  BY <1>9 DEF P, stop
<1>11. s[lo[down[w]]] = down[w]
  BY <1>10 DEF Whole, Numbered
<1> QED
  BY <1>5, <1>10, <1>11

\* up while it is a second half: to the outermost node that ends where w ends
LEMMA LastUpIs ==
    ASSUME NEW t, NEW rt, NEW s, NEW lo, NEW hi, Whole(t, rt, s, lo, hi), NEW w \in Taken(t)
    PROVE  LET u == LastUp(t, w) IN u \in Taken(t) /\ hi[u] = hi[w] /\ ~IsSecond(t, u)
<1> DEFINE stop == {v \in Pool : ~IsSecond(t, v)}
           step == [v \in Pool |-> t[v].parent]
           up == CHOOSE f : f = [v \in Pool |-> IF IsSecond(t, v) THEN f[t[v].parent] ELSE v]
           P == {v \in Taken(t) : hi[v] = hi[w]}
           m == [v \in P |-> (Len(s) + 1) - (hi[v] - lo[v])]
<1>1. \A v \in Pool : IsSecond(t, v) =>
        /\ v \in Taken(t) /\ t[v].parent \in Taken(t) /\ ~t[t[v].parent].leaf /\ t[t[v].parent].b = v
  <2> TAKE v \in Pool
  <2> HAVE IsSecond(t, v)
  <2>1. t[v].parent # NoWin /\ t[t[v].parent].b = v
    BY DEF IsSecond
  <2>2. v \in Taken(t) /\ v # rt
    BY <2>1 DEF Taken, Unused, Whole, LinksAgree
  <2> QED
    BY <2>1, <2>2 DEF Whole, LinksAgree
<1>2. \A v \in Pool \ stop : step[v] \in Pool
  BY <1>1 DEF Taken
<1>3. \A f : f = [v \in Pool |-> IF IsSecond(t, v) THEN f[t[v].parent] ELSE v] <=> LoopsTo(f, Pool, stop, step)
  <2> TAKE f
  <2>1. [v \in Pool |-> IF IsSecond(t, v) THEN f[t[v].parent] ELSE v]
          = [v \in Pool |-> IF v \in stop THEN v ELSE f[step[v]]]
    OBVIOUS
  <2> QED
    BY <2>1 DEF LoopsTo
<1>4. LoopsTo(up, Pool, stop, step)
  <2>1. \E f : LoopsTo(f, Pool, stop, step)
    <3> HIDE DEF stop, step
    <3> QED
      BY <1>2, LoopExists
  <2> HIDE DEF stop, step
  <2> QED
    BY <2>1, <1>3
<1>5. LastUp(t, w) = up[w]
  BY DEF LastUp
<1>6. w \in P /\ P \in SUBSET Pool
  BY DEF Taken
<1>7. m \in [P -> Nat]
  <2>1. \A v \in P : /\ lo[v] \in Nat /\ hi[v] \in Nat /\ 1 <= lo[v] /\ lo[v] < hi[v]
                     /\ hi[v] <= Len(s) + 1 /\ Len(s) \in Nat
    BY <1>6 DEF Whole, Numbered
  <2> HIDE DEF P
  <2> QED
    BY <2>1
<1>8. ASSUME NEW x \in P \ stop PROVE step[x] \in P /\ m[step[x]] < m[x]
  <2> DEFINE p == t[x].parent
  <2>1. x \in Taken(t) /\ x \in Pool /\ IsSecond(t, x) /\ hi[x] = hi[w] /\ step[x] = p
    BY DEF Taken
  <2>2. p \in Taken(t) /\ ~t[p].leaf /\ t[p].b = x
    BY <1>1, <2>1
  <2> HIDE DEF p
  <2>3. t[p].a \in Taken(t)
    BY <2>2, HalvesOf
  <2>4. /\ lo[t[p].a] = lo[p] /\ hi[t[p].a] = lo[x] /\ hi[x] = hi[p]
        /\ lo[t[p].a] < hi[t[p].a]
        /\ lo[x] \in Nat /\ hi[x] \in Nat /\ lo[p] \in Nat /\ hi[p] \in Nat /\ Len(s) \in Nat
    <3>1. lo[t[p].a] = lo[p] /\ hi[t[p].a] = lo[x] /\ hi[x] = hi[p]
      BY <2>2, CutsOf
    <3>2. \A v \in Taken(t) : lo[v] < hi[v] /\ lo[v] \in Nat /\ hi[v] \in Nat
      BY SpansOf
    <3>3. Len(s) \in Nat
      BY TreeIs
    <3> QED
      BY ONLY <3>1, <3>2, <3>3, <2>1, <2>2, <2>3
  <2>5. /\ p \in P /\ m[p] = (Len(s) + 1) - (hi[p] - lo[p]) /\ m[x] = (Len(s) + 1) - (hi[x] - lo[x])
    BY <2>1, <2>2, <2>4
  <2> QED
    BY <2>1, <2>4, <2>5, SMTT(20)
<1> HIDE DEF stop, step, P, m, up
<1>9. up[w] \in P /\ up[w] \in stop
  BY <1>4, <1>6, <1>7, <1>8, LoopEnds
<1> QED
  BY <1>5, <1>9 DEF P, stop

\* Two pieces of a sequence that meet are one piece.
LEMMA PiecesMeet ==
    ASSUME NEW S, NEW s \in Seq(S), NEW i \in Nat, NEW j \in Nat, NEW k \in Nat,
           1 <= i, i < j, j < k, k <= Len(s) + 1
    PROVE  SubSeq(s, i, j - 1) \o SubSeq(s, j, k - 1) = SubSeq(s, i, k - 1)
<1> DEFINE x == SubSeq(s, i, j - 1)
           y == SubSeq(s, j, k - 1)
           z == SubSeq(s, i, k - 1)
<1>1. x \in Seq(S) /\ Len(x) = j - i /\ \A l \in 1 .. j - i : x[l] = s[i + l - 1]
  OBVIOUS
<1>2. y \in Seq(S) /\ Len(y) = k - j /\ \A l \in 1 .. k - j : y[l] = s[j + l - 1]
  OBVIOUS
<1>3. z \in Seq(S) /\ Len(z) = k - i /\ \A l \in 1 .. k - i : z[l] = s[i + l - 1]
  OBVIOUS
<1> HIDE DEF x, y, z
<1>4. /\ x \o y \in Seq(S) /\ Len(x \o y) = Len(x) + Len(y)
      /\ \A l \in 1 .. Len(x) + Len(y) : (x \o y)[l] = IF l <= Len(x) THEN x[l] ELSE y[l - Len(x)]
  BY <1>1, <1>2, ConcatProperties
<1>5. ASSUME NEW l \in 1 .. Len(x \o y) PROVE (x \o y)[l] = z[l]
  <2>1. CASE l <= j - i
    BY <2>1, <1>1, <1>2, <1>3, <1>4
  <2>2. CASE j - i < l
    <3>1. l - (j - i) \in 1 .. k - j /\ j + (l - (j - i)) - 1 = i + l - 1 /\ l \in 1 .. k - i
      BY <2>2, <1>1, <1>2, <1>4
    <3>2. (x \o y)[l] = y[l - (j - i)]
      <4>1. (x \o y)[l] = IF l <= Len(x) THEN x[l] ELSE y[l - Len(x)]
        BY <1>4
      <4>2. Len(x) = j - i /\ ~(l <= j - i)
        BY <2>2, <1>1, <1>4
      <4> QED
        BY <4>1, <4>2
    <3>3. y[l - (j - i)] = s[j + (l - (j - i)) - 1] /\ z[l] = s[i + l - 1]
      BY <3>1, <1>2, <1>3
    <3> QED
      BY ONLY <3>1, <3>2, <3>3
  <2> QED
    BY <2>1, <2>2
<1>6. x \o y = z
  <2>1. x \o y \in Seq(S) /\ z \in Seq(S) /\ Len(x \o y) = Len(z)
    <3>1. (j - i) + (k - j) = k - i
      OBVIOUS
    <3> QED
      BY ONLY <3>1, <1>1, <1>2, <1>3, <1>4
  <2> QED
    BY <1>5, <2>1, SeqEqual
<1> QED
  BY <1>6 DEF x, y, z

\* A piece of one element.
LEMMA OnePiece ==
    ASSUME NEW S, NEW s \in Seq(S), NEW i \in 1 .. Len(s)
    PROVE  SubSeq(s, i, i) = <<s[i]>>
<1> DEFINE x == SubSeq(s, i, i)
<1>1. x \in Seq(S) /\ Len(x) = 1 /\ x[1] = s[i]
  OBVIOUS
<1>2. <<s[i]>> \in Seq(S) /\ Len(<<s[i]>>) = 1 /\ <<s[i]>>[1] = s[i]
  OBVIOUS
<1> HIDE DEF x
<1>3. x = <<s[i]>>
  <2> DEFINE y == <<s[i]>>
  <2>1. y \in Seq(S) /\ Len(y) = Len(x) /\ \A k \in 1 .. Len(x) : x[k] = y[k]
    BY <1>1, <1>2
  <2> HIDE DEF y
  <2>2. x = y
    BY <1>1, <2>1, SeqEqual
  <2> QED
    BY <2>2 DEF y
<1> QED
  BY <1>3 DEF x

\* The leaves below w are the ones numbered so.
LEMMA LeavesUnderIs ==
    ASSUME NEW t, NEW rt, NEW s, NEW lo, NEW hi, Whole(t, rt, s, lo, hi), NEW w \in Taken(t)
    PROVE  LeavesUnder(t, w) = SubSeq(s, lo[w], hi[w] - 1)
<1> DEFINE Is(f) == f = [v \in Pool |-> IF t[v].leaf THEN <<v>> ELSE f[t[v].a] \o f[t[v].b]]
           g == [v \in Pool |-> IF v \in Taken(t) THEN SubSeq(s, lo[v], hi[v] - 1) ELSE <<v>>]
           leaves == CHOOSE f : f = [v \in Pool |-> IF t[v].leaf THEN <<v>> ELSE f[t[v].a] \o f[t[v].b]]
<1>1. ASSUME NEW v \in Taken(t)
      PROVE  /\ v \in Pool /\ Len(s) \in Nat /\ s \in Seq(Pool)
             /\ lo[v] \in Nat /\ hi[v] \in Nat /\ 1 <= lo[v] /\ lo[v] < hi[v] /\ hi[v] <= Len(s) + 1
             /\ t[v].leaf => SubSeq(s, lo[v], hi[v] - 1) = <<v>>
             /\ ~t[v].leaf => /\ t[v].a \in Taken(t) /\ t[v].b \in Taken(t)
                              /\ lo[t[v].a] = lo[v] /\ hi[t[v].a] = lo[t[v].b] /\ hi[t[v].b] = hi[v]
  <2>1. /\ v \in Pool /\ s \in Seq(Pool) /\ Len(s) \in Nat
        /\ lo[v] \in Nat /\ hi[v] \in Nat /\ 1 <= lo[v] /\ lo[v] < hi[v] /\ hi[v] <= Len(s) + 1
        /\ t[v].leaf => hi[v] = lo[v] + 1 /\ s[lo[v]] = v
    BY DEF Whole, Numbered, Taken
  <2>2. ASSUME t[v].leaf PROVE SubSeq(s, lo[v], hi[v] - 1) = <<v>>
    <3>1. hi[v] - 1 = lo[v] /\ lo[v] \in 1 .. Len(s)
      BY <2>1, <2>2
    <3>2. SubSeq(s, lo[v], lo[v]) = <<s[lo[v]]>>
      BY <2>1, <3>1, OnePiece
    <3> QED
      BY <2>1, <2>2, <3>1, <3>2
  <2>3. ASSUME ~t[v].leaf
        PROVE  /\ t[v].a \in Taken(t) /\ t[v].b \in Taken(t)
               /\ lo[t[v].a] = lo[v] /\ hi[t[v].a] = lo[t[v].b] /\ hi[t[v].b] = hi[v]
    BY <2>3 DEF Whole, LinksAgree, Numbered
  <2> QED
    BY <2>1, <2>2, <2>3
<1>2. Is(g)
  <2>1. ASSUME NEW v \in Pool PROVE g[v] = IF t[v].leaf THEN <<v>> ELSE g[t[v].a] \o g[t[v].b]
    <3>1. CASE v \notin Taken(t)
      <4>1. t[v].leaf
        BY <3>1 DEF Taken, Unused
      <4> QED
        BY <3>1, <4>1
    <3>2. CASE v \in Taken(t) /\ t[v].leaf
      BY <3>2, <1>1
    <3>3. CASE v \in Taken(t) /\ ~t[v].leaf
      <4> DEFINE c == t[v].a
                 d == t[v].b
      <4>1. /\ c \in Taken(t) /\ d \in Taken(t)
            /\ lo[c] = lo[v] /\ hi[c] = lo[d] /\ hi[d] = hi[v]
            /\ s \in Seq(Pool) /\ lo[v] \in Nat /\ hi[c] \in Nat /\ hi[v] \in Nat
            /\ 1 <= lo[v] /\ lo[v] < hi[c] /\ hi[c] < hi[v] /\ hi[v] <= Len(s) + 1
        <5>1. c \in Taken(t) /\ d \in Taken(t) /\ lo[c] = lo[v] /\ hi[c] = lo[d] /\ hi[d] = hi[v]
          BY <3>3, <1>1
        <5> HIDE DEF c, d
        <5> QED
          BY <5>1, <3>3, <1>1
      <4>2. SubSeq(s, lo[v], hi[c] - 1) \o SubSeq(s, hi[c], hi[v] - 1) = SubSeq(s, lo[v], hi[v] - 1)
        <5> HIDE DEF c, d
        <5> QED
          BY <4>1, PiecesMeet
      <4>3. g[v] = SubSeq(s, lo[v], hi[v] - 1) /\ g[c] = SubSeq(s, lo[v], hi[c] - 1)
            /\ g[d] = SubSeq(s, hi[c], hi[v] - 1)
        <5>1. c \in Pool /\ d \in Pool
          BY <4>1, <1>1
        <5> HIDE DEF c, d
        <5> QED
          BY <4>1, <5>1, <3>3
      <4> HIDE DEF g
      <4> QED
        BY <3>3, <4>2, <4>3
    <3> QED
      BY <3>1, <3>2, <3>3
  <2>2. g = [v \in Pool |-> g[v]]
    OBVIOUS
  <2> HIDE DEF g
  <2> QED
    BY <2>1, <2>2
<1>3. Is(leaves)
  <2> HIDE DEF g
  <2> QED
    BY <1>2
<1>4. \A v \in Pool : leaves[v] = IF t[v].leaf THEN <<v>> ELSE leaves[t[v].a] \o leaves[t[v].b]
  <2> HIDE DEF leaves
  <2> QED
    BY <1>3
<1>5. LeavesUnder(t, w) = leaves[w]
  BY DEF LeavesUnder
<1> HIDE DEF leaves, g, Is
<1> DEFINE T == {n \in Nat : \A v \in Taken(t) : hi[v] - lo[v] <= n => leaves[v] = SubSeq(s, lo[v], hi[v] - 1)}
<1>6. 0 \in T
  <2>1. ASSUME NEW v \in Taken(t), hi[v] - lo[v] <= 0 PROVE FALSE
    BY <2>1, <1>1
  <2> QED
    BY <2>1
<1>7. ASSUME NEW n \in T PROVE n + 1 \in T
  <2>0. n \in Nat /\ n + 1 \in Nat
    OBVIOUS
  <2>1. ASSUME NEW v \in Taken(t), hi[v] - lo[v] <= n + 1 PROVE leaves[v] = SubSeq(s, lo[v], hi[v] - 1)
    <3>1. CASE t[v].leaf
      BY <3>1, <1>1, <1>4
    <3>2. CASE ~t[v].leaf
      <4> DEFINE c == t[v].a
                 d == t[v].b
      <4>1. /\ c \in Taken(t) /\ d \in Taken(t)
            /\ lo[c] = lo[v] /\ hi[c] = lo[d] /\ hi[d] = hi[v]
            /\ leaves[v] = leaves[c] \o leaves[d]
        BY <3>2, <1>1, <1>4
      <4> HIDE DEF c, d
      <4>2. /\ s \in Seq(Pool) /\ lo[v] \in Nat /\ hi[c] \in Nat /\ hi[v] \in Nat
            /\ 1 <= lo[v] /\ lo[v] < hi[c] /\ hi[c] < hi[v] /\ hi[v] <= Len(s) + 1
        BY <4>1, <1>1
      <4>3. hi[c] - lo[c] <= n /\ hi[d] - lo[d] <= n
        BY <4>1, <4>2, <2>0, <2>1
      <4>4. leaves[c] = SubSeq(s, lo[v], hi[c] - 1) /\ leaves[d] = SubSeq(s, hi[c], hi[v] - 1)
        BY <4>1, <4>3
      <4>5. SubSeq(s, lo[v], hi[c] - 1) \o SubSeq(s, hi[c], hi[v] - 1) = SubSeq(s, lo[v], hi[v] - 1)
        BY <4>2, PiecesMeet
      <4> QED
        BY <4>1, <4>4, <4>5
    <3> QED
      BY <3>1, <3>2
  <2> QED
    BY <2>0, <2>1
<1>8. T = Nat
  <2>1. T \in SUBSET Nat
    OBVIOUS
  <2> HIDE DEF T
  <2> QED
    BY <1>6, <1>7, <2>1, NatSetInduction
<1>9. hi[w] - lo[w] \in T
  BY <1>1, <1>8
<1> QED
  BY <1>5, <1>9, <1>1

\* All of them, under the root.
LEMMA LeavesAre ==
    ASSUME NEW t, NEW rt, NEW s, NEW lo, NEW hi, Whole(t, rt, s, lo, hi)
    PROVE  LeavesUnder(t, rt) = s
<1>0. \A w \in Taken(t) : LeavesUnder(t, w) = SubSeq(s, lo[w], hi[w] - 1)
  BY LeavesUnderIs
<1>1. rt \in Taken(t) /\ lo[rt] = 1 /\ hi[rt] = Len(s) + 1 /\ s \in Seq(Pool) /\ Len(s) \in Nat
  BY DEF Whole, LinksAgree, Numbered
<1>2. SubSeq(s, 1, Len(s)) = s
  BY <1>1
<1>3. LeavesUnder(t, rt) = SubSeq(s, lo[rt], hi[rt] - 1)
  BY <1>0, <1>1
<1> QED
  BY <1>1, <1>2, <1>3

\* C-x o goes to the next leaf in the list, from the last to the first.
LEMMA NextLeafIs ==
    ASSUME NEW s, NEW lo, NEW hi, Whole(wins, root, s, lo, hi), NEW i \in 1 .. Len(s)
    PROVE  NextLeaf(s[i]) = s[(i % Len(s)) + 1] /\ (i % Len(s)) + 1 \in 1 .. Len(s)
<1> DEFINE v == s[i]
           w == LastUp(wins, v)
<1>1. v \in Taken(wins) /\ wins[v].leaf /\ lo[v] = i /\ hi[v] = i + 1 /\ Len(s) \in Nat
  BY DEF Whole, Numbered
<1>2. w \in Taken(wins) /\ hi[w] = i + 1 /\ ~IsSecond(wins, w)
  <2> HIDE DEF v
  <2> QED
    BY <1>1, LastUpIs
<1>3. NextLeaf(s[i]) = FirstLeaf(wins, IF wins[w].parent # NoWin THEN wins[wins[w].parent].b ELSE root)
  BY DEF NextLeaf
<1>4. i % Len(s) = IF i < Len(s) THEN i ELSE 0
  <2>1. Len(s) \in Nat \ {0} /\ i \in 1 .. Len(s)
    BY <1>1
  <2> QED
    BY ONLY <2>1
<1> HIDE DEF v, w
<1>5. CASE wins[w].parent = NoWin
  <2>1. w = root
    BY <1>2, <1>5 DEF Whole, LinksAgree, Taken, Pool, NoWin
  <2>2. i = Len(s) /\ root \in Taken(wins) /\ lo[root] = 1
    BY <2>1, <1>1, <1>2 DEF Whole, LinksAgree, Numbered
  <2>3. FirstLeaf(wins, root) = s[1]
    BY <2>2, FirstLeafIs
  <2> QED
    BY <1>1, <1>3, <1>4, <1>5, <2>2, <2>3
<1>6. CASE wins[w].parent # NoWin
  <2> DEFINE p == wins[w].parent
             b == wins[p].b
  <2>1. w # root
    BY <1>6 DEF Whole, LinksAgree
  <2>2. p \in Taken(wins) /\ ~wins[p].leaf /\ w \in {wins[p].a, wins[p].b}
    BY <1>2, <2>1 DEF Whole, LinksAgree
  <2>3. w = wins[p].a
    BY <1>2, <1>6, <2>2 DEF IsSecond
  <2> HIDE DEF p
  <2>4. b \in Taken(wins) /\ lo[b] = i + 1
    BY <1>2, <2>2, <2>3 DEF Whole, LinksAgree, Numbered
  <2> HIDE DEF b
  <2>5. lo[b] < hi[b] /\ hi[b] <= Len(s) + 1 /\ hi[b] \in Nat
    BY <2>4 DEF Whole, Numbered, Taken
  <2>6. i < Len(s)
    BY <1>1, <2>4, <2>5
  <2>7. FirstLeaf(wins, b) = s[i + 1]
    BY <2>4, FirstLeafIs
  <2> QED
    BY <1>1, <1>3, <1>4, <1>6, <2>6, <2>7 DEF b, p
<1> QED
  BY <1>5, <1>6

\* The pool is finite and numbered from 1.
LEMMA PoolFinite == IsFiniteSet(Pool) /\ Pool = 1 .. RD_MAX_WIN /\ RD_MAX_WIN \in Nat
<1>1. RD_MAX_WIN \in Nat /\ Pool = 1 .. RD_MAX_WIN
  BY WindowsAssumption DEF Pool
<1>2. IsFiniteSet(1 .. RD_MAX_WIN)
  BY <1>1, FS_Interval
<1> QED
  BY <1>1, <1>2

\* Two nodes more, two nodes less.
LEMMA TwoMore ==
    ASSUME NEW S \in SUBSET Pool, NEW a \in Pool, NEW b \in Pool, a \notin S, b \notin S, a # b
    PROVE  Cardinality(S \cup {a, b}) = Cardinality(S) + 2 /\ Cardinality(S) \in Nat
<1>1. IsFiniteSet(S)
  BY PoolFinite, FS_Subset
<1>2. Cardinality(S \cup {a}) = Cardinality(S) + 1 /\ IsFiniteSet(S \cup {a})
  BY <1>1, FS_AddElement
<1>3. Cardinality((S \cup {a}) \cup {b}) = Cardinality(S \cup {a}) + 1
  BY <1>2, FS_AddElement
<1>4. S \cup {a, b} = (S \cup {a}) \cup {b} /\ Cardinality(S) \in Nat
  BY <1>1, FS_CardinalityType
<1> QED
  BY <1>2, <1>3, <1>4

\* A node whose buffer is one is not a free one.
LEMMA ShowsSomething ==
    ASSUME NEW t, NEW w \in Pool, t[w].buf \in Buffers
    PROVE  w \in Taken(t)
  BY WindowsAssumption DEF Taken, Unused

\* sel is at place k of the list s.
Places(s, k, sel) == k \in 1 .. Len(s) /\ sel = s[k]

\* u is t with the leaf sel split into the leaves a and b.
IsSplit(t, u, sel, a, b) ==
    /\ u \in [Pool -> Node]
    /\ u[a] = Leaf(t[sel].buf, sel) /\ u[b] = Leaf(t[sel].buf, sel)
    /\ u[sel] = [t[sel] EXCEPT !.leaf = FALSE, !.a = a, !.b = b]
    /\ \A w \in Pool : w \notin {a, b, sel} => u[w] = t[w]

\* The three nodes that a split touches, and how many there are then.
LEMMA SplitNodes ==
    ASSUME NEW t \in [Pool -> Node], NEW u, NEW sel \in Taken(t), t[sel].buf \in Buffers,
           NEW a \in Pool, NEW b \in Pool, a \notin Taken(t), b \notin Taken(t), a # b,
           IsSplit(t, u, sel, a, b)
    PROVE  /\ u[a].leaf /\ u[a].a = NoWin /\ u[a].b = NoWin /\ u[a].parent = sel /\ u[a].buf = t[sel].buf
           /\ u[b].leaf /\ u[b].a = NoWin /\ u[b].b = NoWin /\ u[b].parent = sel /\ u[b].buf = t[sel].buf
           /\ ~u[sel].leaf /\ u[sel].a = a /\ u[sel].b = b
           /\ u[sel].parent = t[sel].parent /\ u[sel].buf = t[sel].buf
           /\ Taken(u) = Taken(t) \cup {a, b}
           /\ Cardinality(Taken(u)) = Cardinality(Taken(t)) + 2
<1>1. t[sel] \in Node /\ sel \in Pool
  BY DEF Taken
<1>2. /\ u[a].leaf /\ u[a].a = NoWin /\ u[a].b = NoWin /\ u[a].parent = sel /\ u[a].buf = t[sel].buf
      /\ u[b].leaf /\ u[b].a = NoWin /\ u[b].b = NoWin /\ u[b].parent = sel /\ u[b].buf = t[sel].buf
  BY DEF Leaf, IsSplit
<1>3. /\ ~u[sel].leaf /\ u[sel].a = a /\ u[sel].b = b
      /\ u[sel].parent = t[sel].parent /\ u[sel].buf = t[sel].buf
  BY <1>1 DEF Node, IsSplit
<1>4. ASSUME NEW w \in Pool PROVE w \in Taken(u) <=> w \in Taken(t) \cup {a, b}
  <2>1. CASE w \in {a, b} \/ w = sel
    <3>1. u[w].buf \in Buffers
      BY <2>1, <1>2, <1>3
    <3>2. w \in Taken(u)
      BY <3>1, ShowsSomething
    <3> QED
      BY <2>1, <3>2
  <2>2. CASE w \notin {a, b, sel}
    BY <2>2 DEF Taken, IsSplit
  <2> QED
    BY <2>1, <2>2
<1>5. Taken(u) \in SUBSET Pool /\ Taken(t) \in SUBSET Pool
  BY DEF Taken
<1>6. Taken(u) = Taken(t) \cup {a, b}
  BY <1>4, <1>5
<1>7. Cardinality(Taken(u)) = Cardinality(Taken(t)) + 2
  BY <1>5, <1>6, TwoMore
<1> QED
  BY <1>2, <1>3, <1>6, <1>7

\* The tree u with the leaf at k doubled: a at k, the other buffers as in t.
AfterSplit(t, u, rt, s, k, a) ==
    \E s2, lo2, hi2 :
      /\ Whole(u, rt, s2, lo2, hi2)
      /\ Len(s2) = Len(s) + 1 /\ s2[k] = a
      /\ \A i \in 1 .. k : u[s2[i]].buf = t[s[i]].buf
      /\ \A i \in k + 1 .. Len(s) + 1 : u[s2[i]].buf = t[s[i - 1]].buf

\* Splitting the k-th leaf keeps the tree whole: its halves a and b are the
\* leaves k and k + 1, the leaves behind it move up.
LEMMA SplitWhole ==
    ASSUME NEW t, NEW rt, NEW s, NEW lo, NEW hi, Whole(t, rt, s, lo, hi),
           NEW k, NEW sel, Places(s, k, sel),
           NEW a \in Pool, NEW b \in Pool, a \notin Taken(t), b \notin Taken(t), a # b,
           NEW u, IsSplit(t, u, sel, a, b)
    PROVE  AfterSplit(t, u, rt, s, k, a)
<1> DEFINE n == Len(s)
           s2 == [i \in 1 .. n + 1 |-> IF i < k THEN s[i] ELSE IF i = k THEN a
                                       ELSE IF i = k + 1 THEN b ELSE s[i - 1]]
           lo2 == [w \in Pool |-> IF w = a THEN k ELSE IF w = b THEN k + 1
                                  ELSE IF lo[w] > k THEN lo[w] + 1 ELSE lo[w]]
           hi2 == [w \in Pool |-> IF w = a THEN k + 1 ELSE IF w = b THEN k + 2
                                  ELSE IF hi[w] > k THEN hi[w] + 1 ELSE hi[w]]
<1>1. /\ t \in [Pool -> Node] /\ rt \in Taken(t) /\ t[rt].parent = NoWin
      /\ s \in Seq(Pool) /\ n \in Nat
      /\ lo \in [Pool -> Nat] /\ hi \in [Pool -> Nat] /\ lo[rt] = 1 /\ hi[rt] = n + 1
      /\ Cardinality(Taken(t)) = 2 * n - 1 /\ Taken(t) \in SUBSET Pool
  BY TreeIs
<1>0. \A w \in Taken(t) : w # rt => /\ t[w].parent \in Taken(t) /\ ~t[t[w].parent].leaf
                                    /\ w \in {t[t[w].parent].a, t[t[w].parent].b}
  BY ParentsOf
<1>2. k \in Nat /\ 1 <= k /\ k <= n
  BY <1>1 DEF Places
<1>3. \A i \in 1 .. n : s[i] \in Taken(t) /\ t[s[i]].leaf /\ lo[s[i]] = i /\ hi[s[i]] = i + 1
  BY PlacesOf
<1>4. sel \in Taken(t) /\ t[sel].leaf /\ lo[sel] = k /\ hi[sel] = k + 1 /\ t[sel].buf \in Buffers
  BY <1>2, <1>3, NodesIn DEF Places
<1>5. /\ u[a].leaf /\ u[a].a = NoWin /\ u[a].b = NoWin /\ u[a].parent = sel /\ u[a].buf = t[sel].buf
      /\ u[b].leaf /\ u[b].a = NoWin /\ u[b].b = NoWin /\ u[b].parent = sel /\ u[b].buf = t[sel].buf
      /\ ~u[sel].leaf /\ u[sel].a = a /\ u[sel].b = b
      /\ u[sel].parent = t[sel].parent /\ u[sel].buf = t[sel].buf
      /\ Taken(u) = Taken(t) \cup {a, b}
      /\ Cardinality(Taken(u)) = Cardinality(Taken(t)) + 2
  <2>1. /\ t \in [Pool -> Node] /\ sel \in Taken(t) /\ t[sel].buf \in Buffers
        /\ a \in Pool /\ b \in Pool /\ a \notin Taken(t) /\ b \notin Taken(t) /\ a # b
        /\ IsSplit(t, u, sel, a, b)
    BY <1>1, <1>4
  <2> QED
    BY ONLY <2>1, SplitNodes
<1>6. u \in [Pool -> Node] /\ \A w \in Taken(t) : w # sel => u[w] = t[w]
  BY <1>1 DEF IsSplit
<1>7. /\ s2 \in Seq(Pool) /\ Len(s2) = n + 1 /\ s2[k] = a /\ s2[k + 1] = b
      /\ \A i \in 1 .. n + 1 : (i < k => s2[i] = s[i]) /\ (i > k + 1 => s2[i] = s[i - 1])
  <2>1. \A i \in 1 .. n + 1 : s2[i] \in Pool
    <3>1. \A i \in 1 .. n : s[i] \in Pool
      BY <1>1
    <3>2. n \in Nat /\ a \in Pool /\ b \in Pool
      BY <1>1
    <3> TAKE i \in 1 .. n + 1
    <3>3. \/ i < k /\ i \in 1 .. n
          \/ i = k
          \/ i = k + 1
          \/ i > k + 1 /\ i - 1 \in 1 .. n
      BY ONLY <3>2, <1>2, i \in 1 .. n + 1
    <3>4. s2[i] = IF i < k THEN s[i] ELSE IF i = k THEN a ELSE IF i = k + 1 THEN b ELSE s[i - 1]
      OBVIOUS
    <3> HIDE DEF s2, lo2, hi2, n
    <3> QED
      BY <3>1, <3>2, <3>3, <3>4, <1>2
  <2>2. DOMAIN s2 = 1 .. n + 1
    OBVIOUS
  <2>3. s2 \in [1 .. n + 1 -> Pool] /\ n + 1 \in Nat
    BY <2>1, <1>1
  <2>4. /\ s2[k] = a /\ s2[k + 1] = b
        /\ \A i \in 1 .. n + 1 : (i < k => s2[i] = s[i]) /\ (i > k + 1 => s2[i] = s[i - 1])
    BY <1>1, <1>2, SMTT(20)
  <2> HIDE DEF s2
  <2>5. s2 \in Seq(Pool)
    BY <2>3
  <2> QED
    BY <2>2, <2>3, <2>4, <2>5
<1>8. /\ lo2 \in [Pool -> Nat] /\ hi2 \in [Pool -> Nat]
      /\ lo2[a] = k /\ hi2[a] = k + 1 /\ lo2[b] = k + 1 /\ hi2[b] = k + 2
      /\ \A w \in Taken(t) : /\ lo2[w] = IF lo[w] > k THEN lo[w] + 1 ELSE lo[w]
                             /\ hi2[w] = IF hi[w] > k THEN hi[w] + 1 ELSE hi[w]
  <2>1. ASSUME NEW w \in Pool
        PROVE  /\ (IF lo[w] > k THEN lo[w] + 1 ELSE lo[w]) \in Nat
               /\ (IF hi[w] > k THEN hi[w] + 1 ELSE hi[w]) \in Nat
    <3>1. lo[w] \in Nat /\ hi[w] \in Nat
      BY <1>1
    <3> QED
      BY ONLY <3>1
  <2>2. k \in Nat /\ k + 1 \in Nat /\ k + 2 \in Nat
    BY <1>2
  <2>3. lo2 \in [Pool -> Nat]
    BY <2>1, <2>2
  <2>4. hi2 \in [Pool -> Nat]
    BY <2>1, <2>2
  <2>5. lo2[a] = k /\ hi2[a] = k + 1 /\ lo2[b] = k + 1 /\ hi2[b] = k + 2
    OBVIOUS
  <2>6. ASSUME NEW w \in Taken(t)
        PROVE  /\ lo2[w] = IF lo[w] > k THEN lo[w] + 1 ELSE lo[w]
               /\ hi2[w] = IF hi[w] > k THEN hi[w] + 1 ELSE hi[w]
    <3>1. w \in Pool /\ w # a /\ w # b
      BY <1>1
    <3> QED
      BY <3>1
  <2> HIDE DEF lo2, hi2
  <2> QED
    BY <2>3, <2>4, <2>5, <2>6
<1> HIDE DEF s2, lo2, hi2, n
<1>9. LinksAgree(u, rt)
  <2>1. rt \in Taken(u) /\ u[rt].parent = NoWin
    BY <1>1, <1>5, <1>6
  <2>2. ASSUME NEW w \in Taken(u)
        PROVE  /\ u[w].buf \in Buffers
               /\ u[w].leaf => u[w].a = NoWin /\ u[w].b = NoWin
               /\ ~u[w].leaf => /\ u[w].a \in Taken(u) /\ u[u[w].a].parent = w
                                /\ u[w].b \in Taken(u) /\ u[u[w].b].parent = w
               /\ w # rt => /\ u[w].parent \in Taken(u) /\ ~u[u[w].parent].leaf
                            /\ w \in {u[u[w].parent].a, u[u[w].parent].b}
    <3>1. CASE w = a \/ w = b
      BY <3>1, <1>4, <1>5
    <3>2. CASE w \in Taken(t) /\ w # sel
      <4>1. u[w] = t[w]
        BY <3>2, <1>6
      <4>2. /\ t[w].buf \in Buffers
            /\ t[w].leaf => t[w].a = NoWin /\ t[w].b = NoWin
        BY <3>2, NodesIn, LeavesOf
      <4>3. ASSUME ~t[w].leaf
            PROVE  /\ t[w].a \in Taken(u) /\ u[t[w].a].parent = w
                   /\ t[w].b \in Taken(u) /\ u[t[w].b].parent = w
        <5>1. /\ t[w].a \in Taken(t) /\ t[t[w].a].parent = w
              /\ t[w].b \in Taken(t) /\ t[t[w].b].parent = w
          BY <4>3, <3>2, HalvesOf
        <5> QED
          BY <5>1, <1>5, <1>6
      <4>4. ASSUME w # rt
            PROVE  /\ t[w].parent \in Taken(u) /\ ~u[t[w].parent].leaf
                   /\ w \in {u[t[w].parent].a, u[t[w].parent].b}
        <5>1. /\ t[w].parent \in Taken(t) /\ ~t[t[w].parent].leaf
              /\ w \in {t[t[w].parent].a, t[t[w].parent].b}
          BY <4>4, <3>2, ParentsOf
        <5>2. t[w].parent # sel
          BY <5>1, <1>4
        <5> QED
          BY <5>1, <5>2, <1>5, <1>6
      <4> QED
        BY <4>1, <4>2, <4>3, <4>4
    <3>3. CASE w = sel
      <4>1. u[sel].buf \in Buffers /\ ~u[sel].leaf /\ a \in Taken(u) /\ b \in Taken(u)
        BY <1>4, <1>5
      <4>2. ASSUME sel # rt
            PROVE  /\ t[sel].parent \in Taken(u) /\ ~u[t[sel].parent].leaf
                   /\ sel \in {u[t[sel].parent].a, u[t[sel].parent].b}
        <5>1. /\ t[sel].parent \in Taken(t) /\ ~t[t[sel].parent].leaf
              /\ sel \in {t[t[sel].parent].a, t[t[sel].parent].b}
          BY <4>2, <1>4, <1>0
        <5>2. t[sel].parent # sel
          BY <5>1, <1>4
        <5> QED
          BY <5>1, <5>2, <1>5, <1>6
      <4> QED
        BY <4>1, <4>2, <3>3, <1>5
    <3> QED
      BY <3>1, <3>2, <3>3, <1>5
  <2> QED
    BY <2>1, <2>2, <1>6 DEF LinksAgree
<1>10. Numbered(u, rt, s2, lo2, hi2)
  <2>1. lo2[rt] = 1 /\ hi2[rt] = Len(s2) + 1
    <3>1. /\ lo2[rt] = IF lo[rt] > k THEN lo[rt] + 1 ELSE lo[rt]
          /\ hi2[rt] = IF hi[rt] > k THEN hi[rt] + 1 ELSE hi[rt]
          /\ lo[rt] = 1 /\ hi[rt] = n + 1 /\ Len(s2) = n + 1 /\ n \in Nat
      BY <1>1, <1>7, <1>8
    <3> QED
      BY ONLY <3>1, <1>2
  <2>2. ASSUME NEW w \in Taken(t)
        PROVE  /\ lo[w] \in Nat /\ hi[w] \in Nat /\ 1 <= lo[w] /\ lo[w] < hi[w] /\ hi[w] <= n + 1
               /\ 1 <= lo2[w] /\ lo2[w] < hi2[w] /\ hi2[w] <= Len(s2) + 1
    <3>1. lo[w] \in Nat /\ hi[w] \in Nat /\ 1 <= lo[w] /\ lo[w] < hi[w] /\ hi[w] <= n + 1
      BY SpansOf DEF n
    <3>2. /\ lo2[w] = IF lo[w] > k THEN lo[w] + 1 ELSE lo[w]
          /\ hi2[w] = IF hi[w] > k THEN hi[w] + 1 ELSE hi[w]
          /\ Len(s2) = n + 1 /\ n \in Nat
      BY <1>1, <1>7, <1>8
    <3> QED
      BY ONLY <3>1, <3>2, <1>2
  <2>3. ASSUME NEW w \in Taken(u)
        PROVE  /\ 1 <= lo2[w] /\ lo2[w] < hi2[w] /\ hi2[w] <= Len(s2) + 1
               /\ u[w].leaf => hi2[w] = lo2[w] + 1 /\ s2[lo2[w]] = w
               /\ ~u[w].leaf => /\ lo2[u[w].a] = lo2[w] /\ hi2[u[w].a] = lo2[u[w].b]
                                /\ hi2[u[w].b] = hi2[w]
    <3>1. CASE w = a \/ w = b
      <4>1. /\ 1 <= k /\ 1 <= k + 1 /\ k < k + 1 /\ k + 1 < k + 2 /\ k + 2 = (k + 1) + 1
            /\ k + 1 <= Len(s2) + 1 /\ k + 2 <= Len(s2) + 1
        <5>1. Len(s2) = n + 1 /\ n \in Nat
          BY <1>1, <1>7
        <5> QED
          BY ONLY <5>1, <1>2
      <4>2. /\ lo2[a] = k /\ hi2[a] = k + 1 /\ lo2[b] = k + 1 /\ hi2[b] = k + 2
            /\ s2[k] = a /\ s2[k + 1] = b
        BY <1>7, <1>8
      <4>3. u[a].leaf /\ u[b].leaf
        BY <1>5
      <4>4. CASE w = a
        BY ONLY <4>1, <4>2, <4>3, <4>4
      <4>5. CASE w = b
        BY ONLY <4>1, <4>2, <4>3, <4>5
      <4> QED
        BY ONLY <3>1, <4>4, <4>5
    <3>2. CASE w = sel
      <4>1. lo2[sel] = k /\ hi2[sel] = k + 2
        <5>1. /\ lo2[sel] = IF lo[sel] > k THEN lo[sel] + 1 ELSE lo[sel]
              /\ hi2[sel] = IF hi[sel] > k THEN hi[sel] + 1 ELSE hi[sel]
          BY <1>4, <1>8
        <5> QED
          BY ONLY <5>1, <1>2, <1>4
      <4>2. 1 <= k /\ k < k + 2 /\ k + 2 <= Len(s2) + 1
        BY <1>1, <1>2, <1>7
      <4> QED
        BY <4>1, <4>2, <3>2, <1>5, <1>8
    <3>3. CASE w \in Taken(t) /\ w # sel /\ t[w].leaf
      <4>1. hi[w] = lo[w] + 1 /\ s[lo[w]] = w /\ lo[w] \in Nat /\ 1 <= lo[w] /\ hi[w] <= n + 1
        BY <3>3, LeavesOf, SpansOf DEF n
      <4>2. lo[w] # k
        BY <4>1, <3>3 DEF Places
      <4>3. /\ lo[w] > k => lo2[w] = lo[w] + 1 /\ hi2[w] = lo[w] + 2 /\ s2[lo[w] + 1] = s[(lo[w] + 1) - 1]
            /\ lo[w] < k => lo2[w] = lo[w] /\ hi2[w] = lo[w] + 1 /\ s2[lo[w]] = s[lo[w]]
        <5>1. /\ lo2[w] = IF lo[w] > k THEN lo[w] + 1 ELSE lo[w]
              /\ hi2[w] = IF hi[w] > k THEN hi[w] + 1 ELSE hi[w]
              /\ n \in Nat
          BY <3>3, <1>1, <1>8
        <5>2. /\ lo[w] \in 1 .. n + 1 /\ lo[w] + 1 \in 1 .. n + 1
              /\ lo[w] > k => lo[w] + 1 > k + 1
          BY ONLY <4>1, <5>1, <1>2
        <5>3. /\ lo[w] > k => lo2[w] = lo[w] + 1 /\ hi2[w] = lo[w] + 2
              /\ lo[w] < k => lo2[w] = lo[w] /\ hi2[w] = lo[w] + 1
          BY ONLY <4>1, <5>1, <1>2
        <5> QED
          BY <5>2, <5>3, <1>7
      <4>4. (lo[w] + 1) - 1 = lo[w] /\ (lo[w] > k \/ lo[w] < k)
        BY <4>1, <4>2, <1>2
      <4>5. hi2[w] = lo2[w] + 1 /\ s2[lo2[w]] = w
        BY <4>1, <4>3, <4>4
      <4> QED
        BY <4>5, <2>2, <3>3, <1>6
    <3>4. CASE w \in Taken(t) /\ w # sel /\ ~t[w].leaf
      <4>1. /\ t[w].a \in Taken(t) /\ t[w].b \in Taken(t)
            /\ lo[t[w].a] = lo[w] /\ hi[t[w].a] = lo[t[w].b] /\ hi[t[w].b] = hi[w]
        BY <3>4, HalvesOf, CutsOf
      <4>2. lo2[t[w].a] = lo2[w] /\ hi2[t[w].a] = lo2[t[w].b] /\ hi2[t[w].b] = hi2[w]
        <5>1. \A v \in Taken(t) : /\ lo2[v] = IF lo[v] > k THEN lo[v] + 1 ELSE lo[v]
                                  /\ hi2[v] = IF hi[v] > k THEN hi[v] + 1 ELSE hi[v]
          BY <1>8
        <5> QED
          BY ONLY <5>1, <4>1, <3>4
      <4> QED
        BY <4>2, <2>2, <3>4, <1>6
    <3> QED
      BY <3>1, <3>2, <3>3, <3>4, <1>5
  <2>4. ASSUME NEW i \in 1 .. Len(s2) PROVE s2[i] \in Taken(u) /\ u[s2[i]].leaf /\ lo2[s2[i]] = i
    <3>1. CASE i = k \/ i = k + 1
      BY <3>1, <1>5, <1>7, <1>8
    <3>2. CASE i < k
      <4>1. i \in 1 .. n /\ s2[i] = s[i]
        BY <3>2, <1>1, <1>2, <1>7
      <4>2. s[i] \in Taken(t) /\ t[s[i]].leaf /\ lo[s[i]] = i
        BY <4>1, <1>3 DEF n
      <4>3. s[i] # sel /\ i \in Nat /\ ~(i > k)
        BY <4>1, <4>2, <3>2, <1>4, <1>2
      <4> QED
        BY <4>1, <4>2, <4>3, <1>5, <1>6, <1>8
    <3>3. CASE i > k + 1
      <4>1. i - 1 \in 1 .. n /\ s2[i] = s[i - 1] /\ i - 1 > k /\ (i - 1) + 1 = i
        <5>1. i \in 1 .. n + 1 /\ n \in Nat
          BY <1>1, <1>7
        <5>2. i - 1 \in 1 .. n /\ i - 1 > k /\ (i - 1) + 1 = i
          BY ONLY <5>1, <1>2, <3>3
        <5> QED
          BY <5>1, <5>2, <3>3, <1>7
      <4>2. s[i - 1] \in Taken(t) /\ t[s[i - 1]].leaf /\ lo[s[i - 1]] = i - 1
        BY <4>1, <1>3 DEF n
      <4>3. s[i - 1] # sel
        BY <4>1, <4>2, <1>4, <1>2
      <4> QED
        BY <4>1, <4>2, <4>3, <1>5, <1>6, <1>8
    <3>4. i = k \/ i = k + 1 \/ i < k \/ i > k + 1
      BY <1>2
    <3> QED
      BY <3>1, <3>2, <3>3, <3>4
  <2> QED
    BY <2>1, <2>3, <2>4, <1>7, <1>8 DEF Numbered
<1>11. Whole(u, rt, s2, lo2, hi2)
  <2>1. Cardinality(Taken(u)) = 2 * Len(s2) - 1
    BY <1>1, <1>5, <1>7
  <2> QED
    BY <2>1, <1>9, <1>10 DEF Whole
<1>12. ASSUME NEW i \in 1 .. k PROVE u[s2[i]].buf = t[s[i]].buf
  <2>1. CASE i = k
    BY <2>1, <1>5, <1>7 DEF Places
  <2>2. CASE i # k
    <3>1. i < k /\ i \in 1 .. n + 1 /\ i \in 1 .. n
      BY <2>2, <1>1, <1>2
    <3>2. s[i] \in Taken(t) /\ lo[s[i]] = i
      BY <3>1, <1>3 DEF n
    <3>3. s[i] # sel
      BY <3>2, <2>2, <1>4
    <3> QED
      BY <3>1, <3>2, <3>3, <1>6, <1>7
  <2> QED
    BY <2>1, <2>2
<1>13. ASSUME NEW i \in k + 1 .. n + 1 PROVE u[s2[i]].buf = t[s[i - 1]].buf
  <2>1. CASE i = k + 1
    <3>1. i - 1 = k
      BY <2>1, <1>2
    <3> QED
      BY <2>1, <3>1, <1>5, <1>7 DEF Places
  <2>2. CASE i # k + 1
    <3>1. i > k + 1 /\ i \in 1 .. n + 1 /\ i - 1 \in 1 .. n /\ i - 1 # k
      BY <2>2, <1>1, <1>2
    <3>2. s[i - 1] \in Taken(t) /\ lo[s[i - 1]] = i - 1
      BY <3>1, <1>3 DEF n
    <3>3. s[i - 1] # sel
      BY <3>1, <3>2, <1>4
    <3> QED
      BY <3>1, <3>2, <3>3, <1>6, <1>7
  <2> QED
    BY <2>1, <2>2
<1> QED
  BY <1>7, <1>11, <1>12, <1>13 DEF n, AfterSplit

\* A node's leaves are some of its parent's.
LEMMA ChildWithin ==
    ASSUME NEW t, NEW rt, NEW s, NEW lo, NEW hi, Whole(t, rt, s, lo, hi),
           NEW w \in Taken(t), w # rt, NEW q, q = t[w].parent
    PROVE  /\ q \in Taken(t) /\ ~t[q].leaf /\ q # w
           /\ t[q].a \in Taken(t) /\ t[q].b \in Taken(t) /\ t[q].a # t[q].b
           /\ lo[q] <= lo[w] /\ hi[w] <= hi[q]
           /\ \/ w = t[q].a /\ lo[q] = lo[w] /\ hi[w] = lo[t[q].b] /\ hi[t[q].b] = hi[q] /\ hi[w] < hi[q]
              \/ w = t[q].b /\ hi[q] = hi[w] /\ hi[t[q].a] = lo[w] /\ lo[t[q].a] = lo[q] /\ lo[q] < lo[w]
<1>0. \A v \in Taken(t) : lo[v] < hi[v] /\ lo[v] \in Nat /\ hi[v] \in Nat
  BY SpansOf
<1>1. q \in Taken(t) /\ ~t[q].leaf /\ w \in {t[q].a, t[q].b}
  BY ParentsOf
<1>2. /\ t[q].a \in Taken(t) /\ t[q].b \in Taken(t)
      /\ lo[t[q].a] = lo[q] /\ hi[t[q].a] = lo[t[q].b] /\ hi[t[q].b] = hi[q]
  BY <1>1, HalvesOf, CutsOf
<1>3. /\ lo[t[q].a] < hi[t[q].a] /\ lo[t[q].b] < hi[t[q].b]
      /\ lo[t[q].a] \in Nat /\ hi[t[q].a] \in Nat /\ lo[t[q].b] \in Nat /\ hi[t[q].b] \in Nat
  BY <1>2, <1>0
<1> QED
  BY <1>1, <1>2, <1>3

\* sel and sib are the halves of p.
Siblings(t, sel, sib, p) ==
    p = t[sel].parent /\ p # NoWin /\ sib = (IF t[p].a = sel THEN t[p].b ELSE t[p].a)

\* u is t without the leaf sel: its sibling sib is moved over their parent p.
IsDelete(t, u, sel, sib, p) ==
    /\ u \in [Pool -> Node]
    /\ u[sib] = Unused /\ u[sel] = Unused
    /\ u[p] = [t[sib] EXCEPT !.parent = t[p].parent]
    /\ \A w \in Pool \ {sib, sel, p} :
         u[w] = IF w \in {t[sib].a, t[sib].b} THEN [t[w] EXCEPT !.parent = p] ELSE t[w]

\* Who is who then, and what is left.
DeleteLeaves(t, u, rt, lo, hi, sel, sib, p) ==
    /\ p \in Taken(t) /\ ~t[p].leaf /\ sib \in Taken(t) /\ t[sib].parent = p
    /\ sib # sel /\ sib # p /\ p # sel /\ {t[p].a, t[p].b} = {sel, sib} /\ sel # rt /\ sib # rt
    /\ \/ lo[p] = lo[sel] /\ lo[sib] = lo[sel] + 1 /\ hi[p] = hi[sib]
       \/ lo[p] = lo[sib] /\ hi[sib] = lo[sel] /\ hi[p] = lo[sel] + 1
    /\ u[p].leaf = t[sib].leaf /\ u[p].a = t[sib].a /\ u[p].b = t[sib].b
    /\ u[p].buf = t[sib].buf /\ u[p].parent = t[p].parent
    /\ \A w \in Taken(t) \ {sel, sib, p} :
         /\ u[w].leaf = t[w].leaf /\ u[w].a = t[w].a /\ u[w].b = t[w].b /\ u[w].buf = t[w].buf
         /\ u[w].parent = IF t[w].parent = sib THEN p ELSE t[w].parent
    /\ Taken(u) = Taken(t) \ {sel, sib}
    /\ Cardinality(Taken(t)) = Cardinality(Taken(u)) + 2

\* The nodes that a deletion moves are found as it says.
LEMMA DeleteNodes ==
    ASSUME NEW t, NEW rt, NEW s, NEW lo, NEW hi, Whole(t, rt, s, lo, hi),
           NEW sel \in Taken(t), t[sel].leaf, NEW p, NEW sib, Siblings(t, sel, sib, p),
           NEW u, IsDelete(t, u, sel, sib, p)
    PROVE  DeleteLeaves(t, u, rt, lo, hi, sel, sib, p)
<1>1. t \in [Pool -> Node] /\ t[rt].parent = NoWin /\ Taken(t) \in SUBSET Pool /\ NoWin \notin Pool
  <2>1. NoWin \notin Pool
    BY PoolFinite DEF NoWin
  <2> QED
    BY <2>1, TreeIs
<1>d. \A w \in Taken(t) : ~t[w].leaf =>
        t[w].a \in Taken(t) /\ t[t[w].a].parent = w /\ t[w].b \in Taken(t) /\ t[t[w].b].parent = w
  BY HalvesOf
<1>l. \A w \in Taken(t) : t[w].leaf => t[w].a = NoWin /\ t[w].b = NoWin
  BY LeavesOf
<1>s. \A w \in Taken(t) : t[w].buf \in Buffers
  BY NodesIn
<1>u. \A w \in Taken(t) : w # rt => w \in {t[t[w].parent].a, t[t[w].parent].b}
  BY ParentsOf
<1>2. sel # rt
  BY <1>1 DEF Siblings
<1>3. /\ p \in Taken(t) /\ ~t[p].leaf /\ p # sel
      /\ t[p].a \in Taken(t) /\ t[p].b \in Taken(t) /\ t[p].a # t[p].b
      /\ \/ sel = t[p].a /\ lo[p] = lo[sel] /\ hi[sel] = lo[t[p].b] /\ hi[t[p].b] = hi[p] /\ hi[sel] < hi[p]
         \/ sel = t[p].b /\ hi[p] = hi[sel] /\ hi[t[p].a] = lo[sel] /\ lo[t[p].a] = lo[p] /\ lo[p] < lo[sel]
  <2>1. Whole(t, rt, s, lo, hi) /\ sel \in Taken(t) /\ p = t[sel].parent
    BY DEF Siblings
  <2> QED
    BY ONLY <2>1, <1>2, ChildWithin
<1>4. /\ sib \in Taken(t) /\ sib # sel /\ {t[p].a, t[p].b} = {sel, sib}
  BY <1>3 DEF Siblings
<1>5. t[sib].parent = p
  BY <1>3, <1>4, <1>d
<1>6. sib # rt /\ sib # p
  <2>1. sib # rt
    BY <1>1, <1>3, <1>5
  <2>2. t[sib].parent # sib
    BY <2>1, <1>4, ChildWithin
  <2> QED
    BY <2>1, <2>2, <1>5
<1>7. hi[sel] = lo[sel] + 1
  BY LeavesOf
<1>8. \/ lo[p] = lo[sel] /\ lo[sib] = lo[sel] + 1 /\ hi[p] = hi[sib]
      \/ lo[p] = lo[sib] /\ hi[sib] = lo[sel] /\ hi[p] = lo[sel] + 1
  BY <1>3, <1>7 DEF Siblings
<1>9. /\ u[p].leaf = t[sib].leaf /\ u[p].a = t[sib].a /\ u[p].b = t[sib].b
      /\ u[p].buf = t[sib].buf /\ u[p].parent = t[p].parent
  <2>1. t[sib] \in Node
    BY <1>1, <1>4
  <2> QED
    BY <2>1 DEF Node, IsDelete
<1>10. ASSUME NEW w \in Taken(t) \ {sel, sib, p}
       PROVE  /\ u[w].leaf = t[w].leaf /\ u[w].a = t[w].a /\ u[w].b = t[w].b /\ u[w].buf = t[w].buf
              /\ u[w].parent = IF t[w].parent = sib THEN p ELSE t[w].parent
  <2>1. u[w] = IF w \in {t[sib].a, t[sib].b} THEN [t[w] EXCEPT !.parent = p] ELSE t[w]
    BY <1>1 DEF IsDelete
  <2>2. w \in {t[sib].a, t[sib].b} <=> t[w].parent = sib
    <3>1. ASSUME w \in {t[sib].a, t[sib].b} PROVE t[w].parent = sib
      <4>1. ~t[sib].leaf
        <5>1. w # NoWin /\ sib \in Taken(t)
          BY <1>1, <1>4
        <5> QED
          BY ONLY <5>1, <3>1, <1>l
      <4>2. t[t[sib].a].parent = sib /\ t[t[sib].b].parent = sib
        BY <4>1, <1>4, <1>d
      <4> QED
        BY ONLY <3>1, <4>2
    <3>2. ASSUME t[w].parent = sib PROVE w \in {t[sib].a, t[sib].b}
      <4>1. w # rt
        BY <3>2, <1>1, <1>4
      <4> QED
        BY <3>2, <4>1, <1>u
    <3> QED
      BY <3>1, <3>2
  <2>3. t[w] \in Node
    BY <1>1
  <2> QED
    BY <2>1, <2>2, <2>3 DEF Node
<1>11. Taken(u) = Taken(t) \ {sel, sib}
  <2>1. ASSUME NEW w \in Pool PROVE w \in Taken(u) <=> w \in Taken(t) \ {sel, sib}
    <3>1. CASE w \in {sel, sib}
      <4>1. u[w] = Unused
        BY <3>1 DEF IsDelete
      <4> QED
        BY <3>1, <4>1 DEF Taken
    <3>2. CASE w \in Taken(t) \ {sel, sib}
      <4>1. u[w].buf \in Buffers
        <5>1. CASE w = p
          BY <5>1, <1>4, <1>9, <1>s
        <5>2. CASE w # p
          <6>1. w \in Taken(t) /\ u[w].buf = t[w].buf
            BY <3>2, <5>2, <1>10
          <6> QED
            BY <6>1, <1>s
        <5> QED
          BY <5>1, <5>2
      <4> QED
        BY <3>2, <4>1, ShowsSomething
    <3>3. CASE w \notin Taken(t)
      <4>1. w # p /\ w # sel /\ w # sib /\ t[w] = Unused
        BY <3>3, <1>3, <1>4 DEF Taken
      <4>2. w \notin {t[sib].a, t[sib].b}
        <5>1. w # NoWin /\ sib \in Taken(t)
          BY <1>1, <1>4
        <5>2. t[sib].leaf => t[sib].a = NoWin /\ t[sib].b = NoWin
          BY <5>1, <1>l
        <5>3. ~t[sib].leaf => t[sib].a \in Taken(t) /\ t[sib].b \in Taken(t)
          BY <5>1, <1>d
        <5> QED
          BY ONLY <5>1, <5>2, <5>3, <3>3
      <4>3. u[w] = t[w]
        BY <4>1, <4>2 DEF IsDelete
      <4> QED
        BY <3>3, <4>1, <4>3 DEF Taken
    <3> QED
      BY <3>1, <3>2, <3>3
  <2>2. Taken(u) \in SUBSET Pool
    BY DEF Taken
  <2> QED
    BY <2>1, <2>2, <1>1
<1>12. Cardinality(Taken(t)) = Cardinality(Taken(u)) + 2
  <2> DEFINE T == Taken(t)
             U == Taken(u)
  <2>0. sel \in T /\ sib \in T /\ sib # sel /\ U = T \ {sel, sib} /\ T \in SUBSET Pool
    BY <1>1, <1>4, <1>11
  <2> HIDE DEF T, U
  <2>1. T = U \cup {sel, sib} /\ sel \notin U /\ sib \notin U
    BY ONLY <2>0
  <2>2. U \in SUBSET Pool /\ sel \in Pool /\ sib \in Pool
    BY ONLY <2>0
  <2>3. Cardinality(U \cup {sel, sib}) = Cardinality(U) + 2
    BY ONLY <2>0, <2>1, <2>2, TwoMore
  <2> QED
    BY ONLY <2>1, <2>3 DEF T, U
<1> QED
  BY <1>2, <1>3, <1>4, <1>5, <1>6, <1>8, <1>9, <1>10, <1>11, <1>12 DEF DeleteLeaves

\* The tree u without the leaf at k, the other buffers as in t.
AfterDelete(t, u, rt, s, k, p) ==
    \E s2, lo2, hi2 :
      /\ Whole(u, rt, s2, lo2, hi2) /\ p \in Taken(u)
      /\ Len(s) > 1 /\ Len(s2) = Len(s) - 1
      /\ \A i \in 1 .. Len(s) - 1 : u[s2[i]].buf = t[s[IF i < k THEN i ELSE i + 1]].buf

\* Deleting the k-th leaf keeps the tree whole: the leaves behind it move
\* down, and p stands for the sibling if that was a leaf.
LEMMA DeleteWhole ==
    ASSUME NEW t, NEW rt, NEW s, NEW lo, NEW hi, Whole(t, rt, s, lo, hi),
           NEW k, NEW sel, Places(s, k, sel), NEW p, NEW sib, Siblings(t, sel, sib, p),
           NEW u, IsDelete(t, u, sel, sib, p)
    PROVE  AfterDelete(t, u, rt, s, k, p)
<1> DEFINE n == Len(s)
           Old(i) == IF i < k THEN i ELSE i + 1
           s2 == [i \in 1 .. n - 1 |-> IF s[Old(i)] = sib THEN p ELSE s[Old(i)]]
           lo2 == [w \in Pool |-> IF lo[w] > k THEN lo[w] - 1 ELSE lo[w]]
           hi2 == [w \in Pool |-> IF hi[w] > k THEN hi[w] - 1 ELSE hi[w]]
<1>1. /\ t \in [Pool -> Node] /\ rt \in Taken(t) /\ t[rt].parent = NoWin
      /\ s \in Seq(Pool) /\ n \in Nat
      /\ lo \in [Pool -> Nat] /\ hi \in [Pool -> Nat] /\ lo[rt] = 1 /\ hi[rt] = n + 1
      /\ Cardinality(Taken(t)) = 2 * n - 1 /\ Taken(t) \in SUBSET Pool
  BY TreeIs
<1>2. k \in Nat /\ 1 <= k /\ k <= n
  BY <1>1 DEF Places
<1>3. \A i \in 1 .. n : s[i] \in Taken(t) /\ t[s[i]].leaf /\ lo[s[i]] = i /\ hi[s[i]] = i + 1
  BY ONLY Whole(t, rt, s, lo, hi), PlacesOf
<1>4. sel \in Taken(t) /\ t[sel].leaf /\ lo[sel] = k /\ hi[sel] = k + 1
  BY <1>3 DEF Places
<1>5. /\ p \in Taken(t) /\ ~t[p].leaf /\ sib \in Taken(t) /\ t[sib].parent = p
      /\ sib # sel /\ sib # p /\ p # sel /\ {t[p].a, t[p].b} = {sel, sib} /\ sel # rt /\ sib # rt
      /\ \/ lo[p] = lo[sel] /\ lo[sib] = lo[sel] + 1 /\ hi[p] = hi[sib]
         \/ lo[p] = lo[sib] /\ hi[sib] = lo[sel] /\ hi[p] = lo[sel] + 1
      /\ u[p].leaf = t[sib].leaf /\ u[p].a = t[sib].a /\ u[p].b = t[sib].b
      /\ u[p].buf = t[sib].buf /\ u[p].parent = t[p].parent
      /\ \A w \in Taken(t) \ {sel, sib, p} :
           /\ u[w].leaf = t[w].leaf /\ u[w].a = t[w].a /\ u[w].b = t[w].b /\ u[w].buf = t[w].buf
           /\ u[w].parent = IF t[w].parent = sib THEN p ELSE t[w].parent
      /\ Taken(u) = Taken(t) \ {sel, sib}
      /\ Cardinality(Taken(t)) = Cardinality(Taken(u)) + 2
  <2>1. /\ Whole(t, rt, s, lo, hi) /\ sel \in Taken(t) /\ t[sel].leaf /\ Siblings(t, sel, sib, p)
        /\ IsDelete(t, u, sel, sib, p)
    BY <1>4
  <2>2. DeleteLeaves(t, u, rt, lo, hi, sel, sib, p)
    BY ONLY <2>1, DeleteNodes
  <2> HIDE DEF s2, lo2, hi2, Old, n
  <2> QED
    BY <2>2 DEF DeleteLeaves
<1>6. \A w \in Taken(t) : t[w].buf \in Buffers
  BY NodesIn
<1>7. \A w \in Taken(t) : /\ 1 <= lo[w] /\ lo[w] < hi[w] /\ hi[w] <= n + 1
                          /\ lo[w] \in Nat /\ hi[w] \in Nat
  BY SpansOf
<1>8. \A w \in Taken(t) : t[w].leaf =>
        t[w].a = NoWin /\ t[w].b = NoWin /\ hi[w] = lo[w] + 1 /\ s[lo[w]] = w
  BY LeavesOf
<1>9. \A w \in Taken(t) : ~t[w].leaf =>
        /\ t[w].a \in Taken(t) /\ t[t[w].a].parent = w
        /\ t[w].b \in Taken(t) /\ t[t[w].b].parent = w
  BY HalvesOf
<1>10. \A w \in Taken(t) : ~t[w].leaf =>
         lo[t[w].a] = lo[w] /\ hi[t[w].a] = lo[t[w].b] /\ hi[t[w].b] = hi[w]
  BY CutsOf
<1>11. \A w \in Taken(t) : w # rt =>
         t[w].parent \in Taken(t) /\ ~t[t[w].parent].leaf /\ w \in {t[t[w].parent].a, t[t[w].parent].b}
  BY ParentsOf
<1>12. \A w \in Taken(t) : w # rt =>
         t[w].parent # w /\ lo[t[w].parent] <= lo[w] /\ hi[w] <= hi[t[w].parent]
  <2>1. Whole(t, rt, s, lo, hi)
    OBVIOUS
  <2> QED
    BY ONLY <2>1, ChildWithin
<1>13. /\ lo2 \in [Pool -> Nat] /\ hi2 \in [Pool -> Nat]
       /\ \A w \in Taken(t) : /\ lo2[w] = IF lo[w] > k THEN lo[w] - 1 ELSE lo[w]
                              /\ hi2[w] = IF hi[w] > k THEN hi[w] - 1 ELSE hi[w]
  <2>1. ASSUME NEW w \in Pool
        PROVE  /\ (IF lo[w] > k THEN lo[w] - 1 ELSE lo[w]) \in Nat
               /\ (IF hi[w] > k THEN hi[w] - 1 ELSE hi[w]) \in Nat
    <3>1. lo[w] \in Nat /\ hi[w] \in Nat
      BY <1>1
    <3> QED
      BY ONLY <3>1, <1>2
  <2>2. lo2 \in [Pool -> Nat]
    BY <2>1
  <2>3. hi2 \in [Pool -> Nat]
    BY <2>1
  <2>4. \A w \in Taken(t) : w \in Pool
    BY <1>1
  <2>5. \A w \in Taken(t) : /\ lo2[w] = IF lo[w] > k THEN lo[w] - 1 ELSE lo[w]
                            /\ hi2[w] = IF hi[w] > k THEN hi[w] - 1 ELSE hi[w]
    BY <2>4
  <2> HIDE DEF lo2, hi2
  <2> QED
    BY <2>2, <2>3, <2>5
<1>14. n > 1
  <2>1. 1 <= lo[p] /\ hi[p] <= n + 1 /\ lo[sib] < hi[sib]
        /\ lo[p] \in Nat /\ hi[p] \in Nat /\ lo[sib] \in Nat /\ hi[sib] \in Nat
    BY <1>5, <1>7
  <2>2. lo[sib] >= 1
    BY <1>5, <1>7
  <2> HIDE DEF n
  <2> QED
    BY ONLY <2>1, <2>2, <1>1, <1>2, <1>4, <1>5
<1>15. ASSUME NEW i \in 1 .. n - 1
       PROVE  Old(i) \in 1 .. n /\ Old(i) # k /\ (Old(i) > k => Old(i) - 1 = i) /\ (Old(i) < k => Old(i) = i)
  <2> HIDE DEF n
  <2> QED
    BY <1>1, <1>2
<1>16. ASSUME NEW j \in 1 .. n, j # k
       PROVE  LET i == IF j > k THEN j - 1 ELSE j IN i \in 1 .. n - 1 /\ Old(i) = j
  <2>1. n \in Nat /\ j \in 1 .. n
    BY <1>1
  <2> HIDE DEF n
  <2> QED
    BY ONLY <2>1, <1>16, <1>2 DEF Old
<1> HIDE DEF Old
<1>17. /\ s2 \in Seq(Pool) /\ Len(s2) = n - 1
       /\ \A i \in 1 .. n - 1 : s2[i] = IF s[Old(i)] = sib THEN p ELSE s[Old(i)]
  <2>1. \A i \in 1 .. n - 1 : s2[i] \in Pool
    <3>1. p \in Pool
      BY <1>1, <1>5
    <3>2. \A j \in 1 .. n : s[j] \in Pool
      <4>1. s \in Seq(Pool)
        BY <1>1
      <4> QED
        BY ONLY <4>1
    <3> QED
      BY <3>1, <3>2, <1>15
  <2>2. n - 1 \in Nat /\ DOMAIN s2 = 1 .. n - 1
    <3>1. n \in Nat /\ n > 1
      BY <1>1, <1>14
    <3>2. DOMAIN s2 = 1 .. n - 1
      OBVIOUS
    <3> HIDE DEF n, s2
    <3> QED
      BY ONLY <3>1, <3>2
  <2>3. s2 \in [1 .. n - 1 -> Pool]
    BY <2>1
  <2>4. \A i \in 1 .. n - 1 : s2[i] = IF s[Old(i)] = sib THEN p ELSE s[Old(i)]
    OBVIOUS
  <2> HIDE DEF s2
  <2>5. s2 \in Seq(Pool) /\ Len(s2) = n - 1
    <3> HIDE DEF n
    <3> QED
      BY ONLY <2>2, <2>3
  <2> QED
    BY ONLY <2>4, <2>5
<1> HIDE DEF s2, lo2, hi2, n
<1>18. lo2[p] = lo2[sib] /\ hi2[p] = hi2[sib]
  <2>1. /\ lo2[p] = IF lo[p] > k THEN lo[p] - 1 ELSE lo[p]
        /\ hi2[p] = IF hi[p] > k THEN hi[p] - 1 ELSE hi[p]
        /\ lo2[sib] = IF lo[sib] > k THEN lo[sib] - 1 ELSE lo[sib]
        /\ hi2[sib] = IF hi[sib] > k THEN hi[sib] - 1 ELSE hi[sib]
    BY <1>5, <1>13
  <2>2. lo[p] \in Nat /\ hi[p] \in Nat /\ lo[sib] \in Nat /\ hi[sib] \in Nat /\ lo[sib] < hi[sib]
    BY <1>5, <1>7
  <2> QED
    BY ONLY <2>1, <2>2, <1>2, <1>4, <1>5
<1>a. /\ p \in Taken(t) /\ ~t[p].leaf /\ sib \in Taken(t) /\ t[sib].parent = p
      /\ sib # sel /\ sib # p /\ p # sel /\ {t[p].a, t[p].b} = {sel, sib} /\ sel # rt /\ sib # rt
  BY <1>5
<1>b. /\ u[p].leaf = t[sib].leaf /\ u[p].a = t[sib].a /\ u[p].b = t[sib].b
      /\ u[p].buf = t[sib].buf /\ u[p].parent = t[p].parent
  BY <1>5
<1>c. \A w : w \in Taken(u) <=> w \in Taken(t) /\ w # sel /\ w # sib
  BY <1>5
<1>19. \A w \in Taken(u) : w # p =>
         /\ w \in Taken(t) /\ w # sel /\ w # sib
         /\ u[w].leaf = t[w].leaf /\ u[w].a = t[w].a /\ u[w].b = t[w].b /\ u[w].buf = t[w].buf
  <2>1. \A w \in Taken(t) \ {sel, sib, p} :
          u[w].leaf = t[w].leaf /\ u[w].a = t[w].a /\ u[w].b = t[w].b /\ u[w].buf = t[w].buf
    BY <1>5
  <2> QED
    BY ONLY <2>1, <1>c
<1>p. /\ \A w \in Taken(u) : w # p /\ t[w].parent = sib => u[w].parent = p
      /\ \A w \in Taken(u) : w # p /\ t[w].parent # sib => u[w].parent = t[w].parent
  <2>1. \A w \in Taken(t) \ {sel, sib, p} : u[w].parent = IF t[w].parent = sib THEN p ELSE t[w].parent
    BY <1>5
  <2> QED
    BY ONLY <2>1, <1>c
<1>z. NoWin \notin Pool
  BY ONLY PoolFinite DEF NoWin
<1>20. p \in Taken(u) /\ rt \in Taken(u) /\ u[rt].parent = NoWin
  <2>1. p \in Taken(u) /\ rt \in Taken(u)
    BY <1>1, <1>a, <1>c
  <2>2. CASE rt = p
    BY <2>1, <2>2, <1>1, <1>b
  <2>3. CASE rt # p
    <3>1. NoWin # sib
      BY <1>1, <1>a, <1>z
    <3> QED
      BY <3>1, <2>1, <2>3, <1>1, <1>p
  <2> QED
    BY <2>1, <2>2, <2>3
<1>21. LinksAgree(u, rt)
  <2>1. u \in [Pool -> Node]
    BY DEF IsDelete
  <2>2. ASSUME NEW w \in Taken(u)
        PROVE  /\ u[w].buf \in Buffers
               /\ u[w].leaf => u[w].a = NoWin /\ u[w].b = NoWin
    <3>1. CASE w = p
      BY <3>1, <1>a, <1>b, <1>6, <1>8
    <3>2. CASE w # p
      <4>1. /\ w \in Taken(t) /\ u[w].leaf = t[w].leaf /\ u[w].a = t[w].a /\ u[w].b = t[w].b
            /\ u[w].buf = t[w].buf
        BY <3>2, <1>19
      <4> QED
        BY <4>1, <1>6, <1>8
    <3> QED
      BY <3>1, <3>2
  <2>3. ASSUME NEW w \in Taken(u), ~u[w].leaf
        PROVE  /\ u[w].a \in Taken(u) /\ u[u[w].a].parent = w
               /\ u[w].b \in Taken(u) /\ u[u[w].b].parent = w
    <3>1. PICK v \in Taken(t) : /\ v # p /\ ~t[v].leaf /\ u[w].a = t[v].a /\ u[w].b = t[v].b
                                /\ w = IF v = sib THEN p ELSE v
      <4>1. CASE w = p
        BY <4>1, <2>3, <1>a, <1>b
      <4>2. CASE w # p
        BY <4>2, <2>3, <1>19
      <4> QED
        BY <4>1, <4>2
    <3>2. ASSUME NEW c \in {t[v].a, t[v].b} PROVE c \in Taken(u) /\ u[c].parent = w
      <4>1. c \in Taken(t) /\ t[c].parent = v
        BY <3>1, <1>9
      <4>2. c # sel /\ c # sib
        BY <4>1, <3>1, <1>4, <1>a DEF Siblings
      <4>3. CASE c = p
        <5>1. v # sib
          <6>1. ASSUME v = sib PROVE FALSE
            <7>1. lo[sib] <= lo[p] /\ hi[p] <= hi[sib]
              <8>1. p # rt
                <9>1. t[p].parent = sib /\ sib \in Pool
                  BY <6>1, <4>1, <4>3, <1>1, <1>a
                <9> QED
                  BY <9>1, <1>1, <1>z
              <8> QED
                BY <6>1, <4>1, <4>3, <8>1, <1>a, <1>12
            <7>2. lo[p] \in Nat /\ hi[p] \in Nat /\ lo[sib] \in Nat /\ hi[sib] \in Nat /\ lo[sel] \in Nat
              BY <1>4, <1>5, <1>7
            <7> QED
              BY ONLY <7>1, <7>2, <1>5
          <6> QED
            BY <6>1
        <5> QED
          BY <4>1, <4>3, <5>1, <3>1, <1>b, <1>20
      <4>4. CASE c # p
        <5>1. c \in Taken(u)
          BY <4>1, <4>2, <1>c
        <5> QED
          BY <4>1, <4>4, <5>1, <3>1, <1>p
      <4> QED
        BY <4>3, <4>4
    <3> QED
      BY <3>1, <3>2
  <2>4. ASSUME NEW w \in Taken(u), w # rt
        PROVE  /\ u[w].parent \in Taken(u) /\ ~u[u[w].parent].leaf
               /\ w \in {u[u[w].parent].a, u[u[w].parent].b}
    <3> DEFINE q == t[w].parent
    <3>1. w \in Taken(t) /\ w # sel /\ w # sib
      BY <1>c
    <3>2. /\ q \in Taken(t) /\ ~t[q].leaf /\ w \in {t[q].a, t[q].b} /\ q # sel
          /\ q # w /\ lo[q] <= lo[w] /\ hi[w] <= hi[q]
      BY <2>4, <3>1, <1>4, <1>11, <1>12
    <3>3. q # p
      BY <3>1, <3>2, <1>a
    <3>4. CASE w = p
      <4>1. q # sib
        <5>1. lo[p] \in Nat /\ hi[p] \in Nat /\ lo[sib] \in Nat /\ hi[sib] \in Nat /\ lo[sel] \in Nat
          BY <1>4, <1>5, <1>7
        <5>2. ASSUME q = sib PROVE FALSE
          <6>1. lo[sib] <= lo[p] /\ hi[p] <= hi[sib]
            BY <3>2, <3>4, <5>2
          <6> QED
            BY ONLY <6>1, <5>1, <1>5
        <5> QED
          BY <5>2
      <4>2. u[w].parent = q
        BY <3>4, <1>b
      <4> HIDE DEF q
      <4>3. q \in Taken(u) /\ u[q].leaf = t[q].leaf /\ u[q].a = t[q].a /\ u[q].b = t[q].b
        BY <3>2, <3>3, <4>1, <1>c, <1>19
      <4> QED
        BY <3>2, <4>2, <4>3
    <3>5. CASE w # p /\ q = sib
      <4>1. u[w].parent = p
        BY <3>5, <1>p
      <4> QED
        BY <3>2, <3>5, <4>1, <1>b, <1>20
    <3>6. CASE w # p /\ q # sib
      <4>1. u[w].parent = q
        BY <3>6, <1>p
      <4> HIDE DEF q
      <4>2. q \in Taken(u) /\ u[q].leaf = t[q].leaf /\ u[q].a = t[q].a /\ u[q].b = t[q].b
        BY <3>2, <3>3, <3>6, <1>c, <1>19
      <4> QED
        BY <3>2, <4>1, <4>2
    <3> QED
      BY <3>4, <3>5, <3>6
  <2> QED
    BY <1>20, <2>1, <2>2, <2>3, <2>4 DEF LinksAgree
<1>22. ASSUME NEW w \in Taken(t), w # sel
       PROVE  /\ 1 <= lo2[w] /\ lo2[w] < hi2[w] /\ hi2[w] <= Len(s2) + 1
              /\ t[w].leaf => /\ hi2[w] = lo2[w] + 1
                              /\ lo2[w] \in 1 .. n - 1 /\ s[Old(lo2[w])] = w
  <2>1. /\ 1 <= lo[w] /\ lo[w] < hi[w] /\ hi[w] <= n + 1 /\ lo[w] \in Nat /\ hi[w] \in Nat
        /\ lo2[w] = IF lo[w] > k THEN lo[w] - 1 ELSE lo[w]
        /\ hi2[w] = IF hi[w] > k THEN hi[w] - 1 ELSE hi[w]
        /\ n \in Nat /\ Len(s2) = n - 1
    BY <1>1, <1>7, <1>13, <1>17
  <2>2. ~(lo[w] = k /\ hi[w] = k + 1)
    <3>1. CASE t[w].leaf
      BY <3>1, <1>8, <1>22 DEF Places
    <3>2. CASE ~t[w].leaf
      <4>1. /\ t[w].a \in Taken(t) /\ t[w].b \in Taken(t)
            /\ lo[t[w].a] = lo[w] /\ hi[t[w].a] = lo[t[w].b] /\ hi[t[w].b] = hi[w]
        BY <3>2, <1>9, <1>10
      <4>2. /\ lo[t[w].a] < hi[t[w].a] /\ lo[t[w].b] < hi[t[w].b]
            /\ lo[t[w].a] \in Nat /\ hi[t[w].a] \in Nat
        BY <4>1, <1>7
      <4> QED
        BY ONLY <4>1, <4>2, <2>1, <1>2
    <3> QED
      BY <3>1, <3>2
  <2>3. 1 <= lo2[w] /\ lo2[w] < hi2[w] /\ hi2[w] <= Len(s2) + 1
    BY ONLY <2>1, <2>2, <1>2, SMTT(20)
  <2>4. ASSUME t[w].leaf
        PROVE  hi2[w] = lo2[w] + 1 /\ lo2[w] \in 1 .. n - 1 /\ s[Old(lo2[w])] = w
    <3>1. hi[w] = lo[w] + 1 /\ s[lo[w]] = w
      BY <2>4, <1>8
    <3>2. lo[w] # k /\ lo[w] \in 1 .. n
      BY ONLY <2>1, <2>2, <3>1, <1>2
    <3>3. hi2[w] = lo2[w] + 1 /\ lo2[w] = (IF lo[w] > k THEN lo[w] - 1 ELSE lo[w])
      BY ONLY <2>1, <3>1, <3>2, <1>2
    <3>4. lo2[w] \in 1 .. n - 1 /\ Old(lo2[w]) = lo[w]
      BY <3>2, <3>3, <1>16
    <3> QED
      BY <3>1, <3>3, <3>4
  <2> QED
    BY <2>3, <2>4
<1>23. ASSUME NEW i \in 1 .. n - 1
       PROVE  LET w == s[Old(i)]
              IN  w \in Taken(t) /\ w # sel /\ w # p /\ t[w].leaf /\ lo2[w] = i
  <2> DEFINE w == s[Old(i)]
  <2>1. w \in Taken(t) /\ t[w].leaf /\ lo[w] = Old(i) /\ Old(i) # k /\ Old(i) \in 1 .. n
    BY <1>3, <1>15
  <2>2. lo2[w] = IF lo[w] > k THEN lo[w] - 1 ELSE lo[w]
    BY <2>1, <1>13
  <2>3. Old(i) > k \/ Old(i) < k
    BY <2>1, <1>1, <1>2
  <2>4. lo2[w] = i
    <3>1. /\ Old(i) \in Nat /\ Old(i) > k => Old(i) - 1 = i
          /\ Old(i) < k => Old(i) = i
      BY <2>1, <1>1, <1>15
    <3> HIDE DEF w
    <3> QED
      BY <2>1, <2>2, <2>3, <3>1, <1>2
  <2> QED
    BY <2>1, <2>4, <1>4, <1>a
<1>24. Numbered(u, rt, s2, lo2, hi2)
  <2>1. lo2[rt] = 1 /\ hi2[rt] = Len(s2) + 1
    <3>1. /\ lo2[rt] = IF lo[rt] > k THEN lo[rt] - 1 ELSE lo[rt]
          /\ hi2[rt] = IF hi[rt] > k THEN hi[rt] - 1 ELSE hi[rt]
          /\ lo[rt] = 1 /\ hi[rt] = n + 1 /\ n \in Nat /\ Len(s2) = n - 1
      BY <1>1, <1>13, <1>17
    <3> QED
      BY ONLY <3>1, <1>2
  <2>2. ASSUME NEW w \in Taken(u)
        PROVE  1 <= lo2[w] /\ lo2[w] < hi2[w] /\ hi2[w] <= Len(s2) + 1
    BY <1>a, <1>c, <1>18, <1>22
  <2>3. ASSUME NEW w \in Taken(u), u[w].leaf PROVE hi2[w] = lo2[w] + 1 /\ s2[lo2[w]] = w
    <3>1. CASE w = p
      <4>1. t[sib].leaf /\ hi2[sib] = lo2[sib] + 1 /\ lo2[sib] \in 1 .. n - 1 /\ s[Old(lo2[sib])] = sib
        BY <3>1, <2>3, <1>a, <1>b, <1>22
      <4> QED
        BY <3>1, <4>1, <1>17, <1>18
    <3>2. CASE w # p
      <4>1. w \in Taken(t) /\ w # sel /\ w # sib /\ t[w].leaf
        BY <3>2, <2>3, <1>19
      <4>2. hi2[w] = lo2[w] + 1 /\ lo2[w] \in 1 .. n - 1 /\ s[Old(lo2[w])] = w
        BY <4>1, <1>22
      <4> QED
        BY <4>1, <4>2, <1>17
    <3> QED
      BY <3>1, <3>2
  <2>4. ASSUME NEW w \in Taken(u), ~u[w].leaf
        PROVE  lo2[u[w].a] = lo2[w] /\ hi2[u[w].a] = lo2[u[w].b] /\ hi2[u[w].b] = hi2[w]
    <3>1. PICK v \in Taken(t) : /\ ~t[v].leaf /\ u[w].a = t[v].a /\ u[w].b = t[v].b
                                /\ lo2[v] = lo2[w] /\ hi2[v] = hi2[w]
      <4>1. CASE w = p
        BY <4>1, <2>4, <1>a, <1>b, <1>18
      <4>2. CASE w # p
        BY <4>2, <2>4, <1>19
      <4> QED
        BY <4>1, <4>2
    <3>2. /\ t[v].a \in Taken(t) /\ t[v].b \in Taken(t)
          /\ lo[t[v].a] = lo[v] /\ hi[t[v].a] = lo[t[v].b] /\ hi[t[v].b] = hi[v]
      BY <3>1, <1>9, <1>10
    <3>3. lo2[t[v].a] = lo2[v] /\ hi2[t[v].a] = lo2[t[v].b] /\ hi2[t[v].b] = hi2[v]
      BY <3>2, <1>13
    <3> QED
      BY <3>1, <3>3
  <2>5. ASSUME NEW i \in 1 .. Len(s2) PROVE s2[i] \in Taken(u) /\ u[s2[i]].leaf /\ lo2[s2[i]] = i
    <3> DEFINE w == s[Old(i)]
    <3>1. w \in Taken(t) /\ w # sel /\ w # p /\ t[w].leaf /\ lo2[w] = i
      BY <1>17, <1>23
    <3>2. s2[i] = IF w = sib THEN p ELSE w
      BY <1>17
    <3> HIDE DEF w
    <3>3. CASE w = sib
      BY <3>1, <3>2, <3>3, <1>b, <1>18, <1>20
    <3>4. CASE w # sib
      BY <3>1, <3>2, <3>4, <1>c, <1>19
    <3> QED
      BY <3>3, <3>4
  <2> QED
    BY <2>1, <2>2, <2>3, <2>4, <2>5, <1>13, <1>17 DEF Numbered
<1>25. Whole(u, rt, s2, lo2, hi2)
  <2>1. Cardinality(Taken(u)) + 2 = 2 * n - 1 /\ n \in Nat /\ Len(s2) = n - 1
    BY <1>1, <1>5, <1>17
  <2>2. Taken(u) \in SUBSET Pool /\ IsFiniteSet(Pool)
    BY <1>1, <1>5, PoolFinite
  <2>3. Cardinality(Taken(u)) \in Nat
    BY <2>2, FS_Subset, FS_CardinalityType
  <2>4. Cardinality(Taken(u)) = 2 * Len(s2) - 1
    BY ONLY <2>1, <2>3
  <2> QED
    BY <2>4, <1>21, <1>24 DEF Whole
<1>26. ASSUME NEW i \in 1 .. n - 1 PROVE u[s2[i]].buf = t[s[Old(i)]].buf
  <2> DEFINE w == s[Old(i)]
  <2>1. w \in Taken(t) /\ w # sel /\ w # p
    BY <1>23
  <2>2. s2[i] = IF w = sib THEN p ELSE w
    BY <1>17
  <2> HIDE DEF w
  <2>3. u[s2[i]].buf = t[w].buf
    <3>1. CASE w = sib
      BY <2>2, <3>1, <1>b
    <3>2. CASE w # sib
      <4>1. s2[i] = w /\ w \in Taken(u)
        BY <2>1, <2>2, <3>2, <1>c
      <4> QED
        BY <2>1, <4>1, <1>19
    <3> QED
      BY <3>1, <3>2
  <2> QED
    BY <2>3 DEF w
<1> QED
  BY <1>14, <1>17, <1>20, <1>25, <1>26 DEF n, Old, AfterDelete

\* A lone root is whole.
LEMMA LoneWhole ==
    ASSUME NEW t, NEW b \in Buffers, t = [w \in Pool |-> IF w = 1 THEN Leaf(b, NoWin) ELSE Unused]
    PROVE  /\ Whole(t, 1, <<1>>, [w \in Pool |-> 1], [w \in Pool |-> 2])
           /\ 1 \in Taken(t) /\ t[1].leaf /\ t[1].buf = b
<1> DEFINE s == <<1>>
           lo == [w \in Pool |-> 1]
           hi == [w \in Pool |-> 2]
<1>1. 1 \in Pool /\ NoWin \in 0 .. RD_MAX_WIN
  BY PoolFinite, WindowsAssumption DEF NoWin
<1>2. Leaf(b, NoWin) \in Node /\ Unused \in Node
  BY <1>1 DEF Leaf, Unused, Node
<1>3. t \in [Pool -> Node] /\ t[1] = Leaf(b, NoWin) /\ \A w \in Pool : w # 1 => t[w] = Unused
  BY <1>1, <1>2
<1>4. t[1].leaf /\ t[1].a = NoWin /\ t[1].b = NoWin /\ t[1].parent = NoWin /\ t[1].buf = b
  BY <1>3 DEF Leaf
<1>5. Taken(t) = {1}
  <2>1. 1 \in Taken(t)
    BY <1>1, <1>4, ShowsSomething
  <2> QED
    BY <2>1, <1>3 DEF Taken
<1>6. LinksAgree(t, 1)
  BY <1>3, <1>4, <1>5 DEF LinksAgree
<1>7. s \in Seq(Pool) /\ Len(s) = 1 /\ s[1] = 1
  BY <1>1
<1>8. lo \in [Pool -> Nat] /\ hi \in [Pool -> Nat] /\ lo[1] = 1 /\ hi[1] = 2
  BY <1>1
<1> HIDE DEF s, lo, hi
<1>9. Numbered(t, 1, s, lo, hi)
  <2>1. ASSUME NEW w \in Taken(t)
        PROVE  /\ 1 <= lo[w] /\ lo[w] < hi[w] /\ hi[w] <= Len(s) + 1
               /\ t[w].leaf /\ hi[w] = lo[w] + 1 /\ s[lo[w]] = w
    BY <1>4, <1>5, <1>7, <1>8
  <2>2. ASSUME NEW i \in 1 .. Len(s) PROVE s[i] \in Taken(t) /\ t[s[i]].leaf /\ lo[s[i]] = i
    <3>1. i = 1
      BY <1>7
    <3> QED
      BY <3>1, <1>4, <1>5, <1>7, <1>8
  <2>3. lo[1] = 1 /\ hi[1] = Len(s) + 1
    BY <1>7, <1>8
  <2> QED
    <3>1. \A w \in Taken(t) :
            /\ 1 <= lo[w] /\ lo[w] < hi[w] /\ hi[w] <= Len(s) + 1
            /\ t[w].leaf => hi[w] = lo[w] + 1 /\ s[lo[w]] = w
            /\ ~t[w].leaf => lo[t[w].a] = lo[w] /\ hi[t[w].a] = lo[t[w].b] /\ hi[t[w].b] = hi[w]
      BY <2>1
    <3>2. s \in Seq(Pool) /\ lo \in [Pool -> Nat] /\ hi \in [Pool -> Nat]
      BY <1>7, <1>8
    <3> QED
      BY ONLY <2>2, <2>3, <3>1, <3>2 DEF Numbered
<1>10. Cardinality(Taken(t)) = 2 * Len(s) - 1
  <2>1. Cardinality({1}) = 1
    BY FS_Singleton
  <2>2. 2 * Len(s) - 1 = 1
    BY <1>7
  <2> QED
    BY <2>1, <2>2, <1>5
<1> QED
  BY <1>4, <1>5, <1>6, <1>9, <1>10 DEF Whole, s, lo, hi

\* u is t but for the buffers that the nodes show.
Redressed(t, u) ==
    /\ u \in [Pool -> Node] /\ Taken(u) = Taken(t)
    /\ \A w \in Pool : /\ u[w].leaf = t[w].leaf /\ u[w].a = t[w].a /\ u[w].b = t[w].b
                      /\ u[w].parent = t[w].parent
    /\ \A w \in Taken(t) : u[w].buf \in Buffers

\* Other buffers in the windows leave the tree as it is.
LEMMA RedressWhole ==
    ASSUME NEW t, NEW rt, NEW s, NEW lo, NEW hi, Whole(t, rt, s, lo, hi), NEW u, Redressed(t, u)
    PROVE  Whole(u, rt, s, lo, hi)
<1>1. t \in [Pool -> Node] /\ Taken(t) \in SUBSET Pool
  BY TreeIs
<1>2. /\ u \in [Pool -> Node] /\ Taken(u) = Taken(t)
      /\ \A w \in Pool : /\ u[w].leaf = t[w].leaf /\ u[w].a = t[w].a /\ u[w].b = t[w].b
                        /\ u[w].parent = t[w].parent
      /\ \A w \in Taken(t) : u[w].buf \in Buffers
  BY DEF Redressed
<1>3. LinksAgree(u, rt)
  <2>1. rt \in Taken(u) /\ u[rt].parent = NoWin
    <3>1. rt \in Taken(t) /\ t[rt].parent = NoWin
      BY DEF Whole, LinksAgree
    <3> QED
      BY ONLY <1>1, <1>2, <3>1
  <2>2. ASSUME NEW w \in Taken(u)
        PROVE  /\ u[w].buf \in Buffers
               /\ u[w].leaf => u[w].a = NoWin /\ u[w].b = NoWin
               /\ ~u[w].leaf => /\ u[w].a \in Taken(u) /\ u[u[w].a].parent = w
                                /\ u[w].b \in Taken(u) /\ u[u[w].b].parent = w
               /\ w # rt => /\ u[w].parent \in Taken(u) /\ ~u[u[w].parent].leaf
                            /\ w \in {u[u[w].parent].a, u[u[w].parent].b}
    <3>1. /\ t[w].buf \in Buffers
          /\ t[w].leaf => t[w].a = NoWin /\ t[w].b = NoWin
          /\ ~t[w].leaf => /\ t[w].a \in Taken(t) /\ t[t[w].a].parent = w
                           /\ t[w].b \in Taken(t) /\ t[t[w].b].parent = w
          /\ w # rt => /\ t[w].parent \in Taken(t) /\ ~t[t[w].parent].leaf
                       /\ w \in {t[t[w].parent].a, t[t[w].parent].b}
      BY <1>2 DEF Whole, LinksAgree
    <3>2. u[w].buf \in Buffers /\ w \in Pool
      BY <3>1, <1>1, <1>2
    <3> QED
      BY <3>1, <3>2, <1>1, <1>2
  <2> QED
    BY <2>1, <2>2, <1>2 DEF LinksAgree
<1>4. Numbered(u, rt, s, lo, hi)
  <2>1. Numbered(t, rt, s, lo, hi)
    BY DEF Whole
  <2>2. \A w \in Taken(t) : u[w].leaf = t[w].leaf /\ u[w].a = t[w].a /\ u[w].b = t[w].b
    BY <1>1, <1>2
  <2> QED
    <3>1. ASSUME NEW w \in Taken(u)
          PROVE  /\ 1 <= lo[w] /\ lo[w] < hi[w] /\ hi[w] <= Len(s) + 1
                 /\ u[w].leaf => hi[w] = lo[w] + 1 /\ s[lo[w]] = w
                 /\ ~u[w].leaf => /\ lo[u[w].a] = lo[w] /\ hi[u[w].a] = lo[u[w].b]
                                  /\ hi[u[w].b] = hi[w]
      <4>1. /\ 1 <= lo[w] /\ lo[w] < hi[w] /\ hi[w] <= Len(s) + 1
            /\ t[w].leaf => hi[w] = lo[w] + 1 /\ s[lo[w]] = w
            /\ ~t[w].leaf => /\ lo[t[w].a] = lo[w] /\ hi[t[w].a] = lo[t[w].b]
                             /\ hi[t[w].b] = hi[w]
        BY <2>1, <1>2 DEF Numbered
      <4>2. u[w].leaf = t[w].leaf /\ u[w].a = t[w].a /\ u[w].b = t[w].b
        BY <2>2, <1>2
      <4> QED
        BY <4>1, <4>2
    <3>2. ASSUME NEW i \in 1 .. Len(s) PROVE s[i] \in Taken(u) /\ u[s[i]].leaf /\ lo[s[i]] = i
      BY <2>1, <2>2, <1>2 DEF Numbered
    <3>3. /\ s \in Seq(Pool) /\ lo \in [Pool -> Nat] /\ hi \in [Pool -> Nat]
          /\ lo[rt] = 1 /\ hi[rt] = Len(s) + 1
      BY <2>1 DEF Numbered
    <3> QED
      BY ONLY <3>1, <3>2, <3>3 DEF Numbered
<1> QED
  BY <1>2, <1>3, <1>4 DEF Whole

\* u is t with the buffer "old" of its leaves replaced by b.
Replaced(t, u, old, b) ==
    u = [w \in Pool |-> IF t[w].leaf /\ t[w].buf = old THEN [t[w] EXCEPT !.buf = b] ELSE t[w]]

LEMMA ReplaceWhole ==
    ASSUME NEW t, NEW rt, NEW s, NEW lo, NEW hi, Whole(t, rt, s, lo, hi),
           NEW old \in Buffers, NEW b \in Buffers, NEW u, Replaced(t, u, old, b)
    PROVE  /\ Whole(u, rt, s, lo, hi) /\ Taken(u) = Taken(t)
           /\ \A w \in Pool : u[w].leaf = t[w].leaf
           /\ \A w \in Pool : t[w].leaf => u[w].buf = IF t[w].buf = old THEN b ELSE t[w].buf
<1>1. t \in [Pool -> Node] /\ Taken(t) \in SUBSET Pool /\ \A w \in Taken(t) : t[w].buf \in Buffers
  BY TreeIs DEF Whole, LinksAgree
<1>2. ASSUME NEW w \in Pool
      PROVE  /\ u[w] \in Node /\ u[w].leaf = t[w].leaf /\ u[w].a = t[w].a /\ u[w].b = t[w].b
             /\ u[w].parent = t[w].parent
             /\ t[w].leaf => u[w].buf = IF t[w].buf = old THEN b ELSE t[w].buf
             /\ (u[w] = t[w] \/ (t[w].buf \in Buffers /\ u[w].buf \in Buffers))
  <2>1. t[w] \in Node
    BY <1>1
  <2>2. u[w] = IF t[w].leaf /\ t[w].buf = old THEN [t[w] EXCEPT !.buf = b] ELSE t[w]
    BY DEF Replaced
  <2>3. CASE t[w].leaf /\ t[w].buf = old
    BY <2>1, <2>2, <2>3 DEF Node
  <2>4. CASE ~(t[w].leaf /\ t[w].buf = old)
    <3>1. u[w] = t[w]
      BY <2>2, <2>4
    <3> QED
      BY <2>1, <2>4, <3>1
  <2> QED
    BY <2>3, <2>4
<1>3. u \in [Pool -> Node]
  BY <1>2 DEF Replaced
<1>4. ASSUME NEW w \in Pool PROVE w \in Taken(u) <=> w \in Taken(t)
  <2>1. CASE u[w] = t[w]
    BY <2>1 DEF Taken
  <2>2. CASE t[w].buf \in Buffers /\ u[w].buf \in Buffers
    BY <2>2, ShowsSomething
  <2> QED
    BY <1>2, <2>1, <2>2
<1>5. Taken(u) = Taken(t)
  <2>1. Taken(u) \in SUBSET Pool
    BY DEF Taken
  <2> QED
    BY ONLY <1>1, <1>4, <2>1
<1>6. ASSUME NEW w \in Taken(t) PROVE u[w].buf \in Buffers
  <2>1. w \in Pool /\ t[w].buf \in Buffers
    BY <1>1
  <2> QED
    BY <2>1, <1>2
<1>7. Redressed(t, u)
  BY <1>2, <1>3, <1>5, <1>6 DEF Redressed
<1>8. Whole(u, rt, s, lo, hi)
  BY <1>7, RedressWhole
<1> QED
  BY <1>2, <1>5, <1>8

\* u is t but that sel shows b.
Shows(t, u, sel, b) ==
    /\ Taken(u) = Taken(t) /\ u[sel].leaf = t[sel].leaf /\ u[sel].buf = b
    /\ \A w \in Taken(t) : w # sel => u[w].buf = t[w].buf

\* Another buffer in a window leaves the tree as it is.
LEMMA ShowWhole ==
    ASSUME NEW t, NEW rt, NEW s, NEW lo, NEW hi, Whole(t, rt, s, lo, hi),
           NEW sel \in Taken(t), NEW b \in Buffers, NEW u, u = [t EXCEPT ![sel].buf = b]
    PROVE  Whole(u, rt, s, lo, hi) /\ Shows(t, u, sel, b)
<1>1. t \in [Pool -> Node] /\ sel \in Pool /\ Taken(t) \in SUBSET Pool
  BY TreeIs
<1>2. u \in [Pool -> Node] /\ u[sel] = [t[sel] EXCEPT !.buf = b] /\ \A w \in Pool : w # sel => u[w] = t[w]
  <2>1. [t[sel] EXCEPT !.buf = b] \in Node
    BY <1>1 DEF Node
  <2> QED
    BY <2>1, <1>1
<1>3. \A w \in Pool : /\ u[w].leaf = t[w].leaf /\ u[w].a = t[w].a /\ u[w].b = t[w].b
                      /\ u[w].parent = t[w].parent /\ (w # sel => u[w].buf = t[w].buf)
  <2> TAKE w \in Pool
  <2>1. CASE w = sel
    <3>1. t[sel] \in Node
      BY <1>1
    <3> QED
      BY <2>1, <3>1, <1>2 DEF Node
  <2> QED
    BY <2>1, <1>2
<1>4. u[sel].buf = b
  <2>1. t[sel] \in Node
    BY <1>1
  <2> QED
    BY <2>1, <1>2 DEF Node
<1>5. Taken(u) = Taken(t)
  <2>1. sel \in Taken(u)
    BY <1>1, <1>4, ShowsSomething
  <2>2. \A w \in Pool : w # sel => (w \in Taken(u) <=> w \in Taken(t))
    BY <1>2 DEF Taken
  <2>3. Taken(u) \in SUBSET Pool
    BY DEF Taken
  <2> QED
    BY ONLY <2>1, <2>2, <2>3, <1>1, sel \in Taken(t)
<1>6. \A w \in Taken(t) : u[w].buf \in Buffers
  <2>1. \A w \in Taken(t) : t[w].buf \in Buffers
    BY DEF Whole, LinksAgree
  <2> QED
    BY <2>1, <1>1, <1>3, <1>4
<1>7. Redressed(t, u)
  BY <1>2, <1>3, <1>5, <1>6 DEF Redressed
<1>8. Whole(u, rt, s, lo, hi)
  BY <1>7, RedressWhole
<1> QED
  BY <1>1, <1>3, <1>4, <1>5, <1>8 DEF Shows

RowOf(t, rt) == [i \in DOMAIN LeavesUnder(t, rt) |-> t[LeavesUnder(t, rt)[i]].buf]
PlaceOf(t, rt, sel) == CHOOSE i \in DOMAIN LeavesUnder(t, rt) : LeavesUnder(t, rt)[i] = sel

\* What a whole tree shows.
LEMMA RowIs ==
    ASSUME NEW t, NEW rt, NEW s, NEW lo, NEW hi, Whole(t, rt, s, lo, hi),
           NEW sel \in Taken(t), t[sel].leaf
    PROVE  /\ RowOf(t, rt) \in Seq(Buffers) /\ Len(RowOf(t, rt)) = Len(s) /\ Len(s) \in Nat
           /\ \A i \in 1 .. Len(s) : RowOf(t, rt)[i] = t[s[i]].buf
           /\ PlaceOf(t, rt, sel) = lo[sel] /\ lo[sel] \in 1 .. Len(s) /\ s[lo[sel]] = sel
<1>1. LeavesUnder(t, rt) = s
  BY LeavesAre
<1>2. s \in Seq(Pool) /\ Len(s) \in Nat /\ DOMAIN s = 1 .. Len(s)
  BY TreeIs
<1>3. \A i \in 1 .. Len(s) : t[s[i]].buf \in Buffers
  BY PlacesOf, NodesIn
<1>4. RowOf(t, rt) = [i \in 1 .. Len(s) |-> t[s[i]].buf]
  BY <1>1, <1>2 DEF RowOf
<1>5. /\ RowOf(t, rt) \in [1 .. Len(s) -> Buffers]
      /\ \A i \in 1 .. Len(s) : RowOf(t, rt)[i] = t[s[i]].buf
  BY <1>3, <1>4
<1>6. RowOf(t, rt) \in Seq(Buffers) /\ Len(RowOf(t, rt)) = Len(s)
  BY <1>2, <1>5
<1>7. /\ 1 <= lo[sel] /\ lo[sel] < hi[sel] /\ hi[sel] <= Len(s) + 1 /\ lo[sel] \in Nat /\ hi[sel] \in Nat
      /\ s[lo[sel]] = sel
  BY SpansOf, LeavesOf
<1>8. lo[sel] \in 1 .. Len(s)
  BY <1>2, <1>7
<1>9. \A i \in 1 .. Len(s) : lo[s[i]] = i
  BY PlacesOf
<1>10. \A i \in DOMAIN s : s[i] = sel => i = lo[sel]
  BY <1>2, <1>9
<1>11. PlaceOf(t, rt, sel) = lo[sel]
  <2>1. PlaceOf(t, rt, sel) = CHOOSE i \in DOMAIN s : s[i] = sel
    BY <1>1 DEF PlaceOf
  <2> QED
    BY <2>1, <1>2, <1>7, <1>8, <1>10
<1> QED
  BY <1>2, <1>5, <1>6, <1>7, <1>8, <1>11

\* A row in which place k has been doubled ...
LEMMA DoubledRow ==
    ASSUME NEW S, NEW r \in Seq(S), NEW q \in Seq(S), NEW k \in 1 .. Len(r), Len(q) = Len(r) + 1,
           \A i \in 1 .. k : q[i] = r[i],
           \A i \in k + 1 .. Len(r) + 1 : q[i] = r[i - 1]
    PROVE  q = SubSeq(r, 1, k) \o SubSeq(r, k, Len(r))
<1> DEFINE x == SubSeq(r, 1, k)
           y == SubSeq(r, k, Len(r))
<1>1. x \in Seq(S) /\ Len(x) = k /\ \A i \in 1 .. k : x[i] = r[i]
  OBVIOUS
<1>2. y \in Seq(S) /\ Len(y) = Len(r) - k + 1 /\ \A i \in 1 .. Len(r) - k + 1 : y[i] = r[i + k - 1]
  OBVIOUS
<1>3. /\ k \in Nat /\ Len(r) \in Nat
  OBVIOUS
<1> HIDE DEF x, y
<1>4. /\ x \o y \in Seq(S) /\ Len(x \o y) = Len(q)
      /\ \A i \in 1 .. Len(q) : (x \o y)[i] = IF i <= k THEN x[i] ELSE y[i - k]
  <2>0. x \in Seq(S) /\ y \in Seq(S)
    BY <1>1, <1>2
  <2>1. /\ x \o y \in Seq(S) /\ Len(x \o y) = Len(x) + Len(y)
        /\ \A i \in 1 .. Len(x) + Len(y) : (x \o y)[i] = IF i <= Len(x) THEN x[i] ELSE y[i - Len(x)]
    BY ONLY <2>0, ConcatProperties
  <2>2. Len(x) + Len(y) = Len(q) /\ Len(x) = k
    BY <1>1, <1>2, <1>3
  <2> QED
    BY <2>1, <2>2
<1>5. ASSUME NEW i \in 1 .. Len(q) PROVE q[i] = (x \o y)[i]
  <2>0. i \in Nat /\ 1 <= i /\ i <= Len(r) + 1
    BY <1>3
  <2>1. CASE i <= k
    <3>1. i \in 1 .. k
      BY <2>0, <2>1, <1>3
    <3> QED
      BY <2>1, <3>1, <1>1, <1>4
  <2>2. CASE k < i
    <3>1. i - k \in 1 .. Len(r) - k + 1 /\ i - k + k - 1 = i - 1 /\ i \in k + 1 .. Len(r) + 1
      BY <2>2, <1>3
    <3>2. (x \o y)[i] = y[i - k] /\ y[i - k] = r[i - k + k - 1]
      BY <2>2, <3>1, <1>2, <1>3, <1>4
    <3> QED
      BY <3>1, <3>2
  <2>3. i <= k \/ k < i
    BY <2>0, <1>3
  <2> QED
    BY <2>1, <2>2, <2>3
<1>6. q = x \o y
  BY <1>4, <1>5, SeqEqual
<1> QED
  BY <1>6 DEF x, y

\* ... and one without it.
LEMMA ShorterRow ==
    ASSUME NEW S, NEW r \in Seq(S), NEW q \in Seq(S), NEW k \in 1 .. Len(r), Len(q) = Len(r) - 1,
           \A i \in 1 .. Len(r) - 1 : q[i] = r[IF i < k THEN i ELSE i + 1]
    PROVE  q = SubSeq(r, 1, k - 1) \o SubSeq(r, k + 1, Len(r))
<1> DEFINE x == SubSeq(r, 1, k - 1)
           y == SubSeq(r, k + 1, Len(r))
<1>1. x \in Seq(S) /\ Len(x) = k - 1 /\ \A i \in 1 .. k - 1 : x[i] = r[i]
  OBVIOUS
<1>2. y \in Seq(S) /\ Len(y) = Len(r) - k /\ \A i \in 1 .. Len(r) - k : y[i] = r[i + k]
  OBVIOUS
<1>3. k \in Nat /\ Len(r) \in Nat
  OBVIOUS
<1> HIDE DEF x, y
<1>4. /\ x \o y \in Seq(S) /\ Len(x \o y) = Len(q)
      /\ \A i \in 1 .. Len(q) : (x \o y)[i] = IF i <= k - 1 THEN x[i] ELSE y[i - (k - 1)]
  <2>0. x \in Seq(S) /\ y \in Seq(S)
    BY <1>1, <1>2
  <2>1. /\ x \o y \in Seq(S) /\ Len(x \o y) = Len(x) + Len(y)
        /\ \A i \in 1 .. Len(x) + Len(y) : (x \o y)[i] = IF i <= Len(x) THEN x[i] ELSE y[i - Len(x)]
    BY ONLY <2>0, ConcatProperties
  <2>2. Len(x) = k - 1 /\ Len(x) + Len(y) = Len(q)
    BY <1>1, <1>2, <1>3
  <2> QED
    BY ONLY <2>1, <2>2
<1>5. ASSUME NEW i \in 1 .. Len(q) PROVE q[i] = (x \o y)[i]
  <2>0. i \in Nat /\ 1 <= i /\ i <= Len(r) - 1 /\ i \in 1 .. Len(r) - 1
    BY <1>3
  <2>1. CASE i < k
    <3>1. i \in 1 .. k - 1 /\ i <= k - 1
      BY <2>0, <2>1, <1>3
    <3>2. q[i] = r[i]
      BY <2>0, <2>1
    <3> QED
      BY <3>1, <3>2, <1>1, <1>4
  <2>2. CASE k <= i
    <3>1. i - (k - 1) \in 1 .. Len(r) - k /\ (i - (k - 1)) + k = i + 1 /\ ~(i <= k - 1) /\ ~(i < k)
      BY <2>0, <2>2, <1>3
    <3>2. (x \o y)[i] = y[i - (k - 1)] /\ y[i - (k - 1)] = r[(i - (k - 1)) + k]
      BY <3>1, <1>2, <1>4
    <3>3. q[i] = r[i + 1]
      BY <3>1
    <3> QED
      BY <3>1, <3>2, <3>3
  <2>3. i < k \/ k <= i
    BY <2>0, <1>3
  <2> QED
    BY <2>1, <2>2, <2>3
<1>6. q = x \o y
  BY <1>4, <1>5, SeqEqual
<1> QED
  BY <1>6 DEF x, y

\* win_alloc finds a free node if there is one.
LEMMA FirstFreeIs ==
    ASSUME NEW taken, Pool \ taken # {}
    PROVE  FirstFree(taken) \in Pool \ taken
<1>1. Pool \ taken \in SUBSET Nat
  BY PoolFinite
<1>2. \E w \in Pool \ taken : \A v \in Pool \ taken : w <= v
  BY <1>1, LeastNatural
<1> QED
  BY <1>2 DEF FirstFree

\* The tree is whole and a window of it is selected.
WindowsInv ==
    /\ \E s, lo, hi : Whole(wins, root, s, lo, hi)
    /\ selected \in Taken(wins) /\ wins[selected].leaf

\* The abstraction of a state, by the tree and the selected window.
LEMMA MappedRow ==
    /\ ShownRow = RowOf(wins, root) /\ SelectedPlace = PlaceOf(wins, root, selected)
    /\ ShownRow' = RowOf(wins', root') /\ SelectedPlace' = PlaceOf(wins', root', selected')
  BY DEF ShownRow, SelectedPlace, RowOf, PlaceOf, Leaves

\* One window.
LEMMA WindowsBegin ==
    ASSUME WinInit
    PROVE  WindowsInv /\ Row!Init
<1>1. PICK b \in Buffers : wins = [w \in Pool |-> IF w = 1 THEN Leaf(b, NoWin) ELSE Unused]
  BY DEF WinInit
<1>2. root = 1 /\ selected = 1
  BY DEF WinInit
<1> DEFINE lo == [w \in Pool |-> 1]
           hi == [w \in Pool |-> 2]
<1>3. /\ Whole(wins, 1, <<1>>, lo, hi)
      /\ 1 \in Taken(wins) /\ wins[1].leaf /\ wins[1].buf = b
  BY <1>1, LoneWhole
<1>4. Len(<<1>>) = 1 /\ <<1>>[1] = 1
  OBVIOUS
<1> HIDE DEF lo, hi
<1>5. /\ ShownRow \in Seq(Buffers) /\ Len(ShownRow) = 1 /\ ShownRow[1] = b
      /\ SelectedPlace = lo[1] /\ lo[1] \in 1 .. 1
  BY <1>2, <1>3, <1>4, RowIs, MappedRow
<1>6. ShownRow = <<b>> /\ SelectedPlace = 1
  BY <1>5
<1> QED
  BY <1>2, <1>3, <1>6 DEF WindowsInv, Row!Init

\* C-x 2: win_alloc finds two nodes, and the row has room for one more.
LEMMA SplitStep ==
    ASSUME WindowsInv, WinSplit
    PROVE  WindowsInv' /\ Row!Split
<1>1. PICK s, lo, hi : Whole(wins, root, s, lo, hi)
  BY DEF WindowsInv
<1> DEFINE sel == selected
           U == Taken(wins)
           a == FirstFree(UsedWins)
           b == FirstFree(UsedWins \cup {a})
           k == lo[sel]
<1>2. /\ sel \in U /\ wins[sel].leaf /\ root' = root /\ selected' = a
      /\ wins' = [wins EXCEPT ![a] = Leaf(wins[sel].buf, sel), ![b] = Leaf(wins[sel].buf, sel),
                              ![sel] = [wins[sel] EXCEPT !.leaf = FALSE, !.a = a, !.b = b]]
  BY DEF WinSplit, WindowsInv
<1>3. UsedWins = U /\ U \in SUBSET Pool /\ Cardinality(Pool \ U) >= 2 /\ Cardinality(U) = 2 * Len(s) - 1
  <2>1. UsedWins = U
    BY DEF UsedWins, InUse, Taken
  <2> QED
    BY <1>1, <2>1, TreeIs DEF WinSplit
<1>4. /\ IsFiniteSet(Pool \ U) /\ IsFiniteSet(U) /\ Cardinality(Pool) = RD_MAX_WIN
      /\ Cardinality(Pool) = Cardinality(U) + Cardinality(Pool \ U)
      /\ Cardinality(U) \in Nat /\ Cardinality(Pool \ U) \in Nat /\ RD_MAX_WIN \in Nat
  <2>1. IsFiniteSet(Pool) /\ Pool = 1 .. RD_MAX_WIN /\ RD_MAX_WIN \in Nat
    BY PoolFinite
  <2>2. IsFiniteSet(Pool \ U) /\ IsFiniteSet(U)
    BY <1>3, <2>1, FS_Subset
  <2>3. Cardinality(U \cup (Pool \ U)) = Cardinality(U) + Cardinality(Pool \ U)
    <3> HIDE DEF U
    <3> QED
      BY <2>2, DisjointCount
  <2>4. U \cup (Pool \ U) = Pool
    BY <1>3
  <2>5. Cardinality(Pool) = RD_MAX_WIN
    BY <2>1, FS_Interval
  <2> QED
    BY <2>1, <2>2, <2>3, <2>4, <2>5, FS_CardinalityType
<1> HIDE DEF U
<1>5. a \in Pool \ U
  <2>1. Pool \ U # {}
    BY <1>3, <1>4, FS_EmptySet
  <2> QED
    BY <2>1, <1>3, FirstFreeIs
<1> HIDE DEF a
<1>6. b \in Pool \ (U \cup {a})
  <2>1. Pool \ (U \cup {a}) = (Pool \ U) \ {a}
    OBVIOUS
  <2>2. Cardinality((Pool \ U) \ {a}) = Cardinality(Pool \ U) - 1 /\ IsFiniteSet((Pool \ U) \ {a})
    BY <1>4, <1>5, FS_RemoveElement
  <2>3. (Pool \ U) \ {a} # {}
    <3>1. Cardinality((Pool \ U) \ {a}) # 0
      BY <2>2, <1>3, <1>4
    <3> QED
      BY <3>1, FS_EmptySet
  <2> QED
    BY <2>1, <2>3, <1>3, FirstFreeIs
<1> HIDE DEF b
<1>7. /\ RowOf(wins, root) \in Seq(Buffers) /\ Len(RowOf(wins, root)) = Len(s) /\ Len(s) \in Nat
      /\ \A i \in 1 .. Len(s) : RowOf(wins, root)[i] = wins[s[i]].buf
      /\ PlaceOf(wins, root, sel) = k /\ k \in 1 .. Len(s) /\ s[k] = sel
  BY <1>1, <1>2, RowIs DEF U
<1>8. IsSplit(wins, wins', sel, a, b)
  <2>1. wins \in [Pool -> Node] /\ sel \in Pool /\ wins[sel] \in Node
    BY <1>1, <1>2, <1>3, TreeIs
  <2>2. a \in 0 .. RD_MAX_WIN /\ b \in 0 .. RD_MAX_WIN /\ sel \in 0 .. RD_MAX_WIN /\ NoWin \in 0 .. RD_MAX_WIN
    BY <1>5, <1>6, <2>1, PoolFinite DEF NoWin
  <2> DEFINE x == Leaf(wins[sel].buf, sel)
             y == [wins[sel] EXCEPT !.leaf = FALSE, !.a = a, !.b = b]
  <2>3. x \in Node /\ y \in Node
    <3>1. wins[sel].buf \in Buffers \cup {"free"}
      BY <2>1 DEF Node
    <3>2. x \in Node
      BY <2>2, <3>1 DEF Leaf, Node
    <3>3. y \in Node
      BY <2>1, <2>2 DEF Node
    <3> QED
      BY <3>2, <3>3
  <2>4. wins' = [wins EXCEPT ![a] = x, ![b] = x, ![sel] = y]
    BY <1>2
  <2>5. a \in Pool /\ b \in Pool /\ a # b /\ a # sel /\ b # sel
    BY <1>2, <1>5, <1>6
  <2> HIDE DEF x, y
  <2>6. /\ wins' \in [Pool -> Node] /\ wins'[a] = x /\ wins'[b] = x /\ wins'[sel] = y
        /\ \A w \in Pool : w \notin {a, b, sel} => wins'[w] = wins[w]
    BY <2>1, <2>3, <2>4, <2>5
  <2> QED
    BY <2>6 DEF IsSplit, x, y
<1>9. PICK s2, lo2, hi2 :
        /\ Whole(wins', root, s2, lo2, hi2)
        /\ Len(s2) = Len(s) + 1 /\ s2[k] = a
        /\ \A i \in 1 .. k : wins'[s2[i]].buf = wins[s[i]].buf
        /\ \A i \in k + 1 .. Len(s) + 1 : wins'[s2[i]].buf = wins[s[i - 1]].buf
  <2>1. /\ Whole(wins, root, s, lo, hi) /\ Places(s, k, sel)
        /\ a \in Pool /\ b \in Pool /\ a \notin Taken(wins) /\ b \notin Taken(wins) /\ a # b
        /\ IsSplit(wins, wins', sel, a, b)
    BY <1>1, <1>5, <1>6, <1>7, <1>8 DEF U, Places
  <2> HIDE DEF k, sel
  <2>2. AfterSplit(wins, wins', root, s, k, a)
    BY ONLY <2>1, SplitWhole
  <2> QED
    BY ONLY <2>2 DEF AfterSplit
<1> HIDE DEF k, sel
<1>10. /\ k \in 1 .. Len(s2) /\ a \in Taken(wins') /\ wins'[a].leaf /\ lo2[a] = k
  <2>1. k \in 1 .. Len(s2)
    BY <1>7, <1>9
  <2> QED
    BY <2>1, <1>9, PlacesOf
<1>11. /\ RowOf(wins', root) \in Seq(Buffers) /\ Len(RowOf(wins', root)) = Len(s2)
       /\ \A i \in 1 .. Len(s2) : RowOf(wins', root)[i] = wins'[s2[i]].buf
       /\ PlaceOf(wins', root, a) = k
  BY <1>9, <1>10, RowIs
<1>12. WindowsInv'
  BY <1>2, <1>9, <1>10 DEF WindowsInv
<1> DEFINE r == RowOf(wins, root)
           q == RowOf(wins', root)
<1>13. q = SubSeq(r, 1, k) \o SubSeq(r, k, Len(r))
  <2>1. /\ r \in Seq(Buffers) /\ q \in Seq(Buffers) /\ k \in 1 .. Len(r) /\ Len(q) = Len(r) + 1
    BY <1>7, <1>9, <1>11
  <2>2. \A i \in 1 .. k : q[i] = r[i]
    <3> TAKE i \in 1 .. k
    <3>1. i \in 1 .. Len(s) /\ i \in 1 .. Len(s2)
      BY <1>7, <1>9
    <3> QED
      BY <3>1, <1>7, <1>9, <1>11
  <2>3. \A i \in k + 1 .. Len(r) + 1 : q[i] = r[i - 1]
    <3> TAKE i \in k + 1 .. Len(r) + 1
    <3>1. i - 1 \in 1 .. Len(s) /\ i \in 1 .. Len(s2) /\ i \in k + 1 .. Len(s) + 1
      BY <1>7, <1>9
    <3> QED
      BY <3>1, <1>7, <1>9, <1>11
  <2> HIDE DEF r, q
  <2> QED
    BY <2>1, <2>2, <2>3, DoubledRow
<1>14. Len(r) < (RD_MAX_WIN + 1) \div 2
  <2>1. Len(r) = Len(s) /\ Len(s) \in Nat
    BY <1>7
  <2>2. RD_MAX_WIN >= 2 * Len(s) + 1 /\ RD_MAX_WIN \in Nat
    BY <1>3, <1>4, <2>1
  <2> QED
    BY ONLY <2>1, <2>2
<1>15. ShownRow = r /\ SelectedPlace = k /\ ShownRow' = q /\ SelectedPlace' = k
  BY <1>2, <1>7, <1>11, MappedRow DEF sel
<1> HIDE DEF r, q
<1> QED
  BY <1>12, <1>13, <1>14, <1>15 DEF Row!Split

\* C-x 0: the sibling is copied over the parent and its children are told.
LEMMA WinDeleteStep ==
    ASSUME WindowsInv, WinDelete
    PROVE  WindowsInv' /\ Row!Delete
<1>1. PICK s, lo, hi : Whole(wins, root, s, lo, hi)
  BY DEF WindowsInv
<1> DEFINE sel == selected
           U == Taken(wins)
           p == wins[selected].parent
           sib == IF wins[p].a = selected THEN wins[p].b ELSE wins[p].a
           k == lo[sel]
<1>2. /\ sel \in U /\ wins[sel].leaf /\ root' = root /\ p # NoWin
      /\ wins' = [Lifted(sib, p) EXCEPT ![sib] = Unused, ![sel] = Unused]
      /\ selected' = FirstLeaf(wins', p)
  BY DEF WinDelete, WindowsInv
<1>3. /\ wins \in [Pool -> Node] /\ U \in SUBSET Pool /\ Len(s) \in Nat
      /\ p \in U /\ ~wins[p].leaf /\ wins[p].a \in U /\ wins[p].b \in U /\ p # sel
      /\ wins[wins[p].a].parent = p /\ wins[wins[p].b].parent = p
      /\ sel \in {wins[p].a, wins[p].b}
  <2>1. wins \in [Pool -> Node] /\ U \in SUBSET Pool /\ Len(s) \in Nat
    BY <1>1, TreeIs
  <2>2. sel # root
    BY <1>1, <1>2 DEF Whole, LinksAgree
  <2>3. p \in U /\ ~wins[p].leaf /\ sel \in {wins[p].a, wins[p].b}
    BY <1>1, <1>2, <2>2 DEF Whole, LinksAgree
  <2>4. wins[p].a \in U /\ wins[p].b \in U /\ wins[wins[p].a].parent = p /\ wins[wins[p].b].parent = p
    <3> HIDE DEF p
    <3> QED
      BY <1>1, <2>3 DEF Whole, LinksAgree
  <2> QED
    BY <1>2, <2>1, <2>3, <2>4
<1> HIDE DEF p
<1>4. sib \in U /\ wins[sib].parent = p
  BY <1>3
<1>5. sib # p /\ sib # sel
  <2>1. wins[root].parent = NoWin
    BY <1>1, TreeIs
  <2>2. sib # root /\ sel # root /\ wins[sel].parent = p
    <3>1. sel # root /\ wins[sel].parent = p
      BY <1>2, <2>1 DEF p
    <3> HIDE DEF sib
    <3> QED
      BY ONLY <1>2, <1>4, <2>1, <3>1
  <2>3. wins[p].a # wins[p].b
    BY <1>1, <1>2, <2>2, ChildWithin
  <2>4. wins[sib].parent # sib
    <3> HIDE DEF sib
    <3> QED
      BY <1>1, <1>4, <2>2, ChildWithin
  <2> QED
    BY <1>3, <1>4, <2>3, <2>4
<1> HIDE DEF U, sib
<1>6. IsDelete(wins, wins', sel, sib, p)
  <2>1. sel \in Pool /\ sib \in Pool /\ p \in Pool
    BY <1>2, <1>3, <1>4
  <2> HIDE DEF sel
  <2> DEFINE x == [wins[sib] EXCEPT !.parent = wins[p].parent]
             v == Lifted(sib, p)
             After(w) == IF w \in {wins[sib].a, wins[sib].b} THEN [wins[w] EXCEPT !.parent = p] ELSE wins[w]
  <2>2. Unused \in Node
    BY PoolFinite DEF Unused, Node, NoWin
  <2>3. x \in Node
    <3>1. wins[sib] \in Node /\ wins[p].parent \in 0 .. RD_MAX_WIN
      <4>1. wins[sib] \in Node /\ wins[p] \in Node
        BY <1>3, <2>1
      <4> QED
        BY <4>1 DEF Node
    <3> QED
      BY ONLY <3>1 DEF Node, x
  <2>4. \A w \in Pool : After(w) \in Node
    <3>1. p \in 0 .. RD_MAX_WIN
      BY <2>1, PoolFinite
    <3>2. \A w \in Pool : wins[w] \in Node
      BY <1>3
    <3> QED
      BY <3>1, <3>2 DEF Node
  <2>5. \A w \in Pool : w # NoWin
    BY PoolFinite DEF NoWin
  <2>6. v = [w \in Pool |-> IF w = p THEN x ELSE After(w)]
    BY <2>5 DEF Lifted
  <2>7. wins' = [v EXCEPT ![sib] = Unused, ![sel] = Unused]
    BY <1>2
  <2> HIDE DEF x, After, v
  <2>8. v \in [Pool -> Node] /\ v[p] = x /\ \A w \in Pool : w # p => v[w] = After(w)
    BY <2>1, <2>3, <2>4, <2>6
  <2>9. /\ wins' \in [Pool -> Node] /\ wins'[sib] = Unused /\ wins'[sel] = Unused
        /\ \A w \in Pool : w # sib /\ w # sel => wins'[w] = v[w]
    BY <2>1, <2>2, <2>7, <2>8
  <2>10. wins'[p] = x /\ \A w \in Pool \ {sib, sel, p} : wins'[w] = After(w)
    BY <1>3, <1>5, <2>1, <2>8, <2>9
  <2> QED
    BY <2>9, <2>10 DEF IsDelete, x, After
<1>7. /\ RowOf(wins, root) \in Seq(Buffers) /\ Len(RowOf(wins, root)) = Len(s) /\ Len(s) \in Nat
      /\ \A i \in 1 .. Len(s) : RowOf(wins, root)[i] = wins[s[i]].buf
      /\ PlaceOf(wins, root, sel) = k /\ k \in 1 .. Len(s) /\ s[k] = sel
  BY <1>1, <1>2, RowIs DEF U
<1>8. PICK s2, lo2, hi2 :
        /\ Whole(wins', root, s2, lo2, hi2) /\ p \in Taken(wins')
        /\ Len(s) > 1 /\ Len(s2) = Len(s) - 1
        /\ \A i \in 1 .. Len(s) - 1 : wins'[s2[i]].buf = wins[s[IF i < k THEN i ELSE i + 1]].buf
  <2>1. /\ Whole(wins, root, s, lo, hi) /\ Places(s, k, sel) /\ Siblings(wins, sel, sib, p)
        /\ IsDelete(wins, wins', sel, sib, p)
    BY <1>1, <1>2, <1>6, <1>7 DEF p, sib, Places, Siblings
  <2> HIDE DEF k, sel
  <2>2. AfterDelete(wins, wins', root, s, k, p)
    BY ONLY <2>1, DeleteWhole
  <2> QED
    BY ONLY <2>2 DEF AfterDelete
<1> HIDE DEF k, sel
<1> DEFINE to == lo2[p]
<1>9. /\ selected' = s2[to] /\ selected' \in Taken(wins') /\ wins'[selected'].leaf
      /\ lo2[selected'] = to /\ to \in 1 .. Len(s2)
  <2>1. selected' = s2[to]
    BY <1>2, <1>8, FirstLeafIs
  <2>2. to \in 1 .. Len(s2)
    <3>1. \A w \in Taken(wins') : /\ lo2[w] \in Nat /\ hi2[w] \in Nat
                                  /\ 1 <= lo2[w] /\ lo2[w] < hi2[w] /\ hi2[w] <= Len(s2) + 1
      BY <1>8, SpansOf
    <3>2. Len(s2) \in Nat
      BY <1>7, <1>8
    <3> QED
      BY <1>8, <3>1, <3>2
  <2>3. \A i \in 1 .. Len(s2) : s2[i] \in Taken(wins') /\ wins'[s2[i]].leaf /\ lo2[s2[i]] = i
    BY <1>8, PlacesOf
  <2> QED
    BY <2>1, <2>2, <2>3
<1> HIDE DEF to
<1>10. WindowsInv'
  BY <1>2, <1>8, <1>9 DEF WindowsInv
<1>11. /\ RowOf(wins', root) \in Seq(Buffers) /\ Len(RowOf(wins', root)) = Len(s2)
       /\ \A i \in 1 .. Len(s2) : RowOf(wins', root)[i] = wins'[s2[i]].buf
       /\ PlaceOf(wins', root, selected') = to
  BY <1>8, <1>9, RowIs
<1> DEFINE r == RowOf(wins, root)
           q == RowOf(wins', root)
<1>12. q = SubSeq(r, 1, k - 1) \o SubSeq(r, k + 1, Len(r))
  <2>1. /\ r \in Seq(Buffers) /\ q \in Seq(Buffers) /\ k \in 1 .. Len(r) /\ Len(q) = Len(r) - 1
    BY <1>7, <1>8, <1>11
  <2>2. \A i \in 1 .. Len(r) - 1 : q[i] = r[IF i < k THEN i ELSE i + 1]
    <3> TAKE i \in 1 .. Len(r) - 1
    <3> DEFINE j == IF i < k THEN i ELSE i + 1
    <3>1. j \in 1 .. Len(s) /\ i \in 1 .. Len(s2) /\ i \in 1 .. Len(s) - 1
      BY <1>7, <1>8
    <3>2. wins'[s2[i]].buf = wins[s[j]].buf
      BY <1>8, <3>1
    <3> HIDE DEF j
    <3>3. q[i] = wins'[s2[i]].buf /\ r[j] = wins[s[j]].buf
      BY <3>1, <1>7, <1>11
    <3>4. q[i] = r[j]
      BY <3>2, <3>3
    <3> QED
      BY <3>4 DEF j
  <2> HIDE DEF r, q
  <2> QED
    BY <2>1, <2>2, ShorterRow
<1>13. Len(r) > 1 /\ to \in 1 .. Len(r) - 1
  BY <1>7, <1>8, <1>9
<1>14. ShownRow = r /\ SelectedPlace = k /\ ShownRow' = q /\ SelectedPlace' = to
  BY <1>2, <1>7, <1>11, MappedRow DEF sel
<1> HIDE DEF r, q
<1> QED
  BY <1>10, <1>12, <1>13, <1>14 DEF Row!Delete

\* C-x o.
LEMMA OtherStep ==
    ASSUME WindowsInv, OtherWindow
    PROVE  WindowsInv' /\ Row!Other
<1>1. PICK s, lo, hi : Whole(wins, root, s, lo, hi)
  BY DEF WindowsInv
<1>2. /\ selected \in Taken(wins) /\ wins[selected].leaf
      /\ wins' = wins /\ root' = root /\ selected' = NextLeaf(selected)
  BY DEF WindowsInv, OtherWindow
<1> DEFINE k == lo[selected]
           next == (k % Len(s)) + 1
<1>3. /\ Len(RowOf(wins, root)) = Len(s) /\ Len(s) \in Nat
      /\ PlaceOf(wins, root, selected) = k /\ k \in 1 .. Len(s) /\ s[k] = selected
  BY <1>1, <1>2, RowIs
<1> HIDE DEF k
<1>4. NextLeaf(s[k]) = s[next] /\ next \in 1 .. Len(s)
  BY <1>1, <1>3, NextLeafIs
<1>5. selected' = s[next]
  BY <1>2, <1>3, <1>4
<1> HIDE DEF next
<1>6. selected' \in Taken(wins) /\ wins[selected'].leaf /\ lo[selected'] = next
  <2>1. \A i \in 1 .. Len(s) : s[i] \in Taken(wins) /\ wins[s[i]].leaf /\ lo[s[i]] = i
    BY <1>1, PlacesOf
  <2> QED
    BY <1>4, <1>5, <2>1
<1>7. PlaceOf(wins, root, selected') = next
  BY <1>1, <1>6, RowIs
<1>8. WindowsInv'
  BY <1>1, <1>2, <1>6 DEF WindowsInv
<1>9. ShownRow' = ShownRow /\ SelectedPlace = k /\ SelectedPlace' = next /\ Len(ShownRow) = Len(s)
  BY <1>2, <1>3, <1>7, MappedRow
<1> QED
  BY <1>8, <1>9 DEF Row!Other, next

\* A click on a window.
LEMMA SelectAtStep ==
    ASSUME WindowsInv, SelectAt
    PROVE  WindowsInv' /\ Row!Select
<1>1. PICK s, lo, hi : Whole(wins, root, s, lo, hi)
  BY DEF WindowsInv
<1>2. Leaves = s /\ DOMAIN s = 1 .. Len(s)
  BY <1>1, LeavesAre, TreeIs DEF Leaves
<1>3. PICK i \in 1 .. Len(s) : selected' = s[i] /\ wins' = wins /\ root' = root
  BY <1>2 DEF SelectAt
<1>4. s[i] \in Taken(wins) /\ wins[s[i]].leaf /\ lo[s[i]] = i
  BY <1>1, PlacesOf
<1>5. PlaceOf(wins, root, s[i]) = i /\ Len(RowOf(wins, root)) = Len(s)
  BY <1>1, <1>4, RowIs
<1>6. WindowsInv'
  BY <1>1, <1>3, <1>4 DEF WindowsInv
<1>7. ShownRow' = ShownRow /\ SelectedPlace' = i /\ Len(ShownRow) = Len(s)
  BY <1>3, <1>5, MappedRow
<1> QED
  BY <1>6, <1>7 DEF Row!Select

\* C-x b.
LEMMA SetBufferStep ==
    ASSUME WindowsInv, SetBuffer
    PROVE  WindowsInv' /\ Row!SetBuffer
<1>1. PICK s, lo, hi : Whole(wins, root, s, lo, hi)
  BY DEF WindowsInv
<1>2. PICK b \in Buffers : wins' = [wins EXCEPT ![selected].buf = b]
  BY DEF SetBuffer
<1>3. /\ selected \in Taken(wins) /\ wins[selected].leaf /\ root' = root /\ selected' = selected
  BY DEF WindowsInv, SetBuffer
<1> DEFINE k == lo[selected]
           r == RowOf(wins, root)
           q == RowOf(wins', root)
<1>4. /\ Whole(wins', root, s, lo, hi) /\ selected \in Taken(wins') /\ wins'[selected].leaf
      /\ wins'[selected].buf = b /\ \A w \in Taken(wins) : w # selected => wins'[w].buf = wins[w].buf
  <2>1. /\ Whole(wins, root, s, lo, hi) /\ selected \in Taken(wins) /\ b \in Buffers
        /\ wins' = [wins EXCEPT ![selected].buf = b]
    BY <1>1, <1>2, <1>3
  <2>2. Whole(wins', root, s, lo, hi) /\ Shows(wins, wins', selected, b)
    BY ONLY <2>1, ShowWhole
  <2> QED
    BY <1>3, <2>2 DEF Shows
<1>5. /\ r \in Seq(Buffers) /\ Len(r) = Len(s) /\ Len(s) \in Nat
      /\ \A i \in 1 .. Len(s) : r[i] = wins[s[i]].buf
      /\ PlaceOf(wins, root, selected) = k /\ k \in 1 .. Len(s) /\ s[k] = selected
  BY <1>1, <1>3, RowIs
<1>6. /\ q \in Seq(Buffers) /\ Len(q) = Len(s)
      /\ \A i \in 1 .. Len(s) : q[i] = wins'[s[i]].buf
      /\ PlaceOf(wins', root, selected) = k
  BY <1>4, RowIs
<1> HIDE DEF k, r, q
<1>7. \A i \in 1 .. Len(s) : q[i] = IF i = k THEN b ELSE r[i]
  <2>1. \A i \in 1 .. Len(s) : s[i] \in Taken(wins) /\ wins[s[i]].leaf /\ lo[s[i]] = i
    BY <1>1, PlacesOf
  <2> QED
    BY <2>1, <1>4, <1>5, <1>6 DEF k
<1>8. q = [r EXCEPT ![k] = b]
  <2> DEFINE e == [r EXCEPT ![k] = b]
  <2>1. e \in Seq(Buffers) /\ Len(e) = Len(s) /\ \A i \in 1 .. Len(s) : e[i] = IF i = k THEN b ELSE r[i]
    BY <1>5
  <2> HIDE DEF e
  <2>2. q = e
    BY <1>6, <1>7, <2>1, SeqEqual
  <2> QED
    BY <2>2 DEF e
<1>9. WindowsInv'
  BY <1>3, <1>4 DEF WindowsInv
<1>10. ShownRow = r /\ ShownRow' = q /\ SelectedPlace = k /\ SelectedPlace' = k
  BY <1>3, <1>5, <1>6, MappedRow DEF r, q
<1> QED
  BY <1>8, <1>9, <1>10 DEF Row!SetBuffer

\* The end of a buffer.
LEMMA KillBufferStep ==
    ASSUME WindowsInv, KillBuffer
    PROVE  WindowsInv' /\ Row!Kill
<1>1. PICK s, lo, hi : Whole(wins, root, s, lo, hi)
  BY DEF WindowsInv
<1> DEFINE old == wins[selected].buf
           k == lo[selected]
           r == RowOf(wins, root)
           q == RowOf(wins', root)
<1>2. PICK b \in Buffers : b # old /\ wins' = Retargeted(old, b)
  BY DEF KillBuffer
<1>3. /\ selected \in Taken(wins) /\ wins[selected].leaf /\ root' = root /\ selected' = selected
  BY DEF WindowsInv, KillBuffer
<1>4. old \in Buffers
  BY <1>1, <1>3 DEF Whole, LinksAgree
<1>5. /\ Whole(wins', root, s, lo, hi) /\ selected \in Taken(wins') /\ wins'[selected].leaf
      /\ \A w \in Pool : wins[w].leaf => wins'[w].buf = IF wins[w].buf = old THEN b ELSE wins[w].buf
  <2>1. Replaced(wins, wins', old, b)
    BY <1>2 DEF Replaced, Retargeted
  <2>2. selected \in Pool
    BY <1>3 DEF Taken
  <2> HIDE DEF old
  <2>3. /\ Whole(wins', root, s, lo, hi) /\ Taken(wins') = Taken(wins)
        /\ \A w \in Pool : wins'[w].leaf = wins[w].leaf
        /\ \A w \in Pool : wins[w].leaf => wins'[w].buf = IF wins[w].buf = old THEN b ELSE wins[w].buf
    BY <1>1, <1>4, <2>1, ReplaceWhole
  <2> QED
    BY <1>3, <2>2, <2>3
<1>6. /\ r \in Seq(Buffers) /\ Len(r) = Len(s) /\ Len(s) \in Nat
      /\ \A i \in 1 .. Len(s) : r[i] = wins[s[i]].buf
      /\ PlaceOf(wins, root, selected) = k /\ k \in 1 .. Len(s) /\ s[k] = selected
  BY <1>1, <1>3, RowIs
<1>7. /\ q \in Seq(Buffers) /\ Len(q) = Len(s)
      /\ \A i \in 1 .. Len(s) : q[i] = wins'[s[i]].buf
      /\ PlaceOf(wins', root, selected) = k
  BY <1>5, RowIs
<1>8. r[k] = old
  BY <1>6
<1> HIDE DEF k, r, q, old
<1>9. \A i \in 1 .. Len(s) : q[i] = IF r[i] = old THEN b ELSE r[i]
  <2>1. \A i \in 1 .. Len(s) : s[i] \in Pool /\ wins[s[i]].leaf
    BY <1>1, PlacesOf DEF Taken
  <2> QED
    BY <2>1, <1>5, <1>6, <1>7
<1>10. q = [i \in DOMAIN r |-> IF r[i] = r[k] THEN b ELSE r[i]]
  <2> DEFINE e == [i \in DOMAIN r |-> IF r[i] = r[k] THEN b ELSE r[i]]
  <2>1. DOMAIN r = 1 .. Len(s) /\ DOMAIN q = 1 .. Len(s)
    BY <1>6, <1>7
  <2>2. \A i \in 1 .. Len(s) : q[i] = e[i]
    BY <1>8, <1>9, <2>1
  <2>3. q = [i \in DOMAIN q |-> q[i]] /\ DOMAIN e = DOMAIN q /\ e = [i \in DOMAIN e |-> e[i]]
    BY <1>7, <2>1
  <2> QED
    BY <2>1, <2>2, <2>3
<1>11. WindowsInv'
  BY <1>3, <1>5 DEF WindowsInv
<1>12. ShownRow = r /\ ShownRow' = q /\ SelectedPlace = k /\ SelectedPlace' = k
  BY <1>3, <1>6, <1>7, MappedRow DEF r, q
<1>13. b \in Buffers \ {r[k]}
  BY <1>2, <1>8
<1> QED
  BY <1>10, <1>11, <1>12, <1>13 DEF Row!Kill

\* C-x 1.
LEMMA DeleteOtherStep ==
    ASSUME WindowsInv, DeleteOther
    PROVE  WindowsInv' /\ Row!DeleteOther
<1>1. PICK s, lo, hi : Whole(wins, root, s, lo, hi)
  BY DEF WindowsInv
<1> DEFINE b == wins[selected].buf
           k == lo[selected]
           lo2 == [w \in Pool |-> 1]
           hi2 == [w \in Pool |-> 2]
<1>2. /\ selected \in Taken(wins) /\ wins[selected].leaf /\ root' = 1 /\ selected' = 1
      /\ wins' = [w \in Pool |-> IF w = 1 THEN Leaf(b, NoWin) ELSE Unused]
  BY DEF WindowsInv, DeleteOther
<1>3. /\ \A i \in 1 .. Len(s) : RowOf(wins, root)[i] = wins[s[i]].buf
      /\ PlaceOf(wins, root, selected) = k /\ k \in 1 .. Len(s) /\ s[k] = selected
  BY <1>1, <1>2, RowIs
<1>4. b \in Buffers
  BY <1>1, <1>2 DEF Whole, LinksAgree
<1> HIDE DEF b, k
<1>5. Whole(wins', 1, <<1>>, lo2, hi2) /\ 1 \in Taken(wins') /\ wins'[1].leaf /\ wins'[1].buf = b
  BY <1>2, <1>4, LoneWhole
<1>6. Len(<<1>>) = 1 /\ <<1>>[1] = 1
  OBVIOUS
<1> HIDE DEF lo2, hi2
<1>7. /\ RowOf(wins', 1) \in Seq(Buffers) /\ Len(RowOf(wins', 1)) = 1 /\ RowOf(wins', 1)[1] = b
      /\ PlaceOf(wins', 1, 1) = lo2[1] /\ lo2[1] \in 1 .. 1
  BY <1>5, <1>6, RowIs
<1>8. RowOf(wins', 1) = <<b>> /\ PlaceOf(wins', 1, 1) = 1
  BY <1>7
<1>9. RowOf(wins, root)[k] = b
  BY <1>3 DEF b
<1>10. WindowsInv'
  BY <1>2, <1>5 DEF WindowsInv
<1>11. /\ ShownRow = RowOf(wins, root) /\ SelectedPlace = k
       /\ ShownRow' = RowOf(wins', 1) /\ SelectedPlace' = PlaceOf(wins', 1, 1)
  BY <1>2, <1>3, MappedRow
<1> QED
  BY <1>8, <1>9, <1>10, <1>11 DEF Row!DeleteOther

\* Every command keeps the tree whole and is one on the row.
LEMMA WindowsStep ==
    ASSUME WindowsInv, [WinNext]_winVars
    PROVE  WindowsInv' /\ [Row!Next]_(Row!rowVars)
<1>1. CASE WinSplit
  BY <1>1, SplitStep DEF Row!Next
<1>2. CASE WinDelete
  BY <1>2, WinDeleteStep DEF Row!Next
<1>3. CASE OtherWindow
  BY <1>3, OtherStep DEF Row!Next
<1>4. CASE SetBuffer
  BY <1>4, SetBufferStep DEF Row!Next
<1>5. CASE DeleteOther
  BY <1>5, DeleteOtherStep DEF Row!Next
<1>6. CASE SelectAt
  BY <1>6, SelectAtStep DEF Row!Next
<1>7. CASE KillBuffer
  BY <1>7, KillBufferStep DEF Row!Next
<1>8. CASE UNCHANGED winVars
  <2>1. wins' = wins /\ root' = root /\ selected' = selected
    BY <1>8 DEF winVars
  <2>2. WindowsInv'
    BY <2>1 DEF WindowsInv
  <2>3. ShownRow' = ShownRow /\ SelectedPlace' = SelectedPlace
    BY <2>1, MappedRow
  <2> QED
    BY <2>2, <2>3 DEF Row!rowVars
<1> QED
  BY <1>1, <1>2, <1>3, <1>4, <1>5, <1>6, <1>7, <1>8 DEF WinNext

\* A whole tree is what WindowTree says.
LEMMA WholeIsTree ==
    ASSUME WindowsInv
    PROVE  WindowTree
<1>1. PICK s, lo, hi : Whole(wins, root, s, lo, hi)
  BY DEF WindowsInv
<1>2. UsedWins = Taken(wins) /\ \A w \in Taken(wins) : InUse(w)
  BY DEF UsedWins, InUse, Taken
<1>3. InUse(root) /\ wins[root].parent = NoWin /\ Cardinality(UsedWins) = 2 * Len(s) - 1 /\ DOMAIN s = 1 .. Len(s)
  BY <1>1, <1>2, TreeIs
<1>4. InUse(selected) /\ wins[selected].leaf
  BY <1>2 DEF WindowsInv
<1>5. \A w \in UsedWins : ~wins[w].leaf =>
        \A half \in {wins[w].a, wins[w].b} : InUse(half) /\ wins[half].parent = w
  BY <1>1, <1>2 DEF Whole, LinksAgree
<1>6. Leaves = s
  BY <1>1, LeavesAre DEF Leaves
<1>7. \A i \in 1 .. Len(s) : NextLeaf(s[i]) = s[(i % Len(s)) + 1]
  BY <1>1, NextLeafIs
<1> QED
  BY <1>3, <1>4, <1>5, <1>6, <1>7 DEF WindowTree

\* Whatever windows are split, deleted, chosen and clicked at and whatever
\* buffers go, in any order and in a pool of any size (rd_split, rd_win_delete,
\* rd_other_window, rd_delete_other, select-window-at, kill-buffer): the
\* nodes taken from the pool are one tree with links that agree, a leaf of it
\* is selected, nothing is lost or leaks, and C-x o goes round all the windows.
THEOREM WindowTreeAlways == WinSpec => []WindowTree
<1>1. WinInit => WindowsInv
  BY WindowsBegin
<1>2. WindowsInv /\ [WinNext]_winVars => WindowsInv'
  BY WindowsStep
<1>3. WindowsInv => WindowTree
  BY WholeIsTree
<1> QED
  BY <1>1, <1>2, <1>3, PTL DEF WinSpec

\* The window tree is a row of windows to its user: each command of rd_core.c,
\* a click and the end of a buffer do to the leaves in depth-first order what
\* they promise, and a deletion, which moves nodes about, keeps the order and
\* the buffers of the others.
THEOREM WindowsImplementRow == WinSpec => IsRow
<1>1. WinInit => WindowsInv /\ Row!Init
  BY WindowsBegin
<1>2. WindowsInv /\ [WinNext]_winVars => WindowsInv' /\ [Row!Next]_(Row!rowVars)
  BY WindowsStep
<1> QED
  BY <1>1, <1>2, PTL DEF WinSpec, IsRow, Row!Spec

=============================================================================
