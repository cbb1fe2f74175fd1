----------------------------- MODULE Ext2Proofs -----------------------------
(***************************************************************************)
(* Proofs about the file system, for disks, directories and files of any   *)
(* size: no block has two owners and no file is freed that has a name,     *)
(* also after the machine has stopped in the middle of a call that writes  *)
(* things in an order that allows it.                                      *)
(***************************************************************************)
EXTENDS Ext2, Counting, SequenceTheorems

----------------------------------------------------------------------------
(* Images.  A slot of a file is a place for a block number: those of       *)
(* i_block[] are 0 to NDIR, those of the pointer block come after them.    *)

Ino == [mode : {"none", "reg", "dir", "lnk"}, links : Nat, size : Nat, blocks : Int,
        ptr : [0 .. NDIR -> Nat]]
EntryKind == [ino : Inodes \cup {0}, name : Names \cup {"", ".", "..", "end"}]
Entries == [0 .. SLOTS - 1 -> EntryKind]
Sectors == (Inodes \cup {0}) \X (Inodes \cup {0})
Blk == {ZeroBlk} \cup {PtrBlk(f) : f \in [0 .. PTRS - 1 -> Blocks \cup {0}]}
         \cup {DirBlk(f, g) : f \in Entries, g \in Entries} \cup {DataBlk(v) : v \in Sectors}
Image == [bbm : SUBSET Blocks, ibm : SUBSET Inodes,
          gdt : [blocks : Int, inodes : Int, dirs : Int], sb : [blocks : Int, inodes : Int],
          ino : [Inodes -> Ino], blk : [Blocks -> Blk]]

Slots == 0 .. NDIR + PTRS
Ptr(d, ino, k) == IF k <= NDIR THEN ino.ptr[k] ELSE ptr_get(d, ino.ptr[NDIR], k - NDIR - 1)
\* The slot of a file's block.
SlotOf(i) == IF i < NDIR THEN i ELSE i + 1

\* Image d with another inode n.
With(d, n, ino) == [d EXCEPT !.ino[n] = ino]

(* R is the set of inodes that count: it has all that names lead to.       *)

\* Slots hold no block, or one in use that no other slot holds; those of a link are text.
Apart(d, R) ==
    /\ \A n \in R, k \in Slots :
         Ptr(d, d.ino[n], k) \in IF d.ino[n].mode = "lnk" THEN Nat \ Blocks ELSE d.bbm \cup {0}
    /\ \A n, o \in R, k, l \in Slots :
         Ptr(d, d.ino[n], k) = Ptr(d, d.ino[o], l) /\ Ptr(d, d.ino[n], k) \in Blocks => n = o /\ k = l

DirsOf(d, R) == {n \in R : d.ino[n].mode = "dir"}

\* The blocks of a directory are there.
Whole(d, R) ==
    \A n \in DirsOf(d, R) :
      /\ d.ino[n].size \in 1 .. NDIR + PTRS
      /\ \A i \in 0 .. d.ino[n].size - 1 :
           LET b == Ptr(d, d.ino[n], SlotOf(i)) IN b \in Blocks /\ d.blk[b].k = "dir"

AllPlaces == 0 .. (NDIR + PTRS) * SLOTS - 1
Entry(d, n, p) == IF p \in Places(d.ino[n]) THEN At(d, d.ino[n], p) ELSE Vacant

\* The entries that name m, those in X not counted.
Naming(d, R, X, m) == {q \in (DirsOf(d, R) \X AllPlaces) \ X : Entry(d, q[1], q[2]).ino = m}

Closed(d, R, X) ==
    \A q \in (DirsOf(d, R) \X AllPlaces) \ X : Entry(d, q[1], q[2]).ino \in R \cup {0}
Covered(d, R, X) ==
    \A m \in R : d.ino[m].mode # "dir" => Cardinality(Naming(d, R, X, m)) <= d.ino[m].links

Rooted(d, R) == ROOT \in R /\ d.ino[ROOT].mode = "dir" /\ R \subseteq d.ibm

\* The image is in order for the inodes R, but for the entries X.
Fine(d, R, X) ==
    /\ d \in Image
    /\ Rooted(d, R) /\ Apart(d, R) /\ Whole(d, R) /\ Closed(d, R, X) /\ Covered(d, R, X)

Sound == {d \in Image : \E R \in SUBSET Inodes : Fine(d, R, {})}

----------------------------------------------------------------------------
(* Arithmetic of the slots of directories and files.                       *)

LEMMA Sizes ==
    /\ NDIR \in Nat \ {0} /\ PTRS \in Nat \ {0} /\ SLOTS \in Nat \ {0, 1}
    /\ Blocks \subseteq Nat \ {0} /\ Inodes \subseteq Nat \ {0} /\ IsFiniteSet(Inodes)
    /\ ROOT \in Inodes /\ 0 \notin Blocks /\ 0 \notin Inodes
  BY Ext2Assumption DEF ROOT

LEMMA BlocksNat == Blocks \cup {0} \subseteq Nat
  BY Sizes

LEMMA Division ==
    \A p \in Nat : /\ p \div SLOTS \in Nat /\ p % SLOTS \in 0 .. SLOTS - 1
                   /\ p = SLOTS * (p \div SLOTS) + (p % SLOTS)
  BY Sizes

LEMMA SamePlace ==
    \A p, q \in Nat : p \div SLOTS = q \div SLOTS /\ p % SLOTS = q % SLOTS => p = q
<1> SUFFICES ASSUME NEW p \in Nat, NEW q \in Nat, p \div SLOTS = q \div SLOTS, p % SLOTS = q % SLOTS
             PROVE  p = q
  OBVIOUS
<1>1. p = SLOTS * (p \div SLOTS) + (p % SLOTS) /\ q = SLOTS * (q \div SLOTS) + (q % SLOTS)
  BY Division
<1> QED
  BY ONLY <1>1, p \div SLOTS = q \div SLOTS, p % SLOTS = q % SLOTS

\* The places of a directory of so many blocks, and of one of one more.
LEMMA Within ==
    \A p, n \in Nat : p \in 0 .. n * SLOTS - 1 <=> p \div SLOTS < n
<1> SUFFICES ASSUME NEW p \in Nat, NEW n \in Nat PROVE p \in 0 .. n * SLOTS - 1 <=> p \div SLOTS < n
  OBVIOUS
<1> DEFINE a == p \div SLOTS
           c == p % SLOTS
<1>1. a \in Nat /\ c \in 0 .. SLOTS - 1 /\ p = SLOTS * a + c /\ SLOTS \in Nat
  BY Division, Sizes
<1> HIDE DEF a, c
<1>2. CASE a < n
  <2>1. SLOTS * (a + 1) <= SLOTS * n
    BY <1>1, <1>2
  <2>2. SLOTS * (a + 1) = SLOTS * a + SLOTS /\ SLOTS * n = n * SLOTS
    BY <1>1
  <2> QED
    BY <1>1, <1>2, <2>1, <2>2 DEF a
<1>3. CASE n <= a
  <2>1. SLOTS * n <= SLOTS * a /\ SLOTS * n = n * SLOTS
    BY <1>1, <1>3
  <2> QED
    BY <1>1, <1>3, <2>1 DEF a
<1> QED
  BY <1>1, <1>2, <1>3

\* The slot of a block, and the blocks of slots.
LEMMA SlotFacts ==
    /\ \A i \in 0 .. NDIR + PTRS - 1 : SlotOf(i) \in Slots /\ SlotOf(i) # NDIR
    /\ \A i, j \in 0 .. NDIR + PTRS - 1 : SlotOf(i) = SlotOf(j) => i = j
    /\ NDIR \in Slots /\ 0 .. NDIR \subseteq Slots
    /\ \A j \in 0 .. PTRS - 1 : NDIR + 1 + j \in Slots
    /\ \A k \in Slots : k <= NDIR => k \in 0 .. NDIR
    /\ \A k \in Slots : ~(k <= NDIR) => k - NDIR - 1 \in 0 .. PTRS - 1
  BY Sizes DEF SlotOf, Slots

LEMMA BmapIs ==
    ASSUME NEW d, NEW ino, NEW i \in 0 .. NDIR + PTRS - 1
    PROVE  bmap(d, ino, i) = Ptr(d, ino, SlotOf(i))
<1>1. CASE i < NDIR
  <2>1. SlotOf(i) = i /\ i <= NDIR
    BY <1>1, Sizes DEF SlotOf
  <2> QED
    BY <1>1, <2>1 DEF bmap, Ptr
<1>2. CASE ~(i < NDIR)
  <2>1. ~(SlotOf(i) <= NDIR) /\ SlotOf(i) - NDIR - 1 = i - NDIR
    BY <1>2, Sizes DEF SlotOf
  <2>2. Ptr(d, ino, SlotOf(i)) = ptr_get(d, ino.ptr[NDIR], i - NDIR)
    BY <2>1, Zenon DEF Ptr
  <2> QED
    BY <1>2, <2>2 DEF bmap
<1> QED
  BY <1>1, <1>2

----------------------------------------------------------------------------
(* What images are made of.                                                *)

LEMMA EntriesAre ==
    /\ Vacant \in EntryKind /\ End \in EntryKind /\ Unwritten \in Entries
    /\ \A f \in Entries : \A s \in 0 .. SLOTS - 1 : f[s] \in EntryKind
<1>1. Vacant \in EntryKind /\ End \in EntryKind
  BY DEF Vacant, End, EntryKind
<1> QED
  BY <1>1 DEF Unwritten, Entries

LEMMA BlkKinds ==
    /\ \A v \in Blk : /\ v.k = "ptr" => v.p \in [0 .. PTRS - 1 -> Blocks \cup {0}]
                      /\ v.k = "dir" => v.e \in Entries /\ v.was \in Entries
                      /\ v.k = "data" => v.v \in Sectors
    /\ ZeroBlk \in Blk /\ ZeroBlk.k = "zero"
    /\ \A f \in [0 .. PTRS - 1 -> Blocks \cup {0}] :
         PtrBlk(f) \in Blk /\ PtrBlk(f).k = "ptr" /\ PtrBlk(f).p = f
    /\ \A f, g \in Entries :
         DirBlk(f, g) \in Blk /\ DirBlk(f, g).k = "dir" /\ DirBlk(f, g).e = f /\ DirBlk(f, g).was = g
    /\ \A v \in Sectors : DataBlk(v) \in Blk /\ DataBlk(v).k = "data"
<1>1. ASSUME NEW v \in Blk, v.k = "ptr" PROVE v.p \in [0 .. PTRS - 1 -> Blocks \cup {0}]
  <2>1. v # ZeroBlk /\ (\A f, g : v # DirBlk(f, g)) /\ (\A w : v # DataBlk(w))
    BY <1>1 DEF ZeroBlk, DirBlk, DataBlk
  <2>2. PICK f \in [0 .. PTRS - 1 -> Blocks \cup {0}] : v = PtrBlk(f)
    BY <2>1 DEF Blk
  <2> QED
    BY <2>2 DEF PtrBlk
<1>2. ASSUME NEW v \in Blk, v.k = "dir" PROVE v.e \in Entries /\ v.was \in Entries
  <2>1. v # ZeroBlk /\ (\A f : v # PtrBlk(f)) /\ (\A w : v # DataBlk(w))
    BY <1>2 DEF ZeroBlk, PtrBlk, DataBlk
  <2>2. PICK f \in Entries, g \in Entries : v = DirBlk(f, g)
    BY <2>1 DEF Blk
  <2> QED
    BY <2>2 DEF DirBlk
<1>3. ASSUME NEW v \in Blk, v.k = "data" PROVE v.v \in Sectors
  <2>1. v # ZeroBlk /\ (\A f : v # PtrBlk(f)) /\ (\A f, g : v # DirBlk(f, g))
    BY <1>3 DEF ZeroBlk, PtrBlk, DirBlk
  <2>2. PICK w \in Sectors : v = DataBlk(w)
    BY <2>1 DEF Blk
  <2> QED
    BY <2>2 DEF DataBlk
<1>4. /\ ZeroBlk \in Blk
      /\ \A f \in [0 .. PTRS - 1 -> Blocks \cup {0}] : PtrBlk(f) \in Blk
      /\ \A f, g \in Entries : DirBlk(f, g) \in Blk
      /\ \A v \in Sectors : DataBlk(v) \in Blk
  BY DEF Blk
<1>5. /\ ZeroBlk.k = "zero"
      /\ \A f : PtrBlk(f).k = "ptr" /\ PtrBlk(f).p = f
      /\ \A f, g : DirBlk(f, g).k = "dir" /\ DirBlk(f, g).e = f /\ DirBlk(f, g).was = g
      /\ \A v : DataBlk(v).k = "data"
  BY DEF ZeroBlk, PtrBlk, DirBlk, DataBlk
<1> QED
  BY <1>1, <1>2, <1>3, <1>4, <1>5

LEMMA ImageFields ==
    ASSUME NEW d \in Image
    PROVE  /\ d.bbm \subseteq Blocks /\ d.ibm \subseteq Inodes
           /\ d.gdt \in [blocks : Int, inodes : Int, dirs : Int] /\ d.sb \in [blocks : Int, inodes : Int]
           /\ d.ino \in [Inodes -> Ino] /\ d.blk \in [Blocks -> Blk]
           /\ \A n \in Inodes : /\ d.ino[n] \in Ino
                                /\ d.ino[n].mode \in {"none", "reg", "dir", "lnk"}
                                /\ d.ino[n].links \in Nat /\ d.ino[n].size \in Nat
                                /\ d.ino[n].ptr \in [0 .. NDIR -> Nat]
           /\ \A b \in Blocks : d.blk[b] \in Blk
<1>1. /\ d.bbm \subseteq Blocks /\ d.ibm \subseteq Inodes
      /\ d.gdt \in [blocks : Int, inodes : Int, dirs : Int] /\ d.sb \in [blocks : Int, inodes : Int]
      /\ d.ino \in [Inodes -> Ino] /\ d.blk \in [Blocks -> Blk]
  BY DEF Image
<1>2. \A ino \in Ino : /\ ino.mode \in {"none", "reg", "dir", "lnk"}
                       /\ ino.links \in Nat /\ ino.size \in Nat
                       /\ ino.ptr \in [0 .. NDIR -> Nat]
  BY DEF Ino
<1> QED
  BY <1>1, <1>2

LEMMA PtrGetTyped ==
    ASSUME NEW d \in Image, NEW b, NEW j \in 0 .. PTRS - 1
    PROVE  ptr_get(d, b, j) \in Blocks \cup {0}
<1>1. CASE b \in Blocks /\ d.blk[b].k = "ptr"
  <2>1. d.blk[b].p \in [0 .. PTRS - 1 -> Blocks \cup {0}]
    BY <1>1, ImageFields, BlkKinds
  <2> QED
    BY <1>1, <2>1 DEF ptr_get
<1> QED
  BY <1>1 DEF ptr_get

LEMMA PtrTyped ==
    ASSUME NEW d \in Image, NEW ino \in Ino, NEW k \in Slots
    PROVE  /\ Ptr(d, ino, k) \in Nat
           /\ ~(k <= NDIR) => Ptr(d, ino, k) \in Blocks \cup {0}
           /\ Ptr(d, ino, NDIR) = ino.ptr[NDIR]
<1>1. ino.ptr \in [0 .. NDIR -> Nat]
  BY DEF Ino
<1>2. k <= NDIR => k \in 0 .. NDIR
  BY SlotFacts
<1>3. ~(k <= NDIR) => k - NDIR - 1 \in 0 .. PTRS - 1
  BY SlotFacts
<1>4. Ptr(d, ino, NDIR) = ino.ptr[NDIR]
  BY Sizes DEF Ptr
<1>5. CASE k <= NDIR
  BY <1>1, <1>2, <1>4, <1>5 DEF Ptr
<1>6. CASE ~(k <= NDIR)
  <2>1. Ptr(d, ino, k) \in Blocks \cup {0}
    BY <1>3, <1>6, PtrGetTyped DEF Ptr
  <2>2. Ptr(d, ino, k) \in Nat
    BY ONLY <2>1, BlocksNat, Zenon
  <2> QED
    BY <2>1, <2>2, <1>4
<1> QED
  BY <1>5, <1>6

\* What is in a directory's place, by the block it is in.
LEMMA EntryIs ==
    ASSUME NEW d \in Image, NEW R, Whole(d, R), NEW n \in DirsOf(d, R), NEW p \in AllPlaces
    PROVE  LET i == p \div SLOTS
               b == Ptr(d, d.ino[n], SlotOf(i))
           IN /\ p \in Nat /\ i \in 0 .. NDIR + PTRS - 1 /\ p % SLOTS \in 0 .. SLOTS - 1
              /\ p \in Places(d.ino[n]) <=> i < d.ino[n].size
              /\ i < d.ino[n].size => /\ i \in 0 .. d.ino[n].size - 1
                                      /\ b \in Blocks /\ d.blk[b].k = "dir"
                                      /\ Entry(d, n, p) = d.blk[b].e[p % SLOTS]
                                      /\ bmap(d, d.ino[n], i) = b
              /\ ~(i < d.ino[n].size) => Entry(d, n, p) = Vacant
<1> DEFINE i == p \div SLOTS
           b == Ptr(d, d.ino[n], SlotOf(i))
<1>1. p \in Nat /\ NDIR + PTRS \in Nat
  BY Sizes DEF AllPlaces
<1>2. i \in 0 .. NDIR + PTRS - 1 /\ p % SLOTS \in 0 .. SLOTS - 1
  <2>1. i < NDIR + PTRS
    BY <1>1, Within DEF AllPlaces
  <2>2. i \in Nat /\ p % SLOTS \in 0 .. SLOTS - 1
    BY <1>1, Division
  <2> QED
    BY ONLY <2>1, <2>2, <1>1, Sizes
<1>3. d.ino[n].size \in 1 .. NDIR + PTRS
  BY DEF Whole
<1>4. p \in Places(d.ino[n]) <=> i < d.ino[n].size
  BY <1>1, <1>3, Within DEF Places
<1>5. CASE i < d.ino[n].size
  <2>1. i \in 0 .. d.ino[n].size - 1
    BY <1>2, <1>3, <1>5
  <2>2. b \in Blocks /\ d.blk[b].k = "dir"
    BY <2>1 DEF Whole
  <2>3. bmap(d, d.ino[n], i) = b
    BY <1>2, BmapIs
  <2>4. Entry(d, n, p) = d.blk[b].e[p % SLOTS]
    BY <2>2, <2>3, <1>4, <1>5 DEF Entry, At, Listing
  <2> QED
    BY <1>1, <1>2, <1>4, <1>5, <2>1, <2>2, <2>3, <2>4
<1>6. CASE ~(i < d.ino[n].size)
  BY <1>1, <1>2, <1>4, <1>6 DEF Entry
<1> QED
  BY <1>5, <1>6

LEMMA EntryTyped ==
    ASSUME NEW d \in Image, NEW R, Whole(d, R), NEW n \in DirsOf(d, R), NEW p \in AllPlaces
    PROVE  Entry(d, n, p) \in EntryKind
<1> DEFINE i == p \div SLOTS
           b == Ptr(d, d.ino[n], SlotOf(i))
<1>1. CASE i < d.ino[n].size
  <2>1. b \in Blocks /\ d.blk[b].k = "dir" /\ Entry(d, n, p) = d.blk[b].e[p % SLOTS]
        /\ p % SLOTS \in 0 .. SLOTS - 1
    BY <1>1, EntryIs
  <2>2. d.blk[b].e \in Entries
    BY <2>1, ImageFields, BlkKinds
  <2> QED
    BY <2>1, <2>2 DEF Entries
<1>2. CASE ~(i < d.ino[n].size)
  <2>1. Entry(d, n, p) = Vacant
    BY <1>2, EntryIs
  <2>2. Vacant \in EntryKind
    BY EntriesAre
  <2> QED
    BY <2>1, <2>2
<1> QED
  BY <1>1, <1>2

----------------------------------------------------------------------------
(* What changes leave an image in order.                                   *)

LEMMA FineIs ==
    ASSUME NEW d, NEW R, NEW X, Fine(d, R, X)
    PROVE  /\ d \in Image /\ R \subseteq d.ibm /\ R \subseteq Inodes /\ ROOT \in DirsOf(d, R)
           /\ \A n \in R : d.ino[n] \in Ino
           /\ \A n \in R, k \in Slots : Ptr(d, d.ino[n], k) \in Nat
           /\ \A n \in R, k \in Slots : d.ino[n].mode # "lnk" => Ptr(d, d.ino[n], k) \in d.bbm \cup {0}
           /\ \A n \in R, k \in Slots : Ptr(d, d.ino[n], k) \in Blocks => Ptr(d, d.ino[n], k) \in d.bbm
           /\ \A n \in R, k \in Slots : d.ino[n].mode = "lnk" => Ptr(d, d.ino[n], k) \notin Blocks
           /\ \A n, o \in R, k, l \in Slots :
                Ptr(d, d.ino[n], k) = Ptr(d, d.ino[o], l) /\ Ptr(d, d.ino[n], k) \in Blocks => n = o /\ k = l
<1>1. d \in Image /\ R \subseteq d.ibm /\ R \subseteq Inodes /\ ROOT \in DirsOf(d, R)
  BY ImageFields DEF Fine, Rooted, DirsOf
<1>2. \A n \in R : d.ino[n] \in Ino
  BY <1>1, ImageFields
<1>3. \A n \in R, k \in Slots : Ptr(d, d.ino[n], k) \in Nat
  BY <1>1, <1>2, PtrTyped
<1>4. \A n \in R, k \in Slots :
        Ptr(d, d.ino[n], k) \in IF d.ino[n].mode = "lnk" THEN Nat \ Blocks ELSE d.bbm \cup {0}
  BY DEF Fine, Apart
<1>5. \A n, o \in R, k, l \in Slots :
        Ptr(d, d.ino[n], k) = Ptr(d, d.ino[o], l) /\ Ptr(d, d.ino[n], k) \in Blocks => n = o /\ k = l
  BY DEF Fine, Apart
<1>6. \A n \in R, k \in Slots : d.ino[n].mode # "lnk" => Ptr(d, d.ino[n], k) \in d.bbm \cup {0}
  BY <1>4
<1>7. \A n \in R, k \in Slots : d.ino[n].mode = "lnk" => Ptr(d, d.ino[n], k) \notin Blocks
  BY <1>4
<1>8. \A n \in R, k \in Slots : Ptr(d, d.ino[n], k) \in Blocks => Ptr(d, d.ino[n], k) \in d.bbm
  BY <1>6, <1>7, Sizes
<1> QED
  BY <1>1, <1>2, <1>3, <1>5, <1>6, <1>7, <1>8

LEMMA NamingFinite ==
    ASSUME NEW d, NEW R, R \subseteq Inodes, NEW X, NEW m
    PROVE  IsFiniteSet(Naming(d, R, X, m)) /\ Cardinality(Naming(d, R, X, m)) \in Nat
<1>1. IsFiniteSet(DirsOf(d, R))
  <2>1. DirsOf(d, R) \subseteq Inodes
    BY DEF DirsOf
  <2> QED
    BY <2>1, Sizes, FS_Subset
<1>2. IsFiniteSet(AllPlaces)
  <2>1. (NDIR + PTRS) * SLOTS - 1 \in Int
    BY Sizes
  <2> QED
    BY <2>1, FS_Interval DEF AllPlaces
<1>3. IsFiniteSet(DirsOf(d, R) \X AllPlaces)
  BY <1>1, <1>2, FS_Product
<1>4. Naming(d, R, X, m) \subseteq DirsOf(d, R) \X AllPlaces
  BY DEF Naming
<1> QED
  BY <1>3, <1>4, FS_Subset, FS_CardinalityType

\* The directories and what they say of the inodes R are the same.
SameNames(d, e, R) ==
    \A n \in R : /\ e.ino[n].mode = d.ino[n].mode
                 /\ d.ino[n].mode = "dir" => \A p \in AllPlaces : Entry(e, n, p) = Entry(d, n, p)

LEMMA NamesKept ==
    ASSUME NEW d, NEW e, NEW R, SameNames(d, e, R)
    PROVE  /\ DirsOf(e, R) = DirsOf(d, R)
           /\ \A X, m : Naming(e, R, X, m) = Naming(d, R, X, m)
           /\ \A X : Closed(d, R, X) => Closed(e, R, X)
<1>1. DirsOf(e, R) = DirsOf(d, R)
  BY DEF SameNames, DirsOf
<1>2. \A q \in DirsOf(d, R) \X AllPlaces : Entry(e, q[1], q[2]) = Entry(d, q[1], q[2])
  BY DEF SameNames, DirsOf
<1>3. \A X, m : Naming(e, R, X, m) = Naming(d, R, X, m)
  BY <1>1, <1>2 DEF Naming
<1>4. \A X : Closed(d, R, X) => Closed(e, R, X)
  BY <1>1, <1>2 DEF Closed
<1> QED
  BY <1>1, <1>3, <1>4

\* Slots hold what they held, or no more if they are a file's; the blocks they
\* hold are in use, those of directories with what they held.
LEMMA StillFine ==
    ASSUME NEW d, NEW R, NEW X, Fine(d, R, X), NEW e \in Image, R \subseteq e.ibm,
           \A n \in R : /\ e.ino[n].mode = d.ino[n].mode
                        /\ d.ino[n].mode = "dir" => e.ino[n].size = d.ino[n].size
                        /\ d.ino[n].mode # "dir" => Cardinality(Naming(d, R, X, n)) <= e.ino[n].links,
           \A n \in R, k \in Slots :
             /\ \/ Ptr(e, e.ino[n], k) = Ptr(d, d.ino[n], k)
                \/ Ptr(e, e.ino[n], k) = 0 /\ d.ino[n].mode # "dir"
             /\ Ptr(e, e.ino[n], k) \in Blocks => Ptr(e, e.ino[n], k) \in e.bbm,
           \A n \in DirsOf(d, R) : \A i \in 0 .. d.ino[n].size - 1 :
             LET b == Ptr(d, d.ino[n], SlotOf(i)) IN b \in Blocks => e.blk[b] = d.blk[b]
    PROVE  Fine(e, R, X) /\ SameNames(d, e, R)
<1>1. Rooted(e, R)
  BY DEF Fine, Rooted
<1>2. Apart(e, R)
  <2>1. ASSUME NEW n \in R, NEW k \in Slots
        PROVE  Ptr(e, e.ino[n], k) \in IF e.ino[n].mode = "lnk" THEN Nat \ Blocks ELSE e.bbm \cup {0}
    <3>1. CASE Ptr(e, e.ino[n], k) = Ptr(d, d.ino[n], k)
      <4>1. d.bbm \subseteq Blocks
        BY FineIs, ImageFields
      <4> QED
        BY <3>1, <4>1, FineIs
    <3>2. CASE Ptr(e, e.ino[n], k) = 0
      BY <3>2, Sizes
    <3> QED
      BY <3>1, <3>2
  <2>2. ASSUME NEW n \in R, NEW o \in R, NEW k \in Slots, NEW l \in Slots,
               Ptr(e, e.ino[n], k) = Ptr(e, e.ino[o], l), Ptr(e, e.ino[n], k) \in Blocks
        PROVE  n = o /\ k = l
    <3>1. Ptr(e, e.ino[n], k) = Ptr(d, d.ino[n], k) /\ Ptr(e, e.ino[o], l) = Ptr(d, d.ino[o], l)
      BY <2>2, Sizes
    <3>2. Ptr(d, d.ino[n], k) = Ptr(d, d.ino[o], l) /\ Ptr(d, d.ino[n], k) \in Blocks
      BY <2>2, <3>1
    <3> QED
      BY ONLY <3>2, FineIs, Fine(d, R, X)
  <2> QED
    BY <2>1, <2>2 DEF Apart
<1>3. DirsOf(e, R) = DirsOf(d, R)
  BY DEF DirsOf
<1>4. Whole(d, R)
  BY DEF Fine
<1>5. ASSUME NEW n \in DirsOf(d, R), NEW i \in 0 .. d.ino[n].size - 1
      PROVE  LET b == Ptr(d, d.ino[n], SlotOf(i))
             IN /\ Ptr(e, e.ino[n], SlotOf(i)) = b /\ e.blk[b] = d.blk[b]
                /\ b \in Blocks /\ d.blk[b].k = "dir"
  <2>1. n \in R /\ d.ino[n].size \in 1 .. NDIR + PTRS /\ d.ino[n].mode = "dir"
    BY <1>4 DEF Whole, DirsOf
  <2>2. i \in 0 .. NDIR + PTRS - 1
    BY <2>1, Sizes
  <2>3. SlotOf(i) \in Slots
    BY <2>2, SlotFacts
  <2>4. LET b == Ptr(d, d.ino[n], SlotOf(i)) IN b \in Blocks /\ d.blk[b].k = "dir"
    BY <1>4 DEF Whole
  <2> QED
    BY <2>1, <2>2, <2>3, <2>4
<1>6. \A n \in DirsOf(d, R) : n \in R /\ e.ino[n].size = d.ino[n].size /\ d.ino[n].size \in 1 .. NDIR + PTRS
  BY <1>4 DEF Whole, DirsOf
<1>7. Whole(e, R)
  BY <1>3, <1>5, <1>6 DEF Whole
<1>8. SameNames(d, e, R)
  <2>1. ASSUME NEW n \in R, d.ino[n].mode = "dir", NEW p \in AllPlaces PROVE Entry(e, n, p) = Entry(d, n, p)
    <3>1. n \in DirsOf(d, R) /\ n \in DirsOf(e, R) /\ e.ino[n].size = d.ino[n].size /\ d \in Image
      BY <2>1, <1>3, FineIs DEF DirsOf
    <3>2. CASE p \div SLOTS < d.ino[n].size
      <4>1. p \div SLOTS \in 0 .. d.ino[n].size - 1
        BY <3>1, <3>2, <1>4, EntryIs
      <4> DEFINE b == Ptr(d, d.ino[n], SlotOf(p \div SLOTS))
      <4>2. Entry(d, n, p) = d.blk[b].e[p % SLOTS]
        BY <3>1, <3>2, <1>4, EntryIs
      <4>3. Entry(e, n, p) = e.blk[Ptr(e, e.ino[n], SlotOf(p \div SLOTS))].e[p % SLOTS]
        BY <3>1, <3>2, <1>7, EntryIs
      <4>4. Ptr(e, e.ino[n], SlotOf(p \div SLOTS)) = b /\ e.blk[b] = d.blk[b]
        BY <3>1, <4>1, <1>5
      <4> QED
        BY <4>2, <4>3, <4>4
    <3>3. CASE ~(p \div SLOTS < d.ino[n].size)
      BY <3>1, <3>3, <1>4, <1>7, EntryIs
    <3> QED
      BY <3>2, <3>3
  <2> QED
    BY <2>1 DEF SameNames
<1>9. Closed(e, R, X) /\ Covered(e, R, X)
  <2>1. Closed(d, R, X)
    BY DEF Fine
  <2> QED
    BY <2>1, <1>8, NamesKept DEF Covered
<1> QED
  BY <1>1, <1>2, <1>7, <1>8, <1>9 DEF Fine

\* The slots of the blocks of a directory.
LEMMA DirSlot ==
    ASSUME NEW d, NEW R, NEW X, Fine(d, R, X), NEW n \in DirsOf(d, R), NEW i \in 0 .. d.ino[n].size - 1
    PROVE  /\ n \in R /\ d.ino[n].mode = "dir" /\ d.ino[n].size \in 1 .. NDIR + PTRS
           /\ i \in 0 .. NDIR + PTRS - 1
           /\ SlotOf(i) \in Slots /\ SlotOf(i) # NDIR
           /\ LET b == Ptr(d, d.ino[n], SlotOf(i)) IN b \in Blocks /\ b \in d.bbm /\ d.blk[b].k = "dir"
<1>1. n \in R /\ d.ino[n].mode = "dir"
  BY DEF DirsOf
<1>2. /\ d.ino[n].size \in 1 .. NDIR + PTRS
      /\ LET b == Ptr(d, d.ino[n], SlotOf(i)) IN b \in Blocks /\ d.blk[b].k = "dir"
  BY DEF Fine, Whole
<1>3. i \in 0 .. NDIR + PTRS - 1
  BY <1>2, Sizes
<1>4. SlotOf(i) \in Slots /\ SlotOf(i) # NDIR
  BY <1>3, SlotFacts
<1> QED
  BY <1>1, <1>2, <1>3, <1>4, FineIs

\* The slots of a file whose pointer block stays as it is.
LEMMA PtrKept ==
    ASSUME NEW d, NEW e, NEW ino, NEW k \in Slots,
           LET a == Ptr(d, ino, NDIR) IN a \in Blocks => e.blk[a] = d.blk[a]
    PROVE  Ptr(e, ino, k) = Ptr(d, ino, k)
<1>1. CASE k <= NDIR
  BY <1>1 DEF Ptr
<1>2. CASE ~(k <= NDIR)
  <2> DEFINE a == ino.ptr[NDIR]
  <2>1. a = Ptr(d, ino, NDIR)
    BY Sizes DEF Ptr
  <2>2. a \in Blocks => e.blk[a] = d.blk[a]
    BY <2>1
  <2>3. ptr_get(e, a, k - NDIR - 1) = ptr_get(d, a, k - NDIR - 1)
    BY <2>2 DEF ptr_get
  <2> QED
    BY <1>2, <2>3 DEF Ptr
<1> QED
  BY <1>1, <1>2

\* The files are the same, and of the blocks at most one, c, which no slot of
\* a pointer block or of a directory's block holds.
LEMMA BlockWritten ==
    ASSUME NEW d, NEW R, NEW X, Fine(d, R, X), NEW e \in Image, R \subseteq e.ibm,
           \A n \in R : e.ino[n] = d.ino[n],
           \A n \in R, k \in Slots : Ptr(d, d.ino[n], k) \in Blocks => Ptr(d, d.ino[n], k) \in e.bbm,
           NEW c, \A b \in Blocks \ {c} : e.blk[b] = d.blk[b],
           \A n \in R : Ptr(d, d.ino[n], NDIR) # c,
           \A n \in DirsOf(d, R) : \A i \in 0 .. d.ino[n].size - 1 : Ptr(d, d.ino[n], SlotOf(i)) # c
    PROVE  Fine(e, R, X) /\ SameNames(d, e, R)
<1>1. ASSUME NEW n \in R, NEW k \in Slots PROVE Ptr(e, d.ino[n], k) = Ptr(d, d.ino[n], k)
  <2>1. LET a == Ptr(d, d.ino[n], NDIR) IN a \in Blocks => e.blk[a] = d.blk[a]
    OBVIOUS
  <2> QED
    BY <2>1, PtrKept
<1>2. \A n \in DirsOf(d, R) : \A i \in 0 .. d.ino[n].size - 1 :
        LET b == Ptr(d, d.ino[n], SlotOf(i)) IN b \in Blocks => e.blk[b] = d.blk[b]
  OBVIOUS
<1>3. \A n \in R : d.ino[n].mode # "dir" => Cardinality(Naming(d, R, X, n)) <= e.ino[n].links
  BY DEF Fine, Covered
<1> QED
  BY <1>1, <1>2, <1>3, StillFine

\* No slot holds block c.
Unowned(d, R, c) == \A n \in R, k \in Slots : Ptr(d, d.ino[n], k) # c

LEMMA FreeIsUnowned ==
    ASSUME NEW d, NEW R, NEW X, Fine(d, R, X), NEW c \in Blocks \ d.bbm
    PROVE  Unowned(d, R, c)
  BY FineIs DEF Unowned

LEMMA FreshWritten ==
    ASSUME NEW d, NEW R, NEW X, Fine(d, R, X), NEW e \in Image, R \subseteq e.ibm,
           \A n \in R : e.ino[n] = d.ino[n], d.bbm \subseteq e.bbm,
           NEW c, \A b \in Blocks \ {c} : e.blk[b] = d.blk[b], Unowned(d, R, c)
    PROVE  Fine(e, R, X) /\ SameNames(d, e, R) /\ (\A b : Unowned(d, R, b) => Unowned(e, R, b))
<1>1. \A n \in R : Ptr(d, d.ino[n], NDIR) # c
  BY SlotFacts DEF Unowned
<1>2. \A n \in DirsOf(d, R) : \A i \in 0 .. d.ino[n].size - 1 : Ptr(d, d.ino[n], SlotOf(i)) # c
  BY DirSlot DEF Unowned
<1>3. \A n \in R, k \in Slots : Ptr(d, d.ino[n], k) \in Blocks => Ptr(d, d.ino[n], k) \in e.bbm
  BY FineIs
<1>4. Fine(e, R, X) /\ SameNames(d, e, R)
  BY <1>1, <1>2, <1>3, BlockWritten
<1>5. ASSUME NEW n \in R, NEW k \in Slots PROVE Ptr(e, e.ino[n], k) = Ptr(d, d.ino[n], k)
  <2>1. e.ino[n] = d.ino[n] /\ LET a == Ptr(d, d.ino[n], NDIR) IN a \in Blocks => e.blk[a] = d.blk[a]
    BY <1>1
  <2>2. Ptr(e, d.ino[n], k) = Ptr(d, d.ino[n], k)
    BY <2>1, PtrKept
  <2> QED
    BY <2>1, <2>2
<1> QED
  BY <1>4, <1>5 DEF Unowned

\* One empty slot, s of n, is given block v, which no slot holds.
LEMMA SlotFilled ==
    ASSUME NEW d, NEW R, NEW X, Fine(d, R, X), NEW e \in Image, R \subseteq e.ibm, d.bbm \subseteq e.bbm,
           \A o \in R : /\ e.ino[o].mode = d.ino[o].mode /\ e.ino[o].size = d.ino[o].size
                        /\ e.ino[o].links = d.ino[o].links,
           NEW n \in R, d.ino[n].mode # "lnk", NEW s \in Slots, Ptr(d, d.ino[n], s) = 0,
           NEW v \in e.bbm, Unowned(d, R, v),
           \A o \in R, k \in Slots :
             Ptr(e, e.ino[o], k) = IF o = n /\ k = s THEN v ELSE Ptr(d, d.ino[o], k),
           \A o \in DirsOf(d, R) : \A i \in 0 .. d.ino[o].size - 1 :
             LET b == Ptr(d, d.ino[o], SlotOf(i)) IN b \in Blocks => e.blk[b] = d.blk[b]
    PROVE  Fine(e, R, X) /\ SameNames(d, e, R)
<1>1. Rooted(e, R) /\ DirsOf(e, R) = DirsOf(d, R)
  BY DEF Fine, Rooted, DirsOf
<1>2. Apart(e, R)
  <2>1. ASSUME NEW o \in R, NEW k \in Slots
        PROVE  Ptr(e, e.ino[o], k) \in IF e.ino[o].mode = "lnk" THEN Nat \ Blocks ELSE e.bbm \cup {0}
    <3>1. CASE o = n /\ k = s
      BY <3>1
    <3>2. CASE ~(o = n /\ k = s)
      BY <3>2, FineIs
    <3> QED
      BY <3>1, <3>2
  <2>2. ASSUME NEW o \in R, NEW m \in R, NEW k \in Slots, NEW l \in Slots,
               Ptr(e, e.ino[o], k) = Ptr(e, e.ino[m], l), Ptr(e, e.ino[o], k) \in Blocks
        PROVE  o = m /\ k = l
    <3>1. CASE o = n /\ k = s
      BY <3>1, <2>2 DEF Unowned
    <3>2. CASE m = n /\ l = s
      BY <3>2, <2>2 DEF Unowned
    <3>3. CASE ~(o = n /\ k = s) /\ ~(m = n /\ l = s)
      <4>1. Ptr(d, d.ino[o], k) = Ptr(d, d.ino[m], l) /\ Ptr(d, d.ino[o], k) \in Blocks
        BY <2>2, <3>3
      <4> QED
        BY <4>1, FineIs
    <3> QED
      BY <3>1, <3>2, <3>3
  <2> QED
    BY <2>1, <2>2 DEF Apart
<1>3. Whole(d, R)
  BY DEF Fine
<1>4. ASSUME NEW o \in DirsOf(d, R), NEW i \in 0 .. d.ino[o].size - 1
      PROVE  LET b == Ptr(d, d.ino[o], SlotOf(i))
             IN /\ Ptr(e, e.ino[o], SlotOf(i)) = b /\ e.blk[b] = d.blk[b]
                /\ b \in Blocks /\ d.blk[b].k = "dir"
  <2>1. o \in R /\ d.ino[o].size \in 1 .. NDIR + PTRS
    BY <1>3 DEF Whole, DirsOf
  <2>2. i \in 0 .. NDIR + PTRS - 1
    BY <2>1, Sizes
  <2>3. SlotOf(i) \in Slots
    BY <2>2, SlotFacts
  <2>4. LET b == Ptr(d, d.ino[o], SlotOf(i)) IN b \in Blocks /\ d.blk[b].k = "dir"
    BY <1>3 DEF Whole
  <2>5. Ptr(d, d.ino[o], SlotOf(i)) # 0
    BY <2>4, Sizes
  <2> QED
    BY <2>1, <2>2, <2>3, <2>4, <2>5
<1>5. \A o \in DirsOf(d, R) : o \in R /\ e.ino[o].size = d.ino[o].size /\ d.ino[o].size \in 1 .. NDIR + PTRS
  BY <1>3 DEF Whole, DirsOf
<1>6. Whole(e, R)
  BY <1>1, <1>4, <1>5 DEF Whole
<1>7. SameNames(d, e, R)
  <2>1. ASSUME NEW o \in R, d.ino[o].mode = "dir", NEW p \in AllPlaces PROVE Entry(e, o, p) = Entry(d, o, p)
    <3>1. o \in DirsOf(d, R) /\ o \in DirsOf(e, R) /\ e.ino[o].size = d.ino[o].size /\ d \in Image
      BY <2>1, <1>1, FineIs DEF DirsOf
    <3>2. CASE p \div SLOTS < d.ino[o].size
      <4>1. p \div SLOTS \in 0 .. d.ino[o].size - 1
        BY <3>1, <3>2, <1>3, EntryIs
      <4> QED
        <5>1. /\ p \div SLOTS < e.ino[o].size /\ e \in Image
              /\ Ptr(e, e.ino[o], SlotOf(p \div SLOTS)) = Ptr(d, d.ino[o], SlotOf(p \div SLOTS))
              /\ LET b == Ptr(d, d.ino[o], SlotOf(p \div SLOTS)) IN e.blk[b] = d.blk[b]
          BY <3>1, <3>2, <4>1, <1>4
        <5>2. Entry(d, o, p) = d.blk[Ptr(d, d.ino[o], SlotOf(p \div SLOTS))].e[p % SLOTS]
          BY ONLY <2>1, <3>1, <3>2, <1>3, EntryIs
        <5>3. Entry(e, o, p) = e.blk[Ptr(e, e.ino[o], SlotOf(p \div SLOTS))].e[p % SLOTS]
          BY ONLY <2>1, <3>1, <5>1, <1>6, EntryIs
        <5> QED
          BY ONLY <5>1, <5>2, <5>3
    <3>3. CASE ~(p \div SLOTS < d.ino[o].size)
      BY <3>1, <3>3, <1>3, <1>6, EntryIs
    <3> QED
      BY <3>2, <3>3
  <2> QED
    BY <2>1 DEF SameNames
<1>8. Closed(e, R, X) /\ Covered(e, R, X)
  <2>1. Closed(d, R, X) /\ Covered(d, R, X)
    BY DEF Fine
  <2> QED
    BY <2>1, <1>7, NamesKept DEF Covered
<1> QED
  BY <1>1, <1>2, <1>6, <1>7, <1>8 DEF Fine

\* Block v goes into an empty place of the pointer block c of n.
LEMMA PlaceFilled ==
    ASSUME NEW d, NEW R, NEW X, Fine(d, R, X), NEW e \in Image, R \subseteq e.ibm, d.bbm \subseteq e.bbm,
           \A o \in R : e.ino[o] = d.ino[o],
           NEW n \in R, d.ino[n].mode # "lnk", NEW c \in Blocks, Ptr(d, d.ino[n], NDIR) = c,
           NEW at \in 0 .. PTRS - 1, ptr_get(d, c, at) = 0, NEW v \in e.bbm, Unowned(d, R, v),
           \A b \in Blocks \ {c} : e.blk[b] = d.blk[b],
           \A j \in 0 .. PTRS - 1 : ptr_get(e, c, j) = IF j = at THEN v ELSE ptr_get(d, c, j)
    PROVE  Fine(e, R, X) /\ SameNames(d, e, R)
<1> DEFINE s == NDIR + 1 + at
<1>1. s \in Slots /\ ~(s <= NDIR) /\ s - NDIR - 1 = at /\ s # NDIR
  BY SlotFacts, Sizes
<1>2. \A k : ~(k <= NDIR) => Ptr(d, d.ino[n], k) = ptr_get(d, c, k - NDIR - 1)
                             /\ Ptr(e, d.ino[n], k) = ptr_get(e, c, k - NDIR - 1)
  <2>1. d.ino[n].ptr[NDIR] = c
    BY Sizes DEF Ptr
  <2> QED
    BY <2>1, Zenon DEF Ptr
<1>3. Ptr(d, d.ino[n], s) = 0
  BY <1>1, <1>2
<1>4. ASSUME NEW o \in R, NEW k \in Slots
      PROVE  Ptr(e, e.ino[o], k) = IF o = n /\ k = s THEN v ELSE Ptr(d, d.ino[o], k)
  <2>1. e.ino[o] = d.ino[o]
    OBVIOUS
  <2>2. CASE o = n /\ k <= NDIR
    BY <2>1, <2>2, <1>1 DEF Ptr
  <2>3. CASE o = n /\ ~(k <= NDIR)
    <3>1. k - NDIR - 1 \in 0 .. PTRS - 1 /\ (k - NDIR - 1 = at <=> k = s)
      BY <2>3, SlotFacts, Sizes DEF Slots
    <3> QED
      BY <2>1, <2>3, <3>1, <1>2
  <2>4. CASE o # n
    <3>1. Ptr(d, d.ino[o], NDIR) # c
      BY <2>4, FineIs, SlotFacts
    <3>2. LET a == Ptr(d, d.ino[o], NDIR) IN a \in Blocks => e.blk[a] = d.blk[a]
      BY <3>1
    <3>3. Ptr(e, d.ino[o], k) = Ptr(d, d.ino[o], k)
      BY <3>2, PtrKept
    <3> QED
      BY <3>3, <2>1, <2>4
  <2> QED
    BY <2>2, <2>3, <2>4
<1>5. ASSUME NEW o \in DirsOf(d, R), NEW i \in 0 .. d.ino[o].size - 1
      PROVE  LET b == Ptr(d, d.ino[o], SlotOf(i)) IN b \in Blocks => e.blk[b] = d.blk[b]
  <2>1. SlotOf(i) \in Slots /\ SlotOf(i) # NDIR /\ NDIR \in Slots /\ o \in R
    BY DirSlot, SlotFacts
  <2>2. Ptr(d, d.ino[o], SlotOf(i)) # c
    BY <2>1, FineIs
  <2> QED
    BY <2>2
<1> HIDE DEF s
<1> QED
  BY <1>1, <1>3, <1>4, <1>5, SlotFilled

----------------------------------------------------------------------------
(* Names: entries that are left out of account or taken into it, inodes    *)
(* that come and go.                                                       *)

LEMMA WithFields ==
    ASSUME NEW d \in Image, NEW n \in Inodes, NEW ino \in Ino
    PROVE  /\ With(d, n, ino) \in Image
           /\ With(d, n, ino).bbm = d.bbm /\ With(d, n, ino).ibm = d.ibm /\ With(d, n, ino).blk = d.blk
           /\ With(d, n, ino).gdt = d.gdt /\ With(d, n, ino).sb = d.sb
           /\ With(d, n, ino).ino[n] = ino
           /\ \A o \in Inodes : o # n => With(d, n, ino).ino[o] = d.ino[o]
<1>1. d.ino \in [Inodes -> Ino]
  BY ImageFields
<1>2. [d.ino EXCEPT ![n] = ino] \in [Inodes -> Ino]
  BY <1>1
<1> QED
  BY <1>1, <1>2 DEF With, Image

LEMMA FineMore ==
    ASSUME NEW d, NEW R, NEW X, Fine(d, R, X), NEW Y, X \subseteq Y
    PROVE  Fine(d, R, Y)
<1>1. Closed(d, R, Y)
  BY DEF Fine, Closed
<1>2. ASSUME NEW m \in R, d.ino[m].mode # "dir"
      PROVE  Cardinality(Naming(d, R, Y, m)) <= d.ino[m].links
  <2>1. Naming(d, R, Y, m) \subseteq Naming(d, R, X, m) /\ R \subseteq Inodes /\ d.ino[m].links \in Nat
    BY FineIs, ImageFields DEF Naming
  <2>2. Cardinality(Naming(d, R, Y, m)) <= Cardinality(Naming(d, R, X, m))
    BY <2>1, NamingFinite, FS_Subset
  <2>3. Cardinality(Naming(d, R, X, m)) <= d.ino[m].links
    BY <1>2 DEF Fine, Covered
  <2>4. Cardinality(Naming(d, R, Y, m)) \in Nat /\ Cardinality(Naming(d, R, X, m)) \in Nat
    BY <2>1, NamingFinite
  <2> QED
    BY <2>1, <2>2, <2>3, <2>4
<1> QED
  BY <1>1, <1>2 DEF Fine, Covered

\* An entry is taken into account: it is empty or leads to an inode that has a link to spare.
LEMMA EntryCounts ==
    ASSUME NEW d, NEW R, NEW X, NEW q, Fine(d, R, X \cup {q}),
           LET v == Entry(d, q[1], q[2]).ino
           IN v = 0 \/ /\ v \in R
                       /\ d.ino[v].mode # "dir" => Cardinality(Naming(d, R, X \cup {q}, v)) < d.ino[v].links
    PROVE  Fine(d, R, X)
<1> DEFINE Y == X \cup {q}
           v == Entry(d, q[1], q[2]).ino
<1>1. Closed(d, R, X)
  <2>1. ASSUME NEW r \in (DirsOf(d, R) \X AllPlaces) \ X PROVE Entry(d, r[1], r[2]).ino \in R \cup {0}
    <3>1. CASE r = q
      BY <3>1
    <3>2. CASE r # q
      BY <3>2 DEF Fine, Closed
    <3> QED
      BY <3>1, <3>2
  <2> QED
    BY <2>1 DEF Closed
<1>2. ASSUME NEW m \in R, d.ino[m].mode # "dir"
      PROVE  Cardinality(Naming(d, R, X, m)) <= d.ino[m].links
  <2>1. R \subseteq Inodes /\ d.ino[m].links \in Nat /\ m # 0
    BY FineIs, ImageFields, Sizes
  <2>2. /\ IsFiniteSet(Naming(d, R, Y, m)) /\ Cardinality(Naming(d, R, Y, m)) \in Nat
        /\ IsFiniteSet(Naming(d, R, X, m)) /\ Cardinality(Naming(d, R, X, m)) \in Nat
    BY <2>1, NamingFinite
  <2>3. Cardinality(Naming(d, R, Y, m)) <= d.ino[m].links
    BY <1>2 DEF Fine, Covered
  <2>4. CASE v = m
    <3>1. Naming(d, R, X, m) \subseteq Naming(d, R, Y, m) \cup {q}
      BY DEF Naming
    <3>2. /\ IsFiniteSet(Naming(d, R, Y, m) \cup {q})
          /\ Cardinality(Naming(d, R, Y, m) \cup {q}) \in Nat
          /\ Cardinality(Naming(d, R, Y, m) \cup {q}) <= Cardinality(Naming(d, R, Y, m)) + 1
      <4>1. /\ IsFiniteSet(Naming(d, R, Y, m) \cup {q})
            /\ \/ Cardinality(Naming(d, R, Y, m) \cup {q}) = Cardinality(Naming(d, R, Y, m))
               \/ Cardinality(Naming(d, R, Y, m) \cup {q}) = Cardinality(Naming(d, R, Y, m)) + 1
        BY <2>2, FS_AddElement
      <4> QED
        BY ONLY <4>1, <2>2
    <3>3. Cardinality(Naming(d, R, X, m)) <= Cardinality(Naming(d, R, Y, m) \cup {q})
      BY <3>1, <3>2, FS_Subset
    <3>4. Cardinality(Naming(d, R, Y, m)) < d.ino[m].links
      BY <2>1, <2>4, <1>2
    <3> QED
      BY ONLY <2>1, <2>2, <3>2, <3>3, <3>4
  <2>5. CASE v # m
    <3>1. Naming(d, R, X, m) = Naming(d, R, Y, m)
      BY <2>5 DEF Naming
    <3> QED
      BY <3>1, <2>3
  <2> QED
    BY <2>4, <2>5
<1> QED
  BY <1>1, <1>2 DEF Fine, Covered

\* An inode that does not count is written.
LEMMA OutsideWritten ==
    ASSUME NEW d, NEW R, NEW X, Fine(d, R, X), NEW n \in Inodes \ R, NEW ino \in Ino
    PROVE  Fine(With(d, n, ino), R, X) /\ SameNames(d, With(d, n, ino), R)
<1> DEFINE e == With(d, n, ino)
<1>0. d \in Image /\ R \subseteq Inodes /\ R \subseteq d.ibm /\ n \notin R
  BY FineIs
<1>1. /\ e \in Image /\ R \subseteq e.ibm /\ d.bbm \subseteq e.bbm /\ e.blk = d.blk
      /\ \A o \in R : e.ino[o] = d.ino[o]
  <2>1. /\ e \in Image /\ e.ibm = d.ibm /\ e.bbm = d.bbm /\ e.blk = d.blk
        /\ \A o \in Inodes : o # n => e.ino[o] = d.ino[o]
    BY <1>0, WithFields
  <2> QED
    BY <1>0, <2>1
<1> HIDE DEF e
<1>2. \A o \in R : d.ino[o].mode # "dir" => Cardinality(Naming(d, R, X, o)) <= e.ino[o].links
  BY <1>1 DEF Fine, Covered
<1>3. \A o \in R, k \in Slots : Ptr(e, e.ino[o], k) = Ptr(d, d.ino[o], k)
  BY <1>1, PtrKept
<1>4. \A o \in R, k \in Slots : Ptr(d, d.ino[o], k) \in Blocks => Ptr(d, d.ino[o], k) \in e.bbm
  BY <1>1, FineIs
<1>5. Fine(e, R, X) /\ SameNames(d, e, R)
  BY <1>1, <1>2, <1>3, <1>4, StillFine
<1> QED
  BY <1>5 DEF e

\* An inode without a name but in itself ceases to count.
LEMMA FewerInodes ==
    ASSUME NEW d, NEW R, NEW X, Fine(d, R, X), NEW g \in R, g # ROOT,
           \A q \in Naming(d, R, X, g) : q[1] = g
    PROVE  Fine(d, R \ {g}, X)
<1> DEFINE P == R \ {g}
<1>1. P \subseteq R /\ DirsOf(d, P) \subseteq DirsOf(d, R) \ {g} /\ R \subseteq Inodes
  BY FineIs DEF DirsOf
<1>2. \A m : Naming(d, P, X, m) \subseteq Naming(d, R, X, m)
  BY <1>1 DEF Naming
<1>3. Rooted(d, P) /\ Apart(d, P) /\ Whole(d, P)
  <2>1. Rooted(d, P) /\ Apart(d, P)
    BY DEF Fine, Rooted, Apart
  <2>2. Whole(d, P)
    BY <1>1 DEF Fine, Whole
  <2> QED
    BY <2>1, <2>2
<1>4. Covered(d, P, X)
  <2>1. ASSUME NEW m \in P, d.ino[m].mode # "dir"
        PROVE  Cardinality(Naming(d, P, X, m)) <= d.ino[m].links
    <3>1. d.ino[m].links \in Nat
      BY <2>1, FineIs, ImageFields
    <3>2. Cardinality(Naming(d, R, X, m)) <= d.ino[m].links
      BY <2>1 DEF Fine, Covered
    <3>3. /\ Cardinality(Naming(d, P, X, m)) <= Cardinality(Naming(d, R, X, m))
          /\ Cardinality(Naming(d, R, X, m)) \in Nat
      BY <1>1, <1>2, NamingFinite, FS_Subset
    <3>4. Cardinality(Naming(d, P, X, m)) \in Nat
      BY <1>1, NamingFinite
    <3> QED
      BY ONLY <3>1, <3>2, <3>3, <3>4
  <2> QED
    BY <2>1 DEF Covered
<1>5. Closed(d, P, X)
  <2>1. ASSUME NEW q \in (DirsOf(d, P) \X AllPlaces) \ X PROVE Entry(d, q[1], q[2]).ino \in P \cup {0}
    <3>1. q \in (DirsOf(d, R) \X AllPlaces) \ X /\ q[1] # g
      BY <1>1
    <3>2. Entry(d, q[1], q[2]).ino \in R \cup {0}
      BY <3>1 DEF Fine, Closed
    <3>3. Entry(d, q[1], q[2]).ino # g
      BY <3>1 DEF Naming
    <3> QED
      BY <3>2, <3>3
  <2> QED
    BY <2>1 DEF Closed
<1> QED
  BY <1>3, <1>4, <1>5 DEF Fine

\* The directories and their entries are the same, but for entry q.
SameOthers(d, e, R, q) ==
    \A n \in R : /\ e.ino[n].mode = d.ino[n].mode
                 /\ d.ino[n].mode = "dir" =>
                      \A p \in AllPlaces : <<n, p>> # q => Entry(e, n, p) = Entry(d, n, p)

LEMMA OthersKept ==
    ASSUME NEW d, NEW e, NEW R, NEW q, SameOthers(d, e, R, q), NEW X
    PROVE  /\ DirsOf(e, R) = DirsOf(d, R)
           /\ \A m : Naming(e, R, X \cup {q}, m) = Naming(d, R, X \cup {q}, m)
           /\ Closed(d, R, X) => Closed(e, R, X \cup {q})
<1>1. DirsOf(e, R) = DirsOf(d, R)
  BY DEF SameOthers, DirsOf
<1>2. \A r \in DirsOf(d, R) \X AllPlaces : r # q => Entry(e, r[1], r[2]) = Entry(d, r[1], r[2])
  <2>1. ASSUME NEW r \in DirsOf(d, R) \X AllPlaces, r # q
        PROVE  Entry(e, r[1], r[2]) = Entry(d, r[1], r[2])
    <3>1. r[1] \in DirsOf(d, R) /\ r[2] \in AllPlaces /\ <<r[1], r[2]>> # q
      BY <2>1
    <3> QED
      BY <3>1 DEF SameOthers, DirsOf
  <2> QED
    BY <2>1
<1>3. \A m : Naming(e, R, X \cup {q}, m) = Naming(d, R, X \cup {q}, m)
  BY <1>1, <1>2 DEF Naming
<1>4. Closed(d, R, X) => Closed(e, R, X \cup {q})
  BY <1>1, <1>2 DEF Closed
<1> QED
  BY <1>1, <1>3, <1>4

\* An inode that counts is written, with the slots it has or with empty ones.
LEMMA InodeSet ==
    ASSUME NEW d, NEW R, NEW X, Fine(d, R, X), NEW n \in R, NEW ino \in Ino,
           ino.mode = d.ino[n].mode, d.ino[n].mode = "dir" => ino.size = d.ino[n].size,
           d.ino[n].mode # "dir" => Cardinality(Naming(d, R, X, n)) <= ino.links,
           \A k \in Slots : \/ Ptr(d, ino, k) = Ptr(d, d.ino[n], k)
                            \/ Ptr(d, ino, k) = 0 /\ d.ino[n].mode # "dir"
    PROVE  Fine(With(d, n, ino), R, X) /\ SameNames(d, With(d, n, ino), R)
<1> DEFINE e == With(d, n, ino)
<1>0. d \in Image /\ R \subseteq Inodes /\ R \subseteq d.ibm /\ n \in Inodes
  BY FineIs
<1>1. /\ e \in Image /\ R \subseteq e.ibm /\ d.bbm = e.bbm /\ e.blk = d.blk /\ e.ino[n] = ino
      /\ \A o \in R : o # n => e.ino[o] = d.ino[o]
  <2>1. /\ e \in Image /\ e.ibm = d.ibm /\ e.bbm = d.bbm /\ e.blk = d.blk /\ e.ino[n] = ino
        /\ \A o \in Inodes : o # n => e.ino[o] = d.ino[o]
    BY <1>0, WithFields
  <2> QED
    BY <1>0, <2>1
<1> HIDE DEF e
<1>2. \A o \in R : /\ e.ino[o].mode = d.ino[o].mode
                   /\ d.ino[o].mode = "dir" => e.ino[o].size = d.ino[o].size
                   /\ d.ino[o].mode # "dir" => Cardinality(Naming(d, R, X, o)) <= e.ino[o].links
  BY <1>1 DEF Fine, Covered
<1>3. \A o \in R, k \in Slots : Ptr(e, e.ino[o], k) = Ptr(d, e.ino[o], k)
  BY <1>1, PtrKept
<1>4. \A o \in R, k \in Slots :
        \/ Ptr(e, e.ino[o], k) = Ptr(d, d.ino[o], k)
        \/ Ptr(e, e.ino[o], k) = 0 /\ d.ino[o].mode # "dir"
  BY <1>1, <1>3
<1>5. \A o \in R, k \in Slots : Ptr(e, e.ino[o], k) \in Blocks => Ptr(e, e.ino[o], k) \in e.bbm
  BY <1>1, <1>4, FineIs, Sizes
<1>6. Fine(e, R, X) /\ SameNames(d, e, R)
  BY <1>1, <1>2, <1>4, <1>5, StillFine
<1> QED
  BY <1>6 DEF e

\* A new file or link counts, before a name leads to it.
LEMMA NewFile ==
    ASSUME NEW d, NEW R, NEW X, Fine(d, R, X), NEW new \in d.ibm, new \notin R,
           d.ino[new].mode \in {"reg", "lnk"},
           \A k \in Slots : Ptr(d, d.ino[new], k) \in IF d.ino[new].mode = "lnk" THEN Nat \ Blocks ELSE {0}
    PROVE  Fine(d, R \cup {new}, X) /\ Naming(d, R \cup {new}, X, new) = {}
<1> DEFINE P == R \cup {new}
<1>1. d \in Image /\ new \in Inodes /\ new # 0 /\ DirsOf(d, P) = DirsOf(d, R)
  BY FineIs, ImageFields, Sizes DEF DirsOf
<1>2. \A m : Naming(d, P, X, m) = Naming(d, R, X, m)
  BY <1>1 DEF Naming
<1>3. Closed(d, P, X)
  BY <1>1 DEF Fine, Closed
<1>4. Naming(d, P, X, new) = {}
  BY <1>1, <1>2 DEF Fine, Closed, Naming
<1>5. Covered(d, P, X)
  <2>1. Cardinality(Naming(d, P, X, new)) = 0 /\ d.ino[new].links \in Nat
    BY <1>1, <1>4, FS_EmptySet, ImageFields
  <2> QED
    BY <1>2, <2>1 DEF Fine, Covered
<1>6. Whole(d, P)
  BY <1>1 DEF Fine, Whole
<1>7. Rooted(d, P)
  BY DEF Fine, Rooted
<1>8. Apart(d, P)
  <2>1. \A n \in P, k \in Slots :
          Ptr(d, d.ino[n], k) \in IF d.ino[n].mode = "lnk" THEN Nat \ Blocks ELSE d.bbm \cup {0}
    BY DEF Fine, Apart
  <2>2. \A k \in Slots : Ptr(d, d.ino[new], k) \notin Blocks
    BY Sizes
  <2>3. \A n \in P, o \in P, k \in Slots, l \in Slots :
          Ptr(d, d.ino[n], k) = Ptr(d, d.ino[o], l) /\ Ptr(d, d.ino[n], k) \in Blocks => n \in R /\ o \in R
    BY <2>2
  <2> QED
    BY <2>1, <2>3, FineIs DEF Apart
<1> QED
  BY <1>1, <1>3, <1>4, <1>5, <1>6, <1>7, <1>8 DEF Fine

LEMMA VacantIs == Vacant.ino = 0 /\ Vacant.name = ""
  BY DEF Vacant

LEMMA DotsTyped ==
    \A new, dir \in Inodes : Dots(new, dir) \in Entries
<1> SUFFICES ASSUME NEW new \in Inodes, NEW dir \in Inodes PROVE Dots(new, dir) \in Entries
  OBVIOUS
<1>1. /\ [ino |-> new, name |-> "."] \in EntryKind /\ [ino |-> dir, name |-> ".."] \in EntryKind
      /\ Vacant \in EntryKind
  BY EntriesAre DEF EntryKind
<1> HIDE DEF EntryKind
<1> QED
  BY <1>1 DEF Dots, Entries

LEMMA DotsNamed ==
    \A new, dir : \A s \in 0 .. SLOTS - 1 : Dots(new, dir)[s].ino \in {new, dir, 0}
<1> SUFFICES ASSUME NEW new, NEW dir, NEW s \in 0 .. SLOTS - 1
             PROVE  Dots(new, dir)[s].ino \in {new, dir, 0}
  OBVIOUS
<1>1. \E v \in {[ino |-> new, name |-> "."], [ino |-> dir, name |-> ".."], Vacant} : v = Dots(new, dir)[s]
  BY DEF Dots
<1>2. \A v \in {[ino |-> new, name |-> "."], [ino |-> dir, name |-> ".."], Vacant} :
        v.ino \in {new, dir, 0}
  <2>1. /\ [ino |-> new, name |-> "."].ino = new /\ [ino |-> dir, name |-> ".."].ino = dir
        /\ Vacant.ino = 0
    BY VacantIs
  <2> QED
    BY <2>1, Zenon
<1> QED
  BY <1>1, <1>2, Zenon

\* A new directory has one block, which is its own.
FirstBlock(d, R, new, dir, b) ==
    /\ new \in d.ibm /\ new \notin R /\ dir \in R
    /\ d.ino[dir].mode = "dir" /\ d.ino[new].mode = "dir" /\ d.ino[new].size = 1
    /\ b \in d.bbm /\ Unowned(d, R, b) /\ d.blk[b] = DirBlk(Dots(new, dir), Unwritten)
    /\ \A k \in Slots : Ptr(d, d.ino[new], k) = IF k = 0 THEN b ELSE 0

\* It counts, before a name leads to it.
LEMMA NewDir ==
    ASSUME NEW d, NEW R, NEW X, Fine(d, R, X), NEW new, NEW dir, NEW b, FirstBlock(d, R, new, dir, b)
    PROVE  /\ Fine(d, R \cup {new}, X)
           /\ \A q \in Naming(d, R \cup {new}, X, new) : q[1] = new
<1>0. /\ new \in d.ibm /\ new \notin R /\ dir \in R
      /\ d.ino[dir].mode = "dir" /\ d.ino[new].mode = "dir" /\ d.ino[new].size = 1
      /\ b \in d.bbm /\ Unowned(d, R, b) /\ d.blk[b] = DirBlk(Dots(new, dir), Unwritten)
      /\ \A k \in Slots : Ptr(d, d.ino[new], k) = IF k = 0 THEN b ELSE 0
  BY DEF FirstBlock
<1> USE <1>0
<1> DEFINE P == R \cup {new}
<1>1. /\ d \in Image /\ new \in Inodes /\ new # 0 /\ b \in Blocks /\ R \subseteq Inodes
      /\ DirsOf(d, P) = DirsOf(d, R) \cup {new}
  BY FineIs, ImageFields, Sizes DEF DirsOf
<1>2. Dots(new, dir) \in Entries
  <2>1. dir \in Inodes
    BY <1>1
  <2> QED
    BY <1>1, <2>1, DotsTyped
<1>3. d.blk[b].k = "dir" /\ d.blk[b].e = Dots(new, dir)
  BY <1>2, BlkKinds, EntriesAre
<1>4. Whole(d, P)
  <2>1. d.ino[new].size \in 1 .. NDIR + PTRS
    BY Sizes
  <2>2. ASSUME NEW i \in 0 .. d.ino[new].size - 1
        PROVE  LET c == Ptr(d, d.ino[new], SlotOf(i)) IN c \in Blocks /\ d.blk[c].k = "dir"
    <3>1. i = 0 /\ SlotOf(i) = 0 /\ 0 \in Slots
      BY <2>2, Sizes DEF SlotOf, Slots
    <3> QED
      BY <3>1, <1>1, <1>3
  <2> QED
    BY <1>1, <2>1, <2>2 DEF Fine, Whole
<1>5. ASSUME NEW p \in AllPlaces PROVE Entry(d, new, p).ino \in {new, dir, 0}
  <2>1. new \in DirsOf(d, P)
    BY <1>1
  <2>2. CASE p \div SLOTS < d.ino[new].size
    <3>1. p \div SLOTS \in Nat /\ p % SLOTS \in 0 .. SLOTS - 1
      BY <1>1, <1>4, <2>1, EntryIs
    <3>2. p \div SLOTS = 0 /\ SlotOf(p \div SLOTS) = 0 /\ 0 \in Slots
      BY <2>2, <3>1, Sizes DEF SlotOf, Slots
    <3>3. Entry(d, new, p) = Dots(new, dir)[p % SLOTS]
      BY <1>1, <1>3, <1>4, <2>1, <2>2, <3>2, EntryIs
    <3>4. \A s \in 0 .. SLOTS - 1 : Dots(new, dir)[s].ino \in {new, dir, 0}
      BY ONLY DotsNamed
    <3> QED
      BY <3>1, <3>3, <3>4
  <2>3. CASE ~(p \div SLOTS < d.ino[new].size)
    <3>1. Entry(d, new, p) = Vacant
      BY <1>1, <1>4, <2>1, <2>3, EntryIs
    <3> QED
      BY <3>1, VacantIs
  <2> QED
    BY <2>2, <2>3
<1>6. Closed(d, P, X)
  <2>1. ASSUME NEW q \in (DirsOf(d, P) \X AllPlaces) \ X PROVE Entry(d, q[1], q[2]).ino \in P \cup {0}
    <3>1. CASE q[1] = new
      BY <3>1, <1>5
    <3>2. CASE q[1] # new
      <4>1. q \in (DirsOf(d, R) \X AllPlaces) \ X
        BY <1>1, <3>2
      <4> QED
        BY <4>1 DEF Fine, Closed
    <3> QED
      BY <3>1, <3>2
  <2> QED
    BY <2>1 DEF Closed
<1>7. ASSUME NEW m, m \notin {new, dir, 0} PROVE Naming(d, P, X, m) = Naming(d, R, X, m)
  <2>1. ASSUME NEW q \in Naming(d, P, X, m) PROVE q \in Naming(d, R, X, m)
    <3>1. q[1] # new
      BY <1>5, <1>7, <2>1 DEF Naming
    <3> QED
      BY <1>1, <2>1, <3>1 DEF Naming
  <2>2. Naming(d, R, X, m) \subseteq Naming(d, P, X, m)
    BY <1>1 DEF Naming
  <2> QED
    BY <2>1, <2>2
<1>8. Covered(d, P, X)
  <2>1. ASSUME NEW m \in P, d.ino[m].mode # "dir"
        PROVE  Cardinality(Naming(d, P, X, m)) <= d.ino[m].links
    <3>1. m \in R /\ m \notin {new, dir, 0}
      BY <2>1, <1>1, Sizes
    <3>2. Naming(d, P, X, m) = Naming(d, R, X, m)
      BY <3>1, <1>7
    <3> QED
      BY <2>1, <3>1, <3>2 DEF Fine, Covered
  <2> QED
    BY <2>1 DEF Covered
<1>9. \A q \in Naming(d, P, X, new) : q[1] = new
  <2>1. ASSUME NEW q \in Naming(d, P, X, new), q[1] # new PROVE FALSE
    <3>1. q \in (DirsOf(d, R) \X AllPlaces) \ X /\ Entry(d, q[1], q[2]).ino = new
      BY <1>1, <2>1 DEF Naming
    <3>2. Entry(d, q[1], q[2]).ino \in R \cup {0}
      BY <3>1 DEF Fine, Closed
    <3> QED
      BY <3>1, <3>2, <1>1
  <2> QED
    BY <2>1
<1>10. Rooted(d, P)
  BY DEF Fine, Rooted
<1>11. Apart(d, P)
  <2>1. \A n \in P, k \in Slots :
          Ptr(d, d.ino[n], k) \in IF d.ino[n].mode = "lnk" THEN Nat \ Blocks ELSE d.bbm \cup {0}
    BY DEF Fine, Apart
  <2>2. ASSUME NEW n \in P, NEW o \in P, NEW k \in Slots, NEW l \in Slots,
               Ptr(d, d.ino[n], k) = Ptr(d, d.ino[o], l), Ptr(d, d.ino[n], k) \in Blocks
        PROVE  n = o /\ k = l
    <3>1. CASE n = new
      <4>1. k = 0 /\ Ptr(d, d.ino[o], l) = b
        BY <3>1, <2>2, Sizes
      <4>2. o = new
        BY <4>1 DEF Unowned
      <4>3. l = 0
        BY <4>1, <4>2, <1>1, Sizes
      <4> QED
        BY <3>1, <4>1, <4>2, <4>3
    <3>2. CASE o = new
      <4>1. l = 0 /\ Ptr(d, d.ino[n], k) = b
        BY <3>2, <2>2, Sizes
      <4>2. n = new
        BY <4>1 DEF Unowned
      <4>3. k = 0
        BY <4>1, <4>2, <1>1, Sizes
      <4> QED
        BY <3>2, <4>1, <4>2, <4>3
    <3>3. CASE n \in R /\ o \in R
      BY <3>3, <2>2, FineIs
    <3> QED
      BY <3>1, <3>2, <3>3
  <2> QED
    BY <2>1, <2>2 DEF Apart
<1> QED
  BY <1>1, <1>4, <1>6, <1>8, <1>9, <1>10, <1>11 DEF Fine

\* Image e is d with v in a slot of its directory block b, which holds place p.
Rewritten(d, e, R, n, p, b, v) ==
    /\ p \in AllPlaces /\ p \div SLOTS < d.ino[n].size /\ b = Ptr(d, d.ino[n], SlotOf(p \div SLOTS))
    /\ e \in Image /\ R \subseteq e.ibm /\ d.bbm \subseteq e.bbm
    /\ \A o \in R : e.ino[o] = d.ino[o]
    /\ \A c \in Blocks \ {b} : e.blk[c] = d.blk[c]
    /\ e.blk[b].k = "dir"
    /\ \A s \in 0 .. SLOTS - 1 : e.blk[b].e[s] = IF s = p % SLOTS THEN v ELSE d.blk[b].e[s]

\* A place of a directory is written.
LEMMA EntrySet ==
    ASSUME NEW d, NEW R, NEW X, Fine(d, R, X), NEW n \in DirsOf(d, R), NEW p, NEW b, NEW v,
           NEW e, Rewritten(d, e, R, n, p, b, v)
    PROVE  /\ Fine(e, R, X \cup {<<n, p>>}) /\ SameOthers(d, e, R, <<n, p>>)
           /\ Entry(e, n, p) = v
<1>00. /\ p \in AllPlaces /\ p \div SLOTS < d.ino[n].size /\ b = Ptr(d, d.ino[n], SlotOf(p \div SLOTS))
       /\ e \in Image /\ R \subseteq e.ibm /\ d.bbm \subseteq e.bbm
       /\ \A o \in R : e.ino[o] = d.ino[o]
       /\ \A c \in Blocks \ {b} : e.blk[c] = d.blk[c]
       /\ e.blk[b].k = "dir"
       /\ \A s \in 0 .. SLOTS - 1 : e.blk[b].e[s] = IF s = p % SLOTS THEN v ELSE d.blk[b].e[s]
  BY DEF Rewritten
<1> USE <1>00
<1> DEFINE j == p \div SLOTS
           q == <<n, p>>
<1>1. d \in Image /\ Whole(d, R)
  BY DEF Fine
<1>2. /\ p \in Nat /\ j \in 0 .. NDIR + PTRS - 1 /\ p % SLOTS \in 0 .. SLOTS - 1
      /\ j \in 0 .. d.ino[n].size - 1 /\ b \in Blocks /\ d.blk[b].k = "dir"
  <2>1. /\ d \in Image /\ Whole(d, R) /\ n \in DirsOf(d, R) /\ p \in AllPlaces
        /\ p \div SLOTS < d.ino[n].size /\ b = Ptr(d, d.ino[n], SlotOf(p \div SLOTS))
    BY <1>1
  <2> QED
    BY ONLY <2>1, EntryIs
<1>3. n \in R /\ SlotOf(j) \in Slots /\ SlotOf(j) # NDIR /\ NDIR \in Slots
  BY <1>2, DirSlot, SlotFacts
<1>4. \A o \in R, k \in Slots : Ptr(d, d.ino[o], k) = b => o = n /\ k = SlotOf(j)
  BY <1>2, <1>3, FineIs
<1>5. ASSUME NEW o \in R, NEW k \in Slots PROVE Ptr(e, e.ino[o], k) = Ptr(d, d.ino[o], k)
  <2>1. Ptr(d, d.ino[o], NDIR) # b
    BY <1>3, <1>4
  <2>2. LET a == Ptr(d, d.ino[o], NDIR) IN a \in Blocks => e.blk[a] = d.blk[a]
    BY <2>1
  <2>3. Ptr(e, d.ino[o], k) = Ptr(d, d.ino[o], k)
    BY <2>2, PtrKept
  <2> QED
    BY <2>3
<1>6. Apart(e, R)
  <2>1. Apart(d, R)
    BY DEF Fine
  <2>2. \A o \in R : e.ino[o].mode = d.ino[o].mode
    OBVIOUS
  <2> QED
    BY <2>1, <2>2, <1>5 DEF Apart
<1>7. DirsOf(e, R) = DirsOf(d, R) /\ DirsOf(d, R) \subseteq R
  BY DEF DirsOf
<1>8. Whole(e, R)
  <2>1. ASSUME NEW o \in DirsOf(d, R)
        PROVE  /\ e.ino[o].size = d.ino[o].size /\ d.ino[o].size \in 1 .. NDIR + PTRS
               /\ \A i \in 0 .. d.ino[o].size - 1 :
                    LET c == Ptr(e, e.ino[o], SlotOf(i)) IN c \in Blocks /\ e.blk[c].k = "dir"
    <3>1. e.ino[o].size = d.ino[o].size /\ d.ino[o].size \in 1 .. NDIR + PTRS
      BY <1>1, <1>7, <2>1 DEF Whole
    <3>2. ASSUME NEW i \in 0 .. d.ino[o].size - 1
          PROVE  LET c == Ptr(e, e.ino[o], SlotOf(i)) IN c \in Blocks /\ e.blk[c].k = "dir"
      <4>1. o \in R /\ SlotOf(i) \in Slots
            /\ LET c == Ptr(d, d.ino[o], SlotOf(i)) IN c \in Blocks /\ d.blk[c].k = "dir"
        BY <2>1, <3>2, DirSlot
      <4>2. Ptr(e, e.ino[o], SlotOf(i)) = Ptr(d, d.ino[o], SlotOf(i))
        BY <4>1, <1>5
      <4> QED
        BY <4>1, <4>2
    <3> QED
      BY <3>1, <3>2
  <2> QED
    BY <1>7, <2>1 DEF Whole
<1>9. ASSUME NEW o \in DirsOf(d, R), NEW r \in AllPlaces
      PROVE  Entry(e, o, r) = IF o = n /\ r = p THEN v ELSE Entry(d, o, r)
  <2>1. /\ o \in DirsOf(e, R) /\ o \in R /\ e.ino[o].size = d.ino[o].size
        /\ r \in Nat /\ r % SLOTS \in 0 .. SLOTS - 1
    BY <1>1, <1>7, <1>9, EntryIs
  <2>2. CASE r \div SLOTS < d.ino[o].size
    <3> DEFINE c == Ptr(d, d.ino[o], SlotOf(r \div SLOTS))
    <3>1. /\ r \div SLOTS \in 0 .. d.ino[o].size - 1 /\ c \in Blocks /\ Entry(d, o, r) = d.blk[c].e[r % SLOTS]
          /\ r \div SLOTS \in 0 .. NDIR + PTRS - 1
      BY ONLY <1>1, <1>9, <2>2, EntryIs
    <3>2. SlotOf(r \div SLOTS) \in Slots
      BY <3>1, SlotFacts
    <3>3. Ptr(e, e.ino[o], SlotOf(r \div SLOTS)) = c
      BY <2>1, <3>2, <1>5
    <3>4. Entry(e, o, r) = e.blk[c].e[r % SLOTS]
      <4>1. r \div SLOTS < e.ino[o].size
        BY <2>1, <2>2
      <4> QED
        <5>1. e \in Image
          OBVIOUS
        <5>2. Entry(e, o, r) = e.blk[Ptr(e, e.ino[o], SlotOf(r \div SLOTS))].e[r % SLOTS]
          BY ONLY <5>1, <1>8, <1>9, <2>1, <4>1, EntryIs
        <5> QED
          BY ONLY <5>2, <3>3
    <3>5. CASE c = b
      <4>1. o = n /\ SlotOf(r \div SLOTS) = SlotOf(j)
        BY <2>1, <3>2, <3>5, <1>4
      <4>2. r \div SLOTS = j
        BY <4>1, <3>1, <1>2, SlotFacts
      <4>3. r % SLOTS = p % SLOTS => r = p
        BY <4>2, <2>1, <1>2, SamePlace
      <4> QED
        BY <3>1, <3>4, <3>5, <4>1, <4>3, <2>1
    <3>6. CASE c # b
      <4>1. ~(o = n /\ r = p)
        BY <3>6
      <4> QED
        BY <3>1, <3>4, <3>6, <4>1
    <3> QED
      BY <3>5, <3>6
  <2>3. CASE ~(r \div SLOTS < d.ino[o].size)
    <3>1. ~(o = n /\ r = p) /\ Entry(d, o, r) = Vacant
      BY <1>1, <1>9, <2>3, EntryIs
    <3>2. Entry(e, o, r) = Vacant
      <4>1. ~(r \div SLOTS < e.ino[o].size)
        BY <2>1, <2>3
      <4> QED
        BY <1>8, <2>1, <4>1, EntryIs
    <3> QED
      BY <3>1, <3>2
  <2> QED
    BY <2>2, <2>3
<1>10. SameOthers(d, e, R, q)
  <2>1. \A o \in R : d.ino[o].mode = "dir" => o \in DirsOf(d, R)
    BY DEF DirsOf
  <2>2. \A o \in R, r \in AllPlaces : <<o, r>> # q => ~(o = n /\ r = p)
    OBVIOUS
  <2> QED
    BY <1>9, <2>1, <2>2 DEF SameOthers
<1>11. Rooted(e, R)
  BY DEF Fine, Rooted
<1>12. Closed(e, R, X \cup {q}) /\ Covered(e, R, X \cup {q})
  <2> HIDE DEF q
  <2>1. Closed(d, R, X) /\ Fine(d, R, X \cup {q})
    BY FineMore DEF Fine
  <2>2. Covered(d, R, X \cup {q})
    BY <2>1 DEF Fine
  <2>3. /\ \A m : Naming(e, R, X \cup {q}, m) = Naming(d, R, X \cup {q}, m)
        /\ Closed(e, R, X \cup {q})
    BY <2>1, <1>10, OthersKept
  <2> QED
    BY <2>2, <2>3 DEF Covered
<1>13. Entry(e, n, p) = v
  BY <1>9
<1> QED
  BY <1>6, <1>8, <1>10, <1>11, <1>12, <1>13 DEF Fine

LEMMA NextPlace ==
    ASSUME NEW z \in 0 .. NDIR + PTRS - 1
    PROVE  /\ z * SLOTS \in AllPlaces /\ z * SLOTS \in Nat
           /\ (z * SLOTS) \div SLOTS = z /\ (z * SLOTS) % SLOTS = 0
<1> DEFINE p == z * SLOTS
           a == p \div SLOTS
           c == p % SLOTS
<1>1. z \in Nat /\ SLOTS \in Nat \ {0, 1} /\ p \in Nat /\ p = SLOTS * z
  BY Sizes
<1>2. a \in Nat /\ c \in 0 .. SLOTS - 1 /\ p = SLOTS * a + c
  BY <1>1, Division
<1>3. a < z + 1 /\ ~(a < z)
  <2>1. p \in 0 .. (z + 1) * SLOTS - 1 /\ ~(p \in 0 .. z * SLOTS - 1)
    <3>1. (z + 1) * SLOTS = p + SLOTS
      BY <1>1
    <3> QED
      BY <1>1, <3>1
  <2>2. z + 1 \in Nat
    BY <1>1
  <2> QED
    BY <1>1, <2>1, <2>2, Within
<1>4. a = z
  BY <1>1, <1>2, <1>3
<1>5. c = 0
  BY <1>1, <1>2, <1>4
<1>6. p \in AllPlaces
  <2>1. a < NDIR + PTRS /\ NDIR + PTRS \in Nat
    BY <1>4, Sizes
  <2> QED
    BY <1>1, <2>1, Within DEF AllPlaces
<1> QED
  BY <1>1, <1>4, <1>5, <1>6

\* Image e is d but for directory n, of z blocks in d: it has block b besides, with entry v.
Grew(d, e, R, n, z, b, v) ==
    /\ z = d.ino[n].size /\ z < NDIR + PTRS /\ b \in Blocks /\ b = Ptr(d, d.ino[n], SlotOf(z))
    /\ e \in Image /\ R \subseteq e.ibm /\ d.bbm \subseteq e.bbm
    /\ \A o \in R : o # n => e.ino[o] = d.ino[o]
    /\ e.ino[n].mode = "dir" /\ e.ino[n].size = z + 1 /\ e.ino[n].ptr = d.ino[n].ptr
    /\ \A c \in Blocks \ {b} : e.blk[c] = d.blk[c]
    /\ e.blk[b].k = "dir"
    /\ \A s \in 0 .. SLOTS - 1 : e.blk[b].e[s] = IF s = 0 THEN v ELSE Vacant

\* A directory gets another block, with one entry.
LEMMA DirGrows ==
    ASSUME NEW d, NEW R, NEW X, Fine(d, R, X), NEW n \in DirsOf(d, R), NEW z, NEW b, NEW v,
           NEW e, Grew(d, e, R, n, z, b, v)
    PROVE  /\ Fine(e, R, X \cup {<<n, z * SLOTS>>}) /\ SameOthers(d, e, R, <<n, z * SLOTS>>)
           /\ Entry(e, n, z * SLOTS) = v /\ Entry(d, n, z * SLOTS) = Vacant
           /\ z * SLOTS \in AllPlaces
<1> DEFINE p == z * SLOTS
           q == <<n, p>>
<1>z. z = d.ino[n].size /\ z < NDIR + PTRS /\ b \in Blocks /\ b = Ptr(d, d.ino[n], SlotOf(z))
  BY DEF Grew
<1>e. e \in Image /\ R \subseteq e.ibm /\ d.bbm \subseteq e.bbm
  BY DEF Grew
<1>i. /\ \A o \in R : o # n => e.ino[o] = d.ino[o]
      /\ e.ino[n].mode = "dir" /\ e.ino[n].size = z + 1 /\ e.ino[n].ptr = d.ino[n].ptr
  BY DEF Grew
<1>b. /\ \A c \in Blocks \ {b} : e.blk[c] = d.blk[c]
      /\ e.blk[b].k = "dir"
      /\ \A s \in 0 .. SLOTS - 1 : e.blk[b].e[s] = IF s = 0 THEN v ELSE Vacant
  BY DEF Grew
<1>1. d \in Image /\ Whole(d, R) /\ n \in R /\ d.ino[n].mode = "dir"
  BY DEF Fine, DirsOf
<1>2. z \in 1 .. NDIR + PTRS /\ z \in 0 .. NDIR + PTRS - 1
  <2>1. z \in 1 .. NDIR + PTRS
    BY ONLY <1>1, <1>z, n \in DirsOf(d, R) DEF Whole
  <2> QED
    BY ONLY <2>1, <1>z, Sizes
<1>3. p \in AllPlaces /\ p \in Nat /\ p \div SLOTS = z /\ p % SLOTS = 0 /\ 0 \in 0 .. SLOTS - 1
  <2>1. 0 \in 0 .. SLOTS - 1
    BY ONLY Sizes
  <2> QED
    BY ONLY <2>1, <1>2, NextPlace
<1>4. SlotOf(z) \in Slots /\ SlotOf(z) # NDIR /\ NDIR \in Slots
  BY <1>2, SlotFacts
<1>5. \A o \in R, k \in Slots : Ptr(d, d.ino[o], k) = b => o = n /\ k = SlotOf(z)
  BY <1>1, <1>4, <1>z, FineIs
<1>6. ASSUME NEW o \in R, NEW k \in Slots PROVE Ptr(e, e.ino[o], k) = Ptr(d, d.ino[o], k)
  <2>1. Ptr(d, d.ino[o], NDIR) # b
    BY <1>4, <1>5
  <2>2. LET a == Ptr(d, d.ino[o], NDIR) IN a \in Blocks => e.blk[a] = d.blk[a]
    BY ONLY <2>1, <1>b
  <2>3. Ptr(e, d.ino[o], k) = Ptr(d, d.ino[o], k)
    BY ONLY <2>2, <1>6, PtrKept
  <2>4. Ptr(e, e.ino[o], k) = Ptr(e, d.ino[o], k)
    BY ONLY <1>i, <1>6 DEF Ptr
  <2> QED
    BY <2>3, <2>4
<1>7. \A o \in R : e.ino[o].mode = d.ino[o].mode
  BY <1>1, <1>i
<1>8. Apart(e, R) /\ Rooted(e, R) /\ DirsOf(e, R) = DirsOf(d, R)
  <2>1. Apart(d, R) /\ Rooted(d, R)
    BY DEF Fine
  <2>2. Apart(e, R)
    <3>1. d.bbm \subseteq e.bbm
      BY <1>e
    <3> QED
      BY ONLY <3>1, <2>1, <1>6, <1>7 DEF Apart
  <2> QED
    BY <2>1, <2>2, <1>7, <1>e DEF Rooted, DirsOf
<1>9. Whole(e, R)
  <2>1. ASSUME NEW o \in DirsOf(d, R)
        PROVE  /\ e.ino[o].size \in 1 .. NDIR + PTRS
               /\ \A i \in 0 .. e.ino[o].size - 1 :
                    LET c == Ptr(e, e.ino[o], SlotOf(i)) IN c \in Blocks /\ e.blk[c].k = "dir"
    <3>1. o \in R /\ e.ino[o].size = (IF o = n THEN z + 1 ELSE d.ino[o].size)
          /\ d.ino[o].size \in 1 .. NDIR + PTRS
      BY <1>1, <1>i, <2>1 DEF Whole, DirsOf
    <3>2. e.ino[o].size \in 1 .. NDIR + PTRS
      BY ONLY <3>1, <1>2, <1>z, Sizes
    <3>3. ASSUME NEW i \in 0 .. e.ino[o].size - 1
          PROVE  LET c == Ptr(e, e.ino[o], SlotOf(i)) IN c \in Blocks /\ e.blk[c].k = "dir"
      <4>1. CASE o = n /\ i = z
        BY <4>1, <1>4, <1>6, <3>1, <1>z, <1>b
      <4>2. CASE ~(o = n /\ i = z)
        <5>1. i \in 0 .. d.ino[o].size - 1
          BY ONLY <3>1, <3>3, <4>2, <1>2, <1>z
        <5>2. SlotOf(i) \in Slots
              /\ LET c == Ptr(d, d.ino[o], SlotOf(i)) IN c \in Blocks /\ d.blk[c].k = "dir"
          BY ONLY Fine(d, R, X), <2>1, <5>1, DirSlot
        <5>3. Ptr(e, e.ino[o], SlotOf(i)) = Ptr(d, d.ino[o], SlotOf(i))
          BY <3>1, <5>2, <1>6
        <5>4. LET c == Ptr(d, d.ino[o], SlotOf(i)) IN e.blk[c].k = "dir"
          BY <5>2, <1>b
        <5> QED
          BY <5>2, <5>3, <5>4
      <4> QED
        BY <4>1, <4>2
    <3> QED
      BY <3>2, <3>3
  <2> QED
    BY <1>8, <2>1 DEF Whole
<1>10. ASSUME NEW o \in DirsOf(d, R), NEW r \in AllPlaces
       PROVE  Entry(e, o, r) = IF o = n /\ r = p THEN v ELSE Entry(d, o, r)
  <2>1. /\ o \in DirsOf(e, R) /\ o \in R
        /\ r \in Nat /\ r % SLOTS \in 0 .. SLOTS - 1 /\ r \div SLOTS \in 0 .. NDIR + PTRS - 1
    BY <1>1, <1>8, <1>10, <1>e, EntryIs DEF DirsOf
  <2>2. CASE r \div SLOTS < d.ino[o].size
    <3> DEFINE c == Ptr(d, d.ino[o], SlotOf(r \div SLOTS))
    <3>1. r \div SLOTS \in 0 .. d.ino[o].size - 1 /\ c \in Blocks /\ Entry(d, o, r) = d.blk[c].e[r % SLOTS]
      BY ONLY <1>1, <1>10, <2>2, EntryIs
    <3>2. SlotOf(r \div SLOTS) \in Slots /\ ~(o = n /\ r \div SLOTS = z)
      BY ONLY <2>1, <2>2, SlotFacts, <1>2, <1>z
    <3>3. c # b
      BY ONLY <1>5, <3>2, <2>1, <1>2, SlotFacts
    <3>4. Ptr(e, e.ino[o], SlotOf(r \div SLOTS)) = c
      BY <2>1, <3>2, <1>6
    <3>5. r \div SLOTS < e.ino[o].size
      BY <2>1, <2>2, <1>2, <1>i, <1>z
    <3>6. Entry(e, o, r) = e.blk[c].e[r % SLOTS]
      BY ONLY <1>9, <1>10, <1>e, <2>1, <3>4, <3>5, EntryIs
    <3>7. ~(o = n /\ r = p)
      BY <3>2, <1>3
    <3> QED
      BY <3>1, <3>3, <3>6, <3>7, <1>b
  <2>3. CASE ~(r \div SLOTS < d.ino[o].size)
    <3>1. Entry(d, o, r) = Vacant
      BY ONLY <1>1, <1>10, <2>3, EntryIs
    <3>2. CASE o = n /\ r \div SLOTS = z
      <4>1. r \div SLOTS < e.ino[o].size
        BY <3>2, <1>2, <1>i
      <4>2. Ptr(e, e.ino[o], SlotOf(r \div SLOTS)) = b
        BY <3>2, <1>4, <1>6, <2>1, <1>z
      <4>3. Entry(e, o, r) = e.blk[b].e[r % SLOTS]
        BY ONLY <1>9, <1>10, <1>e, <2>1, <4>1, <4>2, EntryIs
      <4>4. r % SLOTS = 0 <=> r = p
        BY <3>2, <2>1, <1>3, SamePlace
      <4> QED
        BY <3>1, <3>2, <4>3, <4>4, <2>1, <1>b
    <3>3. CASE ~(o = n /\ r \div SLOTS = z)
      <4>1. ~(r \div SLOTS < e.ino[o].size)
        BY <3>3, <2>1, <2>3, <1>2, <1>i, <1>z
      <4>2. Entry(e, o, r) = Vacant
        BY ONLY <1>9, <1>10, <1>e, <2>1, <4>1, EntryIs
      <4>3. ~(o = n /\ r = p)
        BY <3>3, <1>3
      <4> QED
        BY <3>1, <4>2, <4>3
    <3> QED
      BY <3>2, <3>3
  <2> QED
    BY <2>2, <2>3
<1>11. SameOthers(d, e, R, q)
  <2>1. \A o \in R : d.ino[o].mode = "dir" => o \in DirsOf(d, R)
    BY DEF DirsOf
  <2>2. \A o \in R, r \in AllPlaces : <<o, r>> # q => ~(o = n /\ r = p)
    OBVIOUS
  <2> QED
    BY <1>7, <1>10, <2>1, <2>2 DEF SameOthers
<1>12. Closed(e, R, X \cup {q}) /\ Covered(e, R, X \cup {q})
  <2> HIDE DEF q
  <2>1. Closed(d, R, X) /\ Fine(d, R, X \cup {q})
    BY FineMore DEF Fine
  <2>2. Covered(d, R, X \cup {q})
    BY <2>1 DEF Fine
  <2>3. /\ \A m : Naming(e, R, X \cup {q}, m) = Naming(d, R, X \cup {q}, m)
        /\ Closed(e, R, X \cup {q})
    BY <2>1, <1>11, OthersKept
  <2>4. \A m \in R : d.ino[m].mode # "dir" => e.ino[m].links = d.ino[m].links
    BY <1>1, <1>i
  <2> QED
    BY <2>2, <2>3, <2>4, <1>7 DEF Covered
<1>13. Entry(e, n, p) = v /\ Entry(d, n, p) = Vacant
  <2>1. ~(p \div SLOTS < d.ino[n].size)
    BY <1>2, <1>3, <1>z
  <2> QED
    BY <1>1, <1>3, <1>10, <2>1, EntryIs
<1> QED
  BY <1>3, <1>8, <1>9, <1>11, <1>12, <1>13, <1>e DEF Fine

----------------------------------------------------------------------------
(* Traces of images of a set G.                                            *)

Traces(G) == {t \in Seq(G) : Len(t) # 0}

LEMMA TraceFacts ==
    ASSUME NEW G, NEW t \in Traces(G)
    PROVE  /\ Len(t) \in Nat \ {0} /\ Now(t) \in G /\ \A k \in 1 .. Len(t) : t[k] \in G
           /\ \A x \in G : Append(t, x) \in Traces(G) /\ Now(Append(t, x)) = x
<1>1. t \in Seq(G) /\ Len(t) \in Nat \ {0}
  BY LenProperties DEF Traces
<1>2. \A k \in 1 .. Len(t) : t[k] \in G
  BY <1>1, ElementOfSeq
<1>3. Now(t) \in G
  BY <1>1, <1>2 DEF Now
<1>4. ASSUME NEW x \in G PROVE Append(t, x) \in Traces(G) /\ Now(Append(t, x)) = x
  <2>1. /\ Append(t, x) \in Seq(G) /\ Len(Append(t, x)) = Len(t) + 1
        /\ Append(t, x)[Len(t) + 1] = x
    BY <1>1, AppendProperties
  <2> QED
    BY <1>1, <2>1 DEF Traces, Now
<1> QED
  BY <1>1, <1>2, <1>3, <1>4

LEMMA Appended ==
    ASSUME NEW G, NEW t \in Traces(G), NEW x \in G
    PROVE  Append(t, x) \in Traces(G) /\ Now(Append(t, x)) = x
  BY TraceFacts

LEMMA TraceOf ==
    ASSUME NEW G, NEW x \in G
    PROVE  <<x>> \in Traces(G) /\ Now(<<x>>) = x
  BY DEF Traces, Now

LEMMA TraceMore ==
    ASSUME NEW G, NEW H, G \subseteq H
    PROVE  Traces(G) \subseteq Traces(H)
  BY SeqMonotonic DEF Traces

LEMMA TraceTwo ==
    ASSUME NEW G, NEW t \in Traces(G), NEW x \in G, NEW y \in G
    PROVE  t \o <<x, y>> \in Traces(G) /\ Now(t \o <<x, y>>) = y
<1> DEFINE s == <<x, y>>
<1>1. t \in Seq(G) /\ Len(t) \in Nat \ {0} /\ s \in Seq(G) /\ Len(s) = 2 /\ s[2] = y
  BY TraceFacts DEF Traces
<1> HIDE DEF s
<1>2. /\ t \o s \in Seq(G) /\ Len(t \o s) = Len(t) + 2
      /\ \A i \in 1 .. Len(t) + 2 : (t \o s)[i] = IF i <= Len(t) THEN t[i] ELSE s[i - Len(t)]
  <2>1. /\ t \o s \in Seq(G) /\ Len(t \o s) = Len(t) + Len(s)
        /\ \A i \in 1 .. Len(t) + Len(s) : (t \o s)[i] = IF i <= Len(t) THEN t[i] ELSE s[i - Len(t)]
    BY <1>1, ConcatProperties
  <2> QED
    BY <1>1, <2>1
<1>3. Now(t \o s) = s[2]
  <2>1. Len(t) + 2 \in 1 .. Len(t) + 2 /\ ~(Len(t) + 2 <= Len(t)) /\ (Len(t) + 2) - Len(t) = 2
    BY <1>1
  <2> QED
    BY <1>2, <2>1 DEF Now
<1>4. t \o s \in Traces(G) /\ Now(t \o s) = y
  BY <1>1, <1>2, <1>3 DEF Traces
<1> QED
  BY <1>4 DEF s

\* The images like d but for the bitmaps and the counts.
Marked(d, B, I) == {g \in Image : g.bbm = B /\ g.ibm = I /\ g.ino = d.ino /\ g.blk = d.blk}

LEMMA Counted ==
    ASSUME NEW G, NEW t \in Traces(G), NEW d, NEW B, NEW I, NEW x \in Marked(d, B, I),
           Marked(d, B, I) \subseteq G, NEW db \in Int, NEW di \in Int, NEW dd \in Int
    PROVE  LET u == write_counts(Append(t, x), db, di, dd)
           IN u \in Traces(G) /\ Now(u) \in Marked(d, B, I)
<1> DEFINE s == Append(t, x)
           new(c) == [blocks |-> c.blocks + db, inodes |-> c.inodes + di]
           g == [x EXCEPT !.gdt = [blocks |-> @.blocks + db, inodes |-> @.inodes + di, dirs |-> @.dirs + dd]]
           h == [g EXCEPT !.sb = [blocks |-> @.blocks + db, inodes |-> @.inodes + di]]
<1>1. s \in Traces(G) /\ Now(s) = x
  BY TraceFacts
<1>2. x \in Image /\ x.gdt \in [blocks : Int, inodes : Int, dirs : Int] /\ x.sb \in [blocks : Int, inodes : Int]
  BY ImageFields DEF Marked
<1>3. /\ g \in Image /\ g.bbm = x.bbm /\ g.ibm = x.ibm /\ g.ino = x.ino /\ g.blk = x.blk
      /\ g.sb = x.sb
  BY <1>2 DEF Image
<1> HIDE DEF g
<1>4. h \in Image /\ h.bbm = x.bbm /\ h.ibm = x.ibm /\ h.ino = x.ino /\ h.blk = x.blk
  BY <1>2, <1>3 DEF Image
<1> HIDE DEF h
<1>5. g \in Marked(d, B, I) /\ h \in Marked(d, B, I)
  BY <1>3, <1>4 DEF Marked
<1>6. g \in G /\ h \in G
  BY <1>5
<1>7. write_counts(s, db, di, dd) = s \o <<g, h>>
  BY <1>1, Zenon DEF write_counts, g, h
<1>8. s \o <<g, h>> \in Traces(G) /\ Now(s \o <<g, h>>) = h
  BY <1>1, <1>6, TraceTwo
<1> QED
  BY <1>5, <1>7, <1>8

LEMMA LeastIn ==
    ASSUME NEW T \in SUBSET Nat, T # {}
    PROVE  Min(T) \in T /\ \A x \in T : Min(T) <= x
<1>1. \E m \in T : \A n \in T : m <= n
  BY LeastNatural
<1> QED
  BY <1>1 DEF Min

LEMMA AllocBlock ==
    ASSUME NEW G, NEW t \in Traces(G), NEW d \in Image, Now(t) = d,
           \A c \in Blocks \ d.bbm : Marked(d, d.bbm \cup {c}, d.ibm) \subseteq G,
           NEW a, a = alloc_block(t)
    PROVE  /\ a = [t |-> a.t, b |-> a.b]
           /\ \/ a.b = 0 /\ a.t = t
              \/ /\ a.b \in Blocks \ d.bbm /\ a.t \in Traces(G)
                 /\ Now(a.t) \in Marked(d, d.bbm \cup {a.b}, d.ibm)
<1> DEFINE free == Blocks \ d.bbm
           c == Min(free)
           x == [d EXCEPT !.bbm = @ \cup {c}]
           u == write_counts(Append(t, x), -1, 0, 0)
<1>1. CASE d.gdt.blocks = 0 \/ free = {}
  <2>1. a = [t |-> t, b |-> 0]
    BY <1>1 DEF alloc_block
  <2> QED
    BY <2>1
<1>2. CASE ~(d.gdt.blocks = 0 \/ free = {})
  <2>1. a = [t |-> u, b |-> c]
    BY <1>2 DEF alloc_block
  <2>2. c \in free
    <3>1. free \in SUBSET Nat /\ free # {}
      BY <1>2, Sizes
    <3> HIDE DEF free
    <3> QED
      BY <3>1, LeastIn
  <2> HIDE DEF c
  <2>3. x \in Marked(d, d.bbm \cup {c}, d.ibm)
    BY <2>2 DEF Marked, Image
  <2> HIDE DEF x
  <2> DEFINE B == d.bbm \cup {c}
  <2>4. x \in Marked(d, B, d.ibm) /\ Marked(d, B, d.ibm) \subseteq G /\ -1 \in Int /\ 0 \in Int
    BY <2>2, <2>3
  <2> HIDE DEF B
  <2>5. u \in Traces(G) /\ Now(u) \in Marked(d, B, d.ibm)
    BY <2>4, Counted
  <2> HIDE DEF u
  <2> QED
    BY <2>1, <2>2, <2>5 DEF B
<1> QED
  BY <1>1, <1>2

LEMMA FreeBlock ==
    ASSUME NEW G, NEW t \in Traces(G), NEW d \in Image, Now(t) = d, NEW b,
           Marked(d, d.bbm \ {b}, d.ibm) \subseteq G
    PROVE  /\ free_block(t, b) \in Traces(G)
           /\ Now(free_block(t, b)) \in Marked(d, d.bbm \ {b}, d.ibm)
<1> DEFINE x == [d EXCEPT !.bbm = @ \ {b}]
           B == d.bbm \ {b}
<1>1. CASE b \notin d.bbm
  <2>1. free_block(t, b) = t /\ d.bbm \ {b} = d.bbm
    BY <1>1 DEF free_block
  <2> QED
    BY <2>1 DEF Marked
<1>2. CASE b \in d.bbm
  <2>1. free_block(t, b) = write_counts(Append(t, x), 1, 0, 0)
    BY <1>2 DEF free_block
  <2>2. x \in Marked(d, B, d.ibm) /\ Marked(d, B, d.ibm) \subseteq G /\ 1 \in Int /\ 0 \in Int
    BY DEF Marked, Image
  <2> HIDE DEF x, B
  <2> DEFINE u == write_counts(Append(t, x), 1, 0, 0)
  <2>3. u \in Traces(G) /\ Now(u) \in Marked(d, B, d.ibm)
    BY <2>2, Counted
  <2> HIDE DEF u
  <2> QED
    BY <2>1, <2>3 DEF u, B
<1> QED
  BY <1>1, <1>2

LEMMA AllocInode ==
    ASSUME NEW G, NEW t \in Traces(G), NEW d \in Image, Now(t) = d,
           \A n \in Inodes \ d.ibm : Marked(d, d.bbm, d.ibm \cup {n}) \subseteq G,
           NEW isDir, NEW a, a = alloc_inode(t, isDir)
    PROVE  \/ a.n = 0 /\ a.t = t
           \/ /\ a.n \in Inodes \ d.ibm /\ a.n # 0 /\ a.t \in Traces(G)
              /\ Now(a.t) \in Marked(d, d.bbm, d.ibm \cup {a.n})
<1> DEFINE free == {n \in Inodes \ d.ibm : n > ROOT}
           c == Min(free)
           x == [d EXCEPT !.ibm = @ \cup {c}]
           u == write_counts(Append(t, x), 0, -1, dirs_of(isDir))
<1>1. CASE d.gdt.inodes = 0 \/ free = {}
  <2>1. a = [t |-> t, n |-> 0]
    BY <1>1 DEF alloc_inode
  <2> QED
    BY <2>1
<1>2. CASE ~(d.gdt.inodes = 0 \/ free = {})
  <2>1. a = [t |-> u, n |-> c]
    BY <1>2 DEF alloc_inode
  <2>2. c \in Inodes \ d.ibm /\ c # 0
    <3>1. free \in SUBSET Nat /\ free # {} /\ free \subseteq Inodes \ d.ibm
      BY <1>2, Sizes
    <3> HIDE DEF free
    <3>2. c \in free
      BY <3>1, LeastIn
    <3> QED
      BY <3>1, <3>2, Sizes
  <2> HIDE DEF c
  <2>3. x \in Marked(d, d.bbm, d.ibm \cup {c})
    BY <2>2 DEF Marked, Image
  <2> HIDE DEF x
  <2>4. dirs_of(isDir) \in Int /\ -1 \in Int /\ 0 \in Int
    BY DEF dirs_of
  <2> DEFINE I == d.ibm \cup {c}
  <2>5. x \in Marked(d, d.bbm, I) /\ Marked(d, d.bbm, I) \subseteq G
    BY <2>2, <2>3
  <2>6. u \in Traces(G) /\ Now(u) \in Marked(d, d.bbm, I)
    <3> HIDE DEF I
    <3> QED
      BY <2>4, <2>5, Counted
  <2> HIDE DEF u
  <2> QED
    BY <2>1, <2>2, <2>6
<1> QED
  BY <1>1, <1>2

LEMMA FreeInode ==
    ASSUME NEW G, NEW t \in Traces(G), NEW d \in Image, Now(t) = d, NEW n,
           Marked(d, d.bbm, d.ibm \ {n}) \subseteq G, NEW wasDir
    PROVE  /\ free_inode(t, n, wasDir) \in Traces(G)
           /\ Now(free_inode(t, n, wasDir)) \in Marked(d, d.bbm, d.ibm \ {n})
<1> DEFINE x == [d EXCEPT !.ibm = @ \ {n}]
           dd == IF wasDir /\ d.gdt.dirs > 0 THEN -1 ELSE 0
           I == d.ibm \ {n}
<1>1. free_inode(t, n, wasDir) = write_counts(Append(t, x), 0, 1, dd)
  BY DEF free_inode
<1>2. /\ x \in Marked(d, d.bbm, I) /\ Marked(d, d.bbm, I) \subseteq G
      /\ dd \in Int /\ 0 \in Int /\ 1 \in Int
  BY DEF Marked, Image
<1> HIDE DEF x, dd, I
<1> DEFINE u == write_counts(Append(t, x), 0, 1, dd)
<1>3. u \in Traces(G) /\ Now(u) \in Marked(d, d.bbm, I)
  BY <1>2, Counted
<1> HIDE DEF u
<1> QED
  BY <1>1, <1>3 DEF u, I

\* All images in order for R are among G.
Holds(G, R, X) == G \subseteq Image /\ \A g : Fine(g, R, X) => g \in G

LEMMA WriteBlock ==
    ASSUME NEW t, NEW d \in Image, Now(t) = d, NEW b \in Blocks, NEW v \in Blk
    PROVE  \E e \in Image : /\ eb_write(t, b, v) = Append(t, e)
                            /\ e.ino = d.ino /\ e.ibm = d.ibm /\ e.bbm = d.bbm /\ e.blk[b] = v
                            /\ \A c \in Blocks \ {b} : e.blk[c] = d.blk[c]
<1> DEFINE e == [d EXCEPT !.blk[b] = v]
<1>1. eb_write(t, b, v) = Append(t, e)
  BY DEF eb_write
<1>2. d.blk \in [Blocks -> Blk]
  BY ImageFields
<1>3. /\ e \in Image /\ e.ino = d.ino /\ e.ibm = d.ibm /\ e.bbm = d.bbm /\ e.blk[b] = v
      /\ \A c \in Blocks \ {b} : e.blk[c] = d.blk[c]
  BY <1>2 DEF Image
<1> HIDE DEF e
<1> QED
  BY <1>1, <1>3

\* A fresh block: nothing that counts has changed.
LEMMA AllocZeroed ==
    ASSUME NEW G, NEW R, NEW X, Holds(G, R, X), NEW t \in Traces(G), NEW d, Now(t) = d, Fine(d, R, X),
           NEW a, a = alloc_zeroed_block(t)
    PROVE  \/ a.b = 0 /\ a.t = t
           \/ /\ a.b \in Blocks \ d.bbm /\ a.t \in Traces(G)
              /\ Now(a.t) \in Image /\ Fine(Now(a.t), R, X) /\ SameNames(d, Now(a.t), R)
              /\ Now(a.t).ino = d.ino /\ Now(a.t).ibm = d.ibm /\ Now(a.t).bbm = d.bbm \cup {a.b}
              /\ Now(a.t).blk[a.b] = ZeroBlk
              /\ \A c \in Blocks \ {a.b} : Now(a.t).blk[c] = d.blk[c]
<1> DEFINE w == alloc_block(t)
           b == w.b
<1>0. d \in Image /\ R \subseteq d.ibm
  BY FineIs
<1>1. ASSUME NEW c \in Blocks \ d.bbm, NEW g \in Marked(d, d.bbm \cup {c}, d.ibm) PROVE Fine(g, R, X)
  <2>1. Unowned(d, R, c)
    BY FreeIsUnowned
  <2>2. g \in Image /\ g.bbm = d.bbm \cup {c} /\ g.ibm = d.ibm /\ g.ino = d.ino /\ g.blk = d.blk
    BY DEF Marked
  <2> QED
    BY <1>0, <2>1, <2>2, FreshWritten
<1>2. \A c \in Blocks \ d.bbm : Marked(d, d.bbm \cup {c}, d.ibm) \subseteq G
  BY <1>1 DEF Holds
<1>3. /\ w = [t |-> w.t, b |-> b]
      /\ \/ b = 0 /\ w.t = t
         \/ /\ b \in Blocks \ d.bbm /\ w.t \in Traces(G)
            /\ Now(w.t) \in Marked(d, d.bbm \cup {b}, d.ibm)
  BY <1>0, <1>2, AllocBlock
<1>4. a = [w EXCEPT !.t = IF w.b = 0 THEN @ ELSE eb_write(@, w.b, ZeroBlk)]
  BY DEF alloc_zeroed_block
<1> HIDE DEF w
<1>5. a.b = b /\ a.t = IF b = 0 THEN w.t ELSE eb_write(w.t, b, ZeroBlk)
  BY <1>3, <1>4
<1>6. CASE b = 0
  BY <1>3, <1>5, <1>6, Sizes
<1>7. CASE b # 0
  <2>1. /\ b \in Blocks \ d.bbm /\ w.t \in Traces(G)
        /\ Now(w.t) \in Marked(d, d.bbm \cup {b}, d.ibm)
    BY <1>3, <1>7
  <2> DEFINE g == Now(w.t)
  <2>2. g \in Image /\ g.ino = d.ino /\ g.ibm = d.ibm /\ g.blk = d.blk /\ g.bbm = d.bbm \cup {b}
    BY <2>1 DEF Marked
  <2>3. PICK e \in Image : /\ eb_write(w.t, b, ZeroBlk) = Append(w.t, e)
                           /\ e.ino = g.ino /\ e.ibm = g.ibm /\ e.bbm = g.bbm /\ e.blk[b] = ZeroBlk
                           /\ \A c \in Blocks \ {b} : e.blk[c] = g.blk[c]
    BY <2>1, <2>2, WriteBlock, BlkKinds
  <2> HIDE DEF g
  <2>4. /\ e.ino = d.ino /\ e.ibm = d.ibm /\ e.bbm = d.bbm \cup {b}
        /\ \A c \in Blocks \ {b} : e.blk[c] = d.blk[c]
    BY <2>2, <2>3
  <2>5. Fine(e, R, X) /\ SameNames(d, e, R)
    <3>1. Unowned(d, R, b)
      BY <2>1, FreeIsUnowned
    <3> QED
      BY <1>0, <2>4, <3>1, FreshWritten
  <2>6. Append(w.t, e) \in Traces(G) /\ Now(Append(w.t, e)) = e
    <3>1. e \in G
      BY <2>5 DEF Holds
    <3> QED
      BY ONLY <2>1, <3>1, Appended
  <2> QED
    BY <1>5, <1>7, <2>1, <2>3, <2>4, <2>5, <2>6
<1> QED
  BY <1>6, <1>7

\* The images like d but for blocks of F, which may have been freed.
Freeing(d, F) == {g \in Image : /\ g.ino = d.ino /\ g.blk = d.blk /\ g.ibm = d.ibm
                                /\ d.bbm \ F \subseteq g.bbm}
SlotsOf(d, ino) == {Ptr(d, ino, k) : k \in Slots}

\* What free_inode_blocks frees stands in the slots of the inode.
LEMMA FreedIs ==
    ASSUME NEW d, NEW ino
    PROVE  LET bs == Freed(d, ino) IN
           /\ Len(bs) \in Nat /\ DOMAIN bs = 1 .. Len(bs)
           /\ \A i \in 1 .. Len(bs) :
                bs[i] = Ptr(d, ino, IF i <= NDIR THEN i - 1 ELSE IF i <= NDIR + PTRS THEN i ELSE NDIR)
           /\ Len(bs) \in {NDIR, NDIR + PTRS + 1}
<1> DEFINE ind == ino.ptr[NDIR]
           direct == [i \in 1 .. NDIR |-> ino.ptr[i - 1]]
           under == [i \in 1 .. PTRS |-> ptr_get(d, ind, i - 1)]
           bs == Freed(d, ino)
           V == {ino.ptr[i - 1] : i \in 1 .. NDIR} \cup {ptr_get(d, ind, i - 1) : i \in 1 .. PTRS} \cup {ind}
<1>1. /\ direct \in Seq(V) /\ Len(direct) = NDIR /\ \A i \in 1 .. NDIR : direct[i] = ino.ptr[i - 1]
      /\ under \in Seq(V) /\ Len(under) = PTRS /\ \A i \in 1 .. PTRS : under[i] = ptr_get(d, ind, i - 1)
      /\ <<ind>> \in Seq(V) /\ Len(<<ind>>) = 1 /\ <<ind>>[1] = ind
  <2>1. /\ \A i \in 1 .. NDIR : ino.ptr[i - 1] \in V
        /\ \A i \in 1 .. PTRS : ptr_get(d, ind, i - 1) \in V
        /\ ind \in V /\ NDIR \in Nat /\ PTRS \in Nat
    BY Sizes
  <2> HIDE DEF V, ind
  <2>2. direct \in Seq(V) /\ Len(direct) = NDIR /\ \A i \in 1 .. NDIR : direct[i] = ino.ptr[i - 1]
    BY <2>1
  <2>3. under \in Seq(V) /\ Len(under) = PTRS /\ \A i \in 1 .. PTRS : under[i] = ptr_get(d, ind, i - 1)
    BY <2>1
  <2>4. <<ind>> \in Seq(V) /\ Len(<<ind>>) = 1 /\ <<ind>>[1] = ind
    BY <2>1
  <2> QED
    BY <2>2, <2>3, <2>4
<1>2. \A i \in 1 .. NDIR : ino.ptr[i - 1] = Ptr(d, ino, i - 1)
  BY Sizes DEF Ptr
<1>3. bs = IF ind = 0 THEN direct \o <<>> ELSE direct \o (under \o <<ind>>)
  BY DEF Freed
<1> HIDE DEF direct, under, V
<1>4. CASE ind = 0
  <2>1. bs = direct
    BY <1>1, <1>3, <1>4, ConcatEmptySeq
  <2>2. Len(bs) = NDIR /\ DOMAIN bs = 1 .. NDIR /\ NDIR \in Nat
    BY <1>1, <2>1, LenProperties, Sizes
  <2>3. \A i \in 1 .. NDIR : bs[i] = Ptr(d, ino, i - 1)
    BY <1>1, <1>2, <2>1
  <2> HIDE DEF bs
  <2> QED
    BY <2>2, <2>3 DEF bs
<1>5. CASE ind # 0
  <2> DEFINE s == under \o <<ind>>
             r == direct \o s
  <2>1. /\ s \in Seq(V) /\ Len(s) = PTRS + 1
        /\ \A i \in 1 .. PTRS : s[i] = ptr_get(d, ind, i - 1)
        /\ s[PTRS + 1] = ind
    <3>1. /\ s \in Seq(V) /\ Len(s) = Len(under) + Len(<<ind>>)
          /\ \A i \in 1 .. Len(under) + Len(<<ind>>) :
               s[i] = IF i <= Len(under) THEN under[i] ELSE <<ind>>[i - Len(under)]
      BY <1>1, ConcatProperties
    <3>2. PTRS + 1 \in 1 .. PTRS + 1 /\ ~(PTRS + 1 <= PTRS) /\ (PTRS + 1) - PTRS = 1
          /\ \A i \in 1 .. PTRS : i \in 1 .. PTRS + 1 /\ i <= PTRS
      BY Sizes
    <3> HIDE DEF s
    <3>3. \A i \in 1 .. PTRS + 1 : s[i] = IF i <= PTRS THEN under[i] ELSE <<ind>>[i - PTRS]
      BY <3>1, <1>1
    <3>4. s[PTRS + 1] = ind
      BY <3>2, <3>3, <1>1
    <3> QED
      BY <3>1, <3>2, <3>3, <3>4, <1>1
  <2> HIDE DEF s
  <2>2. /\ r \in Seq(V) /\ Len(r) = NDIR + PTRS + 1
        /\ \A i \in 1 .. NDIR + PTRS + 1 : r[i] = IF i <= NDIR THEN direct[i] ELSE s[i - NDIR]
    <3>1. /\ r \in Seq(V) /\ Len(r) = Len(direct) + Len(s)
          /\ \A i \in 1 .. Len(direct) + Len(s) :
               r[i] = IF i <= Len(direct) THEN direct[i] ELSE s[i - Len(direct)]
      <4>1. direct \in Seq(V) /\ s \in Seq(V)
        BY <1>1, <2>1
      <4> QED
        BY ONLY <4>1, ConcatProperties
    <3>2. NDIR + (PTRS + 1) = NDIR + PTRS + 1
      BY Sizes
    <3> QED
      BY <1>1, <2>1, <3>1, <3>2
  <2>3. bs = r
    BY <1>3, <1>5 DEF s
  <2> HIDE DEF r, bs
  <2>4. DOMAIN bs = 1 .. Len(bs) /\ Len(bs) = NDIR + PTRS + 1 /\ NDIR + PTRS + 1 \in Nat
    BY <2>2, <2>3, LenProperties, Sizes
  <2>5. ASSUME NEW i \in 1 .. NDIR + PTRS + 1
        PROVE  bs[i] = Ptr(d, ino, IF i <= NDIR THEN i - 1 ELSE IF i <= NDIR + PTRS THEN i ELSE NDIR)
    <3>1. CASE i <= NDIR
      <4>1. i \in 1 .. NDIR
        BY <3>1, Sizes
      <4> QED
        BY <4>1, <3>1, <2>2, <2>3, <1>1, <1>2
    <3>2. CASE ~(i <= NDIR) /\ i <= NDIR + PTRS
      <4>1. i - NDIR \in 1 .. PTRS /\ (i - NDIR) - 1 = i - NDIR - 1
        BY <3>2, Sizes
      <4>2. bs[i] = ptr_get(d, ind, i - NDIR - 1)
        BY <4>1, <3>2, <2>1, <2>2, <2>3
      <4>3. Ptr(d, ino, i) = ptr_get(d, ind, i - NDIR - 1)
        BY <3>2 DEF Ptr
      <4> QED
        BY <4>2, <4>3, <3>2
    <3>3. CASE ~(i <= NDIR + PTRS)
      <4>1. i - NDIR = PTRS + 1 /\ ~(i <= NDIR)
        BY <3>3, Sizes
      <4>2. Ptr(d, ino, NDIR) = ind
        BY Sizes DEF Ptr
      <4> QED
        BY <4>1, <4>2, <3>3, <2>1, <2>2, <2>3
    <3> QED
      BY <3>1, <3>2, <3>3
  <2>6. Len(bs) \in Nat /\ Len(bs) \in {NDIR, NDIR + PTRS + 1}
    BY <2>4
  <2>7. \A i \in 1 .. Len(bs) :
          bs[i] = Ptr(d, ino, IF i <= NDIR THEN i - 1 ELSE IF i <= NDIR + PTRS THEN i ELSE NDIR)
    BY <2>4, <2>5
  <2> QED
    BY <2>4, <2>6, <2>7 DEF bs
<1> QED
  BY <1>4, <1>5

LEMMA FreeBlocks ==
    ASSUME NEW G, G \subseteq Image, NEW t \in Traces(G), NEW d \in Image, Now(t) = d, NEW ino,
           Freeing(d, SlotsOf(d, ino)) \subseteq G
    PROVE  /\ free_inode_blocks(t, ino) \in Traces(G)
           /\ Now(free_inode_blocks(t, ino)) \in Freeing(d, SlotsOf(d, ino))
<1> DEFINE F == SlotsOf(d, ino)
           bs == Freed(d, ino)
           after == CHOOSE f : f = [n \in Nat |-> IF n = 0 THEN t ELSE free_block(f[n - 1], bs[n])]
           A == Traces(Image)
           g == [p \in Nat \X A |-> free_block(p[2], bs[p[1]])]
<1>1. ASSUME NEW u \in A, NEW b PROVE free_block(u, b) \in A
  <2>1. Now(u) \in Image /\ Marked(Now(u), Now(u).bbm \ {b}, Now(u).ibm) \subseteq Image
    BY <1>1, TraceFacts DEF Marked
  <2> QED
    BY <1>1, <2>1, FreeBlock
<1>2. t \in A
  BY TraceMore
<1> HIDE DEF A, bs
<1>3. g \in [Nat \X A -> A] /\ \A n \in Nat, u \in A : g[<<n, u>>] = free_block(u, bs[n])
  BY <1>1
<1> HIDE DEF g
<1>4. PICK f : Iterates(f, A, t, g)
  BY <1>2, <1>3, Iteration
<1>5. f \in [Nat -> A] /\ f[0] = t /\ \A n \in Nat : f[n + 1] = free_block(f[n], bs[n + 1])
  <2>1. f \in [Nat -> A] /\ f[0] = t /\ \A n \in Nat : f[n + 1] = g[<<n + 1, f[n]>>]
    BY <1>4 DEF Iterates
  <2>2. \A n \in Nat : n + 1 \in Nat /\ f[n] \in A
    BY <2>1
  <2> QED
    BY <1>3, <2>1, <2>2
<1>6. f = [n \in Nat |-> IF n = 0 THEN t ELSE free_block(f[n - 1], bs[n])]
  <2>1. ASSUME NEW n \in Nat, n # 0 PROVE f[n] = free_block(f[n - 1], bs[n])
    <3>1. n - 1 \in Nat /\ (n - 1) + 1 = n
      BY <2>1
    <3> QED
      BY <3>1, <1>5
  <2> QED
    BY <2>1, <1>5
<1>7. after = [n \in Nat |-> IF n = 0 THEN t ELSE free_block(after[n - 1], bs[n])]
  BY <1>6
<1>8. free_inode_blocks(t, ino) = after[Len(bs)]
  BY Zenon DEF free_inode_blocks, bs
<1> HIDE DEF after
<1>9. Len(bs) \in Nat /\ \A n \in 1 .. Len(bs) : bs[n] \in F
  <2>1. Len(bs) \in Nat /\ \A n \in 1 .. Len(bs) :
          bs[n] = Ptr(d, ino, IF n <= NDIR THEN n - 1 ELSE IF n <= NDIR + PTRS THEN n ELSE NDIR)
    BY FreedIs DEF bs
  <2>2. \A n \in Nat \ {0} : (IF n <= NDIR THEN n - 1 ELSE IF n <= NDIR + PTRS THEN n ELSE NDIR) \in Slots
    BY Sizes DEF Slots
  <2> QED
    BY <2>1, <2>2 DEF SlotsOf
<1> HIDE DEF F
<1> DEFINE T == {n \in Nat : n <= Len(bs) => after[n] \in Traces(G) /\ Now(after[n]) \in Freeing(d, F)}
<1>10. 0 \in T
  <2>1. after[0] = t
    BY <1>7
  <2> QED
    BY <2>1 DEF Freeing
<1>11. ASSUME NEW n \in T PROVE n + 1 \in T
  <2>1. CASE ~(n + 1 <= Len(bs))
    BY <2>1, <1>11
  <2>2. CASE n + 1 <= Len(bs)
    <3> DEFINE u == after[n]
               b == bs[n + 1]
               h == Now(u)
    <3>1. n \in Nat /\ n + 1 \in Nat /\ n + 1 # 0 /\ (n + 1) - 1 = n /\ n + 1 \in 1 .. Len(bs)
      BY <1>9, <2>2
    <3>2. u \in Traces(G) /\ h \in Freeing(d, F) /\ b \in F
      BY <1>9, <1>11, <2>2, <3>1
    <3>3. after[n + 1] = free_block(u, b)
      BY <1>7, <3>1
    <3> HIDE DEF u, b
    <3>4. /\ h \in Image /\ h.ino = d.ino /\ h.blk = d.blk /\ h.ibm = d.ibm
          /\ d.bbm \ F \subseteq h.bbm \ {b}
      BY <3>2 DEF Freeing
    <3>5. Marked(h, h.bbm \ {b}, h.ibm) \subseteq Freeing(d, F)
      BY <3>4 DEF Marked, Freeing
    <3>6. Freeing(d, F) \subseteq G
      BY DEF F
    <3>7. free_block(u, b) \in Traces(G) /\ Now(free_block(u, b)) \in Marked(h, h.bbm \ {b}, h.ibm)
      BY <3>2, <3>4, <3>5, <3>6, FreeBlock
    <3> QED
      BY <3>1, <3>3, <3>5, <3>7
  <2> QED
    BY <2>1, <2>2
<1> HIDE DEF T
<1>12. T = Nat
  <2>1. T \in SUBSET Nat
    BY DEF T
  <2> QED
    BY <2>1, <1>10, <1>11, NatSetInduction
<1>13. Len(bs) \in T
  BY <1>9, <1>12
<1> QED
  BY <1>8, <1>9, <1>13 DEF T, F

\* What keeps the inode blocks of others keeps the image in order.
LEMMA StillFreeing ==
    ASSUME NEW d, NEW R, NEW X, Fine(d, R, X), NEW F, \A b \in F : Unowned(d, R, b), NEW g \in Freeing(d, F)
    PROVE  Fine(g, R, X) /\ SameNames(d, g, R)
<1>1. g \in Image /\ g.ino = d.ino /\ g.blk = d.blk /\ g.ibm = d.ibm /\ d.bbm \ F \subseteq g.bbm
  BY DEF Freeing
<1>2. R \subseteq g.ibm
  BY <1>1, FineIs
<1>3. \A n \in R, k \in Slots : Ptr(d, d.ino[n], k) \in Blocks => Ptr(d, d.ino[n], k) \in g.bbm
  BY <1>1, FineIs DEF Unowned
<1>4. Fine(d, R, X) => \A n \in R : Ptr(d, d.ino[n], NDIR) \in Nat
  BY FineIs, SlotFacts
<1>5. PICK c : c \notin Nat
  <2>1. -1 \notin Nat
    OBVIOUS
  <2> QED
    BY <2>1
<1>6. \A n \in R : Ptr(d, d.ino[n], NDIR) # c
  BY <1>4, <1>5
<1>7. \A n \in DirsOf(d, R) : \A i \in 0 .. d.ino[n].size - 1 : Ptr(d, d.ino[n], SlotOf(i)) # c
  <2>1. c \notin Blocks
    BY <1>5, Sizes
  <2> QED
    BY <2>1, DirSlot
<1> QED
  BY <1>1, <1>2, <1>3, <1>6, <1>7, BlockWritten

----------------------------------------------------------------------------
(* The block map.  A call works on its own copy of an inode that counts:   *)
(* the image is in order without the copy and with it.                     *)

Pending(d, R, X, n, ino) ==
    /\ Fine(d, R, X) /\ Fine(With(d, n, ino), R, X)
    /\ n \in R /\ d.ino[n].mode # "lnk" /\ ino \in Ino
    /\ ino.mode = d.ino[n].mode /\ ino.size = d.ino[n].size /\ ino.links = d.ino[n].links
    /\ \A k \in 0 .. NDIR : d.ino[n].ptr[k] \in {0, ino.ptr[k]}

LEMMA PendingFields ==
    ASSUME NEW d, NEW R, NEW X, NEW n, NEW ino, Pending(d, R, X, n, ino), NEW w, w = With(d, n, ino)
    PROVE  /\ d \in Image /\ w \in Image /\ n \in R /\ n \in Inodes /\ ino \in Ino /\ R \subseteq Inodes
           /\ R \subseteq d.ibm
           /\ w.bbm = d.bbm /\ w.ibm = d.ibm /\ w.blk = d.blk /\ w.ino[n] = ino
           /\ \A o \in R : o # n => w.ino[o] = d.ino[o]
           /\ \A i, k : Ptr(w, i, k) = Ptr(d, i, k)
<1>1. d \in Image /\ n \in R /\ n \in Inodes /\ ino \in Ino /\ R \subseteq Inodes /\ R \subseteq d.ibm
  BY FineIs DEF Pending
<1>2. /\ w \in Image /\ w.bbm = d.bbm /\ w.ibm = d.ibm /\ w.blk = d.blk /\ w.ino[n] = ino
      /\ \A o \in Inodes : o # n => w.ino[o] = d.ino[o]
  BY <1>1, WithFields
<1>3. \A i, k : Ptr(w, i, k) = Ptr(d, i, k)
  BY <1>2 DEF Ptr, ptr_get
<1> QED
  BY <1>1, <1>2, <1>3

\* The slots of the inode on the disk are empty or those of the copy.
LEMMA PendingSlots ==
    ASSUME NEW d, NEW R, NEW X, NEW n, NEW ino, Pending(d, R, X, n, ino), NEW k \in Slots
    PROVE  Ptr(d, d.ino[n], k) \in {0, Ptr(d, ino, k)}
<1>1. \A l \in 0 .. NDIR : d.ino[n].ptr[l] \in {0, ino.ptr[l]}
  BY DEF Pending
<1>2. CASE k <= NDIR
  <2>1. k \in 0 .. NDIR
    BY <1>2, SlotFacts
  <2> QED
    BY <1>1, <1>2, <2>1 DEF Ptr
<1>3. CASE ~(k <= NDIR)
  <2>1. d.ino[n].ptr[NDIR] \in {0, ino.ptr[NDIR]}
    BY <1>1, Sizes
  <2>2. \A j : ptr_get(d, 0, j) = 0
    BY Sizes DEF ptr_get
  <2> QED
    BY <1>3, <2>1, <2>2 DEF Ptr
<1> QED
  BY <1>2, <1>3

LEMMA PendingNames ==
    ASSUME NEW d, NEW R, NEW X, NEW n, NEW ino, Pending(d, R, X, n, ino)
    PROVE  SameNames(d, With(d, n, ino), R)
<1> DEFINE w == With(d, n, ino)
<1>1. /\ d \in Image /\ w \in Image /\ w.blk = d.blk /\ w.ino[n] = ino /\ n \in R
      /\ \A o \in R : o # n => w.ino[o] = d.ino[o]
      /\ \A i, k : Ptr(w, i, k) = Ptr(d, i, k)
  BY PendingFields
<1>2. Whole(d, R) /\ Whole(w, R) /\ ino.mode = d.ino[n].mode /\ ino.size = d.ino[n].size
  BY DEF Pending, Fine
<1> HIDE DEF w
<1>3. \A o \in R : w.ino[o].mode = d.ino[o].mode /\ w.ino[o].size = d.ino[o].size
  BY <1>1, <1>2
<1>4. ASSUME NEW o \in R, d.ino[o].mode = "dir", NEW p \in AllPlaces PROVE Entry(w, o, p) = Entry(d, o, p)
  <2>1. o \in DirsOf(d, R) /\ o \in DirsOf(w, R)
    BY <1>3, <1>4 DEF DirsOf
  <2>2. CASE p \div SLOTS < d.ino[o].size
    <3> DEFINE k == SlotOf(p \div SLOTS)
    <3>1. /\ p \div SLOTS \in 0 .. NDIR + PTRS - 1 /\ Ptr(d, d.ino[o], k) \in Blocks
          /\ Entry(d, o, p) = d.blk[Ptr(d, d.ino[o], k)].e[p % SLOTS]
      BY <1>1, <1>2, <2>1, <2>2, EntryIs
    <3>2. k \in Slots /\ Ptr(d, d.ino[o], k) # 0
      BY <3>1, SlotFacts, Sizes
    <3>3. Ptr(w, w.ino[o], k) = Ptr(d, d.ino[o], k)
      <4>1. CASE o = n
        BY <4>1, <1>1, <3>2, PendingSlots
      <4>2. CASE o # n
        BY <4>2, <1>1
      <4> QED
        BY <4>1, <4>2
    <3>4. p \div SLOTS < w.ino[o].size
      BY <1>3, <2>2
    <3>5. Entry(w, o, p) = w.blk[Ptr(w, w.ino[o], k)].e[p % SLOTS]
      BY <1>1, <1>2, <2>1, <3>4, EntryIs
    <3> QED
      BY <1>1, <3>1, <3>3, <3>5
  <2>3. CASE ~(p \div SLOTS < d.ino[o].size)
    <3>1. ~(p \div SLOTS < w.ino[o].size)
      BY <1>3, <2>3
    <3> QED
      BY <1>1, <1>2, <2>1, <2>3, <3>1, EntryIs
  <2> QED
    BY <2>2, <2>3
<1>5. SameNames(d, w, R)
  BY <1>3, <1>4 DEF SameNames
<1> QED
  BY <1>5 DEF w

\* A block that no slot holds is written.
LEMMA PendingWritten ==
    ASSUME NEW d, NEW R, NEW X, NEW n, NEW ino, Pending(d, R, X, n, ino),
           NEW e \in Image, e.ino = d.ino, e.ibm = d.ibm, d.bbm \subseteq e.bbm,
           NEW b, Unowned(d, R, b), Unowned(With(d, n, ino), R, b),
           \A c \in Blocks \ {b} : e.blk[c] = d.blk[c]
    PROVE  /\ Pending(e, R, X, n, ino) /\ SameNames(d, e, R)
           /\ Unowned(e, R, b) /\ Unowned(With(e, n, ino), R, b)
<1> DEFINE f == With(d, n, ino)
           g == With(e, n, ino)
<1>1. /\ d \in Image /\ n \in R /\ n \in Inodes /\ ino \in Ino /\ R \subseteq Inodes /\ R \subseteq d.ibm
      /\ f.bbm = d.bbm /\ f.ibm = d.ibm /\ f.blk = d.blk /\ f.ino[n] = ino
      /\ \A o \in R : o # n => f.ino[o] = d.ino[o]
  BY PendingFields
<1>2. Fine(d, R, X) /\ Fine(f, R, X)
  BY DEF Pending
<1>3. /\ g \in Image /\ g.bbm = e.bbm /\ g.ibm = e.ibm /\ g.blk = e.blk /\ g.ino[n] = ino
      /\ \A o \in Inodes : o # n => g.ino[o] = e.ino[o]
  BY <1>1, WithFields
<1>4. Unowned(f, R, b)
  OBVIOUS
<1> HIDE DEF f, g
<1>5. Fine(e, R, X) /\ SameNames(d, e, R) /\ Unowned(e, R, b)
  BY <1>1, <1>2, FreshWritten
<1>6. \A o \in R : g.ino[o] = f.ino[o]
  BY <1>1, <1>3
<1>7. Fine(g, R, X) /\ Unowned(g, R, b)
  <2>1. R \subseteq g.ibm /\ f.bbm \subseteq g.bbm /\ \A c \in Blocks \ {b} : g.blk[c] = f.blk[c]
    BY <1>1, <1>3
  <2> QED
    BY <1>2, <1>3, <1>4, <1>6, <2>1, FreshWritten
<1> QED
  BY <1>5, <1>7 DEF Pending, g

\* What looking up or allocating a block leaves as it was.
Kept(G, R, X, n, t, a) ==
    /\ a.t \in Traces(G) /\ Pending(Now(a.t), R, X, n, a.ino)
    /\ Now(a.t).ino = Now(t).ino /\ Now(a.t).ibm = Now(t).ibm
    /\ SameNames(Now(t), Now(a.t), R)

LEMMA SameNamesFacts ==
    /\ \A d, R : SameNames(d, d, R)
    /\ \A d, e, f, R : SameNames(d, e, R) /\ SameNames(e, f, R) => SameNames(d, f, R)
<1>1. \A d, R : SameNames(d, d, R)
  BY DEF SameNames
<1>2. ASSUME NEW d, NEW e, NEW f, NEW R, SameNames(d, e, R), SameNames(e, f, R)
      PROVE  SameNames(d, f, R)
  BY <1>2 DEF SameNames
<1> QED
  BY <1>1, <1>2

\* A block that is not in use yet is given to the copy's empty slot i.
LEMMA SlotTaken ==
    ASSUME NEW d, NEW R, NEW X, NEW n, NEW ino, Pending(d, R, X, n, ino),
           NEW i \in 0 .. NDIR, ino.ptr[i] = 0, NEW b \in d.bbm, b \in Blocks, d.blk[b] = ZeroBlk,
           Unowned(d, R, b), Unowned(With(d, n, ino), R, b)
    PROVE  Pending(d, R, X, n, [ino EXCEPT !.ptr[i] = b, !.blocks = @ + 1])
<1> DEFINE new == [ino EXCEPT !.ptr[i] = b, !.blocks = @ + 1]
           g == With(d, n, ino)
           h == With(d, n, new)
<1>1. /\ d \in Image /\ n \in R /\ n \in Inodes /\ ino \in Ino /\ R \subseteq Inodes /\ R \subseteq d.ibm
      /\ g.bbm = d.bbm /\ g.blk = d.blk /\ g.ino[n] = ino
      /\ \A o \in R : o # n => g.ino[o] = d.ino[o]
      /\ \A j, k : Ptr(g, j, k) = Ptr(d, j, k)
  BY PendingFields
<1>2. /\ Fine(d, R, X) /\ Fine(g, R, X) /\ d.ino[n].mode # "lnk"
      /\ ino.mode = d.ino[n].mode /\ ino.size = d.ino[n].size /\ ino.links = d.ino[n].links
      /\ \A k \in 0 .. NDIR : d.ino[n].ptr[k] \in {0, ino.ptr[k]}
  BY DEF Pending
<1>3. /\ new \in Ino /\ new.mode = ino.mode /\ new.size = ino.size /\ new.links = ino.links
      /\ \A k \in 0 .. NDIR : new.ptr[k] = IF k = i THEN b ELSE ino.ptr[k]
  <2>1. b \in Nat /\ ino.ptr \in [0 .. NDIR -> Nat] /\ ino.blocks \in Int
    BY <1>1, Sizes DEF Ino
  <2>2. [ino.ptr EXCEPT ![i] = b] \in [0 .. NDIR -> Nat] /\ ino.blocks + 1 \in Int
    BY <2>1
  <2>3. /\ new.mode = ino.mode /\ new.size = ino.size /\ new.links = ino.links
        /\ new.ptr = [ino.ptr EXCEPT ![i] = b] /\ new.blocks = ino.blocks + 1
    BY <1>1 DEF Ino
  <2>4. new \in Ino
    BY <1>1, <2>2 DEF Ino
  <2> HIDE DEF new
  <2> QED
    BY <2>1, <2>3, <2>4
<1> HIDE DEF new
<1>4. /\ h \in Image /\ h.bbm = d.bbm /\ h.ibm = d.ibm /\ h.blk = d.blk /\ h.ino[n] = new
      /\ \A o \in Inodes : o # n => h.ino[o] = d.ino[o]
  BY <1>1, <1>3, WithFields
<1>5. Unowned(g, R, b)
  OBVIOUS
<1> HIDE DEF g, h
<1>6. \A j, k : Ptr(h, j, k) = Ptr(d, j, k)
  BY <1>4 DEF Ptr, ptr_get
<1>7. i \in Slots /\ NDIR \in 0 .. NDIR
  BY SlotFacts, Sizes
<1>8. ASSUME NEW k \in Slots PROVE Ptr(d, new, k) = IF k = i THEN b ELSE Ptr(d, ino, k)
  <2>1. CASE k <= NDIR
    <3>1. k \in 0 .. NDIR
      BY <2>1, SlotFacts
    <3> QED
      BY <2>1, <3>1, <1>3 DEF Ptr
  <2>2. CASE ~(k <= NDIR)
    <3>1. k # i
      BY <2>2
    <3>2. \A j : ptr_get(d, b, j) = 0 /\ ptr_get(d, 0, j) = 0
      BY Sizes, BlkKinds DEF ptr_get
    <3>3. CASE i = NDIR
      BY <2>2, <3>1, <3>2, <3>3, <1>3, <1>7 DEF Ptr
    <3>4. CASE i # NDIR
      BY <2>2, <3>1, <3>4, <1>3, <1>7 DEF Ptr
    <3> QED
      BY <3>3, <3>4
  <2> QED
    BY <2>1, <2>2
<1>9. Ptr(g, g.ino[n], i) = 0
  BY <1>1 DEF Ptr
<1>10. \A o \in R : /\ h.ino[o].mode = g.ino[o].mode /\ h.ino[o].size = g.ino[o].size
                    /\ h.ino[o].links = g.ino[o].links
  BY <1>1, <1>3, <1>4
<1>11. ASSUME NEW o \in R, NEW k \in Slots
       PROVE  Ptr(h, h.ino[o], k) = IF o = n /\ k = i THEN b ELSE Ptr(g, g.ino[o], k)
  <2>1. CASE o = n
    BY <2>1, <1>1, <1>4, <1>6, <1>8
  <2>2. CASE o # n
    BY <2>2, <1>1, <1>4, <1>6
  <2> QED
    BY <2>1, <2>2
<1>12. Fine(h, R, X)
  <2>1. R \subseteq h.ibm /\ g.bbm \subseteq h.bbm /\ b \in h.bbm /\ h.blk = g.blk /\ g.ino[n].mode # "lnk"
    BY <1>1, <1>2, <1>4
  <2>2. \A o \in DirsOf(g, R) : \A j \in 0 .. g.ino[o].size - 1 :
          LET c == Ptr(g, g.ino[o], SlotOf(j)) IN c \in Blocks => h.blk[c] = g.blk[c]
    BY <2>1
  <2> QED
    BY <1>1, <1>2, <1>4, <1>5, <1>7, <1>9, <1>10, <1>11, <2>1, <2>2, SlotFilled
<1>13. \A k \in 0 .. NDIR : d.ino[n].ptr[k] \in {0, new.ptr[k]}
  BY <1>2, <1>3
<1>14. Pending(d, R, X, n, new)
  BY <1>1, <1>2, <1>3, <1>12, <1>13 DEF Pending, h
<1> QED
  BY <1>14 DEF new

LEMMA DirectKeeps ==
    ASSUME NEW G, NEW R, NEW X, Holds(G, R, X), NEW t \in Traces(G), NEW n, NEW ino,
           Pending(Now(t), R, X, n, ino), NEW i \in 0 .. NDIR, NEW a, a = Direct(t, ino, i)
    PROVE  /\ Kept(G, R, X, n, t, a) /\ a.b \in Blocks \cup {0} /\ a.b = a.ino.ptr[i]
           /\ DOMAIN a = {"t", "b", "ino"}
<1> DEFINE d == Now(t)
           w == alloc_zeroed_block(t)
           new == [ino EXCEPT !.ptr[i] = w.b, !.blocks = @ + 1]
<1>1. Fine(d, R, X) /\ d \in Image /\ ino \in Ino /\ i \in Slots
  BY PendingFields, SlotFacts DEF Pending
<1>2. CASE ino.ptr[i] # 0
  <2>1. a = [t |-> t, ino |-> ino, b |-> ino.ptr[i]]
    BY <1>2 DEF Direct
  <2>2. ino.ptr[i] \in Blocks \cup {0}
    <3> DEFINE g == With(d, n, ino)
    <3>1. g.ino[n] = ino /\ Fine(g, R, X) /\ n \in R /\ ino.mode # "lnk" /\ g.bbm = d.bbm
      BY PendingFields DEF Pending
    <3>2. d.bbm \subseteq Blocks
      BY <1>1, ImageFields
    <3> HIDE DEF g
    <3>3. Ptr(g, ino, i) \in g.bbm \cup {0}
      BY <1>1, <3>1, FineIs
    <3> QED
      BY <3>1, <3>2, <3>3 DEF Ptr
  <2> QED
    BY <2>1, <2>2, SameNamesFacts DEF Kept
<1>3. CASE ino.ptr[i] = 0
  <2>1. a = [t |-> w.t, b |-> w.b, ino |-> IF w.b = 0 THEN ino ELSE new]
    BY <1>3 DEF Direct
  <2>2. \/ w.b = 0 /\ w.t = t
        \/ /\ w.b \in Blocks \ d.bbm /\ w.t \in Traces(G)
           /\ Now(w.t) \in Image
           /\ Now(w.t).ino = d.ino /\ Now(w.t).ibm = d.ibm /\ Now(w.t).bbm = d.bbm \cup {w.b}
           /\ Now(w.t).blk[w.b] = ZeroBlk
           /\ \A c \in Blocks \ {w.b} : Now(w.t).blk[c] = d.blk[c]
    BY <1>1, AllocZeroed
  <2> HIDE DEF w
  <2>3. CASE w.b = 0
    <3>1. w.t = t
      BY <2>2, <2>3, Sizes
    <3> QED
      BY <1>3, <2>1, <2>3, <3>1, SameNamesFacts DEF Kept
  <2>4. CASE w.b # 0
    <3> DEFINE e == Now(w.t)
               b == w.b
    <3>1. /\ b \in Blocks /\ b \notin d.bbm /\ w.t \in Traces(G)
          /\ e \in Image /\ e.ino = d.ino /\ e.ibm = d.ibm /\ e.bbm = d.bbm \cup {b} /\ e.blk[b] = ZeroBlk
          /\ \A c \in Blocks \ {b} : e.blk[c] = d.blk[c]
      BY <2>2, <2>4
    <3>2. Unowned(d, R, b) /\ Unowned(With(d, n, ino), R, b)
      <4>1. Fine(With(d, n, ino), R, X) /\ With(d, n, ino).bbm = d.bbm
        BY PendingFields DEF Pending
      <4> QED
        BY <1>1, <3>1, <4>1, FreeIsUnowned
    <3> HIDE DEF e, b
    <3>3. /\ Pending(e, R, X, n, ino) /\ SameNames(d, e, R)
          /\ Unowned(e, R, b) /\ Unowned(With(e, n, ino), R, b)
      BY <3>1, <3>2, PendingWritten
    <3> DEFINE ni == [ino EXCEPT !.ptr[i] = b, !.blocks = @ + 1]
    <3>4. Pending(e, R, X, n, ni)
      BY <1>3, <3>1, <3>3, SlotTaken
    <3>5. ni.ptr[i] = b
      BY <1>1 DEF Ino
    <3> HIDE DEF ni
    <3>6. a = [t |-> w.t, b |-> b, ino |-> ni] /\ Now(w.t) = e
      BY <2>1, <2>4 DEF b, ni, e
    <3> QED
      BY <3>1, <3>3, <3>4, <3>5, <3>6 DEF Kept
  <2> QED
    BY <2>3, <2>4
<1> QED
  BY <1>2, <1>3

LEMMA PtrSet ==
    ASSUME NEW t, NEW d \in Image, Now(t) = d, NEW c \in Blocks, NEW at \in 0 .. PTRS - 1, NEW b \in Blocks
    PROVE  \E e \in Image : /\ ptr_set(t, c, at, b) = Append(t, e)
                            /\ e.ino = d.ino /\ e.ibm = d.ibm /\ e.bbm = d.bbm
                            /\ \A x \in Blocks \ {c} : e.blk[x] = d.blk[x]
                            /\ \A j \in 0 .. PTRS - 1 :
                                 ptr_get(e, c, j) = IF j = at THEN b ELSE ptr_get(d, c, j)
<1> DEFINE f == [[j \in 0 .. PTRS - 1 |-> ptr_get(d, c, j)] EXCEPT ![at] = b]
<1>1. \A j \in 0 .. PTRS - 1 : ptr_get(d, c, j) \in Blocks \cup {0}
  BY PtrGetTyped
<1>2. f \in [0 .. PTRS - 1 -> Blocks \cup {0}]
      /\ \A j \in 0 .. PTRS - 1 : f[j] = IF j = at THEN b ELSE ptr_get(d, c, j)
  BY <1>1
<1>3. ptr_set(t, c, at, b) = eb_write(t, c, PtrBlk(f))
  BY DEF ptr_set
<1> HIDE DEF f
<1>4. PtrBlk(f) \in Blk /\ PtrBlk(f).k = "ptr" /\ PtrBlk(f).p = f
  BY <1>2, BlkKinds
<1>5. PICK e \in Image : /\ eb_write(t, c, PtrBlk(f)) = Append(t, e)
                         /\ e.ino = d.ino /\ e.ibm = d.ibm /\ e.bbm = d.bbm /\ e.blk[c] = PtrBlk(f)
                         /\ \A x \in Blocks \ {c} : e.blk[x] = d.blk[x]
  BY <1>4, WriteBlock
<1>6. \A j \in 0 .. PTRS - 1 : ptr_get(e, c, j) = IF j = at THEN b ELSE ptr_get(d, c, j)
  BY <1>2, <1>4, <1>5 DEF ptr_get
<1> QED
  BY <1>3, <1>5, <1>6

\* Image e is d with b in the empty place `at` of ino's pointer block c.
Placed(d, e, ino, c, at, b) ==
    /\ c \in Blocks /\ ino.ptr[NDIR] = c /\ at \in 0 .. PTRS - 1 /\ ptr_get(d, c, at) = 0
    /\ e \in Image /\ e.ino = d.ino /\ e.ibm = d.ibm /\ e.bbm = d.bbm
    /\ \A x \in Blocks \ {c} : e.blk[x] = d.blk[x]
    /\ \A j \in 0 .. PTRS - 1 : ptr_get(e, c, j) = IF j = at THEN b ELSE ptr_get(d, c, j)

\* A block that is not in use yet is given to an empty place of the copy's pointer block.
LEMMA PlaceTaken ==
    ASSUME NEW d, NEW R, NEW X, NEW n, NEW ino, Pending(d, R, X, n, ino),
           NEW b \in d.bbm, Unowned(d, R, b), Unowned(With(d, n, ino), R, b),
           NEW e, NEW c, NEW at, Placed(d, e, ino, c, at, b)
    PROVE  /\ Pending(e, R, X, n, [ino EXCEPT !.blocks = @ + 1]) /\ SameNames(d, e, R)
           /\ Ptr(e, [ino EXCEPT !.blocks = @ + 1], NDIR + 1 + at) = b
<1> DEFINE new == [ino EXCEPT !.blocks = @ + 1]
           g == With(d, n, ino)
           h == With(e, n, ino)
           w == With(e, n, new)
<1>0. /\ c \in Blocks /\ ino.ptr[NDIR] = c /\ at \in 0 .. PTRS - 1 /\ ptr_get(d, c, at) = 0
      /\ e \in Image /\ e.ino = d.ino /\ e.ibm = d.ibm /\ e.bbm = d.bbm
      /\ \A x \in Blocks \ {c} : e.blk[x] = d.blk[x]
      /\ \A j \in 0 .. PTRS - 1 : ptr_get(e, c, j) = IF j = at THEN b ELSE ptr_get(d, c, j)
  BY DEF Placed
<1> USE <1>0
<1>1. /\ d \in Image /\ n \in R /\ n \in Inodes /\ ino \in Ino /\ R \subseteq Inodes /\ R \subseteq d.ibm
      /\ g.bbm = d.bbm /\ g.blk = d.blk /\ g.ino[n] = ino
      /\ \A o \in R : o # n => g.ino[o] = d.ino[o]
      /\ \A j, k : Ptr(g, j, k) = Ptr(d, j, k)
  BY PendingFields
<1>2. /\ Fine(d, R, X) /\ Fine(g, R, X) /\ d.ino[n].mode # "lnk"
      /\ ino.mode = d.ino[n].mode /\ ino.size = d.ino[n].size /\ ino.links = d.ino[n].links
      /\ \A k \in 0 .. NDIR : d.ino[n].ptr[k] \in {0, ino.ptr[k]}
  BY DEF Pending
<1>3. new \in Ino /\ new.mode = ino.mode /\ new.size = ino.size /\ new.links = ino.links /\ new.ptr = ino.ptr
  BY <1>1 DEF Ino
<1> HIDE DEF new
<1>4. /\ h \in Image /\ h.bbm = e.bbm /\ h.ibm = e.ibm /\ h.blk = e.blk /\ h.ino[n] = ino
      /\ \A o \in Inodes : o # n => h.ino[o] = e.ino[o]
  BY <1>1, WithFields
<1>5. /\ w \in Image /\ w.bbm = e.bbm /\ w.ibm = e.ibm /\ w.blk = e.blk /\ w.ino[n] = new
      /\ \A o \in Inodes : o # n => w.ino[o] = e.ino[o]
  BY ONLY <1>0, <1>1, <1>3, WithFields
<1>6. Unowned(g, R, b)
  OBVIOUS
<1> HIDE DEF g, h, w
<1>7. /\ \A j : ptr_get(g, c, j) = ptr_get(d, c, j) /\ ptr_get(h, c, j) = ptr_get(e, c, j)
      /\ \A j, k : Ptr(h, j, k) = Ptr(e, j, k) /\ Ptr(w, j, k) = Ptr(e, j, k)
  BY <1>1, <1>4, <1>5 DEF Ptr, ptr_get
<1>8. Ptr(g, g.ino[n], NDIR) = c /\ g.ino[n].mode # "lnk"
  BY <1>1, <1>2, Sizes DEF Ptr
<1>9. Fine(h, R, X)
  <2>1. /\ R \subseteq h.ibm /\ g.bbm \subseteq h.bbm /\ b \in h.bbm
        /\ \A o \in R : h.ino[o] = g.ino[o]
        /\ \A x \in Blocks \ {c} : h.blk[x] = g.blk[x]
    BY <1>1, <1>4
  <2>2. /\ ptr_get(g, c, at) = 0
        /\ \A j \in 0 .. PTRS - 1 : ptr_get(h, c, j) = IF j = at THEN b ELSE ptr_get(g, c, j)
    BY <1>7
  <2> QED
    BY <1>1, <1>2, <1>4, <1>6, <1>8, <2>1, <2>2, PlaceFilled
<1>10. Fine(w, R, X)
  <2>1. \A k \in Slots : Ptr(h, new, k) = Ptr(h, h.ino[n], k)
    BY <1>3, <1>4 DEF Ptr
  <2>2. /\ new.mode = h.ino[n].mode /\ new.size = h.ino[n].size
        /\ h.ino[n].mode # "dir" => Cardinality(Naming(h, R, X, n)) <= new.links
    BY <1>1, <1>3, <1>4, <1>9 DEF Fine, Covered
  <2>3. Fine(With(h, n, new), R, X)
    BY <1>1, <1>3, <1>9, <2>1, <2>2, InodeSet
  <2>4. With(h, n, new) = w
    BY DEF With, h, w
  <2> QED
    BY <2>3, <2>4
<1>11. Fine(e, R, X) /\ SameNames(d, e, R)
  <2>1. CASE d.ino[n].ptr[NDIR] = c
    <3>1. Ptr(d, d.ino[n], NDIR) = c /\ R \subseteq e.ibm /\ d.bbm \subseteq e.bbm /\ b \in e.bbm
      BY <1>1, <2>1, Sizes DEF Ptr
    <3> QED
      BY <1>1, <1>2, <3>1, PlaceFilled
  <2>2. CASE d.ino[n].ptr[NDIR] = 0
    <3>1. ASSUME NEW o \in R, NEW k \in Slots PROVE Ptr(d, d.ino[o], k) # c
      <4>1. CASE o # n
        <5>1. Ptr(g, g.ino[o], k) # c
          BY <1>1, <1>2, <1>8, <4>1, FineIs, SlotFacts
        <5> QED
          BY <5>1, <4>1, <1>1
      <4>2. CASE o = n /\ k = NDIR
        BY <4>2, <2>2, Sizes DEF Ptr
      <4>3. CASE o = n /\ k # NDIR
        <5>1. Ptr(g, g.ino[n], k) # c
          BY <1>1, <1>2, <1>8, <4>3, FineIs, SlotFacts
        <5>2. Ptr(d, ino, k) # c
          BY <5>1, <1>1
        <5>3. Ptr(d, d.ino[n], k) \in {0, Ptr(d, ino, k)}
          BY PendingSlots
        <5> QED
          BY <4>3, <5>2, <5>3, Sizes
      <4> QED
        BY <4>1, <4>2, <4>3
    <3>2. Unowned(d, R, c) /\ R \subseteq e.ibm /\ d.bbm \subseteq e.bbm
      BY <1>1, <3>1 DEF Unowned
    <3> QED
      BY <1>2, <3>2, FreshWritten
  <2>3. NDIR \in 0 .. NDIR
    BY Sizes
  <2> QED
    BY <1>2, <2>1, <2>2, <2>3
<1>12. Pending(e, R, X, n, new)
  BY <1>1, <1>2, <1>3, <1>10, <1>11 DEF Pending, w
<1>13. Ptr(e, new, NDIR + 1 + at) = b
  <2> DEFINE s == NDIR + 1 + at
  <2>1. ~(s <= NDIR) /\ s - NDIR - 1 = at
    BY Sizes
  <2> HIDE DEF s
  <2>2. Ptr(e, new, s) = ptr_get(e, new.ptr[NDIR], s - NDIR - 1)
    BY <2>1, Zenon DEF Ptr
  <2>3. Ptr(e, new, s) = b
    BY <1>3, <2>1, <2>2
  <2> QED
    BY <2>3 DEF s
<1> QED
  BY <1>11, <1>12, <1>13 DEF new

LEMMA IndirectKeeps ==
    ASSUME NEW G, NEW R, NEW X, Holds(G, R, X), NEW t \in Traces(G), NEW n,
           NEW p, DOMAIN p = {"t", "b", "ino"}, Kept(G, R, X, n, t, p),
           p.b \in Blocks \cup {0}, p.b = p.ino.ptr[NDIR],
           NEW at \in 0 .. PTRS - 1, NEW a, a = Indirect(p, at)
    PROVE  /\ Kept(G, R, X, n, t, a) /\ a.b \in Blocks \cup {0}
           /\ a.b # 0 => a.b = Ptr(Now(a.t), a.ino, NDIR + 1 + at)
<1> DEFINE d == Now(p.t)
           c == p.b
           ino == p.ino
           there == ptr_get(d, c, at)
           w == alloc_zeroed_block(p.t)
           new == [ino EXCEPT !.blocks = @ + 1]
<1>1. /\ p.t \in Traces(G) /\ Pending(d, R, X, n, ino)
      /\ d.ino = Now(t).ino /\ d.ibm = Now(t).ibm /\ SameNames(Now(t), d, R)
  BY DEF Kept
<1>2. Fine(d, R, X) /\ d \in Image /\ ino \in Ino
  BY <1>1, PendingFields DEF Pending
<1>3. CASE c = 0
  BY <1>3 DEF Indirect
<1>4. CASE c # 0 /\ there # 0
  <2>1. a = [p EXCEPT !.b = there]
    BY <1>4 DEF Indirect
  <2>2. a.b = there /\ a.t = p.t /\ a.ino = ino
    BY <2>1
  <2>3. there \in Blocks \cup {0}
    BY <1>2, PtrGetTyped
  <2>4. Ptr(d, ino, NDIR + 1 + at) = there
    <3> DEFINE s == NDIR + 1 + at
    <3>1. ~(s <= NDIR) /\ s - NDIR - 1 = at
      BY Sizes
    <3> HIDE DEF s
    <3>2. Ptr(d, ino, s) = ptr_get(d, ino.ptr[NDIR], s - NDIR - 1)
      BY <3>1, Zenon DEF Ptr
    <3>3. Ptr(d, ino, s) = there
      BY <3>1, <3>2
    <3> QED
      BY <3>3 DEF s
  <2> QED
    BY <1>1, <2>2, <2>3, <2>4 DEF Kept
<1>5. CASE c # 0 /\ there = 0
  <2>1. a = IF w.b = 0 THEN [p EXCEPT !.b = 0]
            ELSE [t |-> ptr_set(w.t, c, at, w.b), b |-> w.b, ino |-> new]
    BY <1>5 DEF Indirect
  <2>2. \/ w.b = 0 /\ w.t = p.t
        \/ /\ w.b \in Blocks \ d.bbm /\ w.t \in Traces(G)
           /\ Now(w.t) \in Image
           /\ Now(w.t).ino = d.ino /\ Now(w.t).ibm = d.ibm /\ Now(w.t).bbm = d.bbm \cup {w.b}
           /\ \A x \in Blocks \ {w.b} : Now(w.t).blk[x] = d.blk[x]
    BY <1>1, <1>2, AllocZeroed
  <2> HIDE DEF w
  <2>3. CASE w.b = 0
    <3>1. a.b = 0 /\ a.t = p.t /\ a.ino = ino
      BY <2>1, <2>3
    <3> QED
      BY <1>1, <3>1 DEF Kept
  <2>4. CASE w.b # 0
    <3> DEFINE e == Now(w.t)
               b == w.b
    <3>1. /\ b \in Blocks /\ b \notin d.bbm /\ w.t \in Traces(G)
          /\ e \in Image /\ e.ino = d.ino /\ e.ibm = d.ibm /\ e.bbm = d.bbm \cup {b}
          /\ \A x \in Blocks \ {b} : e.blk[x] = d.blk[x]
      BY <2>2, <2>4
    <3>2. Unowned(d, R, b) /\ Unowned(With(d, n, ino), R, b)
      <4>1. Fine(With(d, n, ino), R, X) /\ With(d, n, ino).bbm = d.bbm
        BY <1>1, PendingFields DEF Pending
      <4> QED
        BY <1>2, <3>1, <4>1, FreeIsUnowned
    <3>3. c \in Blocks /\ c \in d.bbm
      <4> DEFINE g == With(d, n, ino)
      <4>1. g.ino[n] = ino /\ Fine(g, R, X) /\ n \in R /\ g.bbm = d.bbm
        BY <1>1, PendingFields DEF Pending
      <4> HIDE DEF g
      <4>2. c \in Blocks
        BY <1>5
      <4>3. Ptr(g, g.ino[n], NDIR) = c /\ NDIR \in Slots
        BY <4>1, Sizes, SlotFacts DEF Ptr
      <4> QED
        BY <4>1, <4>2, <4>3, FineIs
    <3> HIDE DEF e, b
    <3>4. /\ Pending(e, R, X, n, ino) /\ SameNames(d, e, R)
          /\ Unowned(e, R, b) /\ Unowned(With(e, n, ino), R, b)
      BY <1>1, <3>1, <3>2, PendingWritten
    <3>5. ptr_get(e, c, at) = 0
      <4>1. e.blk[c] = d.blk[c]
        BY <3>1, <3>3
      <4> QED
        BY <4>1, <1>5 DEF ptr_get
    <3>6. PICK f \in Image : /\ ptr_set(w.t, c, at, b) = Append(w.t, f)
                             /\ f.ino = e.ino /\ f.ibm = e.ibm /\ f.bbm = e.bbm
                             /\ \A x \in Blocks \ {c} : f.blk[x] = e.blk[x]
                             /\ \A j \in 0 .. PTRS - 1 :
                                  ptr_get(f, c, j) = IF j = at THEN b ELSE ptr_get(e, c, j)
      <4>1. Now(w.t) = e
        BY DEF e
      <4> QED
        BY <4>1, <3>1, <3>3, PtrSet
    <3>7. /\ Pending(f, R, X, n, new) /\ SameNames(e, f, R) /\ Ptr(f, new, NDIR + 1 + at) = b
      <4>1. ino.ptr[NDIR] = c /\ b \in e.bbm
        BY <3>1
      <4> HIDE DEF c, ino, there, d
      <4>2. Placed(e, f, ino, c, at, b)
        BY <3>3, <3>5, <3>6, <4>1 DEF Placed
      <4> QED
        BY <3>4, <4>1, <4>2, PlaceTaken
    <3>8. /\ Append(w.t, f) \in Traces(G) /\ Now(Append(w.t, f)) = f
      <4>1. f \in G /\ w.t \in Traces(G)
        BY <3>1, <3>7 DEF Holds, Pending
      <4> QED
        BY ONLY <4>1, Appended
    <3> HIDE DEF new
    <3>9. a = [t |-> Append(w.t, f), b |-> b, ino |-> new]
      BY <2>1, <2>4, <3>6 DEF b, new
    <3>10. SameNames(Now(t), f, R)
      BY <1>1, <3>4, <3>7, SameNamesFacts
    <3> QED
      BY <1>1, <3>1, <3>6, <3>7, <3>8, <3>9, <3>10 DEF Kept
  <2> QED
    BY <2>3, <2>4
<1> QED
  BY <1>3, <1>4, <1>5

\* bmap_alloc finds or allocates block i, or fails: there it may leave the pointer
\* block in the copy.
LEMMA BmapAllocKeeps ==
    ASSUME NEW G, NEW R, NEW X, Holds(G, R, X), NEW t \in Traces(G), NEW n, NEW ino,
           Pending(Now(t), R, X, n, ino), NEW i \in Nat, NEW a, a = bmap_alloc(t, ino, i)
    PROVE  /\ Kept(G, R, X, n, t, a) /\ a.b \in Blocks \cup {0}
           /\ a.b # 0 => i < NDIR + PTRS /\ a.b = Ptr(Now(a.t), a.ino, SlotOf(i))
<1>1. CASE i < NDIR
  <2>1. i \in 0 .. NDIR /\ SlotOf(i) = i /\ i <= NDIR /\ i < NDIR + PTRS
    BY <1>1, Sizes DEF SlotOf
  <2>2. a = Direct(t, ino, i)
    BY <1>1 DEF bmap_alloc
  <2>3. Kept(G, R, X, n, t, a) /\ a.b \in Blocks \cup {0} /\ a.b = a.ino.ptr[i]
    BY <2>1, <2>2, DirectKeeps
  <2> QED
    BY <2>1, <2>3 DEF Ptr
<1>2. CASE ~(i < NDIR) /\ i < NDIR + PTRS
  <2> DEFINE p == Direct(t, ino, NDIR)
  <2>1. a = Indirect(p, Slot(i))
    BY <1>2 DEF bmap_alloc
  <2>2. Slot(i) \in 0 .. PTRS - 1 /\ NDIR + 1 + Slot(i) = SlotOf(i) /\ NDIR \in 0 .. NDIR
    BY <1>2, Sizes DEF Slot, SlotOf
  <2>3. /\ Kept(G, R, X, n, t, p) /\ p.b \in Blocks \cup {0} /\ p.b = p.ino.ptr[NDIR]
        /\ DOMAIN p = {"t", "b", "ino"}
    BY <2>2, DirectKeeps
  <2> HIDE DEF p
  <2>4. /\ Kept(G, R, X, n, t, a) /\ a.b \in Blocks \cup {0}
        /\ a.b # 0 => a.b = Ptr(Now(a.t), a.ino, NDIR + 1 + Slot(i))
    BY <2>1, <2>2, <2>3, IndirectKeeps
  <2> QED
    BY <1>2, <2>2, <2>4
<1>3. CASE ~(i < NDIR) /\ ~(i < NDIR + PTRS)
  <2>1. a = [t |-> t, ino |-> ino, b |-> 0]
    BY <1>3 DEF bmap_alloc
  <2> QED
    BY <2>1, SameNamesFacts DEF Kept
<1> QED
  BY <1>1, <1>2, <1>3

----------------------------------------------------------------------------
(* Directories.                                                            *)

LEMMA WithSame ==
    ASSUME NEW d \in Image, NEW n \in Inodes
    PROVE  With(d, n, d.ino[n]) = d
<1>1. d.ino \in [Inodes -> Ino]
  BY ImageFields
<1>2. [d.ino EXCEPT ![n] = d.ino[n]] = d.ino
  BY <1>1
<1>3. [d EXCEPT !.ino = d.ino] = d
  BY DEF Image
<1> QED
  BY <1>2, <1>3 DEF With

LEMMA PendingSelf ==
    ASSUME NEW d, NEW R, NEW X, Fine(d, R, X), NEW n \in R, d.ino[n].mode # "lnk"
    PROVE  Pending(d, R, X, n, d.ino[n])
<1>1. d \in Image /\ n \in Inodes /\ d.ino[n] \in Ino
  BY FineIs
<1> QED
  BY <1>1, WithSame DEF Pending

\* A block of the copy is nobody else's.
LEMMA PendingOwn ==
    ASSUME NEW d, NEW R, NEW X, NEW n, NEW ino, Pending(d, R, X, n, ino),
           NEW s \in Slots, NEW b \in Blocks, Ptr(d, ino, s) = b
    PROVE  \A o \in R, k \in Slots : Ptr(d, d.ino[o], k) = b => o = n /\ k = s
<1> DEFINE g == With(d, n, ino)
<1>1. /\ n \in R /\ g.ino[n] = ino /\ \A o \in R : o # n => g.ino[o] = d.ino[o]
      /\ \A j, k : Ptr(g, j, k) = Ptr(d, j, k)
  BY PendingFields
<1>2. Fine(g, R, X)
  BY DEF Pending
<1> HIDE DEF g
<1>3. \A o \in R, k \in Slots : Ptr(g, g.ino[o], k) = b => o = n /\ k = s
  BY <1>1, <1>2, FineIs
<1>4. ASSUME NEW o \in R, NEW k \in Slots, Ptr(d, d.ino[o], k) = b PROVE o = n /\ k = s
  <2>1. CASE o # n
    BY <2>1, <1>1, <1>3, <1>4
  <2>2. CASE o = n
    <3>1. Ptr(d, ino, k) = b
      BY <1>4, <2>2, PendingSlots, Sizes
    <3> QED
      BY <3>1, <2>2, <1>1, <1>3
  <2> QED
    BY <2>1, <2>2
<1> QED
  BY <1>4


\* Image e is d with entry v in place p of n, in order if that is left out of account.
Replaced(d, e, R, X, n, p, v) ==
    /\ e \in Image /\ e.ino = d.ino /\ e.ibm = d.ibm /\ e.bbm = d.bbm
    /\ Fine(e, R, X \cup {<<n, p>>}) /\ SameOthers(d, e, R, <<n, p>>)
    /\ Entry(e, n, p) = v

LEMMA BehindIs ==
    ASSUME NEW v, v.e \in Entries, v.was \in Entries, NEW s \in 0 .. SLOTS - 1
    PROVE  Behind(v, s) \in Entries
<1>1. [v.was EXCEPT ![s] = Vacant] \in Entries
  BY EntriesAre DEF Entries
<1> QED
  BY <1>1 DEF Behind

LEMMA PutIs ==
    ASSUME NEW d, NEW R, NEW X, Fine(d, R, X), NEW n \in DirsOf(d, R), NEW p \in Places(d.ino[n]),
           NEW v \in EntryKind, NEW t, Now(t) = d
    PROVE  /\ p \in AllPlaces
           /\ \E e : Put(t, d.ino[n], p, v) = Append(t, e) /\ Replaced(d, e, R, X, n, p, v)
<1> DEFINE i == p \div SLOTS
           b == Ptr(d, d.ino[n], SlotOf(i))
           f == [d.blk[b].e EXCEPT ![p % SLOTS] = v]
           g == IF v = Vacant THEN Behind(d.blk[b], p % SLOTS) ELSE d.blk[b].was
<1>0. d \in Image /\ R \subseteq d.ibm /\ Whole(d, R)
  BY FineIs DEF Fine
<1>1. p \in AllPlaces
  <2>1. d.ino[n].size \in 1 .. NDIR + PTRS
    BY <1>0 DEF Whole
  <2>2. d.ino[n].size * SLOTS <= (NDIR + PTRS) * SLOTS
    BY <2>1, Sizes
  <2>3. d.ino[n].size * SLOTS \in Nat /\ (NDIR + PTRS) * SLOTS \in Nat
    BY <2>1, Sizes
  <2> QED
    BY <2>2, <2>3 DEF Places, AllPlaces
<1>2. /\ i < d.ino[n].size /\ b \in Blocks /\ d.blk[b].k = "dir" /\ bmap(d, d.ino[n], i) = b
      /\ p % SLOTS \in 0 .. SLOTS - 1
  BY <1>0, <1>1, EntryIs
<1>3. d.blk[b].e \in Entries
  BY <1>0, <1>2, ImageFields, BlkKinds
<1>4. f \in Entries /\ \A s \in 0 .. SLOTS - 1 : f[s] = IF s = p % SLOTS THEN v ELSE d.blk[b].e[s]
  BY <1>2, <1>3 DEF Entries, EntryKind
<1>5. Put(t, d.ino[n], p, v) = eb_write(t, b, DirBlk(f, g))
  BY <1>2 DEF Put, Listing
<1>9a. g \in Entries
  BY <1>0, <1>2, <1>3, ImageFields, BlkKinds, BehindIs
<1> HIDE DEF f, g
<1>6. DirBlk(f, g) \in Blk /\ DirBlk(f, g).k = "dir" /\ DirBlk(f, g).e = f
  BY <1>4, <1>9a, BlkKinds
<1>7. PICK e \in Image : /\ eb_write(t, b, DirBlk(f, g)) = Append(t, e)
                         /\ e.ino = d.ino /\ e.ibm = d.ibm /\ e.bbm = d.bbm /\ e.blk[b] = DirBlk(f, g)
                         /\ \A c \in Blocks \ {b} : e.blk[c] = d.blk[c]
  BY <1>0, <1>2, <1>6, WriteBlock
<1>8. /\ Fine(e, R, X \cup {<<n, p>>}) /\ SameOthers(d, e, R, <<n, p>>) /\ Entry(e, n, p) = v
  <2>1. /\ R \subseteq e.ibm /\ d.bbm \subseteq e.bbm /\ e.blk[b].k = "dir"
        /\ \A o \in R : e.ino[o] = d.ino[o]
        /\ \A s \in 0 .. SLOTS - 1 : e.blk[b].e[s] = IF s = p % SLOTS THEN v ELSE d.blk[b].e[s]
    BY <1>0, <1>4, <1>6, <1>7
  <2>2. Rewritten(d, e, R, n, p, b, v)
    BY <1>1, <1>2, <1>7, <2>1 DEF Rewritten
  <2> QED
    BY <2>2, EntrySet
<1>9. Replaced(d, e, R, X, n, p, v)
  BY <1>7, <1>8 DEF Replaced
<1> QED
  BY <1>1, <1>5, <1>7, <1>9

\* Entry q, which was empty, is v; nothing else about names has changed.
Entered(d, e, R, q, v) ==
    /\ SameOthers(d, e, R, q)
    /\ q \in DirsOf(d, R) \X AllPlaces
    /\ Entry(d, q[1], q[2]).ino = 0 /\ Entry(e, q[1], q[2]) = v

Added(G, R, X, t, dir, v, a) ==
    LET d == Now(t)
        e == With(Now(a.t), dir, a.ino)
    IN /\ Now(a.t).ino = d.ino /\ Now(a.t).ibm = d.ibm /\ a.ino \in Ino /\ a.ino.mode = "dir"
       /\ Now(a.t) \in Image /\ a.t \in Traces(G \cup {e})
       /\ \E p \in AllPlaces :
            /\ Fine(e, R, X \cup {<<dir, p>>}) /\ Entered(d, e, R, <<dir, p>>, v)
            /\ \A r \in Places(d.ino[dir]) : Entry(d, dir, r) = Vacant => p <= r

NotAdded(G, R, X, t, a) ==
    /\ a.t \in Traces(G) /\ Fine(Now(a.t), R, X)
    /\ Now(a.t).ino = Now(t).ino /\ Now(a.t).ibm = Now(t).ibm /\ SameNames(Now(t), Now(a.t), R)

LEMMA OneEntryIs ==
    ASSUME NEW v \in EntryKind
    PROVE  /\ OneEntry(v) \in Entries
           /\ \A s \in 0 .. SLOTS - 1 : OneEntry(v)[s] = IF s = 0 THEN v ELSE Vacant
  BY DEF OneEntry, Entries, EntryKind, Vacant

\* The first free place takes the entry.
LEMMA EntryFitsIn ==
    ASSUME NEW G, NEW R, NEW X, Holds(G, R, X), NEW t \in Traces(G), NEW d, d = Now(t), Fine(d, R, X),
           NEW dir \in DirsOf(d, R), NEW v \in EntryKind, NEW free,
           free = {p \in Places(d.ino[dir]) : At(d, d.ino[dir], p) = Vacant}, free # {},
           NEW a, a = [t |-> Put(t, d.ino[dir], Min(free), v), ino |-> d.ino[dir], ok |-> TRUE]
    PROVE  Added(G, R, X, t, dir, v, a)
<1> DEFINE dino == d.ino[dir]
           p == Min(free)
<1>1. d \in Image /\ dir \in R /\ dir \in Inodes /\ dino \in Ino /\ dino.mode = "dir" /\ dino.size \in Nat
  BY FineIs, ImageFields DEF DirsOf
<1>2. free \in SUBSET Nat
  BY <1>1, Sizes DEF Places
<1>3. p \in free /\ \A x \in free : p <= x
  BY <1>2, LeastIn
<1> HIDE DEF p
<1>4. p \in Places(dino) /\ At(d, dino, p) = Vacant
  BY <1>3
<1>5. p \in AllPlaces /\ \E e : Put(t, dino, p, v) = Append(t, e) /\ Replaced(d, e, R, X, dir, p, v)
  BY ONLY <1>4, Fine(d, R, X), dir \in DirsOf(d, R), v \in EntryKind, d = Now(t), PutIs
<1>6. PICK e : /\ Put(t, dino, p, v) = Append(t, e)
               /\ e \in Image
               /\ e.ino = d.ino /\ e.ibm = d.ibm /\ e.bbm = d.bbm
               /\ Fine(e, R, X \cup {<<dir, p>>})
               /\ SameOthers(d, e, R, <<dir, p>>)
               /\ Entry(e, dir, p) = v
  BY <1>5 DEF Replaced
<1>7. \A r \in Places(dino) : Entry(d, dir, r) = At(d, dino, r)
  BY DEF Entry
<1>8. Entered(d, e, R, <<dir, p>>, v)
  BY <1>4, <1>5, <1>6, <1>7, VacantIs DEF Entered
<1>9. \A r \in Places(dino) : Entry(d, dir, r) = Vacant => p <= r
  BY <1>3, <1>7
<1>10. Append(t, e) \in Traces(G \cup {e}) /\ Now(Append(t, e)) = e
  <2>1. t \in Traces(G \cup {e})
    BY TraceMore
  <2> QED
    BY <2>1, Appended
<1>11. a.t = Append(t, e) /\ a.ino = dino
  BY <1>6 DEF p
<1>12. With(e, dir, dino) = e
  BY <1>1, <1>6, WithSame
<1> HIDE DEF dino
<1>13. With(Now(a.t), dir, a.ino) = e /\ Now(a.t) = e /\ a.t \in Traces(G \cup {e})
  BY <1>10, <1>11, <1>12
<1> QED
  BY <1>1, <1>5, <1>6, <1>8, <1>9, <1>11, <1>13 DEF Added, dino

\* With every place taken, the entry goes into a new block.
LEMMA EntryGrows ==
    ASSUME NEW G, NEW R, NEW X, Holds(G, R, X), NEW t \in Traces(G), NEW d, d = Now(t), Fine(d, R, X),
           NEW dir \in DirsOf(d, R), NEW v \in EntryKind,
           \A p \in Places(d.ino[dir]) : At(d, d.ino[dir], p) # Vacant,
           NEW k, k = bmap_alloc(t, d.ino[dir], d.ino[dir].size)
    PROVE  /\ k.b = 0 => NotAdded(G, R, X, t, k)
           /\ k.b # 0 => \A a : a = [t |-> eb_write(k.t, k.b, DirBlk(OneEntry(v), Unwritten)), ok |-> TRUE,
                                     ino |-> [k.ino EXCEPT !.size = @ + 1]]
                                => Added(G, R, X, t, dir, v, a)
<1> DEFINE dino == d.ino[dir]
           z == dino.size
           f == Now(k.t)
           b == k.b
           ino == k.ino
           w == With(f, dir, ino)
<1>1. d \in Image /\ dir \in R /\ dir \in Inodes /\ dino \in Ino /\ dino.mode = "dir" /\ z \in Nat
  BY FineIs, ImageFields DEF DirsOf
<1>2. Pending(d, R, X, dir, dino)
  BY <1>1, PendingSelf
<1>3. /\ Kept(G, R, X, dir, t, k) /\ b \in Blocks \cup {0}
      /\ b # 0 => z < NDIR + PTRS /\ b = Ptr(f, ino, SlotOf(z))
  BY <1>1, <1>2, BmapAllocKeeps
<1>4. /\ k.t \in Traces(G) /\ Pending(f, R, X, dir, ino)
      /\ f.ino = d.ino /\ f.ibm = d.ibm /\ SameNames(d, f, R)
  BY <1>3 DEF Kept
<1> HIDE DEF f, b, ino
<1>5. Fine(f, R, X)
  BY <1>4 DEF Pending
<1>6. ASSUME b = 0 PROVE NotAdded(G, R, X, t, k)
  BY <1>4, <1>5 DEF NotAdded, f
<1>7. ASSUME b # 0, NEW a, a = [t |-> eb_write(k.t, b, DirBlk(OneEntry(v), Unwritten)), ok |-> TRUE,
                                ino |-> [ino EXCEPT !.size = @ + 1]]
      PROVE  Added(G, R, X, t, dir, v, a)
  <2> DEFINE ai == [ino EXCEPT !.size = @ + 1]
             q == <<dir, z * SLOTS>>
  <2>1. /\ f \in Image /\ w \in Image /\ ino \in Ino /\ R \subseteq Inodes /\ R \subseteq f.ibm
        /\ w.bbm = f.bbm /\ w.ibm = f.ibm /\ w.blk = f.blk /\ w.ino[dir] = ino
        /\ \A o \in R : o # dir => w.ino[o] = f.ino[o]
        /\ \A i, j : Ptr(w, i, j) = Ptr(f, i, j)
    BY <1>4, PendingFields
  <2>2. /\ Fine(w, R, X) /\ ino.mode = "dir" /\ ino.size = z
    BY <1>1, <1>4 DEF Pending
  <2>3. z \in 0 .. NDIR + PTRS - 1 /\ z < NDIR + PTRS /\ b \in Blocks /\ b = Ptr(f, ino, SlotOf(z))
    BY <1>1, <1>3, <1>7, Sizes
  <2>4. SlotOf(z) \in Slots /\ SlotOf(z) # NDIR
        /\ \A j \in 0 .. NDIR + PTRS - 1 : SlotOf(j) = SlotOf(z) => j = z
    BY <2>3, SlotFacts
  <2>5. \A o \in R, j \in Slots : Ptr(f, f.ino[o], j) = b => o = dir /\ j = SlotOf(z)
    BY <1>4, <2>3, <2>4, PendingOwn
  <2>6. OneEntry(v) \in Entries /\ \A s \in 0 .. SLOTS - 1 : OneEntry(v)[s] = IF s = 0 THEN v ELSE Vacant
    BY OneEntryIs
  <2>7. DirBlk(OneEntry(v), Unwritten) \in Blk /\ DirBlk(OneEntry(v), Unwritten).k = "dir" /\ DirBlk(OneEntry(v), Unwritten).e = OneEntry(v)
    BY <2>6, BlkKinds, EntriesAre
  <2>8. PICK g \in Image : /\ eb_write(k.t, b, DirBlk(OneEntry(v), Unwritten)) = Append(k.t, g)
                           /\ g.ino = f.ino /\ g.ibm = f.ibm /\ g.bbm = f.bbm
                           /\ g.blk[b] = DirBlk(OneEntry(v), Unwritten)
                           /\ \A c \in Blocks \ {b} : g.blk[c] = f.blk[c]
    <3> DEFINE x == DirBlk(OneEntry(v), Unwritten)
    <3>1. f = Now(k.t)
      BY DEF f
    <3>2. x \in Blk
      BY <2>7
    <3> HIDE DEF x
    <3>3. PICK g \in Image : /\ eb_write(k.t, b, x) = Append(k.t, g)
                             /\ g.ino = f.ino /\ g.ibm = f.ibm /\ g.bbm = f.bbm /\ g.blk[b] = x
                             /\ \A c \in Blocks \ {b} : g.blk[c] = f.blk[c]
      <4>1. f \in Image /\ b \in Blocks
        BY <2>1, <2>3
      <4> QED
        BY ONLY <3>1, <3>2, <4>1, WriteBlock
    <3> QED
      BY <3>3 DEF x
  <2>9. Fine(g, R, X)
    <3>1. \A n \in R : Ptr(f, f.ino[n], NDIR) # b
      BY <2>4, <2>5, SlotFacts
    <3>2. ASSUME NEW n \in DirsOf(f, R), NEW i \in 0 .. f.ino[n].size - 1
          PROVE  Ptr(f, f.ino[n], SlotOf(i)) # b
      <4>1. SlotOf(i) \in Slots /\ i \in 0 .. NDIR + PTRS - 1 /\ n \in R
        BY <1>5, DirSlot
      <4>2. SUFFICES ASSUME Ptr(f, f.ino[n], SlotOf(i)) = b PROVE FALSE
        OBVIOUS
      <4>3. n = dir /\ i = z
        BY <2>4, <2>5, <4>1, <4>2
      <4>4. f.ino[dir].size = z
        BY <1>4
      <4> QED
        BY <1>1, <4>3, <4>4
    <3>3. /\ R \subseteq g.ibm /\ \A n \in R : g.ino[n] = f.ino[n]
      BY <2>1, <2>8
    <3>4. \A n \in R, j \in Slots : Ptr(f, f.ino[n], j) \in Blocks => Ptr(f, f.ino[n], j) \in g.bbm
      BY <1>5, <2>8, FineIs
    <3> QED
      BY <1>5, <2>8, <3>1, <3>2, <3>3, <3>4, BlockWritten
  <2> DEFINE e == With(g, dir, ai)
  <2>10. ai \in Ino /\ ai.mode = "dir" /\ ai.size = z + 1 /\ ai.ptr = ino.ptr
    BY <1>1, <2>1, <2>2 DEF Ino
  <2> HIDE DEF ai
  <2>11. /\ e \in Image /\ e.bbm = g.bbm /\ e.ibm = g.ibm /\ e.blk = g.blk /\ e.ino[dir] = ai
         /\ \A o \in Inodes : o # dir => e.ino[o] = g.ino[o]
    <3>1. g \in Image /\ dir \in Inodes
      BY <1>1, <2>8
    <3> QED
      BY ONLY <3>1, <2>10, WithFields
  <2> HIDE DEF e, w
  <2>12. /\ Fine(e, R, X \cup {q}) /\ SameOthers(w, e, R, q)
         /\ Entry(e, dir, z * SLOTS) = v /\ Entry(w, dir, z * SLOTS) = Vacant
         /\ z * SLOTS \in AllPlaces
    <3>1. dir \in DirsOf(w, R) /\ w.ino[dir].size = z /\ b = Ptr(w, w.ino[dir], SlotOf(z))
      BY <1>1, <2>1, <2>2, <2>3 DEF DirsOf
    <3>2. /\ R \subseteq e.ibm /\ w.bbm \subseteq e.bbm
          /\ \A o \in R : o # dir => e.ino[o] = w.ino[o]
          /\ e.ino[dir].mode = "dir" /\ e.ino[dir].size = z + 1 /\ e.ino[dir].ptr = w.ino[dir].ptr
          /\ \A c \in Blocks \ {b} : e.blk[c] = w.blk[c]
          /\ e.blk[b].k = "dir"
          /\ \A s \in 0 .. SLOTS - 1 : e.blk[b].e[s] = IF s = 0 THEN v ELSE Vacant
      <4>1. R \subseteq e.ibm /\ w.bbm \subseteq e.bbm
            /\ \A o \in R : o # dir => e.ino[o] = w.ino[o]
        BY ONLY <2>1, <2>8, <2>11
      <4>2. e.ino[dir].mode = "dir" /\ e.ino[dir].size = z + 1 /\ e.ino[dir].ptr = w.ino[dir].ptr
        BY ONLY <2>1, <2>10, <2>11
      <4>3. /\ \A c \in Blocks \ {b} : e.blk[c] = w.blk[c]
            /\ e.blk[b] = DirBlk(OneEntry(v), Unwritten)
        BY ONLY <2>1, <2>8, <2>11
      <4> QED
        BY ONLY <2>6, <2>7, <4>1, <4>2, <4>3
    <3>3. Grew(w, e, R, dir, z, b, v)
      BY <2>3, <2>11, <3>1, <3>2 DEF Grew
    <3> HIDE DEF z
    <3> QED
      BY <2>2, <3>1, <3>3, DirGrows
  <2>13. Entered(d, e, R, q, v)
    <3>1. SameNames(d, w, R)
      BY <1>4, PendingNames, SameNamesFacts DEF w
    <3>2. SameOthers(d, e, R, q)
      BY <2>12, <3>1 DEF SameNames, SameOthers
    <3>3. Entry(d, dir, z * SLOTS) = Vacant
      BY <1>1, <2>12, <3>1 DEF SameNames
    <3> QED
      BY <2>12, <3>2, <3>3, VacantIs DEF Entered
  <2>14. \A r \in Places(dino) : Entry(d, dir, r) # Vacant
    BY DEF Entry
  <2>15. a.t = Append(k.t, g) /\ a.ino = ai
    BY <1>7, <2>8 DEF ai
  <2>16. Append(k.t, g) \in Traces(G \cup {e}) /\ Now(Append(k.t, g)) = g
    <3>1. g \in G /\ G \subseteq G \cup {e}
      BY <2>9 DEF Holds
    <3>2. Append(k.t, g) \in Traces(G) /\ Now(Append(k.t, g)) = g
      BY <1>4, <3>1, Appended
    <3> QED
      BY <3>1, <3>2, TraceMore
  <2>17. /\ Now(a.t) = g /\ a.t \in Traces(G \cup {e}) /\ With(Now(a.t), dir, a.ino) = e
    BY <2>15, <2>16 DEF e
  <2>18. /\ Now(a.t).ino = d.ino /\ Now(a.t).ibm = d.ibm /\ a.ino \in Ino /\ a.ino.mode = "dir"
         /\ Now(a.t) \in Image
    BY <1>4, <2>8, <2>10, <2>15, <2>17
  <2> HIDE DEF dino, z
  <2>19. \E p \in AllPlaces : /\ Fine(e, R, X \cup {<<dir, p>>}) /\ Entered(d, e, R, <<dir, p>>, v)
                              /\ \A r \in Places(d.ino[dir]) : Entry(d, dir, r) = Vacant => p <= r
    BY <2>12, <2>13, <2>14 DEF dino
  <2> QED
    BY <2>17, <2>18, <2>19 DEF Added
<1> QED
  BY <1>6, <1>7 DEF b, ino

LEMMA DirAddEntry ==
    ASSUME NEW G, NEW R, NEW X, Holds(G, R, X), NEW t \in Traces(G), Fine(Now(t), R, X),
           NEW dir \in DirsOf(Now(t), R), NEW child \in Inodes, NEW nm \in Names,
           NEW dino, dino = Now(t).ino[dir], NEW a, a = dir_add_entry(t, dino, child, nm)
    PROVE  /\ a.ok \in BOOLEAN
           /\ a.ok => Added(G, R, X, t, dir, [ino |-> child, name |-> nm], a)
           /\ ~a.ok => NotAdded(G, R, X, t, a)
<1> DEFINE free == {p \in Places(dino) : At(Now(t), dino, p) = Vacant}
           v == [ino |-> child, name |-> nm]
           k == bmap_alloc(t, dino, dino.size)
<1>1. v \in EntryKind
  BY DEF EntryKind
<1>2. CASE free # {}
  <2>1. a = [t |-> Put(t, dino, Min(free), v), ino |-> dino, ok |-> TRUE]
    BY <1>2 DEF dir_add_entry
  <2> HIDE DEF free, v
  <2>2. Added(G, R, X, t, dir, v, a)
    BY <1>1, <1>2, <2>1, EntryFitsIn DEF free
  <2> QED
    BY <2>1, <2>2 DEF v
<1>3. CASE free = {}
  <2>1. a = IF k.b = 0 THEN [t |-> k.t, ino |-> k.ino, ok |-> FALSE]
            ELSE [t |-> eb_write(k.t, k.b, DirBlk(OneEntry(v), Unwritten)), ok |-> TRUE,
                  ino |-> [k.ino EXCEPT !.size = @ + 1]]
    BY <1>3 DEF dir_add_entry
  <2>2. \A p \in Places(dino) : At(Now(t), dino, p) # Vacant
    BY <1>3
  <2> HIDE DEF k, v
  <2>3. /\ k.b = 0 => NotAdded(G, R, X, t, k)
        /\ k.b # 0 => \A x : x = [t |-> eb_write(k.t, k.b, DirBlk(OneEntry(v), Unwritten)), ok |-> TRUE,
                                  ino |-> [k.ino EXCEPT !.size = @ + 1]]
                             => Added(G, R, X, t, dir, v, x)
    BY <1>1, <2>2, EntryGrows DEF k
  <2>4. CASE k.b = 0
    <3>1. a.t = k.t /\ ~a.ok /\ a.ok \in BOOLEAN
      BY <2>1, <2>4
    <3> QED
      BY <2>3, <2>4, <3>1 DEF NotAdded
  <2>5. CASE k.b # 0
    <3>1. Added(G, R, X, t, dir, v, a)
      BY <2>1, <2>3, <2>5
    <3>2. a.ok
      BY <2>1, <2>5
    <3> QED
      BY <3>1, <3>2 DEF v
  <2> QED
    BY <2>4, <2>5
<1> QED
  BY <1>2, <1>3

\* The bitmaps and counts change, and what counts stays marked.
LEMMA BitmapsSet ==
    ASSUME NEW d, NEW R, NEW X, Fine(d, R, X), NEW g \in Image, g.ino = d.ino, g.blk = d.blk, R \subseteq g.ibm,
           d.bbm \subseteq g.bbm
    PROVE  Fine(g, R, X) /\ SameNames(d, g, R)
<1>1. \A n \in R : Ptr(d, d.ino[n], NDIR) \in Nat
  BY FineIs, SlotFacts
<1>2. \A n \in R, k \in Slots : Ptr(d, d.ino[n], k) \in Blocks => Ptr(d, d.ino[n], k) \in g.bbm
  BY FineIs
<1>3. -1 \notin Nat /\ -1 \notin Blocks
  BY Sizes
<1>4. \A n \in DirsOf(d, R) : \A i \in 0 .. d.ino[n].size - 1 : Ptr(d, d.ino[n], SlotOf(i)) # -1
  BY <1>3, DirSlot
<1> QED
  BY <1>1, <1>2, <1>3, <1>4, BlockWritten

\* What a name leads to: nothing, or what the first entry with it says.
LEMMA LookupIs ==
    ASSUME NEW d, NEW R, NEW X, Fine(d, R, X), NEW dir \in DirsOf(d, R), NEW nm,
           NEW named, named = Named(d, d.ino[dir], nm)
    PROVE  /\ named = {} => ext2_lookup(d, dir, nm) = 0
           /\ named # {} => /\ Min(named) \in Places(d.ino[dir]) /\ Min(named) \in AllPlaces
                            /\ Entry(d, dir, Min(named)).ino = ext2_lookup(d, dir, nm)
                            /\ Entry(d, dir, Min(named)).name = nm
                            /\ ext2_lookup(d, dir, nm) # 0
                            /\ \A p \in Places(d.ino[dir]) :
                                 Entry(d, dir, p).ino # 0 /\ Entry(d, dir, p).name = nm => Min(named) <= p
<1> DEFINE ino == d.ino[dir]
           p == Min(named)
<1>1. d \in Image /\ Whole(d, R) /\ ino.size \in 1 .. NDIR + PTRS
  BY DEF Fine, Whole
<1>2. named \in SUBSET Nat
  BY <1>1, Sizes DEF Named, Places
<1>3. CASE named = {}
  BY <1>3 DEF ext2_lookup
<1>4. CASE named # {}
  <2>1. p \in named /\ \A x \in named : p <= x
    BY <1>2, <1>4, LeastIn
  <2>2. ext2_lookup(d, dir, nm) = At(d, ino, p).ino
    BY <1>4 DEF ext2_lookup
  <2> HIDE DEF p
  <2>3. p \in Places(ino) /\ At(d, ino, p).ino # 0 /\ At(d, ino, p).name = nm
    BY <2>1 DEF Named
  <2>4. \A r \in Places(ino) : Entry(d, dir, r) = At(d, ino, r)
    BY DEF Entry
  <2>5. p \in AllPlaces
    <3>1. ino.size * SLOTS <= (NDIR + PTRS) * SLOTS
      BY <1>1, Sizes
    <3>2. ino.size * SLOTS \in Nat /\ (NDIR + PTRS) * SLOTS \in Nat
      BY <1>1, Sizes
    <3> QED
      BY <2>3, <3>1, <3>2 DEF Places, AllPlaces
  <2>6. \A r \in Places(ino) : Entry(d, dir, r).ino # 0 /\ Entry(d, dir, r).name = nm => p <= r
    BY <2>1, <2>4 DEF Named
  <2> QED
    BY <1>4, <2>2, <2>3, <2>4, <2>5, <2>6 DEF p
<1> QED
  BY <1>3, <1>4

\* With every entry in account, what a name leads to counts.
LEMMA LookupCounts ==
    ASSUME NEW d, NEW R, Fine(d, R, {}), NEW dir \in DirsOf(d, R), NEW nm
    PROVE  /\ ext2_lookup(d, dir, nm) \in R \cup {0}
           /\ \A p \in AllPlaces : Entry(d, dir, p).ino \in R \cup {0}
<1>1. ASSUME NEW p \in AllPlaces PROVE Entry(d, dir, p).ino \in R \cup {0}
  <2>1. <<dir, p>> \in (DirsOf(d, R) \X AllPlaces) \ {}
    OBVIOUS
  <2> QED
    BY <2>1 DEF Fine, Closed
<1> QED
  BY <1>1, LookupIs

\* Image e is d without entry q, the first of directory dir with that name.
Vacated(d, e, R, X, dir, nm, q) ==
    /\ e \in Image /\ e.ino = d.ino /\ e.ibm = d.ibm /\ e.bbm = d.bbm
    /\ Fine(e, R, X) /\ SameOthers(d, e, R, q)
    /\ q \in DirsOf(d, R) \X AllPlaces /\ q = <<dir, Min(Named(d, d.ino[dir], nm))>>
    /\ Entry(e, q[1], q[2]) = Vacant

LEMMA EntryVacated ==
    ASSUME NEW d, NEW R, NEW X, Fine(d, R, X), NEW dir \in DirsOf(d, R), NEW nm,
           Named(d, d.ino[dir], nm) # {}, NEW t, d = Now(t), NEW q, q = <<dir, Min(Named(d, d.ino[dir], nm))>>
    PROVE  \E e : /\ dir_unlink_entry(t, d.ino[dir], nm) = Append(t, e)
                  /\ Vacated(d, e, R, X, dir, nm, q)
<1> DEFINE p == Min(Named(d, d.ino[dir], nm))
<1>1. p \in Places(d.ino[dir])
  BY LookupIs
<1>2. dir_unlink_entry(t, d.ino[dir], nm) = Put(t, d.ino[dir], p, Vacant) /\ q = <<dir, p>>
  BY DEF dir_unlink_entry
<1> HIDE DEF p
<1>3. Vacant \in EntryKind
  BY DEF Vacant, EntryKind
<1>4. p \in AllPlaces /\ \E e : Put(t, d.ino[dir], p, Vacant) = Append(t, e) /\ Replaced(d, e, R, X, dir, p, Vacant)
  BY ONLY <1>1, <1>3, Fine(d, R, X), dir \in DirsOf(d, R), d = Now(t), PutIs
<1>5. PICK e : Put(t, d.ino[dir], p, Vacant) = Append(t, e) /\ Replaced(d, e, R, X, dir, p, Vacant)
  BY <1>4
<1>6. /\ e \in Image /\ e.ino = d.ino /\ e.ibm = d.ibm /\ e.bbm = d.bbm
      /\ Fine(e, R, X \cup {q}) /\ SameOthers(d, e, R, q)
      /\ Entry(e, q[1], q[2]) = Vacant
  <2>1. q = <<dir, p>> /\ q[1] = dir /\ q[2] = p
    BY <1>2
  <2> QED
    BY ONLY <1>5, <2>1 DEF Replaced
<1>7. Fine(e, R, X)
  BY <1>6, VacantIs, EntryCounts
<1>8. q \in DirsOf(d, R) \X AllPlaces
  BY <1>2, <1>4
<1>9. Vacated(d, e, R, X, dir, nm, q)
  BY <1>2, <1>6, <1>7, <1>8 DEF Vacated, p
<1> QED
  BY <1>2, <1>5, <1>9

\* The inode that an entry named has one name less.
LEMMA NameLess ==
    ASSUME NEW d, NEW e, NEW R, R \subseteq Inodes, NEW X, NEW q, SameOthers(d, e, R, q), q \notin X,
           q \in DirsOf(d, R) \X AllPlaces, Entry(e, q[1], q[2]).ino = 0, NEW m, m # 0,
           Entry(d, q[1], q[2]).ino = m
    PROVE  Cardinality(Naming(e, R, X, m)) = Cardinality(Naming(d, R, X, m)) - 1
<1> DEFINE S0 == Naming(d, R, X, m)
           S1 == Naming(d, R, X \cup {q}, m)
<1>1. DirsOf(e, R) = DirsOf(d, R) /\ Naming(e, R, X \cup {q}, m) = S1
  BY OthersKept
<1>2. Naming(e, R, X, m) = Naming(e, R, X \cup {q}, m)
  BY DEF Naming
<1>3. q \in S0 /\ S1 = S0 \ {q}
  BY DEF Naming
<1>4. IsFiniteSet(S0) /\ Cardinality(S0) \in Nat
  BY NamingFinite
<1> HIDE DEF S0, S1
<1>5. Cardinality(S0 \ {q}) = Cardinality(S0) - 1
  BY <1>3, <1>4, FS_RemoveElement
<1> QED
  BY <1>1, <1>2, <1>3, <1>5 DEF S0

----------------------------------------------------------------------------
(* What the calls have in common: an inode is taken, filled in, entered    *)
(* into a directory, or given back.                                        *)

LEMMA SoundHolds ==
    ASSUME NEW R
    PROVE  Holds(Sound, R, {})
<1>1. ASSUME NEW g, Fine(g, R, {}) PROVE g \in Sound
  <2>1. g \in Image /\ R \in SUBSET Inodes
    BY <1>1, FineIs
  <2> QED
    BY <2>1, <1>1 DEF Sound
<1> QED
  BY <1>1 DEF Holds, Sound

LEMMA InodeReleased ==
    ASSUME NEW G, NEW R, NEW X, Holds(G, R, X), NEW t \in Traces(G), NEW d, d = Now(t), Fine(d, R, X),
           NEW n, n \notin R, NEW w, NEW u, u = free_inode(t, n, w)
    PROVE  /\ u \in Traces(G) /\ Fine(Now(u), R, X) /\ SameNames(d, Now(u), R)
           /\ Now(u).ino = d.ino
<1>1. d \in Image /\ R \subseteq d.ibm
  BY FineIs
<1>2. \A g \in Marked(d, d.bbm, d.ibm \ {n}) : g.ino = d.ino /\ Fine(g, R, X) /\ SameNames(d, g, R)
  <2> SUFFICES ASSUME NEW g \in Marked(d, d.bbm, d.ibm \ {n})
               PROVE  g.ino = d.ino /\ Fine(g, R, X) /\ SameNames(d, g, R)
    OBVIOUS
  <2>1. g \in Image /\ g.ino = d.ino /\ g.blk = d.blk /\ g.bbm = d.bbm /\ R \subseteq g.ibm
    BY <1>1 DEF Marked
  <2> QED
    BY <2>1, BitmapsSet
<1>3. Marked(d, d.bbm, d.ibm \ {n}) \subseteq G
  BY <1>2 DEF Holds
<1>4. u \in Traces(G) /\ Now(u) \in Marked(d, d.bbm, d.ibm \ {n})
  BY <1>1, <1>3, FreeInode
<1> QED
  BY <1>2, <1>4

\* The blocks of an inode that no longer counts are nobody's.
LEMMA BlocksReleased ==
    ASSUME NEW G, NEW R, NEW X, Holds(G, R, X), NEW t \in Traces(G), NEW d, d = Now(t), Fine(d, R, X),
           NEW n, n \notin R, Fine(d, R \cup {n}, X), NEW ino,
           \A k \in Slots : Ptr(d, ino, k) = Ptr(d, d.ino[n], k), NEW u, u = free_inode_blocks(t, ino)
    PROVE  /\ u \in Traces(G) /\ Fine(Now(u), R, X) /\ SameNames(d, Now(u), R)
           /\ Now(u).ino = d.ino
<1> DEFINE F == SlotsOf(d, ino)
           H == F \cap Blocks
<1>1. d \in Image /\ d.bbm \subseteq Blocks
  BY FineIs, ImageFields
<1>2. ASSUME NEW b \in H PROVE Unowned(d, R, b)
  <2>1. PICK k \in Slots : b = Ptr(d, d.ino[n], k)
    BY DEF SlotsOf
  <2>2. ASSUME NEW o \in R, NEW l \in Slots, Ptr(d, d.ino[o], l) = b PROVE FALSE
    <3>1. n \in R \cup {n} /\ o \in R \cup {n} /\ b \in Blocks
      BY <2>2
    <3>2. n = o
      BY <2>1, <2>2, <3>1, FineIs
    <3> QED
      BY <3>2
  <2> QED
    BY <2>2 DEF Unowned
<1>3. ASSUME NEW g \in Freeing(d, F)
      PROVE  g \in G /\ Fine(g, R, X) /\ SameNames(d, g, R) /\ g.ino = d.ino
  <2>1. g \in Freeing(d, H) /\ g.ino = d.ino
    BY <1>1 DEF Freeing
  <2> HIDE DEF H
  <2>2. Fine(g, R, X) /\ SameNames(d, g, R)
    BY <1>2, <2>1, StillFreeing
  <2> QED
    BY <2>1, <2>2 DEF Holds
<1>4. Freeing(d, F) \subseteq G /\ G \subseteq Image
  BY <1>3 DEF Holds
<1> HIDE DEF F
<1>5. u \in Traces(G) /\ Now(u) \in Freeing(d, F)
  BY <1>1, <1>4, FreeBlocks DEF F
<1> QED
  BY <1>3, <1>5

\* A fresh inode n: nothing that counts has changed.
Took(G, R, X, d, t, n) ==
    /\ n \in Inodes \ R /\ n # 0 /\ n # ROOT /\ t \in Traces(G)
    /\ Now(t).ino = d.ino /\ Now(t).ibm = d.ibm \cup {n}
    /\ Fine(Now(t), R, X) /\ SameNames(d, Now(t), R)

LEMMA InodeTaken ==
    ASSUME NEW G, NEW R, NEW X, Holds(G, R, X), NEW t \in Traces(G), NEW d, d = Now(t), Fine(d, R, X),
           NEW isDir, NEW a, a = alloc_inode(t, isDir), a.n # 0
    PROVE  Took(G, R, X, d, a.t, a.n)
<1>1. d \in Image /\ R \subseteq d.ibm /\ ROOT \in d.ibm
  BY FineIs DEF DirsOf
<1>2. ASSUME NEW n \in Inodes \ d.ibm, NEW g \in Marked(d, d.bbm, d.ibm \cup {n})
      PROVE  /\ g.ino = d.ino /\ g.ibm = d.ibm \cup {n} /\ Fine(g, R, X) /\ SameNames(d, g, R) /\ g \in G
  <2>1. g \in Image /\ g.ino = d.ino /\ g.blk = d.blk /\ g.bbm = d.bbm /\ R \subseteq g.ibm
        /\ g.ibm = d.ibm \cup {n}
    BY <1>1 DEF Marked
  <2>2. Fine(g, R, X) /\ SameNames(d, g, R)
    BY <2>1, BitmapsSet
  <2> QED
    BY <2>1, <2>2 DEF Holds
<1>3. \A n \in Inodes \ d.ibm : Marked(d, d.bbm, d.ibm \cup {n}) \subseteq G
  BY <1>2
<1>4. \/ a.n = 0 /\ a.t = t
      \/ /\ a.n \in Inodes \ d.ibm /\ a.n # 0 /\ a.t \in Traces(G)
         /\ Now(a.t) \in Marked(d, d.bbm, d.ibm \cup {a.n})
  BY <1>1, <1>3, AllocInode
<1> QED
  BY <1>1, <1>2, <1>4 DEF Took

\* A new file or link that counts already gets its name, or is given back.
LEMMA FileEntered ==
    ASSUME NEW G, NEW R, NEW new, Holds(G, R, {}), Holds(G, R \cup {new}, {}),
           NEW t \in Traces(G), NEW d, d = Now(t), Fine(d, R \cup {new}, {}), Fine(d, R, {}), new \notin R,
           Naming(d, R \cup {new}, {}, new) = {}, d.ino[new].mode # "dir", d.ino[new].links = 1,
           NEW dir \in DirsOf(d, R), NEW nm \in Names,
           NEW a, a = dir_add_entry(t, d.ino[dir], new, nm)
    PROVE  /\ a.ok \in BOOLEAN /\ a.t \in Traces(G)
           /\ a.ok => write_inode(a.t, dir, a.ino) \in Traces(G)
           /\ ~a.ok => Fine(Now(a.t), R, {})
<1> DEFINE Q == R \cup {new}
           v == [ino |-> new, name |-> nm]
           e == With(Now(a.t), dir, a.ino)
<1>1. d \in Image /\ new \in Q /\ Q \subseteq Inodes /\ dir \in DirsOf(d, Q) /\ dir # new /\ dir \in R
      /\ new # ROOT
  BY FineIs DEF DirsOf
<1>2. /\ a.ok \in BOOLEAN
      /\ a.ok => Added(G, Q, {}, t, dir, v, a)
      /\ ~a.ok => NotAdded(G, Q, {}, t, a)
  BY <1>1, DirAddEntry
<1>3. ASSUME a.ok PROVE a.t \in Traces(G) /\ write_inode(a.t, dir, a.ino) \in Traces(G)
  <2>1. PICK p \in AllPlaces : Fine(e, Q, {} \cup {<<dir, p>>}) /\ Entered(d, e, Q, <<dir, p>>, v)
    BY <1>2, <1>3 DEF Added
  <2>2. /\ Now(a.t).ino = d.ino /\ a.ino \in Ino /\ a.ino.mode = "dir"
        /\ Now(a.t) \in Image /\ a.t \in Traces(G \cup {e})
    BY <1>2, <1>3 DEF Added
  <2>3. e.ino[new] = d.ino[new]
    BY <1>1, <2>2, WithFields
  <2> HIDE DEF e
  <2> DEFINE q == <<dir, p>>
  <2>4. Entry(e, q[1], q[2]) = v /\ SameOthers(d, e, Q, q)
    BY <2>1 DEF Entered
  <2>5. Naming(e, Q, {} \cup {q}, new) = Naming(d, Q, {} \cup {q}, new)
    BY <2>4, OthersKept
  <2>6. Naming(d, Q, {} \cup {q}, new) = {}
    BY DEF Naming
  <2>7. Cardinality(Naming(e, Q, {} \cup {q}, new)) = 0
    BY <2>5, <2>6, FS_EmptySet
  <2>8. Entry(e, q[1], q[2]).ino = new
    BY <2>4
  <2> HIDE DEF q
  <2>9. Fine(e, Q, {})
    <3>1. Fine(e, Q, {} \cup {q})
      BY <2>1 DEF q
    <3> QED
      BY <1>1, <2>3, <2>7, <2>8, <3>1, EntryCounts
  <2>10. e \in G
    BY <2>9 DEF Holds
  <2>11. a.t \in Traces(G)
    <3>1. G \cup {e} = G
      BY <2>10
    <3> QED
      BY <2>2, <3>1
  <2>12. write_inode(a.t, dir, a.ino) = Append(a.t, e)
    BY DEF write_inode, e, With
  <2> QED
    BY <2>10, <2>11, <2>12, Appended
<1>4. ASSUME ~a.ok PROVE a.t \in Traces(G) /\ Fine(Now(a.t), R, {})
  <2>1. a.t \in Traces(G) /\ Fine(Now(a.t), Q, {}) /\ SameNames(d, Now(a.t), Q)
    BY <1>2, <1>4 DEF NotAdded
  <2>2. Naming(Now(a.t), Q, {}, new) = {}
    BY <2>1, NamesKept
  <2>3. Q \ {new} = R
    OBVIOUS
  <2> HIDE DEF Q
  <2>4. Fine(Now(a.t), Q \ {new}, {})
    BY <1>1, <2>1, <2>2, FewerInodes
  <2> QED
    BY <2>1, <2>3, <2>4
<1> QED
  BY <1>2, <1>3, <1>4

----------------------------------------------------------------------------
(* The calls that may be cut short: every image on their way is sound.     *)

\* The inode of a new file, or of a link, whose slots hold text.
NewFileInode(ino) ==
    /\ ino \in Ino /\ ino.mode \in {"reg", "lnk"} /\ ino.links = 1 /\ ino.ptr[NDIR] = 0
    /\ \A k \in 0 .. NDIR : ino.ptr[k] \in IF ino.mode = "lnk" THEN Nat \ Blocks ELSE {0}

\* A file or a link is laid out in an inode that is free.
LEMMA FileLaid ==
    ASSUME NEW G, NEW R, Holds(G, R, {}), NEW new \in Inodes \ R, Holds(G, R \cup {new}, {}),
           NEW t \in Traces(G), NEW d, d = Now(t), Fine(d, R, {}), new \in d.ibm,
           NEW ino, NewFileInode(ino), NEW u, u = write_inode(t, new, ino)
    PROVE  /\ u \in Traces(G) /\ Now(u) = With(d, new, ino) /\ SameNames(d, Now(u), R)
           /\ Fine(Now(u), R, {}) /\ Fine(Now(u), R \cup {new}, {})
           /\ Naming(Now(u), R \cup {new}, {}, new) = {}
<1> DEFINE e == With(d, new, ino)
<1>0. /\ ino \in Ino /\ ino.mode \in {"reg", "lnk"} /\ ino.ptr[NDIR] = 0
      /\ \A k \in 0 .. NDIR : ino.ptr[k] \in IF ino.mode = "lnk" THEN Nat \ Blocks ELSE {0}
  BY DEF NewFileInode
<1> USE <1>0
<1>1. d \in Image
  BY FineIs
<1>2. e \in Image /\ e.ino[new] = ino /\ e.ibm = d.ibm
  BY <1>1, WithFields
<1>3. Fine(e, R, {}) /\ SameNames(d, e, R)
  BY OutsideWritten
<1>4. u = Append(t, e)
  BY DEF write_inode, With
<1> HIDE DEF e
<1>5. ASSUME NEW k \in Slots
      PROVE  Ptr(e, e.ino[new], k) \in IF e.ino[new].mode = "lnk" THEN Nat \ Blocks ELSE {0}
  <2>1. CASE k <= NDIR
    BY <2>1, <1>2, SlotFacts DEF Ptr
  <2>2. CASE ~(k <= NDIR)
    <3>1. Ptr(e, e.ino[new], k) = 0
      BY <2>2, <1>2, Sizes DEF Ptr, ptr_get
    <3> QED
      BY <3>1, Sizes
  <2> QED
    BY <2>1, <2>2
<1>6. Fine(e, R \cup {new}, {}) /\ Naming(e, R \cup {new}, {}, new) = {}
  BY <1>2, <1>3, <1>5, NewFile
<1>7. e \in G
  BY <1>3 DEF Holds
<1>8. u \in Traces(G) /\ Now(u) = e
  BY <1>4, <1>7, Appended
<1> QED
  BY <1>3, <1>6, <1>8 DEF e

LEMMA NewInoIs ==
    /\ \A mode \in {"reg", "dir", "lnk"}, links \in Nat :
         /\ NewIno(mode, links) \in Ino
         /\ NewIno(mode, links).mode = mode /\ NewIno(mode, links).links = links
         /\ NewIno(mode, links).ptr = Holes /\ NewIno(mode, links).size = 0
         /\ NewIno(mode, links).blocks = 0
    /\ Holes \in [0 .. NDIR -> Nat] /\ \A k \in 0 .. NDIR : Holes[k] = 0
  BY DEF NewIno, Holes, Ino

\* A file or a link is made: it is laid out and gets its name, or is given back.
LEMMA FileMade ==
    ASSUME NEW d, NEW R, Fine(d, R, {}), NEW dir \in DirsOf(d, R), NEW nm \in Names,
           NEW ino, NewFileInode(ino), NEW t, t = <<d>>, NEW i, i = alloc_inode(t, FALSE),
           NEW made, made = write_inode(i.t, i.n, ino),
           NEW a, a = dir_add_entry(made, d.ino[dir], i.n, nm)
    PROVE  /\ i.n = 0 => t \in Traces(Sound)
           /\ i.n # 0 /\ ~a.ok => free_inode(a.t, i.n, FALSE) \in Traces(Sound)
           /\ i.n # 0 /\ a.ok => write_inode(a.t, dir, a.ino) \in Traces(Sound)
<1>0. \A Q : Holds(Sound, Q, {})
  BY SoundHolds
<1>1. t \in Traces(Sound) /\ d = Now(t)
  BY <1>0, TraceOf DEF Holds
<1>2. i.n # 0 => Took(Sound, R, {}, d, i.t, i.n)
  <2>1. Holds(Sound, R, {})
    BY <1>0
  <2> QED
    BY ONLY <1>1, <2>1, Fine(d, R, {}), i = alloc_inode(t, FALSE), InodeTaken
<1>3. CASE i.n = 0
  BY <1>1, <1>3
<1>4. CASE i.n # 0
  <2> DEFINE n == i.n
             it == i.t
             f == Now(it)
             g == Now(made)
  <2>1. /\ n \in Inodes \ R /\ n # ROOT /\ it \in Traces(Sound) /\ f = Now(it)
        /\ f.ino = d.ino /\ n \in f.ibm /\ Fine(f, R, {}) /\ made = write_inode(it, n, ino) /\ g = Now(made)
        /\ a = dir_add_entry(made, d.ino[dir], n, nm)
    BY <1>2, <1>4 DEF Took
  <2> HIDE DEF n, it, f, g
  <2>2. Holds(Sound, R, {}) /\ Holds(Sound, R \cup {n}, {})
    BY <1>0
  <2>3. /\ made \in Traces(Sound) /\ Now(made) = With(f, n, ino) /\ SameNames(f, Now(made), R)
        /\ Fine(Now(made), R, {}) /\ Fine(Now(made), R \cup {n}, {})
        /\ Naming(Now(made), R \cup {n}, {}, n) = {}
    BY ONLY NewFileInode(ino), <2>1, <2>2, FileLaid
  <2>4. /\ dir \in R /\ dir # n /\ g.ino[n] = ino /\ g.ino[dir] = d.ino[dir]
        /\ dir \in DirsOf(g, R) /\ ino.mode # "dir" /\ ino.links = 1
    <3>1. /\ dir \in R /\ d.ino[dir].mode = "dir" /\ R \subseteq Inodes /\ f \in Image
          /\ ino \in Ino /\ ino.mode # "dir" /\ ino.links = 1
      BY <2>1, FineIs DEF DirsOf, NewFileInode
    <3> QED
      BY <2>1, <2>3, <3>1, WithFields DEF DirsOf
  <2>5. /\ a = dir_add_entry(made, g.ino[dir], n, nm) /\ n \notin R
        /\ Fine(g, R, {}) /\ Fine(g, R \cup {n}, {}) /\ Naming(g, R \cup {n}, {}, n) = {}
        /\ g.ino[n].mode # "dir" /\ g.ino[n].links = 1
    BY <2>1, <2>3, <2>4
  <2>6. /\ a.ok \in BOOLEAN /\ a.t \in Traces(Sound)
        /\ a.ok => write_inode(a.t, dir, a.ino) \in Traces(Sound)
        /\ ~a.ok => Fine(Now(a.t), R, {})
    BY ONLY nm \in Names, <2>1, <2>2, <2>3, <2>4, <2>5, FileEntered
  <2>7. ASSUME ~a.ok PROVE free_inode(a.t, n, FALSE) \in Traces(Sound)
    <3> DEFINE h == Now(a.t)
               at == a.t
               u == free_inode(at, n, FALSE)
    <3>1. at \in Traces(Sound) /\ h = Now(at) /\ Fine(h, R, {}) /\ n \notin R
      BY <2>1, <2>6, <2>7
    <3> HIDE DEF h, at
    <3>2. u \in Traces(Sound)
      BY ONLY <2>2, <3>1, InodeReleased
    <3> QED
      BY <3>2 DEF at
  <2> QED
    BY <1>4, <2>6, <2>7 DEF n
<1> QED
  BY <1>3, <1>4

LEMMA CreateFileSound ==
    ASSUME NEW d, NEW R, Fine(d, R, {}), NEW dir \in DirsOf(d, R), NEW nm \in Names
    PROVE  ext2_create(<<d>>, dir, nm, FALSE) \in Traces(Sound)
<1> DEFINE t == <<d>>
           i == alloc_inode(t, FALSE)
           new == NewIno("reg", 1)
           made == write_inode(i.t, i.n, new)
           a == dir_add_entry(made, d.ino[dir], i.n, nm)
           u == ext2_create(t, dir, nm, FALSE)
<1>1. Now(t) = d
  BY TraceOf
<1>2. u = IF i.n = 0 THEN t
          ELSE IF ~a.ok THEN free_inode(a.t, i.n, FALSE) ELSE write_inode(a.t, dir, a.ino)
  BY <1>1 DEF ext2_create, CreateUndone, Parented
<1>3. NewFileInode(new)
  <2>1. /\ new \in Ino /\ new.mode = "reg" /\ new.links = 1 /\ new.ptr[NDIR] = 0
        /\ \A k \in 0 .. NDIR : new.ptr[k] = 0
    BY NewInoIs, Sizes
  <2> QED
    BY <2>1 DEF NewFileInode
<1>4. /\ t = <<d>> /\ i = alloc_inode(t, FALSE) /\ made = write_inode(i.t, i.n, new)
      /\ a = dir_add_entry(made, d.ino[dir], i.n, nm)
  OBVIOUS
<1> HIDE DEF t, i, new, made, a, u
<1>5. /\ i.n = 0 => t \in Traces(Sound)
      /\ i.n # 0 /\ ~a.ok => free_inode(a.t, i.n, FALSE) \in Traces(Sound)
      /\ i.n # 0 /\ a.ok => write_inode(a.t, dir, a.ino) \in Traces(Sound)
  BY ONLY Fine(d, R, {}), dir \in DirsOf(d, R), nm \in Names, <1>3, <1>4, FileMade, ZenonT(30)
<1>6. u \in Traces(Sound)
  BY <1>2, <1>5
<1> QED
  BY <1>6 DEF u, t

\* The target of a link is text: read as block numbers it names no block.
LEMMA SymlinkSound ==
    ASSUME NEW d, NEW R, Fine(d, R, {}), NEW dir \in DirsOf(d, R), NEW nm \in Names,
           NEW target \in Targets, Word[target] \notin Blocks
    PROVE  ext2_symlink(<<d>>, dir, nm, target) \in Traces(Sound)
<1> DEFINE t == <<d>>
           i == alloc_inode(t, FALSE)
           new == [NewIno("lnk", 1) EXCEPT !.size = 1, !.ptr[0] = Word[target]]
           made == write_inode(i.t, i.n, new)
           a == dir_add_entry(made, d.ino[dir], i.n, nm)
           u == ext2_symlink(t, dir, nm, target)
<1>1. Now(t) = d
  BY TraceOf
<1>2. u = IF i.n = 0 THEN t
          ELSE IF ~a.ok THEN free_inode(a.t, i.n, FALSE) ELSE write_inode(a.t, dir, a.ino)
  BY <1>1 DEF ext2_symlink
<1>3. NewFileInode(new)
  <2> DEFINE old == NewIno("lnk", 1)
  <2>1. /\ old \in Ino /\ old.mode = "lnk" /\ old.links = 1 /\ old.ptr = Holes
        /\ Holes \in [0 .. NDIR -> Nat] /\ \A k \in 0 .. NDIR : Holes[k] = 0
    BY NewInoIs
  <2>2. Word[target] \in Nat /\ NDIR # 0 /\ NDIR \in 0 .. NDIR /\ 0 \in 0 .. NDIR
    BY Ext2Assumption
  <2> HIDE DEF old
  <2>3. new = [old EXCEPT !.size = 1, !.ptr[0] = Word[target]]
    BY DEF old
  <2> HIDE DEF new
  <2>4. new.mode = "lnk" /\ new.links = 1 /\ new.ptr = [Holes EXCEPT ![0] = Word[target]]
    BY <2>1, <2>3 DEF Ino
  <2>5. new \in Ino
    BY <2>1, <2>2, <2>3 DEF Ino
  <2>6. new.ptr[NDIR] = 0 /\ \A k \in 0 .. NDIR : new.ptr[k] \in Nat \ Blocks
    BY <2>1, <2>2, <2>4, Sizes
  <2> QED
    BY <2>4, <2>5, <2>6 DEF NewFileInode
<1>4. /\ t = <<d>> /\ i = alloc_inode(t, FALSE) /\ made = write_inode(i.t, i.n, new)
      /\ a = dir_add_entry(made, d.ino[dir], i.n, nm)
  OBVIOUS
<1> HIDE DEF t, i, new, made, a, u
<1>5. /\ i.n = 0 => t \in Traces(Sound)
      /\ i.n # 0 /\ ~a.ok => free_inode(a.t, i.n, FALSE) \in Traces(Sound)
      /\ i.n # 0 /\ a.ok => write_inode(a.t, dir, a.ino) \in Traces(Sound)
  BY ONLY Fine(d, R, {}), dir \in DirsOf(d, R), nm \in Names, <1>3, <1>4, FileMade, ZenonT(30)
<1>6. u \in Traces(Sound)
  BY <1>2, <1>5
<1> QED
  BY <1>6 DEF u, t

\* The inode of a new directory, in block b.
NewDirInode(ino, b) ==
    /\ ino \in Ino /\ ino.mode = "dir" /\ ino.size = 1
    /\ \A k \in 0 .. NDIR : ino.ptr[k] = IF k = 0 THEN b ELSE 0

\* A new directory n counts in image g as well as not, and names itself alone.
LaidOut(g, R, n, ino) ==
    /\ g.ino[n] = ino /\ Fine(g, R, {}) /\ Fine(g, R \cup {n}, {})
    /\ \A q \in Naming(g, R \cup {n}, {}, n) : q[1] = n

\* A directory is laid out in an inode and a block that nobody has.
LEMMA DirLaid ==
    ASSUME NEW G, NEW R, Holds(G, R, {}), NEW new \in Inodes \ R, NEW t \in Traces(G), NEW d, d = Now(t),
           Fine(d, R, {}), new \in d.ibm, NEW b \in Blocks, b \in d.bbm, Unowned(d, R, b),
           NEW dir \in DirsOf(d, R), NEW ino, NewDirInode(ino, b),
           NEW u, u = write_inode(eb_write(t, b, DirBlk(Dots(new, dir), Unwritten)), new, ino)
    PROVE  /\ u \in Traces(G) /\ LaidOut(Now(u), R, new, ino)
           /\ \A o \in R : Now(u).ino[o] = d.ino[o]
<1> DEFINE v == DirBlk(Dots(new, dir), Unwritten)
<1>1. d \in Image /\ R \subseteq d.ibm /\ dir \in R /\ d.ino[dir].mode = "dir" /\ R \subseteq Inodes
  BY FineIs DEF DirsOf
<1>2. v \in Blk
  <2>1. Dots(new, dir) \in Entries
    BY <1>1, DotsTyped
  <2> QED
    BY <2>1, BlkKinds, EntriesAre
<1> HIDE DEF v
<1>3. PICK f \in Image : /\ eb_write(t, b, v) = Append(t, f)
                         /\ f.ino = d.ino /\ f.ibm = d.ibm /\ f.bbm = d.bbm /\ f.blk[b] = v
                         /\ \A c \in Blocks \ {b} : f.blk[c] = d.blk[c]
  BY <1>1, <1>2, WriteBlock
<1>4. R \subseteq f.ibm /\ d.bbm \subseteq f.bbm /\ \A o \in R : f.ino[o] = d.ino[o]
  BY <1>1, <1>3
<1>5. Fine(f, R, {}) /\ Unowned(f, R, b)
  BY <1>3, <1>4, FreshWritten
<1>6. ino \in Ino /\ ino.mode = "dir" /\ ino.size = 1 /\ \A k \in 0 .. NDIR : ino.ptr[k] = IF k = 0 THEN b ELSE 0
  BY DEF NewDirInode
<1> DEFINE g == With(f, new, ino)
<1>7. /\ g \in Image /\ g.ino[new] = ino /\ g.ibm = d.ibm /\ g.bbm = d.bbm /\ g.blk = f.blk
      /\ \A o \in R : g.ino[o] = d.ino[o]
  BY <1>1, <1>3, <1>6, WithFields
<1>8. u = Append(Append(t, f), g)
  <2>1. f \in G
    BY <1>5 DEF Holds
  <2>2. Now(Append(t, f)) = f
    BY <2>1, Appended
  <2> QED
    BY <1>3, <2>2 DEF v, write_inode, With
<1> HIDE DEF g
<1>9. Fine(g, R, {}) /\ Unowned(g, R, b)
  <2>1. R \subseteq g.ibm /\ f.bbm \subseteq g.bbm /\ (\A o \in R : g.ino[o] = f.ino[o])
        /\ \A c \in Blocks \ {b} : g.blk[c] = f.blk[c]
    BY <1>1, <1>3, <1>7
  <2> QED
    BY <1>5, <1>7, <2>1, FreshWritten
<1>10. ASSUME NEW k \in Slots PROVE Ptr(g, g.ino[new], k) = IF k = 0 THEN b ELSE 0
  <2>1. CASE k <= NDIR
    BY <2>1, <1>6, <1>7, SlotFacts DEF Ptr
  <2>2. CASE ~(k <= NDIR)
    BY <2>2, <1>6, <1>7, Sizes DEF Ptr, ptr_get
  <2> QED
    BY <2>1, <2>2
<1>11. Fine(g, R \cup {new}, {}) /\ \A q \in Naming(g, R \cup {new}, {}, new) : q[1] = new
  <2>1. /\ new \in g.ibm /\ new \notin R /\ g.ino[dir].mode = "dir" /\ g.ino[new].mode = "dir"
        /\ g.ino[new].size = 1 /\ b \in g.bbm /\ g.blk[b] = DirBlk(Dots(new, dir), Unwritten)
    BY <1>1, <1>3, <1>6, <1>7 DEF v
  <2>2. FirstBlock(g, R, new, dir, b)
    BY <1>1, <1>9, <1>10, <2>1 DEF FirstBlock
  <2> QED
    BY <1>9, <2>2, NewDir
<1>12. f \in G /\ g \in G
  BY <1>5, <1>9 DEF Holds
<1>13. u \in Traces(G) /\ Now(u) = g
  BY <1>8, <1>12, Appended
<1> QED
  BY <1>7, <1>9, <1>11, <1>13 DEF LaidOut

\* Either directory dir takes the new directory, or that can be given back.
Settled(G, R, new, dir, ino, a) ==
    /\ a.ok \in BOOLEAN /\ a.t \in Traces(G)
    /\ a.ok => write_inode(a.t, dir, More(a.ino)) \in Traces(G)
    /\ ~a.ok => /\ Fine(Now(a.t), R, {}) /\ Fine(Now(a.t), R \cup {new}, {})
                /\ Now(a.t).ino[new] = ino

\* A new directory that counts already gets its name, or is given back.
LEMMA DirEntered ==
    ASSUME NEW G, NEW R, NEW new, Holds(G, R \cup {new}, {}),
           NEW t \in Traces(G), NEW d, d = Now(t), NEW ino, ino.mode = "dir", LaidOut(d, R, new, ino), new \notin R,
           NEW dir \in DirsOf(d, R), NEW nm \in Names,
           NEW a, a = dir_add_entry(t, d.ino[dir], new, nm)
    PROVE  Settled(G, R, new, dir, ino, a)
<1> DEFINE Q == R \cup {new}
           v == [ino |-> new, name |-> nm]
           e == With(Now(a.t), dir, a.ino)
<1>0. /\ d.ino[new] = ino /\ Fine(d, R, {}) /\ Fine(d, Q, {})
      /\ \A q \in Naming(d, Q, {}, new) : q[1] = new
  BY DEF LaidOut
<1>1. d \in Image /\ new \in Q /\ Q \subseteq Inodes /\ dir \in DirsOf(d, Q) /\ dir # new /\ dir \in R
      /\ new # ROOT
  BY <1>0, FineIs DEF DirsOf
<1>2. /\ a.ok \in BOOLEAN
      /\ a.ok => Added(G, Q, {}, t, dir, v, a)
      /\ ~a.ok => NotAdded(G, Q, {}, t, a)
  BY <1>0, <1>1, DirAddEntry
<1>3. ASSUME a.ok PROVE a.t \in Traces(G) /\ write_inode(a.t, dir, More(a.ino)) \in Traces(G)
  <2>1. PICK p \in AllPlaces : Fine(e, Q, {} \cup {<<dir, p>>}) /\ Entered(d, e, Q, <<dir, p>>, v)
    BY <1>2, <1>3 DEF Added
  <2>2. /\ Now(a.t).ino = d.ino /\ a.ino \in Ino /\ a.ino.mode = "dir"
        /\ Now(a.t) \in Image /\ a.t \in Traces(G \cup {e})
    BY <1>2, <1>3 DEF Added
  <2>3. e.ino[new] = ino /\ e.ino[dir] = a.ino
    BY <1>0, <1>1, <2>2, WithFields
  <2> DEFINE q == <<dir, p>>
             h == With(e, dir, More(a.ino))
  <2>4. h = With(Now(a.t), dir, More(a.ino))
    <3>1. e.ino = [Now(a.t).ino EXCEPT ![dir] = a.ino] /\ Now(a.t).ino \in [Inodes -> Ino]
      BY <2>2, ImageFields DEF Image, With
    <3>2. [e.ino EXCEPT ![dir] = More(a.ino)] = [Now(a.t).ino EXCEPT ![dir] = More(a.ino)]
      BY <1>1, <3>1
    <3>3. [e EXCEPT !.ino = [e.ino EXCEPT ![dir] = More(a.ino)]]
            = [Now(a.t) EXCEPT !.ino = [e.ino EXCEPT ![dir] = More(a.ino)]]
      BY <2>2 DEF Image, With
    <3> QED
      BY <3>2, <3>3 DEF With
  <2> HIDE DEF e, h
  <2>5. Entry(e, q[1], q[2]) = v
    BY <2>1 DEF Entered
  <2>6. Entry(e, q[1], q[2]).ino = new
    BY <2>5
  <2>7. Fine(e, Q, {} \cup {q})
    BY <2>1
  <2> HIDE DEF q, v
  <2>8. Fine(e, Q, {})
    BY <1>1, <2>3, <2>6, <2>7, EntryCounts
  <2>9. Fine(h, Q, {})
    <3>1. /\ More(a.ino) \in Ino /\ More(a.ino).mode = "dir" /\ More(a.ino).size = a.ino.size
          /\ More(a.ino).ptr = a.ino.ptr
      BY <2>2 DEF More, Ino
    <3>2. \A k \in Slots : Ptr(e, More(a.ino), k) = Ptr(e, e.ino[dir], k)
      BY <2>3, <3>1 DEF Ptr
    <3>3. dir \in Q
      BY <1>1
    <3> HIDE DEF Q
    <3> QED
      BY <2>2, <2>3, <2>8, <3>1, <3>2, <3>3, InodeSet DEF h
  <2>10. e \in G /\ h \in G
    BY <2>8, <2>9 DEF Holds
  <2>11. a.t \in Traces(G)
    <3>1. G \cup {e} = G
      BY <2>10
    <3> QED
      BY <2>2, <3>1
  <2>12. write_inode(a.t, dir, More(a.ino)) = Append(a.t, h)
    BY <2>4 DEF write_inode, With
  <2> QED
    BY <2>10, <2>11, <2>12, Appended
<1>4. ASSUME ~a.ok
      PROVE  /\ a.t \in Traces(G) /\ Fine(Now(a.t), R, {}) /\ Fine(Now(a.t), Q, {})
             /\ Now(a.t).ino[new] = ino
  <2>1. /\ a.t \in Traces(G) /\ Fine(Now(a.t), Q, {}) /\ SameNames(d, Now(a.t), Q)
        /\ Now(a.t).ino = d.ino
    BY <1>2, <1>4 DEF NotAdded
  <2>2. \A q \in Naming(Now(a.t), Q, {}, new) : q[1] = new
    BY <1>0, <2>1, NamesKept
  <2>3. Q \ {new} = R
    OBVIOUS
  <2> HIDE DEF Q
  <2>4. Fine(Now(a.t), Q \ {new}, {})
    BY <1>1, <2>1, <2>2, FewerInodes
  <2> QED
    BY <1>0, <2>1, <2>3, <2>4
<1> QED
  BY <1>2, <1>3, <1>4 DEF Settled

\* The first block of a new directory.
LEMMA FirstBlockTaken ==
    ASSUME NEW t, NEW k, k = bmap_alloc(t, NewIno("dir", 2), 0), NEW w, w = alloc_zeroed_block(t)
    PROVE  /\ k.t = w.t /\ k.b = w.b
           /\ w.b \in Blocks => NewDirInode([k.ino EXCEPT !.size = 1], w.b)
<1> DEFINE new == NewIno("dir", 2)
           more == [new EXCEPT !.ptr[0] = w.b, !.blocks = @ + 1]
<1>1. /\ new \in Ino /\ new.mode = "dir" /\ new.ptr = Holes /\ new.blocks = 0
      /\ Holes \in [0 .. NDIR -> Nat] /\ \A j \in 0 .. NDIR : Holes[j] = 0
  BY NewInoIs
<1>2. 0 < NDIR /\ 0 \in 0 .. NDIR /\ 0 \notin Blocks /\ Blocks \subseteq Nat
  BY Sizes
<1> HIDE DEF new
<1>3. k = [t |-> w.t, b |-> w.b, ino |-> IF w.b = 0 THEN new ELSE more]
  <2>1. k = Direct(t, new, 0)
    BY <1>2 DEF bmap_alloc, new
  <2>2. new.ptr[0] = 0
    BY <1>1, <1>2
  <2> QED
    BY <2>1, <2>2 DEF Direct
<1>4. ASSUME w.b \in Blocks PROVE NewDirInode([k.ino EXCEPT !.size = 1], w.b)
  <2> DEFINE ino == [more EXCEPT !.size = 1]
  <2>1. [k.ino EXCEPT !.size = 1] = ino
    <3>1. w.b # 0
      BY <1>2, <1>4
    <3> HIDE DEF more
    <3>2. k.ino = more
      BY <3>1, <1>3
    <3> QED
      BY <3>2
  <2>2. w.b \in Nat
    BY <1>2, <1>4
  <2>3. /\ more.mode = "dir" /\ more.ptr = [Holes EXCEPT ![0] = w.b] /\ more \in Ino
    <3>1. [new.ptr EXCEPT ![0] = w.b] \in [0 .. NDIR -> Nat] /\ new.blocks + 1 \in Int
      BY <1>1, <1>2, <2>2
    <3>2. more.mode = "dir" /\ more.ptr = [Holes EXCEPT ![0] = w.b]
      BY <1>1 DEF Ino
    <3>3. more \in Ino
      BY <1>1, <3>1 DEF Ino
    <3> QED
      BY <3>2, <3>3
  <2> HIDE DEF more
  <2>4. ino \in Ino /\ ino.mode = "dir" /\ ino.size = 1 /\ ino.ptr = [Holes EXCEPT ![0] = w.b]
    BY <2>3 DEF Ino
  <2> HIDE DEF ino
  <2>5. \A j \in 0 .. NDIR : ino.ptr[j] = IF j = 0 THEN w.b ELSE 0
    BY <1>1, <2>4
  <2> QED
    BY <2>1, <2>4, <2>5 DEF NewDirInode
<1> QED
  BY <1>3, <1>4

LEMMA MkdirSound ==
    ASSUME NEW d, NEW R, Fine(d, R, {}), NEW dir \in DirsOf(d, R), NEW nm \in Names
    PROVE  ext2_create(<<d>>, dir, nm, TRUE) \in Traces(Sound)
<1> DEFINE t == <<d>>
           i == alloc_inode(t, TRUE)
           k == bmap_alloc(i.t, NewIno("dir", 2), 0)
           ino == [k.ino EXCEPT !.size = 1]
           made == write_inode(eb_write(k.t, k.b, DirBlk(Dots(i.n, dir), Unwritten)), i.n, ino)
           a == dir_add_entry(made, d.ino[dir], i.n, nm)
           u == ext2_create(t, dir, nm, TRUE)
<1>0. \A Q : Holds(Sound, Q, {})
  BY SoundHolds
<1>1. t \in Traces(Sound) /\ Now(t) = d
  BY <1>0, TraceOf DEF Holds
<1>2. u = IF i.n = 0 THEN t
          ELSE IF k.b = 0 THEN free_inode(k.t, i.n, TRUE)
          ELSE IF ~a.ok THEN free_inode(free_inode_blocks(a.t, ino), i.n, TRUE)
          ELSE write_inode(a.t, dir, More(a.ino))
  BY <1>1 DEF ext2_create, CreateUndone, Parented
<1> DEFINE n == i.n
           it == i.t
           f == Now(it)
           w == alloc_zeroed_block(it)
           b == w.b
           wt == w.t
           g == Now(wt)
<1>3. t \in Traces(Sound) /\ d = Now(t) /\ i = alloc_inode(t, TRUE) /\ Holds(Sound, R, {})
  BY <1>0, <1>1
<1> HIDE DEF t, u
<1>4. ASSUME i.n # 0 PROVE Took(Sound, R, {}, d, i.t, i.n)
  <2> HIDE DEF i
  <2> QED
    BY ONLY <1>3, <1>4, Fine(d, R, {}), InodeTaken
<1>5. k.t = wt /\ k.b = b /\ (b \in Blocks => NewDirInode(ino, b))
  <2>1. w = alloc_zeroed_block(it) /\ k = bmap_alloc(it, NewIno("dir", 2), 0)
    BY DEF it
  <2> HIDE DEF w, k
  <2> QED
    BY ONLY <2>1, FirstBlockTaken, ZenonT(60)
<1>6. a = dir_add_entry(made, d.ino[dir], n, nm)
      /\ made = write_inode(eb_write(wt, b, DirBlk(Dots(n, dir), Unwritten)), n, ino)
  BY <1>5
<1>7. u = IF n = 0 THEN t
          ELSE IF b = 0 THEN free_inode(wt, n, TRUE)
          ELSE IF ~a.ok THEN free_inode(free_inode_blocks(a.t, ino), n, TRUE)
          ELSE write_inode(a.t, dir, More(a.ino))
  <2> HIDE DEF i, k, a, ino, made, b, wt
  <2> QED
    BY <1>2, <1>5
<1>8. f = Now(it) /\ g = Now(wt) /\ w = alloc_zeroed_block(it)
  BY DEF f, g, w
<1> HIDE DEF a, made, k, ino
<1>9. CASE n = 0
  BY <1>3, <1>7, <1>9 DEF u, t
<1>10. CASE n # 0
  <2>1. /\ n \in Inodes \ R /\ n \notin R /\ n # ROOT /\ it \in Traces(Sound)
        /\ f.ino = d.ino /\ n \in f.ibm /\ Fine(f, R, {})
    BY <1>4, <1>8, <1>10 DEF Took
  <2>2. \/ b = 0 /\ wt = it
        \/ /\ b \in Blocks \ f.bbm /\ wt \in Traces(Sound)
           /\ g \in Image /\ Fine(g, R, {})
           /\ g.ino = f.ino /\ g.ibm = f.ibm /\ g.bbm = f.bbm \cup {b}
           /\ \A c \in Blocks \ {b} : g.blk[c] = f.blk[c]
    <3> HIDE DEF it, w, f
    <3> QED
      BY <1>3, <1>8, <2>1, AllocZeroed DEF b, wt, g
  <2> HIDE DEF n, it, f, w, b, wt, g, i
  <2>3. \A s, o, x : s \in Traces(Sound) /\ x = Now(s) /\ Fine(x, R, {}) /\ o \notin R
                     => free_inode(s, o, TRUE) \in Traces(Sound)
    BY <1>3, InodeReleased
  <2>4. CASE b = 0
    <3>1. wt = it
      BY <2>2, <2>4, Sizes
    <3>2. free_inode(it, n, TRUE) \in Traces(Sound)
      BY <1>8, <2>1, <2>3
    <3> QED
      BY <1>7, <1>10, <2>4, <3>1, <3>2 DEF u, t
  <2>5. CASE b # 0
    <3>1. /\ b \in Blocks /\ b \notin f.bbm /\ wt \in Traces(Sound) /\ g \in Image /\ Fine(g, R, {})
          /\ g.ino = d.ino /\ n \in g.ibm /\ b \in g.bbm
          /\ NewDirInode(ino, b)
      BY <1>5, <2>1, <2>2, <2>5
    <3>2. Unowned(g, R, b)
      <4>1. R \subseteq g.ibm /\ (\A o \in R : g.ino[o] = f.ino[o]) /\ f.bbm \subseteq g.bbm
            /\ \A c \in Blocks \ {b} : g.blk[c] = f.blk[c]
        BY <2>1, <2>2, <2>5, <3>1, FineIs
      <4>2. Unowned(f, R, b)
        BY <2>1, <3>1, FreeIsUnowned
      <4> QED
        BY <2>1, <3>1, <4>1, <4>2, FreshWritten
    <3>3. dir \in DirsOf(g, R) /\ Holds(Sound, R, {}) /\ Holds(Sound, R \cup {n}, {})
      BY <1>0, <3>1 DEF DirsOf
    <3> DEFINE h == Now(made)
    <3>4. /\ made \in Traces(Sound) /\ LaidOut(h, R, n, ino)
          /\ \A o \in R : h.ino[o] = g.ino[o]
      BY ONLY <1>6, <1>8, <2>1, <3>1, <3>2, <3>3, DirLaid
    <3>5. h = Now(made)
      OBVIOUS
    <3> HIDE DEF h
    <3>6. dir \in DirsOf(h, R) /\ a = dir_add_entry(made, h.ino[dir], n, nm) /\ ino.mode = "dir"
      BY <1>6, <3>1, <3>3, <3>4 DEF DirsOf, NewDirInode
    <3>7. Settled(Sound, R, n, dir, ino, a)
      <4>1. n \notin R /\ made \in Traces(Sound) /\ LaidOut(h, R, n, ino) /\ Holds(Sound, R \cup {n}, {})
        BY <2>1, <3>3, <3>4
      <4> QED
        BY ONLY nm \in Names, <4>1, <3>5, <3>6, DirEntered
    <3>8. CASE a.ok
      BY <1>7, <1>10, <2>5, <3>7, <3>8 DEF u, t, Settled
    <3>9. CASE ~a.ok
      <4> DEFINE at == a.t
                 x == Now(at)
                 y == free_inode_blocks(at, ino)
      <4>1. /\ at \in Traces(Sound) /\ x = Now(at) /\ Fine(x, R, {}) /\ Fine(x, R \cup {n}, {})
            /\ \A j \in Slots : Ptr(x, ino, j) = Ptr(x, x.ino[n], j)
        BY <3>7, <3>9 DEF Settled
      <4>2. y = free_inode_blocks(at, ino)
        OBVIOUS
      <4> HIDE DEF at, x, y
      <4>3. y \in Traces(Sound) /\ Fine(Now(y), R, {})
        BY ONLY <2>1, <3>3, <4>1, <4>2, BlocksReleased
      <4>4. free_inode(y, n, TRUE) \in Traces(Sound)
        BY <2>1, <2>3, <4>3
      <4> QED
        BY <1>7, <1>10, <2>5, <3>9, <4>4 DEF u, t, y, at
    <3>10. a.ok \in BOOLEAN
      BY <3>7 DEF Settled
    <3> QED
      BY <3>8, <3>9, <3>10
  <2> QED
    BY <2>4, <2>5
<1> QED
  BY <1>9, <1>10

\* A data block of the copy is written.
LEMMA DataWritten ==
    ASSUME NEW d, NEW R, NEW X, NEW n, NEW ino, Pending(d, R, X, n, ino), ino.mode = "reg",
           NEW s \in Slots, s # NDIR, NEW b \in Blocks, Ptr(d, ino, s) = b,
           NEW e \in Image, e.ino = d.ino, e.ibm = d.ibm, e.bbm = d.bbm,
           \A c \in Blocks \ {b} : e.blk[c] = d.blk[c]
    PROVE  Pending(e, R, X, n, ino)
<1> DEFINE w == With(d, n, ino)
           g == With(e, n, ino)
<1>1. /\ d \in Image /\ w \in Image /\ n \in R /\ n \in Inodes /\ ino \in Ino /\ R \subseteq Inodes
      /\ R \subseteq d.ibm
      /\ w.bbm = d.bbm /\ w.ibm = d.ibm /\ w.blk = d.blk /\ w.ino[n] = ino
      /\ \A o \in R : o # n => w.ino[o] = d.ino[o]
      /\ \A i, k : Ptr(w, i, k) = Ptr(d, i, k)
  BY PendingFields
<1>2. /\ Fine(d, R, X) /\ Fine(w, R, X) /\ d.ino[n].mode = "reg"
  BY DEF Pending
<1>3. /\ g \in Image /\ g.bbm = e.bbm /\ g.ibm = e.ibm /\ g.blk = e.blk /\ g.ino[n] = ino
      /\ \A o \in Inodes : o # n => g.ino[o] = e.ino[o]
  BY <1>1, WithFields
<1> HIDE DEF w, g
<1>4. \A o \in R, k \in Slots : Ptr(d, d.ino[o], k) = b => o = n /\ k = s
  BY PendingOwn
<1>5. \A o \in R, k \in Slots : Ptr(w, w.ino[o], k) = b => o = n /\ k = s
  BY <1>1, <1>2, FineIs
<1>6. \A x, o : Fine(x, R, X) /\ o \in DirsOf(x, R) => \A i \in 0 .. x.ino[o].size - 1 : SlotOf(i) \in Slots
  BY DirSlot
<1>7. Fine(e, R, X)
  <2>1. \A o \in R : Ptr(d, d.ino[o], NDIR) # b
    BY <1>4, SlotFacts
  <2>2. \A o \in DirsOf(d, R) : \A i \in 0 .. d.ino[o].size - 1 : Ptr(d, d.ino[o], SlotOf(i)) # b
    BY <1>2, <1>4, <1>6 DEF DirsOf
  <2>3. \A o \in R, k \in Slots : Ptr(d, d.ino[o], k) \in Blocks => Ptr(d, d.ino[o], k) \in e.bbm
    BY <1>2, FineIs
  <2> QED
    BY <1>1, <1>2, <2>1, <2>2, <2>3, BlockWritten
<1>8. Fine(g, R, X)
  <2>1. \A o \in R : Ptr(w, w.ino[o], NDIR) # b
    BY <1>5, SlotFacts
  <2>2. \A o \in DirsOf(w, R) : \A i \in 0 .. w.ino[o].size - 1 : Ptr(w, w.ino[o], SlotOf(i)) # b
    <3>1. w.ino[n].mode # "dir"
      BY <1>1
    <3> QED
      BY <1>2, <1>5, <1>6, <3>1 DEF DirsOf
  <2>3. \A o \in R, k \in Slots : Ptr(w, w.ino[o], k) \in Blocks => Ptr(w, w.ino[o], k) \in g.bbm
    <3>1. g.bbm = w.bbm
      BY <1>1, <1>3
    <3> QED
      BY <1>2, <3>1, FineIs
  <2>4. R \subseteq g.ibm /\ (\A o \in R : g.ino[o] = w.ino[o]) /\ \A c \in Blocks \ {b} : g.blk[c] = w.blk[c]
    BY <1>1, <1>3
  <2> QED
    BY <1>2, <1>3, <2>1, <2>2, <2>3, <2>4, BlockWritten
<1> QED
  BY <1>1, <1>2, <1>7, <1>8 DEF Pending, g

\* What a write in progress has: the trace, its copy of the inode, the blocks done.
Writing(R, n) ==
    {w \in [t : Traces(Sound), ino : Ino, done : Nat] : Pending(Now(w.t), R, {}, n, w.ino) /\ w.ino.mode = "reg"}
WriteStep(n, first, i, w) ==
    LET a == bmap_alloc(w.t, w.ino, first + i - 1)
    IN IF w.done < i - 1 THEN w
       ELSE IF a.b = 0 THEN [w EXCEPT !.t = a.t, !.ino = a.ino]
       ELSE [t |-> eb_write(a.t, a.b, DataBlk(<<n, n>>)), ino |-> a.ino, done |-> i]

LEMMA WriteStepKeeps ==
    ASSUME NEW R, NEW n, NEW first \in Nat, NEW i \in Nat \ {0}, NEW w \in Writing(R, n)
    PROVE  WriteStep(n, first, i, w) \in Writing(R, n)
<1> DEFINE j == first + i - 1
           a == bmap_alloc(w.t, w.ino, j)
           f == Now(a.t)
           b == a.b
           u == WriteStep(n, first, i, w)
<1>1. /\ w \in [t : Traces(Sound), ino : Ino, done : Nat] /\ w.t \in Traces(Sound)
      /\ Pending(Now(w.t), R, {}, n, w.ino) /\ w.ino.mode = "reg" /\ j \in Nat /\ Holds(Sound, R, {})
  BY SoundHolds DEF Writing
<1>2. u = IF w.done < i - 1 THEN w
          ELSE IF b = 0 THEN [w EXCEPT !.t = a.t, !.ino = a.ino]
          ELSE [t |-> eb_write(a.t, b, DataBlk(<<n, n>>)), ino |-> a.ino, done |-> i]
  BY DEF WriteStep
<1> SUFFICES u \in Writing(R, n)
  OBVIOUS
<1> HIDE DEF u
<1>3. /\ Kept(Sound, R, {}, n, w.t, a) /\ b \in Blocks \cup {0}
      /\ b # 0 => j < NDIR + PTRS /\ b = Ptr(f, a.ino, SlotOf(j))
  <2> HIDE DEF j
  <2> QED
    BY <1>1, BmapAllocKeeps
<1>4. a.t \in Traces(Sound) /\ Pending(f, R, {}, n, a.ino) /\ f.ino = Now(w.t).ino
  BY <1>3 DEF Kept
<1>5. a.ino \in Ino /\ a.ino.mode = "reg" /\ f \in Image /\ n \in Inodes
  <2>1. a.ino.mode = f.ino[n].mode /\ w.ino.mode = Now(w.t).ino[n].mode
    BY <1>1, <1>4 DEF Pending
  <2> QED
    BY <1>1, <1>4, <2>1, PendingFields
<1> HIDE DEF a, f, b, j
<1>6. CASE w.done < i - 1
  BY <1>2, <1>6
<1>7. CASE ~(w.done < i - 1) /\ b = 0
  <2>1. u = [w EXCEPT !.t = a.t, !.ino = a.ino]
    BY <1>2, <1>7
  <2>2. u.t = a.t /\ u.ino = a.ino /\ u \in [t : Traces(Sound), ino : Ino, done : Nat]
    BY <1>1, <1>4, <1>5, <2>1
  <2> QED
    BY <1>4, <1>5, <2>2 DEF Writing, f
<1>8. CASE ~(w.done < i - 1) /\ b # 0
  <2>1. u = [t |-> eb_write(a.t, b, DataBlk(<<n, n>>)), ino |-> a.ino, done |-> i]
    BY <1>2, <1>8
  <2>2. b \in Blocks /\ j \in 0 .. NDIR + PTRS - 1 /\ b = Ptr(f, a.ino, SlotOf(j)) /\ f = Now(a.t)
    BY <1>1, <1>3, <1>8, Sizes DEF f
  <2>3. DataBlk(<<n, n>>) \in Blk /\ SlotOf(j) \in Slots /\ SlotOf(j) # NDIR
    <3>1. <<n, n>> \in Sectors
      BY <1>5 DEF Sectors
    <3> QED
      BY <2>2, <3>1, BlkKinds, SlotFacts
  <2>4. PICK g \in Image : /\ eb_write(a.t, b, DataBlk(<<n, n>>)) = Append(a.t, g)
                           /\ g.ino = f.ino /\ g.ibm = f.ibm /\ g.bbm = f.bbm
                           /\ \A c \in Blocks \ {b} : g.blk[c] = f.blk[c]
    <3> DEFINE v == DataBlk(<<n, n>>)
    <3>1. v \in Blk
      BY <2>3
    <3> HIDE DEF v
    <3>2. PICK g \in Image : /\ eb_write(a.t, b, v) = Append(a.t, g)
                             /\ g.ino = f.ino /\ g.ibm = f.ibm /\ g.bbm = f.bbm /\ g.blk[b] = v
                             /\ \A c \in Blocks \ {b} : g.blk[c] = f.blk[c]
      <4>1. f \in Image /\ b \in Blocks /\ f = Now(a.t)
        BY <1>5, <2>2
      <4> QED
        BY ONLY <3>1, <4>1, WriteBlock
    <3> QED
      BY <3>2 DEF v
  <2>5. Pending(g, R, {}, n, a.ino)
    BY <1>4, <1>5, <2>2, <2>3, <2>4, DataWritten
  <2>6. g \in Sound
    BY <1>1, <2>5 DEF Pending, Holds
  <2>7. Append(a.t, g) \in Traces(Sound) /\ Now(Append(a.t, g)) = g
    BY <1>4, <2>6, Appended
  <2>8. u \in [t : Traces(Sound), ino : Ino, done : Nat] /\ u.ino = a.ino /\ u.t = Append(a.t, g)
    BY <1>5, <2>1, <2>4, <2>7
  <2> QED
    BY <1>5, <2>5, <2>7, <2>8 DEF Writing
<1> QED
  BY <1>6, <1>7, <1>8

LEMMA MaxOfTwo ==
    ASSUME NEW x \in Nat, NEW y \in Nat
    PROVE  Max({x, y}) \in Nat
<1>1. \E m \in {x, y} : \A z \in {x, y} : m >= z
  <2>1. CASE x <= y
    BY <2>1
  <2>2. CASE y <= x
    BY <2>2
  <2> QED
    BY <2>1, <2>2
<1>2. Max({x, y}) \in {x, y}
  BY <1>1 DEF Max
<1> QED
  BY <1>2

LEMMA WriteSound ==
    ASSUME NEW d, NEW R, Fine(d, R, {}), NEW n \in R, d.ino[n].mode = "reg",
           NEW first \in Nat, NEW count \in Nat
    PROVE  ext2_write(<<d>>, n, first, count) \in Traces(Sound)
<1> DEFINE t == <<d>>
           A == Writing(R, n)
           x == [t |-> t, ino |-> Now(t).ino[n], done |-> 0]
           g == [p \in Nat \X A |-> IF p[1] = 0 THEN p[2] ELSE WriteStep(n, first, p[1], p[2])]
           upto == CHOOSE f : f = [i \in Nat |-> IF i = 0 THEN x ELSE WriteStep(n, first, i, f[i - 1])]
<1>0. Holds(Sound, R, {})
  BY SoundHolds
<1>1. t \in Traces(Sound) /\ Now(t) = d
  BY <1>0, TraceOf DEF Holds
<1>2. x \in A
  <2>1. Pending(d, R, {}, n, d.ino[n])
    BY PendingSelf
  <2>2. d.ino[n] \in Ino
    BY FineIs
  <2> QED
    BY <1>1, <2>1, <2>2 DEF Writing
<1>3. ASSUME NEW i \in Nat \ {0}, NEW w \in A PROVE WriteStep(n, first, i, w) \in A
  BY WriteStepKeeps
<1> HIDE DEF A, x
<1>4. g \in [Nat \X A -> A] /\ \A i \in Nat \ {0}, w \in A : g[<<i, w>>] = WriteStep(n, first, i, w)
  BY <1>3
<1> HIDE DEF g
<1>5. PICK f : Iterates(f, A, x, g)
  BY <1>2, <1>4, Iteration
<1>6. f \in [Nat -> A] /\ f[0] = x /\ \A i \in Nat : f[i + 1] = WriteStep(n, first, i + 1, f[i])
  <2>1. f \in [Nat -> A] /\ f[0] = x /\ \A i \in Nat : f[i + 1] = g[<<i + 1, f[i]>>]
    BY <1>5 DEF Iterates
  <2>2. \A i \in Nat : i + 1 \in Nat \ {0} /\ f[i] \in A
    BY <2>1
  <2> QED
    BY <1>4, <2>1, <2>2
<1>7. f = [i \in Nat |-> IF i = 0 THEN x ELSE WriteStep(n, first, i, f[i - 1])]
  <2>1. ASSUME NEW i \in Nat, i # 0 PROVE f[i] = WriteStep(n, first, i, f[i - 1])
    <3>1. i - 1 \in Nat /\ (i - 1) + 1 = i
      BY <2>1
    <3> QED
      BY <3>1, <1>6
  <2> QED
    BY <2>1, <1>6
<1>8. upto = [i \in Nat |-> IF i = 0 THEN x ELSE WriteStep(n, first, i, upto[i - 1])]
  BY <1>7
<1> DEFINE w == upto[count]
           ino == [w.ino EXCEPT !.size = Max({@, first + w.done})]
<1>9. ext2_write(t, n, first, count) = write_inode(w.t, n, ino)
  BY DEF ext2_write, WriteStep, x
<1> HIDE DEF upto
<1> DEFINE T == {i \in Nat : upto[i] \in A}
<1>10. T = Nat
  <2>1. 0 \in T
    BY <1>2, <1>8
  <2>2. ASSUME NEW i \in T PROVE i + 1 \in T
    <3>1. i \in Nat /\ i + 1 \in Nat \ {0} /\ (i + 1) - 1 = i
      BY <2>2
    <3>2. upto[i + 1] = WriteStep(n, first, i + 1, upto[i])
      BY <1>8, <3>1
    <3> QED
      BY <1>3, <2>2, <3>1, <3>2
  <2>3. T \in SUBSET Nat
    OBVIOUS
  <2> HIDE DEF T
  <2> QED
    BY <2>1, <2>2, <2>3, NatSetInduction
<1>11. w \in A
  BY <1>10
<1> HIDE DEF w
<1> DEFINE h == Now(w.t)
           z == With(h, n, w.ino)
<1>12. /\ w.t \in Traces(Sound) /\ w.ino \in Ino /\ w.done \in Nat
       /\ Pending(h, R, {}, n, w.ino) /\ w.ino.mode = "reg"
  BY <1>11 DEF A, Writing
<1>13. ino \in Ino /\ ino.mode = "reg" /\ ino.ptr = w.ino.ptr /\ ino.links = w.ino.links
  <2>1. w.ino.size \in Nat /\ first + w.done \in Nat
    BY <1>12 DEF Ino
  <2>2. Max({w.ino.size, first + w.done}) \in Nat
    BY <2>1, MaxOfTwo
  <2> QED
    BY <1>12, <2>2 DEF Ino
<1> HIDE DEF ino
<1> HIDE DEF h
<1>14. /\ h \in Image /\ n \in Inodes /\ z.ino[n] = w.ino /\ Fine(z, R, {})
       /\ z \in Image /\ z = With(h, n, w.ino)
  <2>1. Pending(h, R, {}, n, w.ino) /\ z = With(h, n, w.ino) /\ Fine(z, R, {})
    BY <1>12 DEF Pending
  <2> HIDE DEF z
  <2> QED
    BY ONLY <2>1, PendingFields
<1> HIDE DEF z
<1>15. Fine(With(z, n, ino), R, {})
  <2>1. \A k \in Slots : Ptr(z, ino, k) = Ptr(z, z.ino[n], k)
    BY <1>13, <1>14 DEF Ptr
  <2>2. Cardinality(Naming(z, R, {}, n)) <= z.ino[n].links
    BY <1>12, <1>14 DEF Fine, Covered
  <2> QED
    BY <1>12, <1>13, <1>14, <2>1, <2>2, InodeSet
<1>16. With(z, n, ino) = With(h, n, ino)
  BY <1>14 DEF With, Image
<1>17. write_inode(w.t, n, ino) = Append(w.t, With(h, n, ino))
  BY DEF write_inode, With, h
<1>18. With(h, n, ino) \in Sound
  BY <1>0, <1>15, <1>16 DEF Holds
<1> QED
  <2>1. w.t \in Traces(Sound)
    BY <1>9, <1>12
  <2>2. Append(w.t, With(h, n, ino)) \in Traces(Sound)
    BY ONLY <2>1, <1>18, Appended
  <2> QED
    BY <1>9, <1>12, <1>17, <2>2

\* Entry q of image d, which named gone, is empty in e; gone may count no more.
Unlinked(d, e, R, Q, q, gone) ==
    /\ e \in Image /\ Fine(e, Q, {}) /\ Q \subseteq R /\ R \ {gone} \subseteq Q
    /\ SameOthers(d, e, Q, q) /\ Entry(e, q[1], q[2]) = Vacant
    /\ \A o \in Inodes \ {gone} : e.ino[o] = d.ino[o]
    /\ gone \in Q => e.ino[gone].mode = d.ino[gone].mode

LEMMA FewerIs ==
    ASSUME NEW ino \in Ino, ino.links # 0
    PROVE  /\ Fewer(ino) \in Ino /\ Fewer(ino).mode = ino.mode /\ Fewer(ino).size = ino.size
           /\ Fewer(ino).ptr = ino.ptr /\ Fewer(ino).links = ino.links - 1
           /\ Emptied(Fewer(ino)) \in Ino
<1> DEFINE f == Fewer(ino)
<1>1. ino.links \in Nat /\ ino.links > 0
  BY DEF Ino
<1>2. f \in Ino /\ f.mode = ino.mode /\ f.size = ino.size /\ f.ptr = ino.ptr /\ f.links = ino.links - 1
  BY <1>1 DEF Fewer, Ino
<1> HIDE DEF f
<1>3. Emptied(f) \in Ino
  BY <1>2, NewInoIs DEF Emptied, Ino
<1> QED
  BY <1>2, <1>3 DEF f

\* The last name of an inode went in image c; the inode is emptied and given back.
Nameless(G, R, c, t, gone) ==
    /\ gone \in R /\ gone # ROOT /\ Holds(G, R \ {gone}, {}) /\ t \in Traces(G) /\ c = Now(t)
    /\ Fine(c, R, {}) /\ Naming(c, R, {}, gone) = {} /\ c.ino[gone].links # 0
Released(G, R, c, gone, u) ==
    /\ u \in Traces(G) /\ Fine(Now(u), R \ {gone}, {}) /\ SameNames(c, Now(u), R \ {gone})
    /\ \A o \in Inodes \ {gone} : Now(u).ino[o] = c.ino[o]

LEMMA LastNameGoes ==
    ASSUME NEW G, NEW R, NEW gone, NEW t, NEW c, Nameless(G, R, c, t, gone), NEW ino, ino = Fewer(c.ino[gone]),
           NEW w, NEW u, u = free_inode(write_inode(free_inode_blocks(t, ino), gone, Emptied(ino)), gone, w)
    PROVE  Released(G, R, c, gone, u)
<1> USE DEF Nameless, Released
<1> DEFINE Q == R \ {gone}
           x == free_inode_blocks(t, ino)
           g == Now(x)
           h == With(g, gone, Emptied(ino))
           y == write_inode(x, gone, Emptied(ino))
<1>1. Fine(c, Q, {})
  BY FewerInodes
<1>2. c.ino[gone] \in Ino /\ gone \in Inodes
  BY FineIs
<1>3. Emptied(ino) \in Ino /\ ino.ptr = c.ino[gone].ptr
  BY <1>2, FewerIs
<1>4. gone \notin Q /\ Q \cup {gone} = R
  OBVIOUS
<1>5. \A k \in Slots : Ptr(c, ino, k) = Ptr(c, c.ino[gone], k)
  BY <1>3 DEF Ptr
<1> HIDE DEF Q, x
<1>6. x \in Traces(G) /\ Fine(g, Q, {}) /\ SameNames(c, g, Q) /\ g.ino = c.ino
  BY <1>1, <1>4, <1>5, BlocksReleased DEF Q, x
<1>7. y = Append(x, h)
  BY DEF write_inode, With
<1> HIDE DEF g, y
<1>8. Fine(h, Q, {}) /\ SameNames(g, h, Q)
  BY <1>2, <1>3, <1>4, <1>6, OutsideWritten
<1>9. \A o \in Inodes : o # gone => h.ino[o] = g.ino[o]
  <2>1. g \in Image
    BY <1>6, FineIs
  <2> QED
    BY <2>1, <1>2, <1>3, WithFields
<1> HIDE DEF h
<1>10. h \in G
  BY <1>8 DEF Holds, Q
<1>11. y \in Traces(G) /\ Now(y) = h
  BY <1>6, <1>7, <1>10, Appended
<1>12. u \in Traces(G) /\ Fine(Now(u), Q, {}) /\ SameNames(h, Now(u), Q) /\ Now(u).ino = h.ino
  <2>1. u = free_inode(y, gone, w) /\ Holds(G, Q, {}) /\ h = Now(y) /\ y \in Traces(G)
        /\ Fine(h, Q, {}) /\ gone \notin Q
    BY <1>4, <1>8, <1>11 DEF y, Q, x
  <2> QED
    BY ONLY <2>1, InodeReleased
<1>13. SameNames(c, Now(u), Q)
  BY <1>6, <1>8, <1>12, SameNamesFacts
<1> QED
  BY <1>6, <1>9, <1>12, <1>13 DEF Q

LEMMA SameOthersMore ==
    ASSUME NEW d, NEW c, NEW e, NEW R, NEW Q \in SUBSET R, NEW q, SameOthers(d, c, R, q), SameNames(c, e, Q)
    PROVE  SameOthers(d, e, Q, q)
  BY DEF SameOthers, SameNames

\* A name goes: of an inode it was not the last name of, or else the inode goes with it.
LEMMA UnlinkKeeps ==
    ASSUME NEW R, NEW G, NEW gone, gone # 0, Holds(G, R, {}), Holds(G, R \ {gone}, {}),
           NEW t \in Traces(G), NEW d, d = Now(t), Fine(d, R, {}), NEW dir \in DirsOf(d, R), NEW nm,
           gone = ext2_lookup(d, dir, nm), d.ino[gone].mode # "dir",
           NEW q, q = <<dir, Min(Named(d, d.ino[dir], nm))>>, NEW u, u = ext2_unlink(t, dir, nm)
    PROVE  u \in Traces(G) /\ \E Q : Unlinked(d, Now(u), R, Q, q, gone)
<1>1. Named(d, d.ino[dir], nm) # {}
  BY LookupIs
<1>2. /\ gone \in R /\ gone # ROOT /\ gone \in Inodes /\ d.ino[gone] \in Ino /\ R \subseteq Inodes
      /\ q \in DirsOf(d, R) \X AllPlaces /\ Entry(d, q[1], q[2]).ino = gone
  <2>1. gone \in R
    BY LookupCounts
  <2>2. gone # ROOT
    BY FineIs DEF DirsOf
  <2>3. q \in DirsOf(d, R) \X AllPlaces /\ Entry(d, q[1], q[2]).ino = gone
    BY <1>1, LookupIs
  <2> QED
    BY <2>1, <2>2, <2>3, FineIs
<1>3. PICK c : dir_unlink_entry(t, d.ino[dir], nm) = Append(t, c) /\ Vacated(d, c, R, {}, dir, nm, q)
  BY <1>1, EntryVacated
<1>4. /\ c \in Image /\ c.ino = d.ino /\ Fine(c, R, {}) /\ SameOthers(d, c, R, q)
      /\ Entry(c, q[1], q[2]) = Vacant
  BY <1>3 DEF Vacated
<1> DEFINE cut == Append(t, c)
           ino == Fewer(c.ino[gone])
<1>5. cut \in Traces(G) /\ Now(cut) = c
  BY <1>4, Appended DEF Holds
<1> HIDE DEF cut
<1>6. /\ Cardinality(Naming(c, R, {}, gone)) = Cardinality(Naming(d, R, {}, gone)) - 1
      /\ Cardinality(Naming(d, R, {}, gone)) <= d.ino[gone].links
      /\ Cardinality(Naming(c, R, {}, gone)) \in Nat /\ IsFiniteSet(Naming(c, R, {}, gone))
      /\ d.ino[gone].links \in Nat /\ Cardinality(Naming(d, R, {}, gone)) \in Nat
  <2>1. Entry(c, q[1], q[2]).ino = 0
    BY <1>4, VacantIs
  <2>2. Cardinality(Naming(c, R, {}, gone)) = Cardinality(Naming(d, R, {}, gone)) - 1
    BY <1>2, <1>4, <2>1, NameLess
  <2>3. Cardinality(Naming(d, R, {}, gone)) <= d.ino[gone].links
    BY <1>2 DEF Fine, Covered
  <2>4. d.ino[gone].links \in Nat
    BY <1>2 DEF Ino
  <2> QED
    BY <1>2, <2>2, <2>3, <2>4, NamingFinite
<1>7. c.ino[gone] \in Ino /\ c.ino[gone].links # 0
  BY <1>2, <1>4, <1>6, NamingFinite
<1>8. ino \in Ino /\ ino.mode = d.ino[gone].mode /\ ino.ptr = c.ino[gone].ptr
      /\ ino.links = d.ino[gone].links - 1
  BY <1>4, <1>7, FewerIs
<1> DEFINE last == free_inode(write_inode(free_inode_blocks(cut, ino), gone, Emptied(ino)), gone, FALSE)
           less == write_inode(cut, gone, ino)
<1>9. u = IF ino.links = 0 THEN last ELSE less
  BY <1>3, <1>5 DEF ext2_unlink, LastName, cut
<1>12. Cardinality(Naming(c, R, {}, gone)) <= ino.links
  <2> HIDE DEF ino
  <2> QED
    BY ONLY <1>6, <1>8
<1>10. CASE ino.links = 0
  <2>1. Naming(c, R, {}, gone) = {}
    <3>1. Cardinality(Naming(c, R, {}, gone)) = 0
      BY ONLY <1>6, <1>10, <1>12
    <3> QED
      BY ONLY <3>1, <1>6, FS_EmptySet
  <2>2. u = last
    BY <1>9, <1>10
  <2> HIDE DEF last
  <2>3. /\ u \in Traces(G) /\ Fine(Now(u), R \ {gone}, {}) /\ SameNames(c, Now(u), R \ {gone})
        /\ \A o \in Inodes \ {gone} : Now(u).ino[o] = c.ino[o]
    <3>1. Nameless(G, R, c, cut, gone) /\ ino = Fewer(c.ino[gone])
      BY <1>2, <1>4, <1>5, <1>7, <2>1 DEF Nameless
    <3> HIDE DEF ino
    <3>2. \A w, v : v = free_inode(write_inode(free_inode_blocks(cut, ino), gone, Emptied(ino)), gone, w)
                      => Released(G, R, c, gone, v)
      BY ONLY <3>1, LastNameGoes
    <3> QED
      BY ONLY <2>2, <3>2, Zenon DEF last, Released
  <2>4. SameOthers(d, Now(u), R \ {gone}, q)
    BY <1>4, <2>3, SameOthersMore
  <2>5. Entry(Now(u), q[1], q[2]) = Vacant
    <3>1. q[1] \in DirsOf(c, R \ {gone}) /\ q[2] \in AllPlaces
      BY <1>2, <1>4 DEF DirsOf
    <3> QED
      BY <3>1, <2>3, <1>4, VacantIs DEF SameNames, DirsOf
  <2>6. Unlinked(d, Now(u), R, R \ {gone}, q, gone)
    BY <1>4, <2>3, <2>4, <2>5, FineIs DEF Unlinked
  <2> QED
    BY <2>3, <2>6
<1>11. CASE ino.links # 0
  <2> DEFINE e == With(c, gone, ino)
  <2>1. u = Append(cut, e)
    BY <1>5, <1>9, <1>11 DEF write_inode, With
  <2>2. \A k \in Slots : Ptr(c, ino, k) = Ptr(c, c.ino[gone], k)
    BY <1>8 DEF Ptr
  <2>3. Fine(e, R, {}) /\ SameNames(c, e, R)
    <3>1. c.ino[gone].mode # "dir" /\ ino.mode = c.ino[gone].mode
      BY <1>4, <1>8
    <3> QED
      BY <1>2, <1>4, <1>8, <1>12, <2>2, <3>1, InodeSet
  <2>4. e.ino[gone].mode = d.ino[gone].mode /\ \A o \in Inodes \ {gone} : e.ino[o] = c.ino[o]
    BY <1>2, <1>4, <1>8, WithFields
  <2> HIDE DEF e
  <2>5. u \in Traces(G) /\ Now(u) = e
    BY <1>5, <2>1, <2>3, Appended DEF Holds
  <2>6. SameOthers(d, e, R, q)
    BY <1>4, <2>3, SameOthersMore
  <2>7. Entry(e, q[1], q[2]) = Vacant
    <3>1. q[1] \in R /\ c.ino[q[1]].mode = "dir" /\ q[2] \in AllPlaces
      BY <1>2, <1>4 DEF DirsOf
    <3> QED
      BY ONLY <1>4, <2>3, <3>1, VacantIs DEF SameNames
  <2>8. Unlinked(d, e, R, R, q, gone)
    BY <1>4, <2>3, <2>4, <2>6, <2>7, FineIs DEF Unlinked
  <2> QED
    BY <2>5, <2>8
<1> QED
  BY <1>10, <1>11

LEMMA UnlinkSound ==
    ASSUME NEW d, NEW R, Fine(d, R, {}), NEW dir \in DirsOf(d, R), NEW nm,
           ext2_lookup(d, dir, nm) # 0, d.ino[ext2_lookup(d, dir, nm)].mode # "dir"
    PROVE  ext2_unlink(<<d>>, dir, nm) \in Traces(Sound)
<1> DEFINE gone == ext2_lookup(d, dir, nm)
           t == <<d>>
<1>1. Holds(Sound, R, {}) /\ Holds(Sound, R \ {gone}, {})
  BY SoundHolds
<1>2. t \in Traces(Sound) /\ Now(t) = d
  BY <1>1, TraceOf DEF Holds
<1> HIDE DEF t, gone
<1>3. gone # 0 /\ gone = ext2_lookup(d, dir, nm) /\ d.ino[gone].mode # "dir"
  BY DEF gone
<1>4. ext2_unlink(t, dir, nm) \in Traces(Sound)
  BY <1>1, <1>2, <1>3, UnlinkKeeps
<1> QED
  BY <1>4 DEF t


----------------------------------------------------------------------------
(* The calls that must run to their end: the last image is sound.          *)

LEMMA EmptiedIs ==
    ASSUME NEW d \in Image, NEW ino \in Ino
    PROVE  /\ Emptied(ino) \in Ino /\ Emptied(ino).mode = ino.mode /\ Emptied(ino).links = ino.links
           /\ \A k \in Slots : Ptr(d, Emptied(ino), k) = 0
<1> DEFINE e == Emptied(ino)
<1>1. e \in Ino /\ e.mode = ino.mode /\ e.links = ino.links /\ e.ptr = Holes
  BY NewInoIs DEF Emptied, Ino
<1> HIDE DEF e
<1>2. ASSUME NEW k \in Slots PROVE Ptr(d, e, k) = 0
  <2>1. e.ptr[NDIR] = 0 /\ 0 \notin Blocks
    BY <1>1, NewInoIs, Sizes
  <2>2. k <= NDIR => Holes[k] = 0
    BY SlotFacts, NewInoIs
  <2> QED
    BY <1>1, <2>1, <2>2 DEF Ptr, ptr_get
<1> QED
  BY <1>1, <1>2 DEF e

LEMMA TruncateEnds ==
    ASSUME NEW d, NEW R, Fine(d, R, {}), NEW n \in R, d.ino[n].mode = "reg"
    PROVE  Now(ext2_truncate(<<d>>, n)) \in Sound
<1> DEFINE t == <<d>>
           old == d.ino[n]
           new == Emptied(old)
           F == SlotsOf(d, old)
           H == F \cap Blocks
           x == free_inode_blocks(t, old)
           g == Now(x)
           c == With(d, n, new)
           e == With(g, n, new)
<1>1. d \in Image /\ n \in Inodes /\ old \in Ino /\ d.bbm \subseteq Blocks
  BY FineIs, ImageFields
<1>2. t \in Traces(Image) /\ Now(t) = d
  BY <1>1, TraceOf
<1>3. new \in Ino /\ new.mode = old.mode /\ new.links = old.links /\ \A k \in Slots : Ptr(d, new, k) = 0
  BY <1>1, EmptiedIs
<1>4. Freeing(d, F) \subseteq Image
  BY DEF Freeing
<1> HIDE DEF new, F
<1>5. x \in Traces(Image) /\ g \in Freeing(d, F)
  BY <1>1, <1>2, <1>4, FreeBlocks DEF F
<1>6. Fine(c, R, {})
  <2>1. Cardinality(Naming(d, R, {}, n)) <= new.links
    BY <1>3 DEF Fine, Covered
  <2> QED
    BY <1>1, <1>3, <2>1, InodeSet
<1>7. c.bbm = d.bbm /\ c.ibm = d.ibm /\ c.blk = d.blk /\ c.ino[n] = new
      /\ \A o \in Inodes : o # n => c.ino[o] = d.ino[o]
  BY <1>1, <1>3, WithFields
<1>8. g \in Image /\ g.ino = d.ino /\ g.blk = d.blk /\ g.ibm = d.ibm /\ d.bbm \ F \subseteq g.bbm
  BY <1>5 DEF Freeing
<1> HIDE DEF x, g
<1>9. e \in Image /\ e.bbm = g.bbm /\ e.ibm = g.ibm /\ e.blk = g.blk
  BY <1>1, <1>3, <1>8, WithFields
<1>10. e.ino = c.ino
  BY <1>1, <1>8 DEF With, Image
<1> HIDE DEF c, e
<1>11. ASSUME NEW b \in H PROVE Unowned(c, R, b)
  <2>1. PICK k \in Slots : b = Ptr(d, old, k)
    BY DEF SlotsOf, F
  <2>2. ASSUME NEW o \in R, NEW l \in Slots, Ptr(c, c.ino[o], l) = b PROVE FALSE
    <3>1. Ptr(c, c.ino[o], l) = Ptr(d, c.ino[o], l) /\ b \in Blocks /\ b # 0 /\ o \in Inodes
      BY <1>7, FineIs, Sizes DEF Ptr, ptr_get
    <3>2. CASE o = n
      BY <1>3, <1>7, <2>2, <3>1, <3>2
    <3>3. CASE o # n
      <4>1. Ptr(d, d.ino[o], l) = Ptr(d, d.ino[n], k) /\ Ptr(d, d.ino[o], l) \in Blocks
        BY <1>7, <2>1, <2>2, <3>1, <3>3
      <4> QED
        BY <3>3, <4>1, FineIs
    <3> QED
      BY <3>2, <3>3
  <2> QED
    BY <2>2 DEF Unowned
<1>12. e \in Freeing(c, H)
  BY <1>1, <1>7, <1>8, <1>9, <1>10 DEF Freeing
<1> HIDE DEF H
<1>13. Fine(e, R, {})
  BY <1>6, <1>11, <1>12, StillFreeing
<1>14. ext2_truncate(t, n) = Append(x, e)
  BY <1>2 DEF ext2_truncate, write_inode, With, new, x, g, e
<1>15. Now(Append(x, e)) = e
  BY <1>5, <1>9, Appended
<1> QED
  <2>1. e \in Sound
    BY ONLY <1>9, <1>13, FineIs DEF Sound
  <2> QED
    BY <1>14, <1>15, <2>1

LEMMA MoreIs ==
    ASSUME NEW ino \in Ino
    PROVE  /\ More(ino) \in Ino /\ More(ino).mode = ino.mode /\ More(ino).size = ino.size
           /\ More(ino).ptr = ino.ptr /\ More(ino).links = ino.links + 1
<1>1. ino.links \in Nat
  BY DEF Ino
<1> QED
  BY <1>1 DEF More, Ino

\* A file is given a link more in image e, then its new entry q is taken into account.
LEMMA LinkCounts ==
    ASSUME NEW R, NEW e, NEW q, Fine(e, R, {q}), NEW n \in R, e.ino[n].mode # "dir",
           q \in DirsOf(e, R) \X AllPlaces, Entry(e, q[1], q[2]).ino = n
    PROVE  Fine(With(e, n, More(e.ino[n])), R, {})
<1> DEFINE ino == More(e.ino[n])
           z == With(e, n, ino)
<1>1. e \in Image /\ n \in Inodes /\ e.ino[n] \in Ino /\ e.ino[n].links \in Nat /\ R \subseteq Inodes
  BY FineIs DEF Ino
<1>2. ino \in Ino /\ ino.mode = e.ino[n].mode /\ ino.ptr = e.ino[n].ptr /\ ino.links = e.ino[n].links + 1
  BY <1>1, MoreIs
<1>3. /\ Cardinality(Naming(e, R, {q}, n)) <= e.ino[n].links
      /\ Cardinality(Naming(e, R, {q}, n)) \in Nat
  BY <1>1, NamingFinite DEF Fine, Covered
<1> HIDE DEF ino
<1>4. Cardinality(Naming(e, R, {q}, n)) < ino.links
  BY ONLY <1>1, <1>2, <1>3
<1>5. Fine(z, R, {q}) /\ SameNames(e, z, R)
  <2>1. \A k \in Slots : Ptr(e, ino, k) = Ptr(e, e.ino[n], k)
    BY <1>2 DEF Ptr
  <2>2. Cardinality(Naming(e, R, {q}, n)) <= ino.links
    BY ONLY <1>1, <1>2, <1>3
  <2> QED
    BY <1>1, <1>2, <2>1, <2>2, InodeSet
<1>6. z.ino[n] = ino
  BY <1>1, <1>2, WithFields
<1> HIDE DEF z
<1>7. Cardinality(Naming(z, R, {q}, n)) < z.ino[n].links
  BY <1>4, <1>5, <1>6, NamesKept
<1>8. Entry(z, q[1], q[2]) = Entry(e, q[1], q[2])
  BY <1>5 DEF SameNames, DirsOf
<1>9. {} \cup {q} = {q}
  OBVIOUS
<1>10. Fine(z, R, {})
  BY <1>5, <1>7, <1>8, <1>9, EntryCounts
<1> QED
  BY <1>10 DEF z, ino

LEMMA LinkEnds ==
    ASSUME NEW d, NEW R, Fine(d, R, {}), NEW dir \in DirsOf(d, R), NEW nm \in Names,
           NEW n \in R, d.ino[n].mode = "reg"
    PROVE  Now(ext2_link(<<d>>, dir, nm, n)) \in Sound
<1> DEFINE t == <<d>>
           a == dir_add_entry(t, d.ino[dir], n, nm)
           v == [ino |-> n, name |-> nm]
           e == With(Now(a.t), dir, a.ino)
           ino == d.ino[n]
           u == ext2_link(t, dir, nm, n)
<1> SUFFICES Now(u) \in Sound
  OBVIOUS
<1>1. d \in Image /\ n \in Inodes /\ dir \in R /\ dir \in Inodes /\ dir # n /\ Holds(Image, R, {})
  BY FineIs DEF DirsOf, Holds
<1>2. t \in Traces(Image) /\ Now(t) = d
  BY <1>1, TraceOf
<1> HIDE DEF t
<1>3. u = IF ~a.ok THEN a.t ELSE write_inode(write_inode(a.t, dir, a.ino), n, More(ino))
  BY <1>2 DEF ext2_link
<1> HIDE DEF a, u
<1>4. /\ a.ok \in BOOLEAN
      /\ a.ok => Added(Image, R, {}, t, dir, v, a)
      /\ ~a.ok => NotAdded(Image, R, {}, t, a)
  BY <1>1, <1>2, DirAddEntry DEF a
<1>5. CASE ~a.ok
  BY <1>3, <1>4, <1>5, SoundHolds DEF NotAdded, Holds
<1>6. CASE a.ok
  <2>1. /\ Now(a.t).ino = d.ino /\ a.ino \in Ino /\ Now(a.t) \in Image /\ a.t \in Traces(Image \cup {e})
        /\ \E p \in AllPlaces : Fine(e, R, {<<dir, p>>}) /\ Entered(d, e, R, <<dir, p>>, v)
    BY <1>2, <1>4, <1>6 DEF Added
  <2>2. e \in Image /\ e.ino[n] = d.ino[n]
    BY <1>1, <2>1, WithFields
  <2>3. write_inode(a.t, dir, a.ino) = Append(a.t, e)
    BY DEF write_inode, With
  <2> HIDE DEF e
  <2>4. Append(a.t, e) \in Traces(Image) /\ Now(Append(a.t, e)) = e
    <3>1. Image \cup {e} = Image
      BY <2>2
    <3> QED
      BY <2>1, <2>2, <3>1, Appended
  <2> DEFINE z == With(e, n, More(e.ino[n]))
  <2>5. u = Append(Append(a.t, e), z)
    BY <1>3, <1>6, <2>2, <2>3, <2>4 DEF write_inode, With
  <2>6. Fine(z, R, {})
    <3>1. PICK p \in AllPlaces : Fine(e, R, {<<dir, p>>}) /\ Entered(d, e, R, <<dir, p>>, v)
      BY <2>1
    <3> DEFINE q == <<dir, p>>
    <3>2. q \in DirsOf(e, R) \X AllPlaces /\ Entry(e, q[1], q[2]).ino = n
      <4>1. SameOthers(d, e, R, q) /\ q \in DirsOf(d, R) \X AllPlaces /\ Entry(e, q[1], q[2]) = v
        BY <3>1 DEF Entered
      <4>2. DirsOf(e, R) = DirsOf(d, R)
        BY <4>1, OthersKept
      <4>3. v.ino = n
        OBVIOUS
      <4> QED
        BY ONLY <4>1, <4>2, <4>3
    <3>3. e.ino[n].mode # "dir" /\ Fine(e, R, {q})
      BY <2>2, <3>1
    <3> HIDE DEF q, z
    <3> QED
      BY <3>2, <3>3, LinkCounts DEF z
  <2> HIDE DEF z
  <2>7. z \in Sound /\ z \in Image
    BY <2>6, SoundHolds DEF Holds
  <2> QED
    BY <2>4, <2>5, <2>7, Appended
<1> QED
  BY <1>4, <1>5, <1>6


\* The places of a directory that have a name.
LEMMA NamedIs ==
    ASSUME NEW d, NEW R, NEW X, Fine(d, R, X), NEW dir \in DirsOf(d, R), NEW nm
    PROVE  /\ Named(d, d.ino[dir], nm) =
                {p \in AllPlaces : Entry(d, dir, p).ino # 0 /\ Entry(d, dir, p).name = nm}
           /\ Named(d, d.ino[dir], nm) \in SUBSET Nat
           /\ Places(d.ino[dir]) \subseteq AllPlaces
<1> DEFINE z == d.ino[dir].size
<1>1. z \in 1 .. NDIR + PTRS
  BY DEF Fine, Whole
<1>2. Places(d.ino[dir]) \subseteq AllPlaces
  <2>1. z * SLOTS <= (NDIR + PTRS) * SLOTS /\ z * SLOTS \in Nat
    BY <1>1, Sizes
  <2> QED
    BY <2>1, Sizes DEF Places, AllPlaces
<1>3. AllPlaces \subseteq Nat
  BY DEF AllPlaces
<1>4. \A p \in Places(d.ino[dir]) : Entry(d, dir, p) = At(d, d.ino[dir], p)
  BY DEF Entry
<1>5. \A p : p \notin Places(d.ino[dir]) => Entry(d, dir, p).ino = 0
  BY VacantIs DEF Entry
<1> QED
  BY <1>2, <1>3, <1>4, <1>5 DEF Named

\* A rename that goes on from image x: what it moves is the first of its name, or it
\* moves a name onto itself and the name has gone.
Ready(x, Q, from, n, to, m, src) ==
    /\ Fine(x, Q, {}) /\ from \in DirsOf(x, Q) /\ to \in DirsOf(x, Q) /\ src \in Inodes
    /\ from = to /\ n = m =>
         \E p \in Places(x.ino[from]) :
           Entry(x, from, p) = Vacant /\ \A r \in Named(x, x.ino[from], n) : p <= r
    /\ ~(from = to /\ n = m) => src \in Q /\ ext2_lookup(x, from, n) = src

LEMMA OverGone ==
    ASSUME NEW d, NEW R, Fine(d, R, {}), NEW from \in DirsOf(d, R), NEW to \in DirsOf(d, R),
           NEW n, NEW m, NEW src, src = ext2_lookup(d, from, n), src # 0,
           NEW dst, dst = ext2_lookup(d, to, m), dst # 0, d.ino[dst].mode # "dir",
           NEW t \in Traces(Image), d = Now(t), NEW u, u = ext2_unlink(t, to, m)
    PROVE  /\ u \in Traces(Image)
           /\ \E Q : /\ Ready(Now(u), Q, from, n, to, m, src)
                     /\ d.ino[src].mode = "dir" => src \in DirsOf(Now(u), Q)
<1> DEFINE q == <<to, Min(Named(d, d.ino[to], m))>>
           e == Now(u)
<1>1. u \in Traces(Image) /\ \E Q : Unlinked(d, e, R, Q, q, dst)
  <2>1. Holds(Image, R, {}) /\ Holds(Image, R \ {dst}, {})
    BY FineIs DEF Holds
  <2> HIDE DEF q
  <2> QED
    BY <2>1, UnlinkKeeps DEF q
<1>2. PICK Q : Unlinked(d, e, R, Q, q, dst)
  BY <1>1
<1>3. /\ e \in Image /\ Fine(e, Q, {}) /\ Q \subseteq R /\ R \ {dst} \subseteq Q
      /\ SameOthers(d, e, Q, q) /\ Entry(e, q[1], q[2]) = Vacant
      /\ \A o \in Inodes \ {dst} : e.ino[o] = d.ino[o]
  BY <1>2 DEF Unlinked
<1> HIDE DEF e
<1>4. \A o \in DirsOf(d, R) : o \in DirsOf(e, Q) /\ o # dst /\ o \in Inodes /\ e.ino[o] = d.ino[o]
  BY <1>3, FineIs DEF DirsOf
<1>5. src \in R /\ src \in Inodes
  BY LookupCounts, FineIs
<1>6. \A p \in AllPlaces : \A o \in DirsOf(d, R) : <<o, p>> # q => Entry(e, o, p) = Entry(d, o, p)
  BY <1>3, <1>4 DEF SameOthers, DirsOf
<1> DEFINE old == Named(d, d.ino[from], n)
           new == Named(e, e.ino[from], n)
<1>7. /\ old = {p \in AllPlaces : Entry(d, from, p).ino # 0 /\ Entry(d, from, p).name = n}
      /\ new = {p \in AllPlaces : Entry(e, from, p).ino # 0 /\ Entry(e, from, p).name = n}
      /\ old \in SUBSET Nat
  <2>1. /\ old = {p \in AllPlaces : Entry(d, from, p).ino # 0 /\ Entry(d, from, p).name = n}
        /\ old \in SUBSET Nat
    BY ONLY Fine(d, R, {}), from \in DirsOf(d, R), NamedIs
  <2>2. from \in DirsOf(e, Q)
    BY <1>4
  <2>3. new = {p \in AllPlaces : Entry(e, from, p).ino # 0 /\ Entry(e, from, p).name = n}
    BY ONLY <1>3, <2>2, NamedIs
  <2> QED
    BY <2>1, <2>3, Zenon
<1>8. /\ Min(old) \in Places(d.ino[from]) /\ Min(old) \in AllPlaces /\ old # {}
      /\ Entry(d, from, Min(old)).ino = src /\ Entry(d, from, Min(old)).name = n
      /\ \A p \in old : Min(old) <= p
  BY <1>7, LookupIs, LeastIn
<1> HIDE DEF old, new
<1>9. ASSUME from = to, n = m
      PROVE  /\ Min(old) \in Places(e.ino[from]) /\ Entry(e, from, Min(old)) = Vacant
             /\ \A r \in new : Min(old) <= r
  <2>1. q = <<from, Min(old)>>
    BY <1>9 DEF old
  <2>2. Entry(e, from, Min(old)) = Vacant
    BY <1>3, <2>1
  <2>3. \A r \in new : r \in AllPlaces /\ r # Min(old)
    BY <1>7, <2>2, VacantIs
  <2>4. new \subseteq old
    BY <1>6, <1>7, <2>1, <2>3
  <2> QED
    BY <1>4, <1>8, <2>2, <2>4
<1>10. ASSUME ~(from = to /\ n = m) PROVE src \in Q /\ ext2_lookup(e, from, n) = src
  <2>1. /\ Min(Named(d, d.ino[to], m)) \in AllPlaces
        /\ Entry(d, to, Min(Named(d, d.ino[to], m))).name = m
    BY LookupIs
  <2>2. \A p \in AllPlaces : <<from, p>> = q =>
          Entry(d, from, p).name # n /\ Entry(e, from, p).ino = 0
    BY <1>3, <1>10, <2>1, VacantIs
  <2>3. new = old
    BY <1>6, <1>7, <2>2
  <2>4. Entry(e, from, Min(old)) = Entry(d, from, Min(old))
    BY <1>6, <1>8, <2>2
  <2>5. ext2_lookup(e, from, n) = src
    <3>1. Entry(e, from, Min(new)).ino = ext2_lookup(e, from, n)
      <4>1. from \in DirsOf(e, Q) /\ new # {}
        BY <1>4, <1>8, <2>3
      <4> QED
        BY ONLY <1>3, <4>1, LookupIs DEF new
    <3> QED
      BY <1>8, <2>3, <2>4, <3>1
  <2> QED
    BY <1>3, <1>4, <2>5, LookupCounts
<1>11. Ready(e, Q, from, n, to, m, src)
  BY <1>3, <1>4, <1>5, <1>9, <1>10 DEF Ready, new
<1>12. d.ino[src].mode = "dir" => src \in DirsOf(e, Q)
  BY <1>4, <1>5 DEF DirsOf
<1> QED
  BY <1>1, <1>11, <1>12 DEF e


\* With the new entry q in image e, the first of name n is what is moved, or q itself.
LEMMA StillFirst ==
    ASSUME NEW x, NEW Q, NEW from, NEW n, NEW to, NEW m, NEW src, Ready(x, Q, from, n, to, m, src),
           NEW p \in AllPlaces, NEW q, q = <<to, p>>, NEW v, v.ino = src, v.name = m,
           NEW e, Fine(e, Q, {q}), Entered(x, e, Q, q, v),
           \A r \in Places(x.ino[to]) : Entry(x, to, r) = Vacant => p <= r,
           NEW new, new = Named(e, e.ino[from], n)
    PROVE  /\ new # {} /\ from \in DirsOf(e, Q)
           /\ \/ <<from, Min(new)>> = q
              \/ src \in Q /\ <<from, Min(new)>> # q /\ Entry(e, from, Min(new)).ino = src
<1>1. /\ Fine(x, Q, {}) /\ from \in DirsOf(x, Q) /\ to \in DirsOf(x, Q) /\ src # 0
  BY Sizes DEF Ready
<1>2. /\ SameOthers(x, e, Q, q) /\ q[1] = to /\ q[2] = p
      /\ Entry(x, to, p).ino = 0 /\ Entry(e, to, p) = v
  BY DEF Entered
<1>3. DirsOf(e, Q) = DirsOf(x, Q) /\ from \in DirsOf(e, Q)
  BY <1>1, <1>2, OthersKept
<1>4. \A r \in AllPlaces : \A o \in DirsOf(x, Q) : <<o, r>> # q => Entry(e, o, r) = Entry(x, o, r)
  BY <1>2 DEF SameOthers, DirsOf
<1> DEFINE old == Named(x, x.ino[from], n)
<1>5. /\ old = {r \in AllPlaces : Entry(x, from, r).ino # 0 /\ Entry(x, from, r).name = n}
      /\ old \in SUBSET Nat
  BY ONLY <1>1, NamedIs
<1>6. /\ new = {r \in AllPlaces : Entry(e, from, r).ino # 0 /\ Entry(e, from, r).name = n}
      /\ new \in SUBSET Nat
  BY ONLY <1>3, Fine(e, Q, {q}), new = Named(e, e.ino[from], n), NamedIs
<1> HIDE DEF old
<1>7. CASE from = to /\ n = m
  <2>1. PICK h \in Places(x.ino[from]) : Entry(x, from, h) = Vacant /\ \A r \in old : h <= r
    BY <1>7 DEF Ready, old
  <2>2. p <= h /\ p \in Nat /\ h \in Nat
    BY <1>7, <2>1 DEF AllPlaces, Places
  <2>3. p \in new
    BY <1>1, <1>2, <1>6, <1>7
  <2>4. ASSUME NEW r \in new, r # p PROVE p <= r
    <3>1. r \in old
      BY <1>1, <1>4, <1>5, <1>6, <1>7, <2>4
    <3> QED
      BY <1>5, <2>1, <2>2, <3>1
  <2>5. Min(new) \in new /\ \A r \in new : Min(new) <= r
    BY <1>6, <2>3, LeastIn
  <2>6. Min(new) = p
    BY <1>6, <2>2, <2>3, <2>4, <2>5
  <2> QED
    BY <1>3, <1>7, <2>3, <2>6
<1>8. CASE ~(from = to /\ n = m)
  <2>1. src \in Q /\ ext2_lookup(x, from, n) = src
    BY <1>8 DEF Ready
  <2>2. /\ old # {} /\ Min(old) \in AllPlaces /\ Entry(x, from, Min(old)).ino = src
    BY ONLY <1>1, <2>1, LookupIs DEF old
  <2>3. \A r \in AllPlaces : <<from, r>> = q => Entry(x, from, r).ino = 0 /\ Entry(e, from, r).name # n
    BY <1>2, <1>8
  <2>4. new = old
    BY <1>1, <1>4, <1>5, <1>6, <2>3
  <2>5. <<from, Min(old)>> # q
    BY <1>1, <2>2, <2>3
  <2>6. Entry(e, from, Min(old)) = Entry(x, from, Min(old))
    BY <1>1, <1>4, <2>2, <2>5
  <2> QED
    BY ONLY <1>3, <2>1, <2>2, <2>4, <2>5, <2>6
<1> QED
  BY <1>7, <1>8

\* The old entry r goes, and the new one, q, is taken into account.
LEMMA OldGoes ==
    ASSUME NEW Q, NEW q, NEW e, Fine(e, Q, {q}), NEW src, src # 0, Entry(e, q[1], q[2]).ino = src,
           q \in DirsOf(e, Q) \X AllPlaces, NEW from, NEW n,
           NEW r, r = q \/ (src \in Q /\ r # q /\ Entry(e, r[1], r[2]).ino = src),
           NEW f, Vacated(e, f, Q, {q}, from, n, r)
    PROVE  Fine(f, Q, {})
<1>1. /\ f \in Image /\ f.ino = e.ino /\ Fine(f, Q, {q}) /\ SameOthers(e, f, Q, r)
      /\ r \in DirsOf(e, Q) \X AllPlaces /\ Entry(f, r[1], r[2]) = Vacant
  BY DEF Vacated
<1>2. {} \cup {q} = {q}
  OBVIOUS
<1>3. CASE r = q
  <2>1. Entry(f, q[1], q[2]).ino = 0 /\ Fine(f, Q, {} \cup {q})
    BY <1>1, <1>2, <1>3, VacantIs
  <2> QED
    BY ONLY <2>1, EntryCounts
<1>4. CASE r # q
  <2>1. src \in Q /\ Entry(e, r[1], r[2]).ino = src
    BY <1>4
  <2>2. Entry(f, q[1], q[2]) = Entry(e, q[1], q[2])
    BY <1>1, <1>4 DEF SameOthers, DirsOf
  <2>3. ASSUME e.ino[src].mode # "dir"
        PROVE  Cardinality(Naming(f, Q, {q}, src)) < f.ino[src].links
    <3>1. Q \subseteq Inodes /\ f.ino[src].links = e.ino[src].links /\ e.ino[src].links \in Nat
      BY <1>1, <2>1, FineIs DEF Ino
    <3>2. Cardinality(Naming(e, Q, {q}, src)) <= e.ino[src].links
      BY <2>1, <2>3 DEF Fine, Covered
    <3>3. Cardinality(Naming(f, Q, {q}, src)) = Cardinality(Naming(e, Q, {q}, src)) - 1
      <4>1. Entry(f, r[1], r[2]).ino = 0 /\ r \notin {q}
        BY <1>1, <1>4, VacantIs
      <4> QED
        BY ONLY <1>1, <2>1, <3>1, <4>1, src # 0, NameLess
    <3>4. Cardinality(Naming(e, Q, {q}, src)) \in Nat
      BY <3>1, NamingFinite
    <3> QED
      BY ONLY <3>1, <3>2, <3>3, <3>4
  <2> QED
    BY <1>1, <1>2, <2>1, <2>2, <2>3, EntryCounts
<1> QED
  BY <1>3, <1>4


\* From trace t the new entry comes (a, z), then the old one goes (y).
Moving(t, x, from, n, to, m, src, a, z, od, y) ==
    /\ t \in Traces(Image) /\ x = Now(t) /\ a = dir_add_entry(t, x.ino[to], src, m)
    /\ z = write_inode(a.t, to, a.ino) /\ od = Now(z).ino[from]
    /\ y = write_inode(dir_unlink_entry(z, od, n), from, od)
Moved(x, Q, a, y) ==
    /\ a.ok \in BOOLEAN
    /\ ~a.ok => Now(a.t) \in Sound
    /\ a.ok => y \in Traces(Image) /\ Fine(Now(y), Q, {}) /\ DirsOf(Now(y), Q) = DirsOf(x, Q)

LEMMA RenameMoved ==
    ASSUME NEW Q, NEW from, NEW n \in Names, NEW to, NEW m \in Names, NEW src,
           NEW t, NEW x, NEW a, NEW z, NEW od, NEW y,
           Ready(x, Q, from, n, to, m, src), Moving(t, x, from, n, to, m, src, a, z, od, y)
    PROVE  Moved(x, Q, a, y)
<1>0. /\ t \in Traces(Image) /\ x = Now(t) /\ a = dir_add_entry(t, x.ino[to], src, m)
      /\ z = write_inode(a.t, to, a.ino) /\ od = Now(z).ino[from]
      /\ y = write_inode(dir_unlink_entry(z, od, n), from, od)
  BY DEF Moving
<1> DEFINE v == [ino |-> src, name |-> m]
           e == With(Now(a.t), to, a.ino)
           G == Image
<1>1. /\ x \in Image /\ Fine(x, Q, {}) /\ from \in DirsOf(x, Q) /\ to \in DirsOf(x, Q)
      /\ src \in Inodes /\ src # 0 /\ from \in Inodes /\ to \in Inodes /\ Holds(Image, Q, {})
  BY FineIs, Sizes DEF Ready, DirsOf, Holds
<1>2. /\ a.ok \in BOOLEAN
      /\ a.ok => Added(Image, Q, {}, t, to, v, a)
      /\ ~a.ok => NotAdded(Image, Q, {}, t, a)
  BY <1>0, <1>1, DirAddEntry
<1>3. ASSUME ~a.ok PROVE Now(a.t) \in Sound
  BY <1>2, <1>3, SoundHolds DEF NotAdded, Holds
<1>4. ASSUME a.ok
      PROVE  y \in Traces(Image) /\ Fine(Now(y), Q, {}) /\ DirsOf(Now(y), Q) = DirsOf(x, Q)
  <2>1. /\ Now(a.t) \in Image /\ a.ino \in Ino /\ a.t \in Traces(Image \cup {e})
        /\ \E p \in AllPlaces :
             /\ Fine(e, Q, {<<to, p>>}) /\ Entered(x, e, Q, <<to, p>>, v)
             /\ \A r \in Places(x.ino[to]) : Entry(x, to, r) = Vacant => p <= r
    BY <1>0, <1>2, <1>4 DEF Added
  <2>2. z = Append(a.t, e)
    BY <1>0 DEF write_inode, With
  <2> HIDE DEF e
  <2>3. PICK p \in AllPlaces :
             /\ Fine(e, Q, {<<to, p>>}) /\ Entered(x, e, Q, <<to, p>>, v)
             /\ \A r \in Places(x.ino[to]) : Entry(x, to, r) = Vacant => p <= r
    BY <2>1
  <2> DEFINE q == <<to, p>>
             new == Named(e, e.ino[from], n)
             r == <<from, Min(new)>>
  <2>4. e \in Image /\ q = <<to, p>> /\ Fine(e, Q, {q}) /\ Entered(x, e, Q, q, v) /\ v.ino = src /\ v.name = m
    BY <2>3, FineIs
  <2> HIDE DEF q, v
  <2>5. z \in Traces(Image) /\ Now(z) = e /\ od = e.ino[from]
    <3>1. Image \cup {e} = Image
      BY <2>4
    <3>2. a.t \in Traces(Image)
      BY ONLY <2>1, <3>1, Zenon
    <3>3. z \in Traces(Image) /\ Now(z) = e
      BY ONLY <2>2, <2>4, <3>2, Appended
    <3> QED
      BY ONLY <1>0, <3>3
  <2>6. /\ new # {} /\ from \in DirsOf(e, Q)
        /\ \/ r = q
           \/ src \in Q /\ r # q /\ Entry(e, from, Min(new)).ino = src
    <3> HIDE DEF new
    <3>1. new = Named(e, e.ino[from], n)
      BY DEF new
    <3> QED
      BY ONLY Ready(x, Q, from, n, to, m, src), <2>3, <2>4, <3>1, StillFirst
  <2>7. /\ DirsOf(e, Q) = DirsOf(x, Q) /\ q \in DirsOf(e, Q) \X AllPlaces /\ Entry(e, q[1], q[2]).ino = src
    <3>1. SameOthers(x, e, Q, q) /\ q \in DirsOf(x, Q) \X AllPlaces /\ Entry(e, q[1], q[2]) = v
      BY <2>4 DEF Entered
    <3> QED
      BY ONLY <2>4, <3>1, OthersKept
  <2>8. PICK f : dir_unlink_entry(z, e.ino[from], n) = Append(z, f) /\ Vacated(e, f, Q, {q}, from, n, r)
    <3>1. r = <<from, Min(Named(e, e.ino[from], n))>> /\ Named(e, e.ino[from], n) # {}
      BY <2>6
    <3> HIDE DEF r, new
    <3> QED
      BY ONLY <2>4, <2>5, <2>6, <3>1, EntryVacated
  <2>9. Fine(f, Q, {})
    <3>1. r[1] = from /\ r[2] = Min(new)
      OBVIOUS
    <3> HIDE DEF r, new
    <3>2. r = q \/ (src \in Q /\ r # q /\ Entry(e, r[1], r[2]).ino = src)
      BY ONLY <2>6, <3>1
    <3>3. Fine(e, Q, {q}) /\ src # 0 /\ Vacated(e, f, Q, {q}, from, n, r)
      BY <1>1, <2>4, <2>8
    <3> QED
      BY ONLY <2>7, <3>2, <3>3, OldGoes
  <2>10. f \in Image /\ f.ino = e.ino /\ SameOthers(e, f, Q, r)
    BY <2>8 DEF Vacated
  <2> HIDE DEF r, new
  <2>11. Append(z, f) \in Traces(Image) /\ Now(Append(z, f)) = f
    BY <2>5, <2>10, Appended
  <2>12. y = Append(Append(z, f), f)
    <3>1. y = Append(Append(z, f), With(f, from, f.ino[from]))
      <4>1. y = write_inode(Append(z, f), from, f.ino[from])
        BY ONLY <1>0, <2>5, <2>8, <2>10
      <4> QED
        BY ONLY <2>11, <4>1 DEF write_inode, With
    <3>2. With(f, from, f.ino[from]) = f
      BY <1>1, <2>10, WithSame
    <3> QED
      BY ONLY <3>1, <3>2
  <2>13. y \in Traces(Image) /\ Now(y) = f
    BY <2>10, <2>11, <2>12, Appended
  <2>14. DirsOf(f, Q) = DirsOf(e, Q)
    BY <2>10, OthersKept
  <2> QED
    BY <2>7, <2>9, <2>13, <2>14
<1> QED
  BY <1>2, <1>3, <1>4 DEF Moved

\* The links of a directory change.
LEMMA DirRelinked ==
    ASSUME NEW d, NEW R, Fine(d, R, {}), NEW n \in DirsOf(d, R), NEW ino \in Ino,
           ino.mode = d.ino[n].mode, ino.size = d.ino[n].size, ino.ptr = d.ino[n].ptr,
           NEW e, e = With(d, n, ino)
    PROVE  Fine(e, R, {}) /\ DirsOf(e, R) = DirsOf(d, R)
<1>1. n \in R /\ d.ino[n].mode = "dir"
  BY DEF DirsOf
<1>2. \A k \in Slots : Ptr(d, ino, k) = Ptr(d, d.ino[n], k)
  BY DEF Ptr
<1>3. Fine(e, R, {}) /\ SameNames(d, e, R)
  BY <1>1, <1>2, InodeSet
<1> QED
  BY <1>3, NamesKept

LEMMA Reparents ==
    ASSUME NEW Q, NEW t \in Traces(Image), NEW f, f = Now(t), Fine(f, Q, {}),
           NEW moved \in DirsOf(f, Q), NEW from \in DirsOf(f, Q), NEW to \in DirsOf(f, Q)
    PROVE  Now(Reparented(t, moved, from, to)) \in Sound
<1> DEFINE v == [ino |-> to, name |-> ".."]
           dd == Put(t, f.ino[moved], 1, v)
<1>1. 1 \in Places(f.ino[moved]) /\ 1 \in AllPlaces
  <2>1. f.ino[moved].size \in 1 .. NDIR + PTRS
    BY DEF Fine, Whole
  <2>2. f.ino[moved].size * SLOTS >= 2 /\ f.ino[moved].size * SLOTS \in Nat
    BY <2>1, Sizes
  <2>3. 1 \in Places(f.ino[moved])
    BY <2>2 DEF Places
  <2> QED
    BY <2>3, NamedIs
<1>2. v \in EntryKind /\ v.ino = to /\ to \in Q /\ to \in Inodes /\ from \in Inodes
  BY FineIs DEF EntryKind, DirsOf
<1> HIDE DEF v
<1>3. PICK g : dd = Append(t, g) /\ Replaced(f, g, Q, {}, moved, 1, v)
  BY <1>1, <1>2, PutIs
<1>4. /\ g \in Image /\ g.ino = f.ino /\ Fine(g, Q, {} \cup {<<moved, 1>>}) /\ Entry(g, moved, 1) = v
      /\ SameOthers(f, g, Q, <<moved, 1>>)
  BY <1>3 DEF Replaced
<1>5. Fine(g, Q, {}) /\ DirsOf(g, Q) = DirsOf(f, Q)
  <2>1. g.ino[to].mode = "dir"
    BY <1>4 DEF DirsOf
  <2>2. DirsOf(g, Q) = DirsOf(f, Q)
    BY <1>4, OthersKept
  <2> DEFINE q == <<moved, 1>>
  <2>3. Entry(g, q[1], q[2]) = v /\ Fine(g, Q, {} \cup {q})
    BY <1>4
  <2> HIDE DEF q
  <2> QED
    BY <1>2, <2>1, <2>2, <2>3, EntryCounts
<1>6. dd \in Traces(Image) /\ Now(dd) = g
  BY <1>3, <1>4, Appended
<1> HIDE DEF dd
<1> DEFINE h == With(g, from, Fewer(g.ino[from]))
           z == With(h, to, More(h.ino[to]))
           less == Append(dd, h)
<1>7. Fine(h, Q, {}) /\ DirsOf(h, Q) = DirsOf(f, Q) /\ h \in Image
  <2>1. g.ino[from] \in Ino
    BY <1>2, <1>4, ImageFields
  <2>2. /\ Fewer(g.ino[from]) \in Ino /\ Fewer(g.ino[from]).mode = g.ino[from].mode
        /\ Fewer(g.ino[from]).size = g.ino[from].size /\ Fewer(g.ino[from]).ptr = g.ino[from].ptr
    BY <2>1 DEF Fewer, Ino
  <2> QED
    BY <1>5, <2>2, DirRelinked, FineIs
<1> HIDE DEF h
<1>9. less \in Traces(Image) /\ Now(less) = h
  BY <1>6, <1>7, Appended
<1>10. Fine(z, Q, {}) /\ z \in Image
  <2>1. h.ino[to] \in Ino
    BY <1>2, <1>7, ImageFields
  <2>2. /\ More(h.ino[to]) \in Ino /\ More(h.ino[to]).mode = h.ino[to].mode
        /\ More(h.ino[to]).size = h.ino[to].size /\ More(h.ino[to]).ptr = h.ino[to].ptr
    BY <2>1, MoreIs
  <2> QED
    BY <1>7, <2>2, DirRelinked, FineIs
<1>11. Reparented(t, moved, from, to) = Append(less, z)
  <2>1. less = write_inode(dd, from, Fewer(Now(dd).ino[from]))
    BY <1>6 DEF write_inode, With, h
  <2>2. Append(less, z) = write_inode(less, to, More(Now(less).ino[to]))
    BY <1>9 DEF write_inode, With
  <2> HIDE DEF less, z
  <2>3. Now(t).ino[moved] = f.ino[moved]
    OBVIOUS
  <2> QED
    BY ONLY <2>1, <2>2, <2>3 DEF Reparented, dd, v
<1> QED
  BY <1>9, <1>10, <1>11, Appended, SoundHolds DEF Holds


LEMMA RenameEnds ==
    ASSUME NEW d, NEW R, Fine(d, R, {}), NEW from \in DirsOf(d, R), NEW to \in DirsOf(d, R),
           NEW n \in Names, NEW m \in Names, NEW src, src = ext2_lookup(d, from, n), src # 0,
           NEW dst, dst = ext2_lookup(d, to, m), dst # 0 => d.ino[dst].mode # "dir"
    PROVE  Now(ext2_rename(<<d>>, from, n, to, m)) \in Sound
<1> DEFINE t == <<d>>
           over == IF dst = 0 THEN t ELSE ext2_unlink(t, to, m)
           x == Now(over)
           a == dir_add_entry(over, x.ino[to], src, m)
           z == write_inode(a.t, to, a.ino)
           od == Now(z).ino[from]
           y == write_inode(dir_unlink_entry(z, od, n), from, od)
           u == ext2_rename(t, from, n, to, m)
<1> SUFFICES Now(u) \in Sound
  OBVIOUS
<1>1. d \in Image /\ t \in Traces(Image) /\ Now(t) = d
  BY FineIs, TraceOf
<1> HIDE DEF t
<1>2. u = IF ~a.ok THEN a.t
          ELSE IF d.ino[src].mode = "dir" /\ from # to THEN Reparented(y, src, from, to) ELSE y
  BY <1>1 DEF ext2_rename
<1> HIDE DEF u
<1>3. /\ over \in Traces(Image)
      /\ \E Q : /\ Ready(x, Q, from, n, to, m, src)
                /\ d.ino[src].mode = "dir" => src \in DirsOf(x, Q)
  <2>1. CASE dst = 0
    <3>1. over = t /\ x = d
      BY <1>1, <2>1
    <3>2. src \in R /\ src \in Inodes
      BY LookupCounts, FineIs
    <3>3. ~(from = to /\ n = m)
      BY <2>1
    <3> HIDE DEF over, x
    <3>4. Ready(x, R, from, n, to, m, src)
      BY <3>1, <3>2, <3>3 DEF Ready
    <3> QED
      BY <1>1, <3>1, <3>2, <3>4 DEF DirsOf
  <2>2. CASE dst # 0
    <3>1. over = ext2_unlink(t, to, m)
      BY <2>2
    <3>2. dst # 0 /\ d.ino[dst].mode # "dir" /\ d = Now(t) /\ t \in Traces(Image)
      BY <1>1, <2>2
    <3> HIDE DEF over
    <3> QED
      BY <3>1, <3>2, OverGone
  <2> QED
    BY <2>1, <2>2
<1>4. PICK Q : /\ Ready(x, Q, from, n, to, m, src)
               /\ d.ino[src].mode = "dir" => src \in DirsOf(x, Q)
  BY <1>3
<1> HIDE DEF over
<1>5. Moving(over, x, from, n, to, m, src, a, z, od, y)
  BY <1>3 DEF Moving
<1> HIDE DEF x, a, z, od, y
<1>6. /\ a.ok \in BOOLEAN
      /\ ~a.ok => Now(a.t) \in Sound
      /\ a.ok => y \in Traces(Image) /\ Fine(Now(y), Q, {}) /\ DirsOf(Now(y), Q) = DirsOf(x, Q)
  <2>1. Moved(x, Q, a, y)
    BY <1>4, <1>5, RenameMoved
  <2> QED
    BY ONLY <2>1 DEF Moved
<1>7. CASE ~a.ok
  BY <1>2, <1>6, <1>7
<1>8. CASE a.ok
  <2>1. from \in DirsOf(x, Q) /\ to \in DirsOf(x, Q)
    BY <1>4 DEF Ready
  <2>2. Now(y) \in Sound
    BY <1>6, <1>8, SoundHolds DEF Holds
  <2>3. CASE d.ino[src].mode = "dir" /\ from # to
    <3>1. Now(Reparented(y, src, from, to)) \in Sound
      BY <1>4, <1>6, <1>8, <2>1, <2>3, Reparents
    <3> QED
      BY <1>2, <1>8, <2>3, <3>1
  <2> QED
    BY <1>2, <1>8, <2>2, <2>3
<1> QED
  BY <1>6, <1>7, <1>8


----------------------------------------------------------------------------
(* Paths lead to inodes that count.                                        *)

\* One step of a walk: a link is followed.
HopStep(d, dir, at) ==
    IF at # 0 /\ d.ino[at].mode = "lnk" THEN ext2_lookup(d, dir, Target(d, at)) ELSE at

LEMMA WalkCounts ==
    ASSUME NEW d, NEW R, Fine(d, R, {}), NEW dir \in DirsOf(d, R), NEW n
    PROVE  walk_from(d, dir, n) \in R \cup {0}
<1> DEFINE A == R \cup {0}
           x == ext2_lookup(d, dir, n)
           g == [p \in Nat \X A |-> IF p[1] = 0 THEN p[2] ELSE HopStep(d, dir, p[2])]
           hop == CHOOSE f : f = [h \in Nat |-> IF h = 0 THEN x ELSE HopStep(d, dir, f[h - 1])]
           last == hop[Cardinality(Names)]
<1>1. x \in A /\ \A m : ext2_lookup(d, dir, m) \in A
  BY LookupCounts
<1>2. \A w \in A : HopStep(d, dir, w) \in A
  BY <1>1 DEF HopStep
<1>3. walk_from(d, dir, n) = IF last # 0 /\ d.ino[last].mode = "lnk" THEN 0 ELSE last
  BY DEF walk_from, HopStep
<1> HIDE DEF A, x
<1>4. g \in [Nat \X A -> A] /\ \A i \in Nat \ {0}, w \in A : g[<<i, w>>] = HopStep(d, dir, w)
  BY <1>2
<1> HIDE DEF g
<1>5. PICK f : Iterates(f, A, x, g)
  BY <1>1, <1>4, Iteration
<1>6. f \in [Nat -> A] /\ f[0] = x /\ \A i \in Nat : f[i + 1] = HopStep(d, dir, f[i])
  <2>1. f \in [Nat -> A] /\ f[0] = x /\ \A i \in Nat : f[i + 1] = g[<<i + 1, f[i]>>]
    BY <1>5 DEF Iterates
  <2>2. \A i \in Nat : i + 1 \in Nat \ {0} /\ f[i] \in A
    BY <2>1
  <2> QED
    BY <1>4, <2>1, <2>2
<1>7. f = [h \in Nat |-> IF h = 0 THEN x ELSE HopStep(d, dir, f[h - 1])]
  <2>1. ASSUME NEW i \in Nat, i # 0 PROVE f[i] = HopStep(d, dir, f[i - 1])
    <3>1. i - 1 \in Nat /\ (i - 1) + 1 = i
      BY <2>1
    <3> QED
      BY <3>1, <1>6
  <2> QED
    BY <2>1, <1>6
<1>8. hop = [h \in Nat |-> IF h = 0 THEN x ELSE HopStep(d, dir, hop[h - 1])]
  BY <1>7
<1> HIDE DEF hop
<1> DEFINE T == {i \in Nat : hop[i] \in A}
<1>9. T = Nat
  <2>1. 0 \in T
    BY <1>1, <1>8
  <2>2. ASSUME NEW i \in T PROVE i + 1 \in T
    <3>1. i \in Nat /\ i + 1 \in Nat /\ i + 1 # 0 /\ (i + 1) - 1 = i
      BY <2>2
    <3>2. hop[i + 1] = HopStep(d, dir, hop[i])
      BY <1>8, <3>1
    <3> QED
      BY <1>2, <2>2, <3>1, <3>2
  <2>3. T \in SUBSET Nat
    OBVIOUS
  <2> HIDE DEF T
  <2> QED
    BY <2>1, <2>2, <2>3, NatSetInduction
<1>10. Cardinality(Names) \in Nat
  BY Ext2Assumption, FS_CardinalityType
<1>11. last \in A
  BY <1>9, <1>10
<1> QED
  BY <1>3, <1>11 DEF A

\* What the entries of directories lead to.
LEMMA BelowCounts ==
    ASSUME NEW d, NEW R, Fine(d, R, {}), NEW dirs, dirs \subseteq DirsOf(d, R)
    PROVE  Below(d, dirs) \subseteq R \cup {0}
<1> SUFFICES ASSUME NEW dir \in dirs, NEW p \in Places(d.ino[dir])
             PROVE  At(d, d.ino[dir], p).ino \in R \cup {0}
  BY DEF Below
<1>1. dir \in DirsOf(d, R)
  OBVIOUS
<1>2. p \in AllPlaces
  BY <1>1, NamedIs
<1>3. Entry(d, dir, p) = At(d, d.ino[dir], p)
  BY DEF Entry
<1> QED
  BY <1>1, <1>2, <1>3, LookupCounts

\* One step of the search for directories.
DirsStep(d, dirs) == dirs \cup {n \in Below(d, dirs) \ {0} : d.ino[n].mode = "dir"}

LEMMA DirsCount ==
    ASSUME NEW d, NEW R, Fine(d, R, {})
    PROVE  Dirs(d) \subseteq DirsOf(d, R)
<1> DEFINE A == SUBSET DirsOf(d, R)
           x == {ROOT}
           g == [p \in Nat \X A |-> IF p[1] = 0 THEN p[2] ELSE DirsStep(d, p[2])]
           upto == CHOOSE f : f = [i \in Nat |-> IF i = 0 THEN x ELSE DirsStep(d, f[i - 1])]
           last == upto[Cardinality(Inodes)]
<1>1. x \in A
  BY FineIs
<1>2. \A w \in A : DirsStep(d, w) \in A
  <2> SUFFICES ASSUME NEW w \in A PROVE DirsStep(d, w) \in A
    OBVIOUS
  <2>1. Below(d, w) \subseteq R \cup {0}
    BY BelowCounts
  <2> QED
    BY <2>1 DEF DirsStep, DirsOf
<1>3. Dirs(d) = last
  BY DEF Dirs, DirsStep
<1> HIDE DEF A, x
<1>4. g \in [Nat \X A -> A] /\ \A i \in Nat \ {0}, w \in A : g[<<i, w>>] = DirsStep(d, w)
  BY <1>2
<1> HIDE DEF g
<1>5. PICK f : Iterates(f, A, x, g)
  BY <1>1, <1>4, Iteration
<1>6. f \in [Nat -> A] /\ f[0] = x /\ \A i \in Nat : f[i + 1] = DirsStep(d, f[i])
  <2>1. f \in [Nat -> A] /\ f[0] = x /\ \A i \in Nat : f[i + 1] = g[<<i + 1, f[i]>>]
    BY <1>5 DEF Iterates
  <2>2. \A i \in Nat : i + 1 \in Nat \ {0} /\ f[i] \in A
    BY <2>1
  <2> QED
    BY <1>4, <2>1, <2>2
<1>7. f = [i \in Nat |-> IF i = 0 THEN x ELSE DirsStep(d, f[i - 1])]
  <2>1. ASSUME NEW i \in Nat, i # 0 PROVE f[i] = DirsStep(d, f[i - 1])
    <3>1. i - 1 \in Nat /\ (i - 1) + 1 = i
      BY <2>1
    <3> QED
      BY <3>1, <1>6
  <2> QED
    BY <2>1, <1>6
<1>8. upto = [i \in Nat |-> IF i = 0 THEN x ELSE DirsStep(d, upto[i - 1])]
  BY <1>7
<1> HIDE DEF upto
<1> DEFINE T == {i \in Nat : upto[i] \in A}
<1>9. T = Nat
  <2>1. 0 \in T
    BY <1>1, <1>8
  <2>2. ASSUME NEW i \in T PROVE i + 1 \in T
    <3>1. i \in Nat /\ i + 1 \in Nat /\ i + 1 # 0 /\ (i + 1) - 1 = i
      BY <2>2
    <3>2. upto[i + 1] = DirsStep(d, upto[i])
      BY <1>8, <3>1
    <3> QED
      BY <1>2, <2>2, <3>1, <3>2
  <2>3. T \in SUBSET Nat
    OBVIOUS
  <2> HIDE DEF T
  <2> QED
    BY <2>1, <2>2, <2>3, NatSetInduction
<1>10. Cardinality(Inodes) \in Nat
  BY Sizes, FS_CardinalityType
<1>11. last \in A
  BY <1>9, <1>10
<1> QED
  BY <1>3, <1>11 DEF A


----------------------------------------------------------------------------
(* The image is sound in every state.                                      *)

\* The calls that may be cut short are those whose every image is sound.
CutSafely == CrashCalls \subseteq {"create", "mkdir", "write", "unlink", "symlink"}
\* Directories are neither truncated nor written like files.
OnlyFiles == "dirs" \notin Unrefused
\* The text of a link spells no block of the disk.
LinksAreText == \A target \in Targets : Word[target] \notin Blocks

\* What is left of a write that the machine stops in the middle of.
LEMMA BlockTorn ==
    ASSUME NEW d, NEW R, Fine(d, R, {}), NEW b \in Blocks, NEW c \in Blk, d.blk[b].k # "ptr", c.k # "ptr",
           d.blk[b].k = "dir" => /\ c.k = "dir"
                                 /\ \A s \in 0 .. SLOTS - 1 : c.e[s].ino \in {d.blk[b].e[s].ino, 0},
           NEW e, e = [d EXCEPT !.blk[b] = c]
    PROVE  Fine(e, R, {})
<1>1. d \in Image /\ R \subseteq Inodes /\ R \subseteq d.ibm
  BY FineIs
<1>2. /\ e \in Image /\ e.ino = d.ino /\ e.ibm = d.ibm /\ e.bbm = d.bbm /\ e.blk[b] = c
      /\ \A x \in Blocks \ {b} : e.blk[x] = d.blk[x]
  BY <1>1 DEF Image
<1>3. \A x, j : ptr_get(e, x, j) = ptr_get(d, x, j)
  BY <1>2 DEF ptr_get
<1>4. \A ino, k : Ptr(e, ino, k) = Ptr(d, ino, k)
  BY <1>3, Zenon DEF Ptr
<1>5. DirsOf(e, R) = DirsOf(d, R) /\ Rooted(e, R) /\ Apart(e, R)
  BY <1>2, <1>4 DEF DirsOf, Rooted, Apart, Fine
<1>6. Whole(d, R) /\ Whole(e, R)
  <2>1. Whole(d, R)
    BY DEF Fine
  <2>2. ASSUME NEW n \in DirsOf(d, R), NEW i \in 0 .. d.ino[n].size - 1
        PROVE  Ptr(e, e.ino[n], SlotOf(i)) \in Blocks /\ e.blk[Ptr(e, e.ino[n], SlotOf(i))].k = "dir"
    <3> DEFINE x == Ptr(d, d.ino[n], SlotOf(i))
    <3>1. x \in Blocks /\ d.blk[x].k = "dir"
      BY <2>1 DEF Whole
    <3>2. Ptr(e, e.ino[n], SlotOf(i)) = x
      BY <1>2, <1>4
    <3> HIDE DEF x
    <3>3. e.blk[x].k = "dir"
      BY <1>2, <3>1
    <3> QED
      BY <3>1, <3>2, <3>3
  <2>3. \A n \in DirsOf(d, R) : e.ino[n].size = d.ino[n].size /\ d.ino[n].size \in 1 .. NDIR + PTRS
    BY <1>2, <2>1 DEF Whole
  <2> QED
    BY <1>5, <2>1, <2>2, <2>3 DEF Whole
<1>7. ASSUME NEW n \in DirsOf(d, R), NEW p \in AllPlaces
      PROVE  Entry(e, n, p).ino \in {Entry(d, n, p).ino, 0}
  <2> DEFINE i == p \div SLOTS
             x == Ptr(d, d.ino[n], SlotOf(i))
  <2>1. /\ p % SLOTS \in 0 .. SLOTS - 1
        /\ i < d.ino[n].size => /\ x \in Blocks /\ d.blk[x].k = "dir"
                                /\ Entry(d, n, p) = d.blk[x].e[p % SLOTS]
        /\ ~(i < d.ino[n].size) => Entry(d, n, p) = Vacant
    BY <1>1, <1>6, EntryIs
  <2>2. /\ i < d.ino[n].size => Entry(e, n, p) = e.blk[x].e[p % SLOTS]
        /\ ~(i < d.ino[n].size) => Entry(e, n, p) = Vacant
    <3>1. n \in DirsOf(e, R) /\ e.ino[n] = d.ino[n] /\ Ptr(e, e.ino[n], SlotOf(i)) = x
      BY <1>2, <1>4, <1>5
    <3>2. LET y == Ptr(e, e.ino[n], SlotOf(p \div SLOTS))
          IN /\ p \div SLOTS < e.ino[n].size => Entry(e, n, p) = e.blk[y].e[p % SLOTS]
             /\ ~(p \div SLOTS < e.ino[n].size) => Entry(e, n, p) = Vacant
      BY ONLY p \in AllPlaces, <1>2, <1>6, <3>1, EntryIs
    <3> QED
      BY <3>1, <3>2
  <2> HIDE DEF i, x
  <2>3. CASE i < d.ino[n].size /\ x = b
    BY <1>2, <2>1, <2>2, <2>3
  <2>4. CASE ~(i < d.ino[n].size) \/ x # b
    BY <1>2, <2>1, <2>2, <2>4
  <2> QED
    BY <2>3, <2>4
<1>8. Closed(e, R, {})
  <2>1. Closed(d, R, {})
    BY DEF Fine
  <2> QED
    BY <1>5, <1>7, <2>1 DEF Closed
<1>9. Covered(e, R, {})
  <2> SUFFICES ASSUME NEW m \in R, e.ino[m].mode # "dir"
               PROVE  Cardinality(Naming(e, R, {}, m)) <= e.ino[m].links
    BY DEF Covered
  <2>1. m # 0 /\ d.ino[m].links \in Nat /\ e.ino[m] = d.ino[m]
    BY <1>1, <1>2, Sizes, ImageFields
  <2>2. Naming(e, R, {}, m) \subseteq Naming(d, R, {}, m)
    BY <1>5, <1>7, <2>1 DEF Naming
  <2>3. /\ IsFiniteSet(Naming(d, R, {}, m)) /\ Cardinality(Naming(d, R, {}, m)) \in Nat
        /\ Cardinality(Naming(d, R, {}, m)) <= d.ino[m].links
    BY <1>1, <2>1, NamingFinite DEF Fine, Covered
  <2>4. Cardinality(Naming(e, R, {}, m)) <= Cardinality(Naming(d, R, {}, m))
        /\ Cardinality(Naming(e, R, {}, m)) \in Nat
    BY <2>2, <2>3, FS_Subset, FS_CardinalityType
  <2> QED
    BY ONLY <2>1, <2>3, <2>4
<1> QED
  BY <1>2, <1>5, <1>6, <1>8, <1>9 DEF Fine

\* The two halves are an image in order, unless they show a removed entry.
LEMMA HalvesSound ==
    ASSUME NEW d \in Sound, NEW b \in Blocks, NEW new \in Blk, NEW c \in Halves(d.blk[b], new),
           ~Revives(d.blk[b], c)
    PROVE  [d EXCEPT !.blk[b] = c] \in Sound
<1>1. PICK R \in SUBSET Inodes : Fine(d, R, {})
  BY DEF Sound
<1> DEFINE old == d.blk[b]
           e == [d EXCEPT !.blk[b] = c]
<1>2. old \in Blk
  BY ImageFields DEF Sound
<1>3. CASE new.k = "data" /\ old.k \in {"zero", "data"}
  <2> DEFINE v == <<new.v[1], IF old.k = "data" THEN old.v[2] ELSE Zero[2]>>
  <2>1. c = DataBlk(v)
    BY <1>3 DEF Halves
  <2>2. new.v \in Sectors /\ (old.k = "data" => old.v \in Sectors) /\ Zero[2] = 0
    BY <1>2, <1>3, BlkKinds DEF Zero
  <2>3. v \in Sectors
    BY <2>2 DEF Sectors
  <2>4. c \in Blk /\ c.k = "data"
    BY <2>1, <2>3, BlkKinds
  <2> QED
    BY <1>1, <1>3, <2>4, BlockTorn, SoundHolds DEF Holds
<1>4. CASE ~(new.k = "data" /\ old.k \in {"zero", "data"})
  <2> DEFINE f == [s \in 0 .. SLOTS - 1 |-> IF s < HALF THEN old.e[s] ELSE old.was[s]]
  <2>1. old.k = "dir" /\ c = DirBlk(f, old.was)
    BY <1>4 DEF Halves
  <2>2. old.e \in Entries /\ old.was \in Entries
    BY <1>2, <2>1, BlkKinds
  <2>3. f \in Entries
    BY <2>2 DEF Entries
  <2>4. c \in Blk /\ c.k = "dir" /\ c.e = f
    <3> DEFINE w == old.was
    <3>1. c = DirBlk(f, w) /\ f \in Entries /\ w \in Entries
      BY <2>1, <2>2, <2>3
    <3> HIDE DEF f, w
    <3>2. DirBlk(f, w) \in Blk /\ DirBlk(f, w).k = "dir" /\ DirBlk(f, w).e = f
      BY ONLY <3>1, BlkKinds
    <3> QED
      BY ONLY <3>1, <3>2
  <2>5. \A s \in 0 .. SLOTS - 1 : c.e[s].ino \in {old.e[s].ino, 0}
    BY <2>4 DEF Revives
  <2> QED
    BY <1>1, <2>1, <2>4, <2>5, BlockTorn, SoundHolds DEF Holds
<1> QED
  BY <1>3, <1>4

LEMMA StopSound ==
    ASSUME NEW name, NEW u \in Traces(Sound), Stop(name, u), ~revived'
    PROVE  disk' \in Sound
<1>1. /\ Len(u) \in Nat /\ \A k \in 1 .. Len(u) : u[k] \in Sound
  BY TraceFacts
<1>2. PICK k \in 1 .. Len(u) - 1 :
         \/ disk' = u[k]
         \/ \E b \in Blocks : \E c \in Halves(u[k].blk[b], u[k + 1].blk[b]) :
              /\ disk' = [u[k] EXCEPT !.blk[b] = c]
              /\ revived' = (revived \/ Revives(u[k].blk[b], c))
  BY DEF Stop
<1>3. k \in 1 .. Len(u) /\ k + 1 \in 1 .. Len(u)
  BY <1>1
<1>4. u[k] \in Sound /\ u[k + 1] \in Image
  BY <1>1, <1>3 DEF Sound
<1>5. CASE disk' = u[k]
  BY <1>4, <1>5
<1>6. ASSUME NEW b \in Blocks, NEW c \in Halves(u[k].blk[b], u[k + 1].blk[b]),
             disk' = [u[k] EXCEPT !.blk[b] = c],
             revived' = (revived \/ Revives(u[k].blk[b], c))
      PROVE  disk' \in Sound
  <2>1. ~Revives(u[k].blk[b], c)
    BY <1>6
  <2>2. u[k + 1].blk[b] \in Blk
    BY <1>4, ImageFields
  <2> QED
    BY <1>4, <1>6, <2>1, <2>2, HalvesSound
<1> QED
  BY <1>2, <1>5, <1>6

LEMMA CallSound ==
    ASSUME NEW name, NEW u \in Traces(Sound), Call(name, u), ~revived'
    PROVE  disk' \in Sound
<1>1. Now(u) \in Sound
  BY TraceFacts
<1> QED
  BY <1>1, StopSound DEF Call

LEMMA CallEnds ==
    ASSUME NEW name, NEW u, Now(u) \in Sound, Call(name, u), name \notin CrashCalls
    PROVE  disk' \in Sound
  BY DEF Call, Stop

\* An entry that was read again stays so.
LEMMA RevivedStays ==
    ASSUME [Next]_vars, revived
    PROVE  revived'
<1>1. ASSUME NEW name, NEW u, Call(name, u) PROVE revived'
  BY <1>1 DEF Call, Stop
<1> QED
  BY <1>1 DEF Next, Create, Mkdir, Truncate, Write, Unlink, Symlink, Link, Rename, vars

LEMMA InitSound == Init => disk \in Sound
<1> SUFFICES ASSUME Init PROVE disk \in Sound
  OBVIOUS
<1> DEFINE b == Min(Blocks)
           R == {ROOT}
           root == [NewIno("dir", 2) EXCEPT !.size = 1, !.blocks = 1, !.ptr[0] = b]
           v == DirBlk(Dots(ROOT, ROOT), Unwritten)
<1>1. b \in Blocks /\ b \in Nat /\ b # 0
  BY Sizes, LeastIn, Ext2Assumption
<1>2. /\ disk.bbm = {b} /\ disk.ibm = R
      /\ disk.gdt = [blocks |-> Cardinality(Blocks) - 1, inodes |-> Cardinality(Inodes) - 1, dirs |-> 1]
      /\ disk.sb = [blocks |-> Cardinality(Blocks) - 1, inodes |-> Cardinality(Inodes) - 1]
      /\ disk.ino = [n \in Inodes |-> IF n = ROOT THEN root ELSE NewIno("none", 0)]
      /\ disk.blk = [c \in Blocks |-> IF c = b THEN v ELSE ZeroBlk]
      /\ disk \in [bbm : {disk.bbm}, ibm : {disk.ibm}, gdt : {disk.gdt}, sb : {disk.sb},
                   ino : {disk.ino}, blk : {disk.blk}]
  BY DEF Init
<1>3. /\ root \in Ino /\ root.mode = "dir" /\ root.size = 1
      /\ \A k \in 0 .. NDIR : root.ptr[k] = IF k = 0 THEN b ELSE 0
  <2>1. /\ NewIno("dir", 2) \in Ino /\ NewIno("dir", 2).mode = "dir" /\ NewIno("dir", 2).ptr = Holes
        /\ Holes \in [0 .. NDIR -> Nat] /\ (\A k \in 0 .. NDIR : Holes[k] = 0) /\ 0 \in 0 .. NDIR
    BY NewInoIs, Sizes
  <2> DEFINE ptr == [Holes EXCEPT ![0] = b]
  <2>2. ptr \in [0 .. NDIR -> Nat] /\ \A k \in 0 .. NDIR : ptr[k] = IF k = 0 THEN b ELSE 0
    BY <1>1, <2>1
  <2>3. root.ptr = ptr /\ root.mode = "dir" /\ root.size = 1
    BY <2>1 DEF Ino
  <2>4. root \in Ino
    <3> DEFINE new == NewIno("dir", 2)
    <3>1. new \in Ino /\ [new.ptr EXCEPT ![0] = b] \in [0 .. NDIR -> Nat]
      BY <2>1, <2>2
    <3> DEFINE more == [new EXCEPT !.size = 1, !.blocks = 1]
    <3>2. root = [more EXCEPT !.ptr[0] = b]
      OBVIOUS
    <3> HIDE DEF new
    <3>3. more \in Ino /\ more.ptr = new.ptr
      <4> DEFINE sized == [new EXCEPT !.size = 1]
      <4>1. more = [sized EXCEPT !.blocks = 1]
        OBVIOUS
      <4>2. sized \in Ino /\ sized.ptr = new.ptr
        BY ONLY <3>1 DEF Ino
      <4> HIDE DEF sized, more
      <4> QED
        BY ONLY <4>1, <4>2 DEF Ino
    <3> HIDE DEF more
    <3>4. [more.ptr EXCEPT ![0] = b] \in [0 .. NDIR -> Nat]
      BY ONLY <3>1, <3>3
    <3> HIDE DEF root
    <3> QED
      BY ONLY <3>2, <3>3, <3>4 DEF Ino
  <2> HIDE DEF root, ptr
  <2> QED
    BY <2>2, <2>3, <2>4
<1>4. NewIno("none", 0) \in Ino
  BY NewInoIs DEF NewIno, Ino
<1>5. v \in Blk /\ v.k = "dir" /\ v.e = Dots(ROOT, ROOT)
  <2>1. Dots(ROOT, ROOT) \in Entries
    BY Sizes, DotsTyped
  <2> QED
    BY <2>1, BlkKinds, EntriesAre
<1> HIDE DEF b, root, v
<1>6. /\ disk \in Image /\ disk.ino[ROOT] = root /\ disk.blk[b] = v
  <2>1. disk.gdt \in [blocks : Int, inodes : Int, dirs : Int] /\ disk.sb \in [blocks : Int, inodes : Int]
    <3>1. Cardinality(Blocks) \in Nat /\ Cardinality(Inodes) \in Nat
      BY Ext2Assumption, FS_CardinalityType
    <3>2. Cardinality(Blocks) - 1 \in Int /\ Cardinality(Inodes) - 1 \in Int
      BY <3>1
    <3> QED
      BY <1>2, <3>2
  <2>2. disk.ino \in [Inodes -> Ino] /\ disk.ino[ROOT] = root
    BY <1>2, <1>3, <1>4, Sizes
  <2>3. disk.blk \in [Blocks -> Blk] /\ disk.blk[b] = v
    BY <1>1, <1>2, <1>5, BlkKinds
  <2>4. disk.bbm \in SUBSET Blocks /\ disk.ibm \in SUBSET Inodes
    BY <1>1, <1>2, Sizes
  <2>5. disk \in [bbm : {disk.bbm}, ibm : {disk.ibm}, gdt : {disk.gdt}, sb : {disk.sb},
                  ino : {disk.ino}, blk : {disk.blk}]
    BY <1>2
  <2> QED
    BY ONLY <2>1, <2>2, <2>3, <2>4, <2>5 DEF Image
<1>7. disk.bbm = {b} /\ disk.ibm = R
  BY <1>2
<1>8. \A k \in Slots : Ptr(disk, root, k) = IF k = 0 THEN b ELSE 0
  <2> SUFFICES ASSUME NEW k \in Slots PROVE Ptr(disk, root, k) = IF k = 0 THEN b ELSE 0
    OBVIOUS
  <2>1. CASE k <= NDIR
    BY <2>1, <1>3, SlotFacts DEF Ptr
  <2>2. CASE ~(k <= NDIR)
    BY <2>2, <1>3, Sizes DEF Ptr, ptr_get
  <2> QED
    BY <2>1, <2>2
<1>9. Rooted(disk, R) /\ DirsOf(disk, R) = R
  BY <1>3, <1>6, <1>7 DEF Rooted, DirsOf
<1>10. Apart(disk, R)
  BY <1>1, <1>3, <1>6, <1>7, <1>8, Sizes DEF Apart
<1>11. Whole(disk, R)
  <2>1. SlotOf(0) = 0 /\ 0 \in Slots
    BY Sizes DEF SlotOf, Slots
  <2>2. \A i \in 0 .. root.size - 1 : i = 0
    BY <1>3
  <2>3. Ptr(disk, root, 0) = b
    BY <1>8, <2>1
  <2>4. root.size \in 1 .. NDIR + PTRS
    BY <1>3, Sizes
  <2> QED
    BY <1>1, <1>5, <1>6, <1>9, <2>1, <2>2, <2>3, <2>4 DEF Whole
<1>12. Closed(disk, R, {})
  <2> SUFFICES ASSUME NEW p \in AllPlaces PROVE Entry(disk, ROOT, p).ino \in R \cup {0}
    BY <1>9 DEF Closed
  <2>1. ROOT \in DirsOf(disk, R)
    BY <1>9
  <2> DEFINE i == p \div SLOTS
             c == Ptr(disk, disk.ino[ROOT], SlotOf(i))
  <2>2. /\ i \in Nat /\ p % SLOTS \in 0 .. SLOTS - 1
        /\ i < root.size => c \in Blocks /\ Entry(disk, ROOT, p) = disk.blk[c].e[p % SLOTS]
        /\ ~(i < root.size) => Entry(disk, ROOT, p) = Vacant
    BY <1>6, <1>11, <2>1, EntryIs
  <2>3. CASE i < root.size
    <3>1. i = 0
      BY <1>3, <2>2, <2>3
    <3>2. c = b
      BY <3>1, <1>6, <1>8, Sizes DEF SlotOf, Slots
    <3> QED
      BY <1>5, <1>6, <2>2, <2>3, <3>2, DotsNamed
  <2>4. CASE ~(i < root.size)
    BY <2>2, <2>4, VacantIs
  <2> QED
    BY <2>3, <2>4
<1>13. Covered(disk, R, {})
  BY <1>3, <1>6 DEF Covered
<1>14. Fine(disk, R, {})
  BY <1>6, <1>9, <1>10, <1>11, <1>12, <1>13 DEF Fine
<1> QED
  BY <1>14, SoundHolds DEF Holds


LEMMA StepSound ==
    ASSUME CutSafely, LinksAreText, OnlyFiles, ~revived => disk \in Sound, [Next]_vars
    PROVE  ~revived' => disk' \in Sound
<1> SUFFICES ASSUME ~revived' PROVE disk' \in Sound
  OBVIOUS
<1>0. disk \in Sound /\ Writable = {"reg"}
  BY RevivedStays DEF OnlyFiles, Writable
<1>1. PICK R \in SUBSET Inodes : Fine(disk, R, {})
  BY <1>0 DEF Sound
<1>2. Dirs(disk) \subseteq DirsOf(disk, R) /\ DirsOf(disk, R) \subseteq R
  BY <1>1, DirsCount DEF DirsOf
<1>3. ASSUME NEW dir \in Dirs(disk), NEW n, NEW f \in Reached(dir, n, {"reg"})
      PROVE  f \in R /\ disk.ino[f].mode = "reg"
  <2>1. walk_from(disk, dir, n) \in R \cup {0}
    BY <1>1, <1>2, WalkCounts
  <2> QED
    BY <2>1 DEF Reached
<1>4. ASSUME Create PROVE disk' \in Sound
  <2>1. PICK dir \in Dirs(disk), n \in Names : Call("create", ext2_create(<<disk>>, dir, n, FALSE))
    BY <1>4 DEF Create
  <2>2. ext2_create(<<disk>>, dir, n, FALSE) \in Traces(Sound)
    BY <1>1, <1>2, CreateFileSound
  <2> QED
    BY <2>1, <2>2, CallSound
<1>5. ASSUME Mkdir PROVE disk' \in Sound
  <2>1. PICK dir \in Dirs(disk), n \in Names : Call("mkdir", ext2_create(<<disk>>, dir, n, TRUE))
    BY <1>5 DEF Mkdir
  <2>2. ext2_create(<<disk>>, dir, n, TRUE) \in Traces(Sound)
    BY <1>1, <1>2, MkdirSound
  <2> QED
    BY <2>1, <2>2, CallSound
<1>6. ASSUME Truncate PROVE disk' \in Sound
  <2>1. PICK dir \in Dirs(disk), n \in Names : \E f \in Reached(dir, n, {"reg"}) :
          Call("truncate", ext2_truncate(<<disk>>, f))
    BY <1>0, <1>6 DEF Truncate
  <2>2. PICK f \in Reached(dir, n, {"reg"}) : Call("truncate", ext2_truncate(<<disk>>, f))
    BY <2>1
  <2>3. Now(ext2_truncate(<<disk>>, f)) \in Sound
    BY <1>1, <1>3, TruncateEnds
  <2> QED
    BY <2>2, <2>3, CallEnds DEF CutSafely
<1>7. ASSUME Write PROVE disk' \in Sound
  <2>1. PICK dir \in Dirs(disk), n \in Names : \E f \in Reached(dir, n, {"reg"}), s \in Spans :
          Call("write", ext2_write(<<disk>>, f, s[1], s[2]))
    BY <1>0, <1>7 DEF Write
  <2>2. PICK f \in Reached(dir, n, {"reg"}), s \in Spans : Call("write", ext2_write(<<disk>>, f, s[1], s[2]))
    BY <2>1
  <2>3. s[1] \in Nat /\ s[2] \in Nat
    BY Ext2Assumption
  <2>4. ext2_write(<<disk>>, f, s[1], s[2]) \in Traces(Sound)
    BY <1>1, <1>3, <2>3, WriteSound
  <2> QED
    BY <2>2, <2>4, CallSound
<1>8. ASSUME Unlink PROVE disk' \in Sound
  <2>1. PICK dir \in Dirs(disk), n \in Names :
          \E f \in NamedThere(dir, n) : disk.ino[f].mode # "dir" /\ Call("unlink", ext2_unlink(<<disk>>, dir, n))
    BY <1>8 DEF Unlink
  <2>2. PICK f \in NamedThere(dir, n) :
          disk.ino[f].mode # "dir" /\ Call("unlink", ext2_unlink(<<disk>>, dir, n))
    BY <2>1
  <2>3. f = ext2_lookup(disk, dir, n) /\ f # 0
    BY DEF NamedThere
  <2>4. ext2_unlink(<<disk>>, dir, n) \in Traces(Sound)
    BY <1>1, <1>2, <2>2, <2>3, UnlinkSound
  <2> QED
    BY <2>2, <2>4, CallSound
<1>9. ASSUME Symlink PROVE disk' \in Sound
  <2>1. PICK dir \in Dirs(disk), n \in Names, target \in Targets :
          Call("symlink", ext2_symlink(<<disk>>, dir, n, target))
    BY <1>9 DEF Symlink
  <2>2. ext2_symlink(<<disk>>, dir, n, target) \in Traces(Sound)
    BY <1>1, <1>2, SymlinkSound DEF LinksAreText
  <2> QED
    BY <2>1, <2>2, CallSound
<1>10. ASSUME Link PROVE disk' \in Sound
  <2>1. PICK dir \in Dirs(disk), n \in Names :
          \E from \in Dirs(disk), m \in Names : \E f \in Reached(from, m, {"reg"}) :
            Call("link", ext2_link(<<disk>>, dir, n, f))
    BY <1>10 DEF Link
  <2>2. PICK from \in Dirs(disk), m \in Names : \E f \in Reached(from, m, {"reg"}) :
            Call("link", ext2_link(<<disk>>, dir, n, f))
    BY <2>1
  <2>3. PICK f \in Reached(from, m, {"reg"}) : Call("link", ext2_link(<<disk>>, dir, n, f))
    BY <2>2
  <2>4. Now(ext2_link(<<disk>>, dir, n, f)) \in Sound
    BY <1>1, <1>2, <1>3, LinkEnds
  <2> QED
    BY <2>3, <2>4, CallEnds DEF CutSafely
<1>11. ASSUME Rename PROVE disk' \in Sound
  <2>1. PICK from \in Dirs(disk), to \in Dirs(disk), n \in Names, m \in Names :
          \E src \in NamedThere(from, n) : /\ \A dst \in NamedThere(to, m) : disk.ino[dst].mode # "dir"
                                           /\ Call("rename", ext2_rename(<<disk>>, from, n, to, m))
    BY <1>11 DEF Rename
  <2>2. PICK src \in NamedThere(from, n) :
          /\ \A dst \in NamedThere(to, m) : disk.ino[dst].mode # "dir"
          /\ Call("rename", ext2_rename(<<disk>>, from, n, to, m))
    BY <2>1
  <2> DEFINE dst == ext2_lookup(disk, to, m)
  <2>3. src = ext2_lookup(disk, from, n) /\ src # 0 /\ (dst # 0 => disk.ino[dst].mode # "dir")
    BY <2>2 DEF NamedThere
  <2>4. Now(ext2_rename(<<disk>>, from, n, to, m)) \in Sound
    BY <1>1, <1>2, <2>3, RenameEnds
  <2> QED
    BY <2>2, <2>4, CallEnds DEF CutSafely
<1>12. ASSUME UNCHANGED vars PROVE disk' \in Sound
  BY <1>12 DEF vars
<1> QED
  BY <1>4, <1>5, <1>6, <1>7, <1>8, <1>9, <1>10, <1>11, <1>12 DEF Next


\* Every image the disk can hold is sound, unless a stop has shown a removed entry, if
\* the calls the machine may stop in are those whose every image is, only files are
\* truncated and written, and no link's text spells a block.
THEOREM SoundAlways ==
    ASSUME CutSafely, LinksAreText, OnlyFiles
    PROVE  Spec => [](~revived => disk \in Sound)
<1>1. Init => (~revived => disk \in Sound)
  BY InitSound
<1>2. /\ CutSafely /\ LinksAreText /\ OnlyFiles
      /\ (~revived => disk \in Sound) /\ [Next]_vars
      => (~revived => disk \in Sound)'
  BY StepSound
<1> QED
  BY <1>1, <1>2, PTL DEF Spec

\* The block numbers of a file, by the slots they stand in.
LEMMA OwnedSlots ==
    ASSUME NEW R, Fine(disk, R, {}), NEW n \in R
    PROVE  /\ \A b \in Range0(Owned(n)) : b \in disk.bbm /\ \E k \in Slots : Ptr(disk, disk.ino[n], k) = b
           /\ \A i, j \in DOMAIN Owned(n) : i # j /\ Owned(n)[i] # 0 => Owned(n)[i] # Owned(n)[j]
<1>1. CASE disk.ino[n].mode = "lnk"
  BY <1>1 DEF Owned, Range0
<1>2. CASE disk.ino[n].mode # "lnk"
  <2> DEFINE bs == Freed(disk, disk.ino[n])
             At0(i) == IF i <= NDIR THEN i - 1 ELSE IF i <= NDIR + PTRS THEN i ELSE NDIR
  <2>1. /\ Owned(n) = bs /\ DOMAIN bs = 1 .. Len(bs) /\ Len(bs) \in Nat
        /\ \A i \in 1 .. Len(bs) : bs[i] = Ptr(disk, disk.ino[n], At0(i))
        /\ Len(bs) \in {NDIR, NDIR + PTRS + 1}
    BY <1>2, FreedIs DEF Owned
  <2> HIDE DEF bs
  <2> DEFINE len == Len(bs)
  <2>7. len \in Nat /\ len <= NDIR + PTRS + 1 /\ NDIR \in Nat \ {0} /\ PTRS \in Nat \ {0}
    <3>1. len \in Nat /\ (len = NDIR \/ len = NDIR + PTRS + 1)
      BY <2>1
    <3> HIDE DEF len
    <3> QED
      BY ONLY <3>1, Sizes
  <2> HIDE DEF len
  <2>2. \A i \in 1 .. Len(bs) : At0(i) \in Slots
    <3>1. \A i \in 1 .. len : At0(i) \in Slots
      BY ONLY <2>7 DEF Slots
    <3> QED
      BY <3>1 DEF len
  <2>3. \A i, j \in 1 .. Len(bs) : At0(i) = At0(j) => i = j
    <3>1. \A i, j \in 1 .. len : At0(i) = At0(j) => i = j
      BY ONLY <2>7
    <3> QED
      BY <3>1 DEF len
  <2> HIDE DEF At0
  <2>4. \A i \in 1 .. Len(bs) : bs[i] \in disk.bbm \cup {0}
    BY <1>2, <2>1, <2>2, FineIs
  <2>5. disk.bbm \subseteq Blocks
    BY FineIs, ImageFields
  <2>6. ASSUME NEW i \in 1 .. Len(bs), NEW j \in 1 .. Len(bs), i # j, bs[i] # 0, bs[i] = bs[j] PROVE FALSE
    <3>1. bs[i] \in Blocks
      BY <2>4, <2>5, <2>6
    <3>2. At0(i) = At0(j)
      BY <2>1, <2>2, <2>6, <3>1, FineIs
    <3> QED
      BY <2>3, <2>6, <3>2
  <2> QED
    BY <2>1, <2>2, <2>4, <2>6 DEF Range0
<1> QED
  BY <1>1, <1>2

\* What a name leads to is allocated, and every block of it is marked in use and belongs
\* to it alone, once: also after stops in create, mkdir, symlink, write and unlink,
\* between two writes or two sectors of one, none of which showed a removed entry again
\* (alloc_block, free_inode_blocks, eb_write).
THEOREM OwnedOnceAlways ==
    ASSUME CutSafely, LinksAreText, OnlyFiles
    PROVE  Spec => []OwnedOnce
<1>1. (~revived => disk \in Sound) => OwnedOnce
  <2> SUFFICES ASSUME disk \in Sound PROVE OwnedOnce
    BY DEF OwnedOnce
  <2>1. PICK R \in SUBSET Inodes : Fine(disk, R, {})
    BY DEF Sound
  <2>2. InUse \subseteq R
    BY <2>1, DirsCount, BelowCounts DEF InUse
  <2> DEFINE owned == [n \in InUse |-> Range0(Owned(n))]
  <2>3. \A n \in InUse : owned[n] = Range0(Owned(n)) /\ owned[n] \subseteq disk.bbm
    BY <2>1, <2>2, OwnedSlots
  <2>4. \A n \in InUse : \A i, j \in DOMAIN Owned(n) : i # j /\ Owned(n)[i] # 0 => Owned(n)[i] # Owned(n)[j]
    BY <2>1, <2>2, OwnedSlots
  <2>5. ASSUME NEW n \in InUse, NEW o \in InUse, n # o, NEW b \in owned[n] \cap owned[o] PROVE FALSE
    <3>1. b \in disk.bbm /\ n \in R /\ o \in R
      BY <2>2, <2>3
    <3>2. PICK k \in Slots : Ptr(disk, disk.ino[n], k) = b
      BY <2>1, <2>3, <3>1, OwnedSlots
    <3>3. PICK l \in Slots : Ptr(disk, disk.ino[o], l) = b
      BY <2>1, <2>3, <3>1, OwnedSlots
    <3>4. b \in Blocks
      BY <2>1, <3>1, FineIs, ImageFields
    <3> QED
      BY <2>1, <2>5, <3>1, <3>2, <3>3, <3>4, FineIs
  <2>6. InUse \subseteq disk.ibm
    BY <2>1, <2>2, FineIs
  <2> HIDE DEF owned
  <2> QED
    BY <2>3, <2>4, <2>5, <2>6 DEF OwnedOnce, owned
<1> QED
  BY <1>1, SoundAlways, PTL

\* No file is freed while it still has a name: its count covers its names, after whole
\* calls (ext2_unlink, ext2_link, ext2_rename) and after the stops of OwnedOnceAlways,
\* which leave out those in link and rename.
THEOREM LinksCoverNamesAlways ==
    ASSUME CutSafely, LinksAreText, OnlyFiles
    PROVE  Spec => []LinksCoverNames
<1>1. (~revived => disk \in Sound) => LinksCoverNames
  <2> SUFFICES ASSUME disk \in Sound,
                      NEW n \in Below(disk, Dirs(disk)) \ {0}, disk.ino[n].mode # "dir"
               PROVE  disk.ino[n].links >= Cardinality(Refs(n, Dirs(disk)))
    BY DEF LinksCoverNames
  <2>1. PICK R \in SUBSET Inodes : Fine(disk, R, {})
    BY DEF Sound
  <2>2. n \in R /\ Dirs(disk) \subseteq DirsOf(disk, R)
    BY <2>1, DirsCount, BelowCounts
  <2>3. Refs(n, Dirs(disk)) \subseteq Naming(disk, R, {}, n)
    BY <2>2 DEF Refs, Naming, AllPlaces, Entry
  <2>4. /\ IsFiniteSet(Naming(disk, R, {}, n)) /\ Cardinality(Naming(disk, R, {}, n)) \in Nat
        /\ Cardinality(Naming(disk, R, {}, n)) <= disk.ino[n].links /\ disk.ino[n].links \in Nat
    BY <2>1, <2>2, NamingFinite, FineIs DEF Fine, Covered, Ino
  <2>5. /\ Cardinality(Refs(n, Dirs(disk))) <= Cardinality(Naming(disk, R, {}, n))
        /\ Cardinality(Refs(n, Dirs(disk))) \in Nat
    BY <2>3, <2>4, FS_Subset, FS_CardinalityType
  <2> QED
    BY ONLY <2>4, <2>5
<1> QED
  BY <1>1, SoundAlways, PTL


=============================================================================
