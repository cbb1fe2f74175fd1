------------------------------- MODULE Ext2 -------------------------------
(***************************************************************************)
(* The root file system: src/ext2.c under src/vfs.c, and the calls of      *)
(* src/syscall.c that name files.  A system call runs with interrupts      *)
(* masked and the block driver polls, so calls never interleave; what cuts *)
(* a call short is the machine stopping between two of its block writes.   *)
(* Hence a call is a TRACE: the sequence of images the disk goes through.  *)
(* The call either runs to the last image, or the machine stops and is     *)
(* booted again from an earlier one (everything the driver caches is read  *)
(* back from there).  A block is two sectors, written one after the other, *)
(* and the stop may fall between them.                                     *)
(*                                                                         *)
(* One block group; PTRS pointers to a pointer block, one indirect level;  *)
(* entries of one length, SLOTS to a directory block ("." and ".." take    *)
(* two), HALF of them in its first sector and none across the two; a       *)
(* symbolic link names an entry of its own directory.                      *)
(***************************************************************************)
EXTENDS Integers, Sequences, FiniteSets, FiniteSetsExt

CONSTANTS Blocks,     \* the numbers of the data blocks, above 0
          Inodes,     \* inode numbers, the root's among them
          Names, Targets,  \* names, and those a symbolic link may lead to
          Spans,      \* <<first, count>>: file blocks one write call covers
          Word,       \* the number a link's target spells when read as a block pointer
          NDIR, PTRS, SLOTS, HALF,
          MaxCrashes, \* bound on stops of the machine
          CrashCalls, \* the calls during which it may stop
          Unrefused   \* calls made although they should be refused: "loop" moves a
                      \* directory under itself, "twice" names anew what a dangling link names,
                      \* "dirs" truncates and writes a directory like a file

ASSUME Ext2Assumption == /\ Blocks \subseteq Nat \ {0} /\ Inodes \subseteq Nat \ {0}
                         /\ IsFiniteSet(Blocks) /\ IsFiniteSet(Inodes) /\ IsFiniteSet(Names) /\ Blocks # {}
                         /\ 2 \in Inodes /\ Targets \subseteq Names /\ Word \in [Targets -> Nat \ {0}]
                         /\ Spans \subseteq Nat \X Nat /\ MaxCrashes \in Nat
                         /\ NDIR \in Nat \ {0} /\ PTRS \in Nat \ {0} /\ SLOTS \in Nat \ {0, 1}
                         /\ HALF \in 1 .. SLOTS - 1

VARIABLES disk,    \* the image on the block device
          crashes, \* how often the machine stopped
          revived  \* a stop showed a directory entry again that had been removed
vars == <<disk, crashes, revived>>

ROOT == 2
Zero == <<0, 0>>                            \* what a hole or a fresh block reads as, by sector
Holes == [i \in 0 .. NDIR |-> 0]            \* i_block[]; entry NDIR is the indirect one
Vacant == [ino |-> 0, name |-> ""]
End == [ino |-> 0, name |-> "end"]          \* rec_len 0: the block is not read further
NewIno(mode, links) == [mode |-> mode, links |-> links, size |-> 0, blocks |-> 0, ptr |-> Holes]
ZeroBlk == [k |-> "zero"]
PtrBlk(f) == [k |-> "ptr", p |-> f]
\* What the chain of entries shows, and what it would show from slot HALF on were there
\* an entry: bytes of removed entries stay, and so does the way their rec_len led.
DirBlk(f, old) == [k |-> "dir", e |-> f, was |-> old]
DataBlk(v) == [k |-> "data", v |-> v]       \* what its two sectors hold
Unwritten == [s \in 0 .. SLOTS - 1 |-> End]
Dots(self, up) == [s \in 0 .. SLOTS - 1 |->
  CASE s = 0 -> [ino |-> self, name |-> "."] [] s = 1 -> [ino |-> up, name |-> ".."]
    [] OTHER -> Vacant]
OneEntry(e) == [s \in 0 .. SLOTS - 1 |-> IF s = 0 THEN e ELSE Vacant]

\* The image mke2fs lays down: a root directory and nothing else.
Init ==
  /\ crashes = 0 /\ revived = FALSE
  /\ LET b == Min(Blocks) IN
     disk = [bbm |-> {b}, ibm |-> {ROOT},
             gdt |-> [blocks |-> Cardinality(Blocks) - 1, inodes |-> Cardinality(Inodes) - 1, dirs |-> 1],
             sb |-> [blocks |-> Cardinality(Blocks) - 1, inodes |-> Cardinality(Inodes) - 1],
             ino |-> [n \in Inodes |-> IF n = ROOT
                        THEN [NewIno("dir", 2) EXCEPT !.size = 1, !.blocks = 1, !.ptr[0] = b]
                        ELSE NewIno("none", 0)],
             blk |-> [c \in Blocks |-> IF c = b THEN DirBlk(Dots(ROOT, ROOT), Unwritten) ELSE ZeroBlk]]

---------------------------------------------------------------------------
(* Traces.  A helper of the driver takes the trace so far and returns it   *)
(* longer, together with its result and the inode it works on in memory.   *)

Now(t) == t[Len(t)]
eb_write(t, b, c) == IF b \in Blocks THEN Append(t, [Now(t) EXCEPT !.blk[b] = c]) ELSE t
write_inode(t, n, ino) == Append(t, [Now(t) EXCEPT !.ino[n] = ino])

\* The counts follow the bitmap, the descriptor's first and then the superblock's.
write_counts(t, db, di, dd) ==
  LET g == [Now(t) EXCEPT !.gdt = [blocks |-> @.blocks + db, inodes |-> @.inodes + di,
                                   dirs |-> @.dirs + dd]]
  IN t \o <<g, [g EXCEPT !.sb = [blocks |-> @.blocks + db, inodes |-> @.inodes + di]]>>

alloc_block(t) ==
  LET free == Blocks \ Now(t).bbm IN
  IF Now(t).gdt.blocks = 0 \/ free = {} THEN [t |-> t, b |-> 0]
  ELSE [t |-> write_counts(Append(t, [Now(t) EXCEPT !.bbm = @ \cup {Min(free)}]), -1, 0, 0),
        b |-> Min(free)]

free_block(t, b) ==
  IF b \notin Now(t).bbm THEN t
  ELSE write_counts(Append(t, [Now(t) EXCEPT !.bbm = @ \ {b}]), 1, 0, 0)

dirs_of(isDir) == IF isDir THEN 1 ELSE 0

alloc_inode(t, isDir) ==
  LET free == {n \in Inodes \ Now(t).ibm : n > ROOT} IN
  IF Now(t).gdt.inodes = 0 \/ free = {} THEN [t |-> t, n |-> 0]
  ELSE [t |-> write_counts(Append(t, [Now(t) EXCEPT !.ibm = @ \cup {Min(free)}]),
                           0, -1, dirs_of(isDir)),
        n |-> Min(free)]

\* Unlike free_block it does not look whether the inode is free already.
free_inode(t, n, wasDir) ==
  write_counts(Append(t, [Now(t) EXCEPT !.ibm = @ \ {n}]), 0, 1,
               IF wasDir /\ Now(t).gdt.dirs > 0 THEN -1 ELSE 0)

---------------------------------------------------------------------------
(* The block map. *)

ptr_get(d, b, i) == IF b \in Blocks /\ d.blk[b].k = "ptr" THEN d.blk[b].p[i] ELSE 0
ptr_set(t, b, i, v) ==
  eb_write(t, b, PtrBlk([[j \in 0 .. PTRS - 1 |-> ptr_get(Now(t), b, j)] EXCEPT ![i] = v]))

bmap(d, ino, i) == IF i < NDIR THEN ino.ptr[i] ELSE ptr_get(d, ino.ptr[NDIR], i - NDIR)

alloc_stale_block(t) == alloc_block(t)
alloc_zeroed_block(t) ==
  LET a == alloc_block(t) IN [a EXCEPT !.t = IF a.b = 0 THEN @ ELSE eb_write(@, a.b, ZeroBlk)]

\* bmap_alloc, one slot of i_block[]: what it holds, or a fresh block.
Direct(t, ino, i) ==
  LET Taken(a) == [t |-> a.t, b |-> a.b, ino |-> IF a.b = 0 THEN ino
                                                 ELSE [ino EXCEPT !.ptr[i] = a.b, !.blocks = @ + 1]]
  IN IF ino.ptr[i] # 0 THEN [t |-> t, ino |-> ino, b |-> ino.ptr[i]]
     ELSE Taken(alloc_zeroed_block(t))

SlotFromOne(i) == (i - NDIR + 1) % PTRS
\* The place in the pointer block, past the direct ones.
Slot(i) == i - NDIR

\* The slot `at` of the pointer block that p found.  When the data block cannot be had
\* the pointer block stays in *ino.
Indirect(p, at) ==
  LET there == ptr_get(Now(p.t), p.b, at)
      Taken(a) == IF a.b = 0 THEN [p EXCEPT !.b = 0]
                  ELSE [t |-> ptr_set(a.t, p.b, at, a.b), b |-> a.b,
                        ino |-> [p.ino EXCEPT !.blocks = @ + 1]]
  IN IF p.b = 0 THEN p ELSE IF there # 0 THEN [p EXCEPT !.b = there]
     ELSE Taken(alloc_zeroed_block(p.t))
\* The map ends after one pointer block; a block past it is never had.
bmap_alloc(t, ino, i) ==
  IF i < NDIR THEN Direct(t, ino, i)
  ELSE IF i < NDIR + PTRS THEN Indirect(Direct(t, ino, NDIR), Slot(i))
  ELSE [t |-> t, ino |-> ino, b |-> 0]

\* free_inode_blocks: the direct blocks, those under the pointer block, the pointer
\* block.  Whatever stands in i_block[] is taken for a block number.
Freed(d, ino) ==
  LET ind == ino.ptr[NDIR] IN
  [i \in 1 .. NDIR |-> ino.ptr[i - 1]]
    \o (IF ind = 0 THEN <<>> ELSE [i \in 1 .. PTRS |-> ptr_get(d, ind, i - 1)] \o <<ind>>)
free_inode_blocks(t, ino) ==
  LET bs == Freed(Now(t), ino)
      upto[i \in Nat] == IF i = 0 THEN t ELSE free_block(upto[i - 1], bs[i])
  IN upto[Len(bs)]

---------------------------------------------------------------------------
(* Directories: the slots of their blocks, numbered through. *)

Places(ino) == 0 .. ino.size * SLOTS - 1
\* A block of anything else is not read as entries: its first rec_len is 0.
Listing(d, b) == b \in Blocks /\ d.blk[b].k = "dir"
At(d, ino, p) == LET b == bmap(d, ino, p \div SLOTS) IN
                 IF Listing(d, b) THEN d.blk[b].e[p % SLOTS] ELSE End
\* What is left behind where slot s joins its predecessor's: the bytes at HALF lead to
\* what came after them, and past a slot that has joined one behind them.
Behind(blk, s) ==
  IF s = HALF THEN blk.e
  ELSE IF \E x \in HALF + 1 .. s - 1 : blk.e[x].ino # 0 THEN [blk.was EXCEPT ![s] = Vacant]
  ELSE blk.was
Put(t, ino, p, e) ==
  LET b == bmap(Now(t), ino, p \div SLOTS)
      blk == Now(t).blk[b]
      s == p % SLOTS
  IN IF Listing(Now(t), b)
     THEN eb_write(t, b, DirBlk([blk.e EXCEPT ![s] = e], IF e = Vacant THEN Behind(blk, s) ELSE blk.was))
     ELSE t
Named(d, ino, n) == {p \in Places(ino) : At(d, ino, p).ino # 0 /\ At(d, ino, p).name = n}
ext2_lookup(d, dir, n) ==
  LET ino == d.ino[dir] IN
  IF Named(d, ino, n) = {} THEN 0 ELSE At(d, ino, Min(Named(d, ino, n))).ino

\* Following symbolic links, at most as often as there are names (8 in the code).
\* One that was removed spells nothing.
Target(d, n) == LET to == {x \in Targets : Word[x] = d.ino[n].ptr[0]}
                IN IF to = {} THEN "" ELSE CHOOSE x \in to : TRUE
walk_from(d, dir, n) ==
  LET hop[h \in Nat] ==
        IF h = 0 THEN ext2_lookup(d, dir, n)
        ELSE LET at == hop[h - 1]
             IN IF at # 0 /\ d.ino[at].mode = "lnk" THEN ext2_lookup(d, dir, Target(d, at)) ELSE at
      last == hop[Cardinality(Names)]
  IN IF last # 0 /\ d.ino[last].mode = "lnk" THEN 0 ELSE last

\* The directories a path can lead to.
Below(d, dirs) == UNION {{At(d, d.ino[dir], p).ino : p \in Places(d.ino[dir])} : dir \in dirs}
Dirs(d) ==
  LET upto[i \in Nat] ==
        IF i = 0 THEN {ROOT}
        ELSE LET dirs == upto[i - 1]
             IN dirs \cup {n \in Below(d, dirs) \ {0} : d.ino[n].mode = "dir"}
  IN upto[Cardinality(Inodes)]

\* dir_add_entry works on the caller's copy of the directory's inode.
dir_add_entry(t, dino, child, n) ==
  LET free == {p \in Places(dino) : At(Now(t), dino, p) = Vacant}
      e == [ino |-> child, name |-> n]
      Grown(a) == IF a.b = 0 THEN [t |-> a.t, ino |-> a.ino, ok |-> FALSE]
                  ELSE [t |-> eb_write(a.t, a.b, DirBlk(OneEntry(e), Unwritten)), ok |-> TRUE,
                        ino |-> [a.ino EXCEPT !.size = @ + 1]]
  IN IF free # {} THEN [t |-> Put(t, dino, Min(free), e), ino |-> dino, ok |-> TRUE]
     ELSE Grown(bmap_alloc(t, dino, dino.size))

\* dir_unlink_entry: the slot joins its predecessor's, or becomes a hole.
dir_unlink_entry(t, dino, n) == Put(t, dino, Min(Named(Now(t), dino, n)), Vacant)

---------------------------------------------------------------------------
(* The operations of a vnode. *)

\* One block after the other; the inode is written once, at the end.
ext2_write(t, n, first, count) ==
  LET upto[i \in Nat] ==
        IF i = 0 THEN [t |-> t, ino |-> Now(t).ino[n], done |-> 0]
        ELSE LET w == upto[i - 1]
                 a == bmap_alloc(w.t, w.ino, first + i - 1)
             IN IF w.done < i - 1 THEN w
                ELSE IF a.b = 0 THEN [w EXCEPT !.t = a.t, !.ino = a.ino]
                ELSE [t |-> eb_write(a.t, a.b, DataBlk(<<n, n>>)), ino |-> a.ino, done |-> i]
      w == upto[count]
  IN write_inode(w.t, n, [w.ino EXCEPT !.size = Max({@, first + w.done})])

Emptied(ino) == [ino EXCEPT !.ptr = Holes, !.size = 0, !.blocks = 0]
ext2_truncate(t, n) ==
  write_inode(free_inode_blocks(t, Now(t).ino[n]), n, Emptied(Now(t).ino[n]))

CreateLeft(t, ino, n, isDir) == free_inode(t, n, isDir)
\* The roll-back of a creation whose entry cannot be made.
CreateUndone(t, ino, n, isDir) ==
  free_inode(IF isDir THEN free_inode_blocks(t, ino) ELSE t, n, isDir)

MoreForgotten(ino) == ino
More(ino) == [ino EXCEPT !.links = @ + 1]

\* ".." of a new directory is a link to its parent.
Parented(dino, isDir) == IF isDir THEN More(dino) ELSE dino

ext2_create(t, dir, n, isDir) ==
  LET i == alloc_inode(t, isDir)
      new == IF isDir THEN NewIno("dir", 2) ELSE NewIno("reg", 1)
      b == bmap_alloc(i.t, new, 0)
      ino == IF isDir THEN [b.ino EXCEPT !.size = 1] ELSE new
      made == write_inode(IF isDir THEN eb_write(b.t, b.b, DirBlk(Dots(i.n, dir), Unwritten)) ELSE i.t, i.n, ino)
      a == dir_add_entry(made, Now(t).ino[dir], i.n, n)
  IN IF i.n = 0 THEN t
     ELSE IF isDir /\ b.b = 0 THEN free_inode(b.t, i.n, TRUE)
     ELSE IF ~a.ok THEN CreateUndone(a.t, ino, i.n, isDir)
     ELSE write_inode(a.t, dir, Parented(a.ino, isDir))

\* Directories are refused by the callers below, as by the code before it writes.
LastName(ino) == ino.links = 0
Fewer(ino) == [ino EXCEPT !.links = IF @ > 0 THEN @ - 1 ELSE 0]
ext2_unlink(t, dir, n) ==
  LET gone == ext2_lookup(Now(t), dir, n)
      cut == dir_unlink_entry(t, Now(t).ino[dir], n)
      ino == Fewer(Now(cut).ino[gone])
  IN IF LastName(ino)
     THEN free_inode(write_inode(free_inode_blocks(cut, ino), gone, Emptied(ino)), gone, FALSE)
     ELSE write_inode(cut, gone, ino)

ext2_symlink(t, dir, n, target) ==
  LET i == alloc_inode(t, FALSE)
      made == write_inode(i.t, i.n, [NewIno("lnk", 1) EXCEPT !.size = 1, !.ptr[0] = Word[target]])
      a == dir_add_entry(made, Now(t).ino[dir], i.n, n)
  IN IF i.n = 0 THEN t
     ELSE IF ~a.ok THEN free_inode(a.t, i.n, FALSE)
     ELSE write_inode(a.t, dir, a.ino)

\* The entry is on the disk before the count that covers it.
ext2_link(t, dir, n, target) ==
  LET a == dir_add_entry(t, Now(t).ino[dir], target, n)
      linked == write_inode(a.t, dir, a.ino)
      ino == Now(t).ino[target]
  IN IF ~a.ok THEN a.t ELSE write_inode(linked, target, More(ino))

\* A directory that moves repoints ".." and takes its link from one parent to the other.
Reparented(t, moved, from, to) ==
  LET ino == Now(t).ino[moved]
      dd == Put(t, ino, 1, [ino |-> to, name |-> ".."])
      less == write_inode(dd, from, Fewer(Now(dd).ino[from]))
  IN write_inode(less, to, More(Now(less).ino[to]))

\* A destination file goes first, then the new entry comes, then the old one goes.
ext2_rename(t, from, n, to, m) ==
  LET src == ext2_lookup(Now(t), from, n)
      over == IF ext2_lookup(Now(t), to, m) = 0 THEN t ELSE ext2_unlink(t, to, m)
      Entered(x) == dir_add_entry(x, Now(x).ino[to], src, m)
      Left(x) == LET od == Now(x).ino[from] IN write_inode(dir_unlink_entry(x, od, n), from, od)
      Settled(x) == IF Now(t).ino[src].mode = "dir" /\ from # to THEN Reparented(x, src, from, to)
                    ELSE x
      Moved(a) == IF ~a.ok THEN a.t ELSE Settled(Left(write_inode(a.t, to, a.ino)))
  IN Moved(Entered(over))

---------------------------------------------------------------------------
(* The system calls, and the machine stopping in the middle of one. *)

\* The first sector of `new` on the second of `old`, where that is neither of the two.
\* All other writes change one sector, or a block that nothing leads to yet.
Halves(old, new) ==
  IF new.k = "data" /\ old.k \in {"zero", "data"}
  THEN {DataBlk(<<new.v[1], IF old.k = "data" THEN old.v[2] ELSE Zero[2]>>)}
  ELSE IF new.k = "dir" /\ old.k = "dir" /\ old.e[HALF] = Vacant /\ new.e[HALF].ino # 0
  THEN {DirBlk([s \in 0 .. SLOTS - 1 |-> IF s < HALF THEN old.e[s] ELSE old.was[s]], old.was)}
  ELSE {}
\* The bytes of a removed entry are read as one again.
Revives(old, new) == /\ new.k = "dir"
                     /\ \E s \in 0 .. SLOTS - 1 : new.e[s].ino # 0 /\ new.e[s] # old.e[s]

Stop(name, t) ==
  /\ name \in CrashCalls /\ crashes < MaxCrashes
  /\ crashes' = crashes + 1
  /\ \E k \in 1 .. Len(t) - 1 :
       \/ disk' = t[k] /\ UNCHANGED revived
       \/ \E b \in Blocks : \E c \in Halves(t[k].blk[b], t[k + 1].blk[b]) :
            /\ t[k].blk[b] # t[k + 1].blk[b]
            /\ disk' = [t[k] EXCEPT !.blk[b] = c]
            /\ revived' = (revived \/ Revives(t[k].blk[b], c))

Call(name, trace) == \E t \in {trace} :
  \/ /\ disk' = Now(t)
     /\ UNCHANGED <<crashes, revived>>
  \/ Stop(name, t)

\* What a path leads to, of the modes given: one inode or none.
Reached(dir, n, modes) == {f \in {walk_from(disk, dir, n)} \ {0} : disk.ino[f].mode \in modes}
NamedThere(dir, n) == {ext2_lookup(disk, dir, n)} \ {0}

\* A name is taken to be free when following it leads nowhere.
Unused(dir, n) == /\ walk_from(disk, dir, n) = 0
                  /\ "twice" \notin Unrefused => NamedThere(dir, n) = {}

\* openat(O_CREAT) of a name that leads nowhere.
Create == \E dir \in Dirs(disk), n \in Names :
  /\ Unused(dir, n)
  /\ Call("create", ext2_create(<<disk>>, dir, n, FALSE))

Mkdir == \E dir \in Dirs(disk), n \in Names :
  /\ Unused(dir, n)
  /\ Call("mkdir", ext2_create(<<disk>>, dir, n, TRUE))

\* What can be truncated and written: neither openat nor write() asks what it is.
Writable == {"reg"} \cup (IF "dirs" \in Unrefused THEN {"dir"} ELSE {})

\* openat(O_TRUNC).
Truncate == \E dir \in Dirs(disk), n \in Names : \E f \in Reached(dir, n, Writable) :
  Call("truncate", ext2_truncate(<<disk>>, f))

\* write() on a descriptor of a file that still has its name; what is written to a file
\* is told apart by the file.
Write == \E dir \in Dirs(disk), n \in Names : \E f \in Reached(dir, n, Writable), s \in Spans :
  Call("write", ext2_write(<<disk>>, f, s[1], s[2]))

Unlink == \E dir \in Dirs(disk), n \in Names : \E f \in NamedThere(dir, n) :
  /\ disk.ino[f].mode # "dir"
  /\ Call("unlink", ext2_unlink(<<disk>>, dir, n))

Symlink == \E dir \in Dirs(disk), n \in Names, target \in Targets :
  /\ Unused(dir, n)
  /\ Call("symlink", ext2_symlink(<<disk>>, dir, n, target))

Link == \E dir \in Dirs(disk), n \in Names :
  /\ Unused(dir, n)
  /\ \E from \in Dirs(disk), m \in Names : \E f \in Reached(from, m, {"reg"}) :
       Call("link", ext2_link(<<disk>>, dir, n, f))

\* Is directory `dir` the inode n or, going by "..", somewhere below it?
Under(n, dir) ==
  LET up[i \in 0 .. Cardinality(Inodes)] ==
        IF i = 0 THEN dir ELSE IF up[i - 1] = 0 THEN 0 ELSE At(disk, disk.ino[up[i - 1]], 1).ino
  IN \E i \in 0 .. Cardinality(Inodes) : up[i] = n

Rename == \E from, to \in Dirs(disk), n, m \in Names : \E src \in NamedThere(from, n) :
  /\ \A dst \in NamedThere(to, m) : disk.ino[dst].mode # "dir"
  /\ "loop" \notin Unrefused => ~Under(src, to)
  /\ Call("rename", ext2_rename(<<disk>>, from, n, to, m))

Next == Create \/ Mkdir \/ Truncate \/ Write \/ Unlink \/ Symlink \/ Link \/ Rename
Spec == Init /\ [][Next]_vars

---------------------------------------------------------------------------
(* Properties. *)

Range0(s) == {s[i] : i \in DOMAIN s} \ {0}
Owned(n) == IF disk.ino[n].mode = "lnk" THEN <<>> ELSE Freed(disk, disk.ino[n])
Refs(n, dirs) == {q \in dirs \X (0 .. (NDIR + PTRS) * SLOTS - 1) :
                    q[2] \in Places(disk.ino[q[1]]) /\ At(disk, disk.ino[q[1]], q[2]).ino = n}
InUse == Below(disk, Dirs(disk)) \ {0}

\* What a name leads to is allocated, and every block of it is marked in use and
\* belongs to it alone, once: nothing that can be read is handed out a second time.  It
\* holds after stops of the machine in create, mkdir, symlink, write and unlink, between
\* two writes or two sectors, as long as none shows a removed entry again.  Not after
\* one in truncate (blocks are given back while the inode has them), link or rename.
OwnedOnce ==
  ~revived =>
    LET used == InUse
        owned == [n \in used |-> Range0(Owned(n))]
    IN /\ used \subseteq disk.ibm
       /\ \A n \in used : /\ owned[n] \subseteq disk.bbm
                          /\ \A i, j \in DOMAIN Owned(n) :
                               i # j /\ Owned(n)[i] # 0 => Owned(n)[i] # Owned(n)[j]
       /\ \A n, o \in used : n # o => owned[n] \cap owned[o] = {}

\* No file is freed while it still has a name: its count covers its names.  After stops
\* of the machine as for OwnedOnce: in link and in rename the name is on the disk before
\* the count, and a removed entry shown again is a name nobody counts.
LinksCoverNames ==
  ~revived =>
    LET dirs == Dirs(disk) IN
    \A n \in Below(disk, dirs) \ {0} :
      disk.ino[n].mode # "dir" => disk.ino[n].links >= Cardinality(Refs(n, dirs))

\* As long as the machine did not stop, the inode bitmap holds what names refer to and
\* every count is exact, after every call, those that fail on a full disk included.  The
\* block bitmap holds what inodes refer to, and no more as long as no directory has used
\* up its direct blocks: from then on an entry that cannot be made may leave an empty
\* pointer block marked that nothing refers to.  The calls of Unrefused are not made.
WriteThrough ==
  crashes = 0 =>
    LET dirs == {n \in disk.ibm : disk.ino[n].mode = "dir"}
        owned == UNION {Range0(Owned(n)) : n \in disk.ibm}
        free == [blocks |-> Cardinality(Blocks \ disk.bbm), inodes |-> Cardinality(Inodes \ disk.ibm)]
    IN /\ owned \subseteq disk.bbm
       /\ disk.bbm = owned \/ \E n \in dirs : disk.ino[n].size >= NDIR
       /\ \A b \in disk.bbm \ owned : disk.blk[b] = ZeroBlk
       /\ disk.ibm = {n \in Inodes : Refs(n, dirs) # {}}
       /\ \A n \in disk.ibm : /\ disk.ino[n].links = Cardinality(Refs(n, dirs))
                               /\ disk.ino[n].blocks = Cardinality(Range0(Owned(n)))
       /\ disk.sb = free
       /\ disk.gdt = [blocks |-> free.blocks, inodes |-> free.inodes, dirs |-> Cardinality(dirs)]

\* The files hold what was written to them, as long as no removed entry is shown again.
Content(b) == IF b = 0 \/ disk.blk[b].k = "zero" THEN Zero
              ELSE IF disk.blk[b].k = "data" THEN disk.blk[b].v ELSE <<-1, -1>>
Text ==
  LET used == InUse IN
  [n \in Inodes \ {ROOT} |->
     IF n \in used /\ disk.ino[n].mode = "reg"
     THEN [i \in 1 .. disk.ino[n].size |-> Content(bmap(disk, disk.ino[n], i - 1))]
     ELSE <<<<-1, -1>>>>]
S == INSTANCE Store WITH Files <- Inodes \ {ROOT}, text <- Text, stops <- crashes
IsStore == S!Init /\ [][S!Next \/ revived']_<<Text, crashes>>

===========================================================================
