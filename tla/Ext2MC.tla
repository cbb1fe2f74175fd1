------------------------------ MODULE Ext2MC ------------------------------
(* Ext2 on a disk of four blocks: a link's target spells no block of it    *)
(* (MCWide), or the number of one (MCNarrow).                               *)
EXTENDS Ext2, TLC
MCBlocks == 1 .. 4
MCInodes == 2 .. 4
MCSpans == {<<0, 1>>, <<1, 2>>}
\* A block is zeroed and an inode is written when it is handed out, so what free ones
\* hold does not tell two states apart; nor does what entries left behind, while the
\* slot that would lead to it holds one.
Seen(blk) ==
  IF blk.k # "dir" THEN blk
  ELSE [blk EXCEPT !.was = [s \in HALF .. SLOTS - 1 |-> IF blk.e[HALF].ino = 0 THEN @[s] ELSE End]]
View == <<[disk EXCEPT !.blk = [b \in Blocks |-> IF b \in disk.bbm THEN Seen(@[b]) ELSE ZeroBlk],
                       !.ino = [n \in Inodes |-> IF n \in disk.ibm THEN @[n] ELSE NewIno("none", 0)]],
          crashes, revived>>
\* What a disk comes to on which a removed entry was read again is not followed.
Followed == ~revived
MCWide == "a" :> 901
MCNarrow == "a" :> 2
===========================================================================
