-------------------------------- MODULE Heap --------------------------------
(***************************************************************************)
(* The kernel heap, src/kheap.c, over the page allocator, src/pmm.c.       *)
(* Chunks of memory lie in one doubly linked list, a header before each    *)
(* payload; kmalloc takes the first that fits and splits it, kfree merges  *)
(* with the free neighbours, and a heap that is full appends a run of      *)
(* pages, which need not follow the last one: single pages come from the   *)
(* same frontier.  Both run with interrupts masked, so a call is one       *)
(* action.  Memory is counted in words of 8 bytes, ALIGN8's unit.          *)
(***************************************************************************)
EXTENDS Integers, Sequences, FiniteSets

CONSTANTS
    HeaderSize,    \* sizeof(struct block)
    PageSize,      \* PAGE_SIZE
    RamStart, RamEnd, \* the end of the kernel image rounded up, RAM_END
    Requests,      \* sizes asked of kmalloc, rounded up to words
    MaxHeld        \* bound on the single pages handed out

ASSUME HeapAssumption ==
    /\ HeaderSize \in Nat \ {0} /\ PageSize \in Nat \ {0}
    /\ RamStart \in Nat \ {0} /\ RamEnd \in Nat
    /\ Requests \subseteq Nat \ {0}
    /\ MaxHeld \in Nat

VARIABLES
    heap,       \* of each chunk, by the address of its header, the header
    bump,       \* the frontier of the page allocator
    free_list,  \* pages given back, the last one first
    held        \* single pages handed out

heapVars == <<heap, bump, free_list, held>>

NULL == 0
Chunks == DOMAIN heap
Block(size, free, next, prev) == [size |-> size, free |-> free, next |-> next, prev |-> prev]
EndOf(h, b) == b + HeaderSize + h[b].size
Fits(b, size) == heap[b].free /\ heap[b].size >= size

HeapInit ==
    /\ heap = << >>
    /\ bump = RamStart
    /\ free_list = << >>
    /\ held = {}

----------------------------------------------------------------------------
(* kheap.c                                                                 *)

\* Mutant: the chunk after the split keeps its link back.
CarveUnlinked(h, b, size) ==
    LET rest == b + HeaderSize + size
    IN IF h[b].size < size + HeaderSize + 1
       THEN [h EXCEPT ![b] = Block(h[b].size, FALSE, h[b].next, h[b].prev)]
       ELSE [c \in DOMAIN h \cup {rest} |->
               IF c = rest THEN Block(h[b].size - size - HeaderSize, TRUE, h[b].next, b)
               ELSE IF c = b THEN Block(size, FALSE, rest, h[b].prev)
               ELSE h[c]]

\* kmalloc takes b: split_block makes what lies beyond size words a chunk of
\* its own, unless that is too small.
Carve(h, b, size) ==
    LET rest == b + HeaderSize + size
    IN IF h[b].size < size + HeaderSize + 1
       THEN [h EXCEPT ![b] = Block(h[b].size, FALSE, h[b].next, h[b].prev)]
       ELSE [c \in DOMAIN h \cup {rest} |->
               IF c = rest THEN Block(h[b].size - size - HeaderSize, TRUE, h[b].next, b)
               ELSE IF c = b THEN Block(size, FALSE, rest, h[b].prev)
               ELSE IF c = h[b].next THEN Block(h[c].size, h[c].free, h[c].next, rest)
               ELSE h[c]]

\* The pages a payload of size words needs, its header included.
Pages(size) == (size + HeaderSize + PageSize - 1) \div PageSize

\* grow_heap: the run at the frontier is appended, t being the last chunk.
Grown(size, t) ==
    [c \in Chunks \cup {bump} |->
       IF c = bump THEN Block(Pages(size) * PageSize - HeaderSize, TRUE, NULL, t)
       ELSE IF c = t THEN Block(heap[c].size, heap[c].free, bump, heap[c].prev)
       ELSE heap[c]]

\* Walks follow next; that this is the order of the addresses is HeapWhole.
IsTail(t) == IF Chunks = {} THEN t = NULL ELSE t \in Chunks /\ heap[t].next = NULL

KMalloc(size) ==
    /\ \/ \E b \in Chunks :
            /\ Fits(b, size) /\ \A c \in Chunks : Fits(c, size) => b <= c
            /\ heap' = Carve(heap, b, size)
            /\ UNCHANGED bump
       \/ /\ \A c \in Chunks : ~Fits(c, size)
          /\ bump + Pages(size) * PageSize <= RamEnd
          /\ \E t \in Chunks \cup {NULL} :
               IsTail(t) /\ heap' = Carve(Grown(size, t), bump, size)
          /\ bump' = bump + Pages(size) * PageSize
    /\ UNCHANGED <<free_list, held>>

\* a and b are free chunks one after the other in memory.
Mergeable(h, a, b) ==
    /\ a # NULL /\ b # NULL
    /\ h[a].free /\ h[b].free
    /\ EndOf(h, a) = b

\* Chunk a takes in the chunk b that follows it.
Absorb(h, a, b) ==
    [c \in DOMAIN h \ {b} |->
       IF c = a THEN Block(h[a].size + HeaderSize + h[b].size, h[a].free, h[b].next, h[a].prev)
       ELSE IF c = h[b].next THEN Block(h[c].size, h[c].free, h[c].next, a)
       ELSE h[c]]

\* Mutant: only chunks that follow each other upwards of b are merged.
MergedUp(h, a, b) == IF Mergeable(h, a, b) /\ h[a].prev = NULL THEN Absorb(h, a, b) ELSE h

Merged(h, a, b) == IF Mergeable(h, a, b) THEN Absorb(h, a, b) ELSE h

\* kfree: with the next chunk first, then with the previous one.
KFree(b) ==
    LET freed == [heap EXCEPT ![b] = Block(@.size, TRUE, @.next, @.prev)]
        up == Merged(freed, b, freed[b].next)
    IN /\ b \in Chunks /\ ~heap[b].free
       /\ heap' = Merged(up, up[b].prev, b)
       /\ UNCHANGED <<bump, free_list, held>>

----------------------------------------------------------------------------
(* pmm.c                                                                   *)

PmmAlloc ==
    /\ Cardinality(held) < MaxHeld
    /\ \/ /\ free_list # << >>
          /\ held' = held \cup {Head(free_list)}
          /\ free_list' = Tail(free_list)
          /\ UNCHANGED bump
       \/ /\ free_list = << >>
          /\ bump + PageSize <= RamEnd
          /\ held' = held \cup {bump}
          /\ bump' = bump + PageSize
          /\ UNCHANGED free_list
    /\ UNCHANGED heap

OnFreeList(p) == \E i \in DOMAIN free_list : free_list[i] = p

\* A page that is given back while it is on the list is refused, with a line
\* on the console: the same state.
PmmFree(p) ==
    /\ p \in held /\ ~OnFreeList(p)
    /\ held' = held \ {p}
    /\ free_list' = <<p>> \o free_list
    /\ UNCHANGED <<heap, bump>>

HeapNext ==
    \/ \E size \in Requests : KMalloc(size)
    \/ \E b \in Chunks : KFree(b)
    \/ PmmAlloc
    \/ \E p \in held : PmmFree(p)

HeapSpec == HeapInit /\ [][HeapNext]_heapVars

----------------------------------------------------------------------------
(* Properties                                                              *)

Header(d) == [size : Nat \ {0}, free : BOOLEAN, next : d \cup {NULL}, prev : d \cup {NULL}]

HeapTypeOK ==
    /\ Chunks \subseteq Nat \ {0}
    /\ heap \in [Chunks -> Header(Chunks)]
    /\ bump \in Nat /\ RamStart <= bump
    /\ free_list \in Seq(Nat)
    /\ held \subseteq Nat

\* Each chunk ends before the next one in the list begins.
Ordered(h) == \A b \in DOMAIN h : h[b].next # NULL => EndOf(h, b) <= h[b].next

\* The links back undo the links forward.
Linked(h) ==
    /\ \A b \in DOMAIN h : h[b].next # NULL => h[h[b].next].prev = b
    /\ \A b \in DOMAIN h : h[b].prev # NULL => h[h[b].prev].next = b

\* No chunk lies between b and the next one in the list, or after the last.
NoneBetween(h) ==
    \A b, c \in DOMAIN h : b < c => h[b].next # NULL /\ h[b].next <= c

Below(h, top) == \A b \in DOMAIN h : EndOf(h, b) <= top

\* No chunk reaches into the page p.
Apart(h, p) == \A b \in DOMAIN h : EndOf(h, b) <= p \/ p + PageSize <= b
GivenApart(p) == p + PageSize <= bump /\ Apart(heap, p)

\* However kmalloc and kfree follow each other, over runs of pages that touch
\* and runs that do not: the list holds every chunk once, in the order of the
\* addresses, no two overlap (a payload never lies under another chunk's
\* header), and no page that was ever handed out singly reaches a chunk.
HeapWhole ==
    /\ Ordered(heap) /\ Linked(heap) /\ NoneBetween(heap) /\ Below(heap, bump)
    /\ \A p \in held : GivenApart(p)
    /\ \A i \in DOMAIN free_list : GivenApart(free_list[i])

\* "kfree marks a block free and COALESCES (merges) it with adjacent free
\* neighbors": two free chunks never touch, in whatever order the chunks
\* around them were freed and the heap grew.
Coalesced ==
    \A a, b \in Chunks : heap[a].free /\ heap[b].free => EndOf(heap, a) # b
=============================================================================
