--------------------------------- MODULE Vm ---------------------------------
(***************************************************************************)
(* Address spaces: src/vm.c over the physical pages of pmm.c, with the     *)
(* shared-memory objects of shm.c and the translation cache the CPU keeps  *)
(* per ASID.  The unit is the page: a frame holds one value, and page      *)
(* tables are functions from virtual pages to entries.  All the functions  *)
(* run with interrupts masked, so each is one action; a store to a         *)
(* copy-on-write page faults, is copied and is retried in one action too.  *)
(***************************************************************************)
EXTENDS Integers, Sequences, FiniteSets, FiniteSetsExt, Functions

CONSTANTS
    Spaces,       \* addresses at which a struct addrspace may be allocated
    Frames,       \* physical pages
    Objs,         \* shared-memory handles
    Values, Zero, \* what a page may hold
    Segments,     \* virtual pages of the ELF segments and the stack: their rights
    HeapBase, MmapBase, \* USER_HEAP_BASE and USER_MMAP_BASE, in pages
    LastVa,       \* bound on the virtual pages considered
    Lens,         \* lengths of sbrk, mmap and munmap in pages
    ASID_MAX, ASID_FREE_MAX,
    TlbSize,      \* bound on the cached translations
    NoFrame

Va == 1..LastVa
Rights == [w : BOOLEAN, x : BOOLEAN]

ASSUME ConstAssumption ==
    /\ IsFiniteSet(Spaces) /\ IsFiniteSet(Frames) /\ IsFiniteSet(Objs)
    /\ Zero \in Values
    /\ NoFrame \notin Frames
    /\ LastVa \in Nat /\ HeapBase \in Va /\ MmapBase \in Va
    /\ DOMAIN Segments \subseteq Va /\ Segments \in [DOMAIN Segments -> Rights]
    /\ Lens \subseteq Nat \ {0}
    /\ ASID_MAX \in Nat /\ ASID_FREE_MAX \in Nat /\ TlbSize \in Nat \ {0}

\* Fewer spaces than ASIDs and free-list entries: no ASID is lost and the
\* counter does not start over.
ASSUME AsidAssumption == Cardinality(Spaces) <= Min({ASID_MAX, ASID_FREE_MAX})

VARIABLES
    live,        \* spaces created and not destroyed
    pte,         \* pte[s][va]: the L3 entry
    page_ref,    \* references to a frame
    free,        \* frames the PMM can hand out
    mem,         \* contents of the frames
    shms,        \* the frame of each shared-memory object, or NoFrame
    heap_end, mmap_next, asid,       \* fields of struct addrspace
    next_asid, asid_free_list,
    tlb          \* cached translations

frameVars == <<page_ref, free, mem>>
asidVars == <<asid, next_asid, asid_free_list>>
vars == <<live, pte, frameVars, shms, heap_end, mmap_next, asidVars, tlb>>

Invalid == [frame |-> NoFrame, w |-> FALSE, x |-> FALSE, cow |-> FALSE, shared |-> FALSE]
Entry(f, w, x) == [frame |-> f, w |-> w, x |-> x, cow |-> FALSE, shared |-> FALSE]
Data(f) == Entry(f, TRUE, FALSE)
Cow(f) == [Entry(f, FALSE, FALSE) EXCEPT !.cow = TRUE]
SharedEntry(f) == [Data(f) EXCEPT !.shared = TRUE]
Mapped(s, va) == pte[s][va] # Invalid

Init ==
    /\ live = {}
    /\ pte = [s \in Spaces |-> [va \in Va |-> Invalid]]
    /\ page_ref = [f \in Frames |-> 0]
    /\ free = Frames
    /\ mem = [f \in Frames |-> Zero]
    /\ shms = [o \in Objs |-> NoFrame]
    /\ heap_end = [s \in Spaces |-> HeapBase]
    /\ mmap_next = [s \in Spaces |-> MmapBase]
    /\ asid = [s \in Spaces |-> 0]
    /\ next_asid = 1
    /\ asid_free_list = <<>>
    /\ tlb = {}

----------------------------------------------------------------------------
(* Frames, ASIDs, the TLB.                                                 *)

\* page_decref, delta[f] times for each frame: the last one frees it.
Decref(delta) ==
    LET left == [f \in Frames |-> IF page_ref[f] > delta[f] THEN page_ref[f] - delta[f] ELSE 0]
    IN /\ page_ref' = left
       /\ free' = free \cup {f \in Frames : delta[f] > 0 /\ left[f] = 0}

\* How often space s maps each frame, within vas.
Uses(s, vas) == [f \in Frames |-> Cardinality({va \in vas : pte[s][va].frame = f})]

\* flush_tlb_asid
Flushed(a) == {e \in tlb : e.asid # a}

\* asid_alloc for space s, below the rollover.
AsidAlloc(s) ==
    IF asid_free_list # <<>>
    THEN /\ asid' = [asid EXCEPT ![s] = asid_free_list[Len(asid_free_list)]]
         /\ asid_free_list' = SubSeq(asid_free_list, 1, Len(asid_free_list) - 1)
         /\ UNCHANGED next_asid
    ELSE /\ asid' = [asid EXCEPT ![s] = next_asid]
         /\ next_asid' = next_asid + 1
         /\ UNCHANGED asid_free_list

AsidFree(s) ==
    /\ asid_free_list' = IF Len(asid_free_list) < ASID_FREE_MAX
                         THEN Append(asid_free_list, asid[s]) ELSE asid_free_list
    /\ UNCHANGED <<asid, next_asid>>

\* Injective choices of n frames by pmm_alloc.
Picks(dom) == {p \in [dom -> free] : IsInjective(p)}

----------------------------------------------------------------------------
(* Creating, cloning and destroying spaces.                                *)

\* as_create_elf: every segment page and stack page gets a frame of its own,
\* filled from the image; a stack page keeps what the frame held before.
Create(s) ==
    /\ s \notin live
    /\ \E p \in Picks(DOMAIN Segments), c \in [DOMAIN Segments -> Values] :
         /\ pte' = [pte EXCEPT ![s] =
                [va \in Va |-> IF va \in DOMAIN Segments
                               THEN Entry(p[va], Segments[va].w, Segments[va].x) ELSE Invalid]]
         /\ page_ref' = [f \in Frames |-> page_ref[f] + (IF f \in Range(p) THEN 1 ELSE 0)]
         /\ free' = free \ Range(p)
         /\ mem' = [f \in Frames |-> IF f \in Range(p)
                                     THEN c[CHOOSE va \in DOMAIN p : p[va] = f] ELSE mem[f]]
    /\ live' = live \cup {s}
    /\ heap_end' = [heap_end EXCEPT ![s] = HeapBase]
    /\ mmap_next' = [mmap_next EXCEPT ![s] = MmapBase]
    /\ AsidAlloc(s)
    /\ UNCHANGED <<shms, tlb>>

\* Mutant: the clone treats shared memory like any writable page.
ClonedCowAll(e) == IF e.w THEN Cow(e.frame) ELSE e

\* What as_clone leaves in both tables for an entry of the parent.
Cloned(e) == IF e.w /\ ~e.shared THEN Cow(e.frame) ELSE e

\* as_clone
Clone(s, c) ==
    /\ s \in live /\ c \notin live
    /\ LET both == [va \in Va |-> Cloned(pte[s][va])]
       IN pte' = [pte EXCEPT ![s] = both, ![c] = both]
    /\ page_ref' = [f \in Frames |-> page_ref[f] + Uses(s, Va)[f]]
    /\ live' = live \cup {c}
    /\ heap_end' = [heap_end EXCEPT ![c] = heap_end[s]]
    /\ mmap_next' = [mmap_next EXCEPT ![c] = mmap_next[s]]
    /\ AsidAlloc(c)
    /\ tlb' = Flushed(asid[s])
    /\ UNCHANGED <<free, mem, shms>>

\* as_destroy, when a child is reaped or an image replaced by exec.
Destroy(s) ==
    /\ s \in live
    /\ Decref(Uses(s, Va))
    /\ pte' = [pte EXCEPT ![s] = [va \in Va |-> Invalid]]
    /\ live' = live \ {s}
    /\ tlb' = Flushed(asid[s])
    /\ AsidFree(s)
    /\ UNCHANGED <<mem, shms, heap_end, mmap_next>>

----------------------------------------------------------------------------
(* Memory accesses.                                                        *)

\* The translation the CPU uses for va: a cached one, else the table's.
Walk(s, va) == [asid |-> asid[s], va |-> va, frame |-> pte[s][va].frame, w |-> pte[s][va].w]
Cached(s, va) == {e \in tlb : e.asid = asid[s] /\ e.va = va}
Translation(s, va) ==
    IF Cached(s, va) # {} THEN Cached(s, va)
    ELSE IF Mapped(s, va) THEN {Walk(s, va)} ELSE {}

\* The TLB takes e in and may drop any of the others.
Keep(t, e) == {r \cup {e} : r \in {q \in SUBSET t : Cardinality(q \cup {e}) <= TlbSize}}

Load(s, va) ==
    /\ s \in live
    /\ \E e \in Translation(s, va) : tlb' \in Keep(tlb, e)
    /\ UNCHANGED <<live, pte, frameVars, shms, heap_end, mmap_next, asidVars>>

Store(s, va, v) ==
    /\ s \in live
    /\ \E e \in Translation(s, va) :
         /\ e.w
         /\ mem' = [mem EXCEPT ![e.frame] = v]
         /\ tlb' \in Keep(tlb, e)
    /\ UNCHANGED <<live, pte, page_ref, free, shms, heap_end, mmap_next, asidVars>>

Faults(s, va) ==
    /\ s \in live
    /\ \E e \in Translation(s, va) : ~e.w
    /\ pte[s][va].cow

SoleOwner(f) == page_ref[f] = 1

\* cow_fault of the only owner, and the store retried.
CowReuse(s, va, v) ==
    LET f == pte[s][va].frame
    IN /\ Faults(s, va)
       /\ SoleOwner(f)
       /\ pte' = [pte EXCEPT ![s][va] = Data(f)]
       /\ mem' = [mem EXCEPT ![f] = v]
       /\ tlb' \in Keep(Flushed(asid[s]), [asid |-> asid[s], va |-> va, frame |-> f, w |-> TRUE])
       /\ UNCHANGED <<live, page_ref, free, shms, heap_end, mmap_next, asidVars>>

\* Mutant: the copy is mapped without a reference of its own.
CowCopyNoRef(s, va, v) ==
    LET f == pte[s][va].frame
    IN /\ Faults(s, va)
       /\ ~SoleOwner(f)
       /\ \E g \in free :
            /\ pte' = [pte EXCEPT ![s][va] = Data(g)]
            /\ mem' = [mem EXCEPT ![g] = v]
            /\ page_ref' = [page_ref EXCEPT ![f] = @ - 1]
            /\ free' = free \ {g}
            /\ tlb' \in Keep(Flushed(asid[s]), [asid |-> asid[s], va |-> va, frame |-> g, w |-> TRUE])
       /\ UNCHANGED <<live, shms, heap_end, mmap_next, asidVars>>

\* cow_fault of a shared page: a private copy, which the store then changes.
\* The code takes for granted that pmm_alloc finds a frame.
CowCopy(s, va, v) ==
    LET f == pte[s][va].frame
    IN /\ Faults(s, va)
       /\ ~SoleOwner(f)
       /\ \E g \in free :
            /\ pte' = [pte EXCEPT ![s][va] = Data(g)]
            /\ mem' = [mem EXCEPT ![g] = v]
            /\ page_ref' = [page_ref EXCEPT ![f] = @ - 1, ![g] = 1]
            /\ free' = free \ {g}
            /\ tlb' \in Keep(Flushed(asid[s]), [asid |-> asid[s], va |-> va, frame |-> g, w |-> TRUE])
       /\ UNCHANGED <<live, shms, heap_end, mmap_next, asidVars>>

----------------------------------------------------------------------------
(* Growing and shrinking an image.                                         *)

\* Fresh zeroed pages from base on; k < n of them when memory runs out.
\* map_page overwrites whatever entry is there.
MapFresh(s, base, k) ==
    \E p \in Picks(base..(base + k - 1)) :
        /\ pte' = [pte EXCEPT ![s] = [va \in Va |-> IF va \in DOMAIN p THEN Data(p[va]) ELSE @[va]]]
        /\ page_ref' = [f \in Frames |-> page_ref[f] + (IF f \in Range(p) THEN 1 ELSE 0)]
        /\ free' = free \ Range(p)
        /\ mem' = [f \in Frames |-> IF f \in Range(p) THEN Zero ELSE mem[f]]

Obtained(n) == Min({n, Cardinality(free)})

\* brk, which never shrinks the heap.
Sbrk(s, n) ==
    /\ s \in live
    /\ heap_end[s] + n <= MmapBase
    /\ MapFresh(s, heap_end[s], Obtained(n))
    /\ heap_end' = [heap_end EXCEPT ![s] = IF Obtained(n) = n THEN @ + n ELSE @]
    /\ UNCHANGED <<live, shms, mmap_next, asidVars, tlb>>

Mmap(s, n) ==
    /\ s \in live
    /\ mmap_next[s] + n - 1 <= LastVa
    /\ MapFresh(s, mmap_next[s], Obtained(n))
    /\ mmap_next' = [mmap_next EXCEPT ![s] = IF Obtained(n) = n THEN @ + n ELSE @]
    /\ UNCHANGED <<live, shms, heap_end, asidVars, tlb>>

\* Mutant: munmap leaves the cached translations.
MunmapNoFlush(s, va, n) ==
    LET vas == (va..(va + n - 1)) \cap Va
    IN /\ s \in live
       /\ Decref(Uses(s, vas))
       /\ pte' = [pte EXCEPT ![s] = [u \in Va |-> IF u \in vas THEN Invalid ELSE @[u]]]
       /\ UNCHANGED <<live, mem, shms, heap_end, mmap_next, asidVars, tlb>>

Munmap(s, va, n) ==
    LET vas == (va..(va + n - 1)) \cap Va
    IN /\ s \in live
       /\ Decref(Uses(s, vas))
       /\ pte' = [pte EXCEPT ![s] = [u \in Va |-> IF u \in vas THEN Invalid ELSE @[u]]]
       /\ tlb' = Flushed(asid[s])
       /\ UNCHANGED <<live, mem, shms, heap_end, mmap_next, asidVars>>

\* shm_create of one page; the object keeps a reference for ever.
ShmCreate(o) ==
    /\ shms[o] = NoFrame
    /\ \E f \in free :
         /\ shms' = [shms EXCEPT ![o] = f]
         /\ page_ref' = [page_ref EXCEPT ![f] = @ + 1]
         /\ free' = free \ {f}
         /\ mem' = [mem EXCEPT ![f] = Zero]
    /\ UNCHANGED <<live, pte, heap_end, mmap_next, asidVars, tlb>>

\* shm_map: as_map_phys with the object's frame.
ShmMap(s, o) ==
    /\ s \in live
    /\ shms[o] # NoFrame
    /\ mmap_next[s] <= LastVa
    /\ pte' = [pte EXCEPT ![s][mmap_next[s]] = SharedEntry(shms[o])]
    /\ page_ref' = [page_ref EXCEPT ![shms[o]] = @ + 1]
    /\ mmap_next' = [mmap_next EXCEPT ![s] = @ + 1]
    /\ UNCHANGED <<live, free, mem, shms, heap_end, asidVars, tlb>>

----------------------------------------------------------------------------
Next ==
    \/ \E s \in Spaces :
         \/ Create(s) \/ Destroy(s)
         \/ \E c \in Spaces : Clone(s, c)
         \/ \E va \in Va :
              \/ Load(s, va)
              \/ \E v \in Values : Store(s, va, v) \/ CowReuse(s, va, v) \/ CowCopy(s, va, v)
              \/ \E n \in Lens : Munmap(s, va, n)
         \/ \E n \in Lens : Sbrk(s, n) \/ Mmap(s, n)
         \/ \E o \in Objs : ShmMap(s, o)
    \/ \E o \in Objs : ShmCreate(o)

Spec == Init /\ [][Next]_vars

----------------------------------------------------------------------------
(* Properties.                                                             *)

\* Every variable keeps its type.
TypeOK ==
    /\ live \subseteq Spaces
    /\ pte \in [Spaces -> [Va -> [frame : Frames \cup {NoFrame}, w : BOOLEAN, x : BOOLEAN,
                                  cow : BOOLEAN, shared : BOOLEAN]]]
    /\ page_ref \in [Frames -> Nat]
    /\ free \subseteq Frames
    /\ mem \in [Frames -> Values]
    /\ shms \in [Objs -> Frames \cup {NoFrame}]
    /\ heap_end \in [Spaces -> Nat] /\ mmap_next \in [Spaces -> Nat]
    /\ asid \in [Spaces -> 0..ASID_MAX]
    /\ next_asid \in 1..(ASID_MAX + 1)
    /\ asid_free_list \in Seq(1..ASID_MAX)
    /\ tlb \subseteq [asid : 1..ASID_MAX, va : Va, frame : Frames, w : BOOLEAN]

\* A frame's count is the number of entries that map it, over all spaces, plus
\* one for a shared-memory object, and the PMM holds exactly the frames that
\* nobody counts: no fork, fault, munmap or exit frees a page too early, frees
\* it twice or loses it (vm.c:338-347, 499-500).
RefsAreOwners ==
    \A f \in Frames :
        /\ page_ref[f] = Cardinality({x \in Spaces \X Va : pte[x[1]][x[2]].frame = f})
                         + Cardinality({o \in Objs : shms[o] = f})
        /\ f \in free <=> page_ref[f] = 0

\* The CPU never uses a translation its owner's table no longer has, or with
\* other rights: every demotion, copy, unmapping and reuse of an ASID is
\* preceded by the flush it needs (vm.c:374, 435, 467).
TlbCoherent ==
    \A e \in tlb : \E s \in live : asid[s] = e.asid /\ Mapped(s, e.va) /\ e = Walk(s, e.va)

\* Two live spaces never share an ASID, and none has one that is up for reuse.
AsidUnique ==
    \A s \in live :
        /\ \A t \in live : s # t => asid[s] # asid[t]
        /\ asid[s] \notin Range(asid_free_list) /\ asid[s] < next_asid

\* The spaces implement Memory: fork copies, stores are private, shared memory
\* is shared, and nothing but munmap and exit takes a page away.
Cell(s, va) ==
    LET e == pte[s][va]
    IN IF s \notin live \/ e = Invalid THEN [kind |-> "unmapped"]
       ELSE IF e.shared THEN [kind |-> "shared", obj |-> CHOOSE o \in Objs : shms[o] = e.frame]
       ELSE [kind |-> "own", value |-> mem[e.frame]]
Promise ==
    INSTANCE Memory WITH
        image <- [s \in Spaces |-> [va \in Va |-> Cell(s, va)]],
        object <- [o \in Objs |-> IF shms[o] = NoFrame THEN [kind |-> "absent"]
                                  ELSE [kind |-> "own", value |-> mem[shms[o]]]]
IsMemory == Promise!Spec

(* What a comment says and the code does not do.                           *)

\* vm.c:158 "exec must NOT be implied by !writable": a segment keeps its right
\* to execute as long as it is mapped.
ExecAsLoaded ==
    \A s \in live, va \in DOMAIN Segments : Mapped(s, va) => pte[s][va].x = Segments[va].x

\* vm.h:21 "next free VA for mmap/shm mappings": the pages a mapping call hands
\* out were not in use.  Addresses of unmapped regions never come back, so the
\* bump pointer reaches the stack, whose entries map_page overwrites.
MmapTakesFree ==
    [][\A s \in live \cap live' : \A va \in mmap_next[s]..(mmap_next'[s] - 1) : ~Mapped(s, va)]_vars
=============================================================================
