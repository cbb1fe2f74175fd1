------------------------------- MODULE LispGc -------------------------------
(***************************************************************************)
(* The collector of the Lisp machine, src/lm_core.c: mark and sweep over   *)
(* cells of two words (a cons, a closure, a symbol's function and value),  *)
(* started by an allocation in the middle of a computation.  Its roots are *)
(* the obarray, the property lists of the buffers (rd_core.c) and whatever *)
(* word of the C stack looks like a cell.  The evaluator is whatever moves *)
(* cells between these: it holds what it works on in C locals.             *)
(***************************************************************************)
EXTENDS Integers, FiniteSets

CONSTANTS
    Addresses,     \* where lm_alloc may put a cell
    gc_threshold,  \* cells that exist before an allocation collects
    MaxSymbols,    \* bound on the interned symbols
    MaxPlists,     \* bound on the property lists
    MaxLocals      \* bound on the cells that C locals hold

ASSUME LispGcAssumption ==
    /\ gc_threshold \in Nat /\ {MaxSymbols, MaxPlists, MaxLocals} \subseteq Nat
    /\ 0 \notin Addresses

VARIABLES
    cells,      \* gc.objects: car, cdr and mark of each cell, by its address
    symtab,     \* the interned symbols
    plists,     \* the property lists in the intervals of the buffers
    stack       \* cells that C locals and registers point at, stale words included

gcVars == <<cells, symtab, plists, stack>>

Immediate == 0    \* a fixnum: no cell
Cell(car, cdr, mark) == [car |-> car, cdr |-> cdr, mark |-> mark]
Live == DOMAIN cells
Values == stack \cup {Immediate}

GcInit ==
    /\ cells = [a \in {} |-> Cell(Immediate, Immediate, FALSE)]
    /\ symtab = {} /\ plists = {} /\ stack = {}

----------------------------------------------------------------------------
\* gc_mark_ptr, of one of the words that are still to be looked at: what the
\* loop and its recursion keep in C locals is the set m.todo.  A cell that is
\* marked is left; another is marked and its two words are to be looked at.
MarkOne(m) ==
    LET a == CHOOSE v \in m.todo : TRUE
    IN IF m.todo = {} THEN m
       ELSE IF a = Immediate \/ m.heap[a].mark THEN [m EXCEPT !.todo = @ \ {a}]
       ELSE [heap |-> [m.heap EXCEPT ![a] = Cell(@.car, @.cdr, TRUE)],
             todo |-> (m.todo \ {a}) \cup {m.heap[a].car, m.heap[a].cdr}]

\* Every word looked at is a root or one of the two of a cell that was marked.
MarkAll(h, roots) ==
    LET after[n \in Nat] == IF n = 0 THEN [heap |-> h, todo |-> roots] ELSE MarkOne(after[n - 1])
    IN after[2 * Cardinality(DOMAIN h) + Cardinality(roots)].heap

\* Mutant: the buffers are not asked for their property lists.
RootsOnlyLisp(held) == symtab \cup held

\* The roots, "held" being what the C stack points at.
Roots(held) == symtab \cup plists \cup held

\* gc_sweep.
Swept(h) == [a \in {b \in DOMAIN h : h[b].mark} |-> Cell(h[a].car, h[a].cdr, FALSE)]

Collected == Swept(MarkAll(cells, Roots(stack)))

\* gc_alloc collects first when there are too many cells.
AfterGc == IF Cardinality(Live) >= gc_threshold THEN Collected ELSE cells

\* Then, if lm_sigint_pending was set, it gives up: lm_error leaves every C frame.
Interrupted ==
    /\ cells' = AfterGc
    /\ stack' = {}
    /\ UNCHANGED <<symtab, plists>>

\* Placed(a, car, cdr): the cell is made; its words were in C locals meanwhile.
Placed(a, car, cdr) ==
    /\ Cardinality(stack) < MaxLocals
    /\ \E h \in {AfterGc} :
         /\ a \in Addresses \ DOMAIN h
         /\ cells' = [b \in DOMAIN h \cup {a} |-> IF b = a THEN Cell(car, cdr, FALSE) ELSE h[b]]
    /\ stack' = stack \cup {a}
    /\ UNCHANGED plists

MakeCons(a, car, cdr) == Placed(a, car, cdr) /\ UNCHANGED symtab

\* intern of a new name: nothing is allocated between the two steps.
Intern(a) ==
    /\ Cardinality(symtab) < MaxSymbols
    /\ Placed(a, Immediate, Immediate) /\ symtab' = symtab \cup {a}

\* The primitive (gc).
CallGc == cells' = Collected /\ UNCHANGED <<symtab, plists, stack>>

\* The evaluator takes up a symbol, or a word of a cell or a list it has, or
\* the property list of some text; it writes a word of a cell; it returns.
Load ==
    /\ Cardinality(stack) < MaxLocals
    /\ \E v \in symtab \cup plists \cup UNION {{cells[a].car, cells[a].cdr} : a \in stack} :
         v # Immediate /\ stack' = stack \cup {v}
    /\ UNCHANGED <<cells, symtab, plists>>

Store ==
    /\ \E a \in stack, v \in Values :
         \/ cells' = [cells EXCEPT ![a] = Cell(v, @.cdr, @.mark)]
         \/ cells' = [cells EXCEPT ![a] = Cell(@.car, v, @.mark)]
    /\ UNCHANGED <<symtab, plists, stack>>

Return ==
    /\ \E a \in stack : stack' = stack \ {a}
    /\ UNCHANGED <<cells, symtab, plists>>

\* Text gets a property list, and loses it.
PutTextProp ==
    /\ Cardinality(plists) < MaxPlists
    /\ \E a \in stack : plists' = plists \cup {a}
    /\ UNCHANGED <<cells, symtab, stack>>

DropTextProp ==
    /\ \E a \in plists : plists' = plists \ {a}
    /\ UNCHANGED <<cells, symtab, stack>>

GcNext ==
    \/ \E a \in Addresses, car, cdr \in Values : MakeCons(a, car, cdr)
    \/ \E a \in Addresses : Intern(a)
    \/ Interrupted \/ CallGc \/ Load \/ Store \/ Return
    \/ PutTextProp \/ DropTextProp

----------------------------------------------------------------------------
\* The words of the cells R.
Words(h, R) == {h[a].car : a \in R} \cup {h[a].cdr : a \in R}

\* R holds the roots and whatever following words leads to from them.
Holds(h, roots, R) == roots \subseteq R /\ Words(h, R) \subseteq R \cup {Immediate}

\* Whatever the evaluator can get at by following words from the obarray, the
\* buffers' text and its own locals is a cell that has not been freed, however
\* collections fall between its steps and whatever they share or close to
\* cycles: some set of cells that exist holds all that is within reach.
NothingReachableFreed == \E R \in SUBSET Live : Holds(cells, Roots(stack), R)

GcSpec == GcInit /\ [][GcNext]_gcVars
=============================================================================
