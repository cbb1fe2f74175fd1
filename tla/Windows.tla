------------------------------ MODULE Windows ------------------------------
(***************************************************************************)
(* The window tree of a frame, src/rd_core.c: nodes from a fixed pool,     *)
(* leaves that show buffers, splits in between.  Deleting a window copies  *)
(* its sibling over their parent, so nodes change identity under the       *)
(* links; splitting turns the selected leaf into the split.  Two of the    *)
(* commands are src/user/lm_gfx.c's: a click selects a window, and a       *)
(* buffer that goes leaves another in every window that showed it.         *)
(***************************************************************************)
EXTENDS Integers, Sequences, FiniteSets

CONSTANTS Buffers, RD_MAX_WIN

ASSUME WindowsAssumption ==
    /\ RD_MAX_WIN \in Nat \ {0}
    /\ "free" \notin Buffers     \* what a node off the tree shows

VARIABLES
    wins,      \* the pool; a free node is Unused
    root, selected

winVars == <<wins, root, selected>>

NoWin == 0
Pool == 1 .. RD_MAX_WIN
Leaf(buf, parent) == [leaf |-> TRUE, a |-> NoWin, b |-> NoWin, parent |-> parent, buf |-> buf]
Unused == [leaf |-> TRUE, a |-> NoWin, b |-> NoWin, parent |-> NoWin, buf |-> "free"]
InUse(w) == wins[w] # Unused

\* win_alloc, when the nodes in "taken" are not free: the first that is.
FirstFree(taken) == CHOOSE w \in Pool \ taken : \A v \in Pool \ taken : w <= v
UsedWins == {w \in Pool : InUse(w)}

WinInit ==
    /\ \E b \in Buffers : wins = [w \in Pool |-> IF w = 1 THEN Leaf(b, NoWin) ELSE Unused]
    /\ root = 1 /\ selected = 1

\* rd_split.  With fewer than two free nodes it gives back what it took.
WinSplit ==
    /\ Cardinality(Pool \ UsedWins) >= 2
    /\ LET a == FirstFree(UsedWins)
           b == FirstFree(UsedWins \cup {a})
           leaf == wins[selected]
       IN /\ wins' = [wins EXCEPT ![a] = Leaf(leaf.buf, selected),
                                  ![b] = Leaf(leaf.buf, selected),
                                  ![selected] = [leaf EXCEPT !.leaf = FALSE, !.a = a, !.b = b]]
          /\ selected' = a
    /\ UNCHANGED root

\* first_leaf: down the left spine.
FirstLeaf(tree, w) ==
    LET down[v \in Pool] == IF tree[v].leaf THEN v ELSE down[tree[v].a] IN down[w]

\* Mutant: the children of the sibling keep pointing at it.
LiftedOnly(sib, parent) == [wins EXCEPT ![parent] = [wins[sib] EXCEPT !.parent = wins[parent].parent]]

\* Mutant: the parent keeps the buffer it showed before it was split.
LiftedStale(sib, parent) ==
    [w \in Pool |->
       IF w = parent THEN [wins[sib] EXCEPT !.parent = wins[parent].parent, !.buf = wins[parent].buf]
       ELSE IF w # NoWin /\ w \in {wins[sib].a, wins[sib].b} THEN [wins[w] EXCEPT !.parent = parent]
       ELSE wins[w]]

\* The sibling is copied over the parent, and its children are told.
Lifted(sib, parent) ==
    [w \in Pool |->
       IF w = parent THEN [wins[sib] EXCEPT !.parent = wins[parent].parent]
       ELSE IF w # NoWin /\ w \in {wins[sib].a, wins[sib].b} THEN [wins[w] EXCEPT !.parent = parent]
       ELSE wins[w]]

\* rd_win_delete; the last window stays.
WinDelete ==
    LET parent == wins[selected].parent
        sib == IF wins[parent].a = selected THEN wins[parent].b ELSE wins[parent].a
    IN /\ parent # NoWin
       /\ \E tree \in {[Lifted(sib, parent) EXCEPT ![sib] = Unused, ![selected] = Unused]} :
            wins' = tree /\ selected' = FirstLeaf(tree, parent)
       /\ UNCHANGED root

IsSecond(tree, w) == tree[w].parent # NoWin /\ tree[tree[w].parent].b = w

\* The walk up from w while it is somebody's second half.
LastUp(tree, w) ==
    LET up[v \in Pool] == IF IsSecond(tree, v) THEN up[tree[v].parent] ELSE v IN up[w]

\* rd_other_window: the leaf after v in depth-first order, or the first.
NextLeaf(v) ==
    LET w == LastUp(wins, v)
    IN FirstLeaf(wins, IF wins[w].parent # NoWin THEN wins[wins[w].parent].b ELSE root)

OtherWindow == selected' = NextLeaf(selected) /\ UNCHANGED <<wins, root>>

SetBuffer ==
    /\ \E b \in Buffers : wins' = [wins EXCEPT ![selected].buf = b]
    /\ UNCHANGED <<root, selected>>

\* rd_delete_other: every node is freed and a lone root taken again.
DeleteOther ==
    /\ wins' = [w \in Pool |-> IF w = 1 THEN Leaf(wins[selected].buf, NoWin) ELSE Unused]
    /\ root' = 1 /\ selected' = 1

\* Where a walk from w down into either half can end.
LeavesUnder(tree, w) ==
    LET leaves[v \in Pool] == IF tree[v].leaf THEN <<v>> ELSE leaves[tree[v].a] \o leaves[tree[v].b]
    IN leaves[w]

Leaves == LeavesUnder(wins, root)

\* select-window-at: leaf_at ends at the window under the pointer, any of them.
SelectAt == (\E i \in DOMAIN Leaves : selected' = Leaves[i]) /\ UNCHANGED <<wins, root>>

\* The scan of the pool for leaves that show the dying buffer.
Retargeted(old, other) ==
    [w \in Pool |-> IF wins[w].leaf /\ wins[w].buf = old THEN [wins[w] EXCEPT !.buf = other] ELSE wins[w]]

\* kill-buffer: the selected window's buffer goes, and some other one is shown.
KillBuffer ==
    /\ \E other \in Buffers \ {wins[selected].buf} : wins' = Retargeted(wins[selected].buf, other)
    /\ UNCHANGED <<root, selected>>

WinNext ==
    \/ WinSplit \/ WinDelete \/ OtherWindow \/ SelectAt
    \/ SetBuffer \/ KillBuffer \/ DeleteOther

WinSpec == WinInit /\ [][WinNext]_winVars

----------------------------------------------------------------------------
\* However splits and deletions have moved nodes about: links down and links
\* up agree, the selected window is a leaf, a node is out of the pool exactly
\* when the tree holds it, so no window is lost and none leaks, and C-x o goes
\* through all the windows in their order and comes round to the first.
WindowTree ==
    /\ InUse(root) /\ wins[root].parent = NoWin
    /\ InUse(selected) /\ wins[selected].leaf
    /\ \A w \in UsedWins : ~wins[w].leaf =>
         \A half \in {wins[w].a, wins[w].b} : InUse(half) /\ wins[half].parent = w
    /\ Cardinality(UsedWins) = 2 * Len(Leaves) - 1
    /\ \A i \in DOMAIN Leaves : NextLeaf(Leaves[i]) = Leaves[(i % Len(Leaves)) + 1]

\* What the leaves show, and which of them is the selected one.
ShownRow == [i \in DOMAIN Leaves |-> wins[Leaves[i]].buf]
SelectedPlace == CHOOSE i \in DOMAIN Leaves : Leaves[i] = selected

Row == INSTANCE WindowRow WITH
    row <- ShownRow,
    sel <- SelectedPlace,
    Most <- (RD_MAX_WIN + 1) \div 2

\* The tree behaves as a row of windows: C-x 2, C-x 0, C-x o, C-x 1, C-x b, a
\* click and the end of a buffer do to the row what they say, and a window keeps
\* its buffer until it is given another.
IsRow == Row!Spec
=============================================================================
