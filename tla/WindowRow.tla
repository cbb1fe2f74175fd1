----------------------------- MODULE WindowRow -----------------------------
(***************************************************************************)
(* What the user of the window commands sees: windows in a row, each       *)
(* showing a buffer, one of them selected.                                 *)
(***************************************************************************)
EXTENDS Integers, Sequences

CONSTANTS Buffers, Most     \* buffers; how many windows there can be

VARIABLES row, sel          \* the buffer of each window; the selected one

rowVars == <<row, sel>>

Init == \E b \in Buffers : row = <<b>> /\ sel = 1

\* The selected window becomes two that show its buffer; the first stays selected.
Split ==
    /\ Len(row) < Most
    /\ row' = SubSeq(row, 1, sel) \o SubSeq(row, sel, Len(row))
    /\ UNCHANGED sel

\* The selected window goes and another one is selected.
Delete ==
    /\ Len(row) > 1
    /\ row' = SubSeq(row, 1, sel - 1) \o SubSeq(row, sel + 1, Len(row))
    /\ sel' \in 1 .. Len(row) - 1

\* From window to window, round and round.
Other == sel' = (sel % Len(row)) + 1 /\ UNCHANGED row

\* A click: any of them.
Select == sel' \in 1 .. Len(row) /\ UNCHANGED row

SetBuffer == (\E b \in Buffers : row' = [row EXCEPT ![sel] = b]) /\ UNCHANGED sel

\* The buffer of the selected window goes: no window shows it any more.
Kill ==
    /\ \E b \in Buffers \ {row[sel]} : row' = [i \in DOMAIN row |-> IF row[i] = row[sel] THEN b ELSE row[i]]
    /\ UNCHANGED sel

DeleteOther == row' = <<row[sel]>> /\ sel' = 1

Next == Split \/ Delete \/ Other \/ Select \/ SetBuffer \/ Kill \/ DeleteOther

Spec == Init /\ [][Next]_rowVars
=============================================================================
