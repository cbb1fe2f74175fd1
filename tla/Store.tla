------------------------------ MODULE Store ------------------------------
(***************************************************************************)
(* What a file system promises of its files: each holds what was written   *)
(* to it, a call changes one file at most, and a write that ends short has *)
(* written a first part.  Only a write that the machine stopped in may     *)
(* leave any of its blocks written, one of them half, the length as it was *)
(* or grown.                                                               *)
(***************************************************************************)
EXTENDS Integers, Sequences, FiniteSetsExt

CONSTANTS Files,  \* numbers; what is written to a file is told apart by its number
          Zero,   \* what was never written reads as: the two halves of a block
          Spans   \* <<first, count>>: the blocks one write covers

VARIABLES text,   \* of each file, its blocks in order, or Absent
          stops   \* how often the machine stopped

Absent == <<<<-1, -1>>>>
Init == text = [f \in Files |-> Absent] /\ stops = 0

\* The contents `old` with v in the blocks W, `len` blocks long.
Over(old, W, len, v) ==
  [i \in 1 .. len |-> IF i - 1 \in W THEN v ELSE IF i <= Len(old) THEN old[i] ELSE Zero]
Grown(old, s, done) == Max({Len(old), s[1] + done})
Put(old, s, v) == {Over(old, s[1] .. s[1] + k - 1, Grown(old, s, k), v) : k \in 0 .. s[2]}
Torn(old, s, v) ==
  LET span == s[1] .. s[1] + s[2] - 1
      whole == {Over(old, W, len, v) : W \in SUBSET span, len \in {Len(old), Grown(old, s, s[2])}}
  IN whole \cup {[t EXCEPT ![i] = <<v[1], @[2]>>] : t \in whole, i \in {j + 1 : j \in span}}

\* A file is made, cleared, removed or written.
May(f, old, new, stopped) ==
  \/ old = Absent /\ new = <<>>
  \/ old # Absent /\ new \in {<<>>, Absent}
  \/ /\ old # Absent
     /\ \E s \in Spans :
          new \in IF stopped THEN Torn(old, s, <<f, f>>) ELSE Put(old, s, <<f, f>>)

Next == /\ stops' \in {stops, stops + 1}
        /\ \E was \in {text}, is \in {text'} :
             \E f \in Files : /\ is[f] = was[f] \/ May(f, was[f], is[f], stops' # stops)
                             /\ \A g \in Files \ {f} : is[g] = was[g]
Spec == Init /\ [][Next]_<<text, stops>>

===========================================================================
