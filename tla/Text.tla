-------------------------------- MODULE Text --------------------------------
(***************************************************************************)
(* A text buffer of the Lisp machine, src/rd_core.c: the characters in a   *)
(* gap buffer, their properties in a table of intervals beside it.  Edits  *)
(* move both, so the two must agree on every position.  A property list is *)
(* modelled by the binding that plist_get finds of each key.               *)
(***************************************************************************)
EXTENDS Integers, Sequences, SequencesExt

CONSTANTS
    Chars,
    MaxInsert,        \* bound on the length of one insertion
    PropKeys, PropVals,
    CAP,              \* characters the store holds
    RD_MAX_INTERVALS

ASSUME TextAssumption == CAP \in Nat \ {0} /\ {RD_MAX_INTERVALS, MaxInsert} \subseteq Nat

VARIABLES
    text, gap_start, gap_end, \* the store and the hole in it
    pt,                       \* b->point
    ivals                     \* the intervals, by start

textVars == <<text, gap_start, gap_end, pt, ivals>>

Strings == UNION {[1 .. n -> Chars] : n \in 1 .. MaxInsert}
Plain == [k \in {} |-> 0]
Ival(s, e, plist) == [start |-> s, end |-> e, plist |-> plist]

BufLen == CAP - (gap_end - gap_start)
CharAt(p) == IF p < gap_start THEN text[p] ELSE text[p + (gap_end - gap_start)]

TextInit ==
    /\ text \in [0 .. CAP - 1 -> {CHOOSE c \in Chars : TRUE}]
    /\ gap_start = 0 /\ gap_end = CAP
    /\ pt = 0
    /\ ivals = <<>>

----------------------------------------------------------------------------
(* Edits.                                                                  *)

\* The store after gap_move(p): the characters between hop over the hole.
GapMoved(p) ==
    LET hole == gap_end - gap_start
    IN [i \in 0 .. CAP - 1 |->
          IF i \in p + hole .. gap_end - 1 THEN text[i - hole]
          ELSE IF i \in gap_start .. p - 1 THEN text[i + hole]
          ELSE text[i]]

\* Mutant: an interval that ends where text is inserted grows over it.
ShiftedSticky(iv, p, n) ==
    Ival(IF iv.start >= p THEN iv.start + n ELSE iv.start,
         IF iv.end >= p THEN iv.end + n ELSE iv.end, iv.plist)

\* An interval after n characters have been inserted at p.
Shifted(iv, p, n) ==
    Ival(IF iv.start >= p THEN iv.start + n ELSE iv.start,
         IF iv.end > p THEN iv.end + n ELSE iv.end, iv.plist)

\* rd_buf_insert: as many characters as the hole takes.
BufInsert(s) ==
    LET hole == gap_end - gap_start
        n == IF Len(s) < hole THEN Len(s) ELSE hole
        moved == GapMoved(pt)
    IN /\ text' = [i \in 0 .. CAP - 1 |-> IF i \in pt .. pt + n - 1 THEN s[i - pt + 1] ELSE moved[i]]
       /\ gap_start' = pt + n
       /\ gap_end' = pt + hole
       /\ pt' = pt + n
       /\ ivals' = [i \in DOMAIN ivals |-> Shifted(ivals[i], pt, n)]

\* A boundary after the characters from d0 to d1 have gone.
Closed(x, d0, d1) == IF x >= d1 THEN x - (d1 - d0) ELSE IF x > d0 THEN d0 ELSE x

\* The intervals after the characters from d0 to d1 have gone, one by one: what
\* is left of each, and none that is left empty.
IvalsClosed(iv, d0, d1) ==
    LET closed == [i \in DOMAIN iv |-> Ival(Closed(iv[i].start, d0, d1), Closed(iv[i].end, d0, d1), iv[i].plist)]
        kept[i \in 0 .. Len(iv)] ==
          IF i = 0 THEN <<>>
          ELSE IF closed[i].start < closed[i].end THEN Append(kept[i - 1], closed[i]) ELSE kept[i - 1]
    IN kept[Len(iv)]

\* rd_buf_delete: the hole eats up to n characters before point.
BufDelete(n) ==
    LET d0 == IF n < pt THEN pt - n ELSE 0
    IN /\ text' = GapMoved(pt)
       /\ gap_start' = d0
       /\ gap_end' = pt + (gap_end - gap_start)
       /\ pt' = d0
       /\ ivals' = IvalsClosed(ivals, d0, pt)

BufSetPoint(p) == p \in 0 .. BufLen /\ pt' = p /\ UNCHANGED <<text, gap_start, gap_end, ivals>>

----------------------------------------------------------------------------
(* Properties.  A change is one of                                         *)
(*   put     bind one key, keeping the others  (rd_put_text_prop)          *)
(*   set     replace all properties            (rd_set_text_props)         *)
(*   remove  unbind some keys                  (rd_remove_text_props)      *)

One == UNION {[{k} -> PropVals] : k \in PropKeys}
Changes == [how : {"put", "remove"}, plist : One] \cup [how : {"set"}, plist : {Plain} \cup [PropKeys -> PropVals]]

Overlaid(plist, over) ==
    [k \in DOMAIN plist \cup DOMAIN over |-> IF k \in DOMAIN over THEN over[k] ELSE plist[k]]

Changed(c, plist) ==
    CASE c.how = "put" -> Overlaid(plist, c.plist)
      [] c.how = "set" -> c.plist
      [] c.how = "remove" -> [k \in DOMAIN plist \ DOMAIN c.plist |-> plist[k]]

Room(iv) == Len(iv) < RD_MAX_INTERVALS
Straddles(iv, p) == \E i \in DOMAIN iv : iv[i].start < p /\ p < iv[i].end

\* ival_split_at the interval that straddles p, when there is room.
Split(iv, p) ==
    IF ~Straddles(iv, p) THEN iv
    ELSE LET i == CHOOSE k \in DOMAIN iv : iv[k].start < p /\ p < iv[k].end
         IN InsertAt([iv EXCEPT ![i] = Ival(@.start, p, @.plist)],
                     i + 1, Ival(p, iv[i].end, iv[i].plist))

\* The first interval that ends beyond pos, or the end of the table.
Beyond(iv, pos) ==
    CHOOSE k \in 1 .. Len(iv) + 1 :
      /\ k <= Len(iv) => iv[k].end > pos
      /\ \A j \in 1 .. k - 1 : iv[j].end <= pos

\* One stop of the walk, at w.pos on the way to end: an interval is changed, and
\* dropped when nothing is left of its list; a stretch without one is given one,
\* unless the change gives it nothing or the table is full, which ends the walk.
Onward(c, w, end) ==
    LET iv == w.iv
        pos == w.pos
        i == Beyond(iv, pos)
        there == i <= Len(iv) /\ iv[i].start <= pos
        plist == Changed(c, iv[i].plist)
        upto == IF i <= Len(iv) /\ iv[i].start < end THEN iv[i].start ELSE end
        fresh == Changed(c, Plain)
    IN CASE pos >= end -> w
         [] pos < end /\ there ->
              [iv |-> IF plist = Plain THEN RemoveAt(iv, i) ELSE [iv EXCEPT ![i].plist = plist],
               pos |-> iv[i].end]
         [] pos < end /\ ~there /\ fresh = Plain -> [iv |-> iv, pos |-> upto]
         [] pos < end /\ ~there /\ fresh # Plain ->
              IF Room(iv) THEN [iv |-> InsertAt(iv, i, Ival(pos, upto, fresh)), pos |-> upto]
              ELSE [iv |-> iv, pos |-> end]

\* From start to end.
Walk(c, iv, start, end) ==
    LET stop[n \in Nat] == IF n = 0 THEN [iv |-> iv, pos |-> start] ELSE Onward(c, stop[n - 1], end)
    IN stop[end - start].iv

\* Both edges are split first; a split without room gives up where it is.
ChangeProps(c, start, end) ==
    /\ start < end /\ end <= BufLen
    /\ \E left \in {Split(ivals, start)} :
         ivals' = IF Straddles(ivals, start) /\ ~Room(ivals) THEN ivals
                  ELSE IF Straddles(left, end) /\ ~Room(left) THEN left
                  ELSE Walk(c, Split(left, end), start, end)
    /\ UNCHANGED <<text, gap_start, gap_end, pt>>

TextNext ==
    \/ \E s \in Strings : BufInsert(s)
    \/ \E n \in 0 .. CAP : BufDelete(n)
    \/ \E p \in 0 .. CAP : BufSetPoint(p)
    \/ \E c \in Changes, start, end \in 0 .. CAP : ChangeProps(c, start, end)

TextSpec == TextInit /\ [][TextNext]_textVars

----------------------------------------------------------------------------
(* Refinement.                                                             *)

\* rd_text_props_at.
PropsAt(p) ==
    LET over == {i \in DOMAIN ivals : ivals[i].start <= p /\ p < ivals[i].end}
    IN IF over = {} THEN Plain ELSE ivals[CHOOSE i \in over : \A j \in over : i <= j].plist

Document == INSTANCE Styled WITH
    doc <- [i \in 1 .. BufLen |-> [ch |-> CharAt(i - 1), props |-> PropsAt(i - 1)]],
    point <- pt

\* The gap buffer with its table is a sequence of characters that carry their
\* properties with them: whatever is inserted, deleted and propertized in
\* whatever order, also when the table is full and a change stops half-way, no
\* property leaks to a neighbour, moves against its text or stays behind.
IsStyled == Document!Spec
=============================================================================
