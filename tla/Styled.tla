------------------------------- MODULE Styled -------------------------------
(***************************************************************************)
(* What a text buffer promises the Lisp that edits it: a sequence of       *)
(* characters, each with its properties, and a point.                      *)
(***************************************************************************)
EXTENDS Integers, Sequences

CONSTANTS
    Strings,    \* what may be inserted
    Changes,    \* changes of properties
    Changed(_, _), \* what a change makes of properties
    Plain,      \* no properties
    CAP         \* characters a buffer holds

VARIABLES
    doc,        \* the characters, each with its properties
    point

styledVars == <<doc, point>>

Init == doc = <<>> /\ point = 0

Min2(a, b) == IF a < b THEN a ELSE b

Styling(d, p) == IF p \in 1 .. Len(d) - 1 /\ d[p].props = d[p + 1].props
                 THEN {Plain, d[p].props} ELSE {Plain}

Inserted(d, p, s, props) ==
    SubSeq(d, 1, p) \o [i \in DOMAIN s |-> [ch |-> s[i], props |-> props]]
                    \o SubSeq(d, p + 1, Len(d))

\* The text appears before point, plain, or with the properties that run on
\* from the character before point to the one after; what does not fit is lost.
Insert(s) ==
    \E fits \in {SubSeq(s, 1, Min2(Len(s), CAP - Len(doc)))} :
      /\ point' = point + Len(fits)
      /\ \E props \in Styling(doc, point) : doc' = Inserted(doc, point, fits, props)

\* The n characters before point go, with their properties.
Delete(n) ==
    /\ point' = point - Min2(n, point)
    /\ doc' = SubSeq(doc, 1, point - Min2(n, point)) \o SubSeq(doc, point + 1, Len(doc))

SetPoint(p) == point' = p /\ UNCHANGED doc

Restyled(d, c, start, end) ==
    [i \in DOMAIN d |->
       IF i \in start + 1 .. end THEN [d[i] EXCEPT !.props = Changed(c, @)] ELSE d[i]]

\* The properties of the characters of one range change, and no others.
Change ==
    /\ \E d \in {doc}, later \in {doc'} :
         /\ Len(later) = Len(d)
         /\ \E c \in Changes, start, end \in 0 .. Len(d) : later = Restyled(d, c, start, end)
    /\ UNCHANGED point

Next ==
    \/ \E p \in 0 .. Len(doc) : SetPoint(p)
    \/ \E n \in 0 .. CAP : Delete(n)
    \/ \E s \in Strings : Insert(s)
    \/ Change

Spec == Init /\ [][Next]_styledVars
=============================================================================
