---------------------------- MODULE PartsProofs ----------------------------
(***************************************************************************)
(* Proofs about parts that share no state: the kernel heap, pseudo-        *)
(* terminals, the seats and their screen, the collector of the Lisp        *)
(* machine; for any sizes, readers, keys, modes, clients and cells.        *)
(***************************************************************************)
EXTENDS Heap, Pty, Seat, LispGc, Counting, SequenceTheorems

----------------------------------------------------------------------------
(* The kernel heap.  A list of chunks is well formed when its headers      *)
(* have their types, ends come in the order of the addresses and the links *)
(* agree; splitting and merging keep that whatever the list, and the two   *)
(* invariants follow for any sizes and any number of chunks.               *)

Typed(h) == /\ DOMAIN h \subseteq Nat \ {0}
            /\ h \in [DOMAIN h -> Header(DOMAIN h)]
WellFormed(h) == Typed(h) /\ Ordered(h) /\ Linked(h) /\ NoneBetween(h)

\* The chunks of g reach no further than those of h.
Inside(g, h) ==
    \A p \in Nat : /\ Apart(h, p) => Apart(g, p)
                   /\ Below(h, p) => Below(g, p)

\* Free chunks a and c touch only when a is in lows or c in ups.
NoTouch(h, lows, ups) ==
    \A a \in DOMAIN h \ lows : \A c \in DOMAIN h \ ups :
      h[a].free /\ h[c].free => EndOf(h, a) # c

\* A header of the right type, field by field.
LEMMA BlockTyped ==
    ASSUME NEW d, NEW s \in Nat \ {0}, NEW f \in BOOLEAN, NEW n \in d \cup {NULL}, NEW p \in d \cup {NULL}
    PROVE  /\ Block(s, f, n, p) \in Header(d)
           /\ Block(s, f, n, p).size = s /\ Block(s, f, n, p).free = f
           /\ Block(s, f, n, p).next = n /\ Block(s, f, n, p).prev = p
  BY DEF Block, Header

LEMMA HeaderFields ==
    ASSUME NEW d, NEW r \in Header(d)
    PROVE  /\ r.size \in Nat \ {0} /\ r.free \in BOOLEAN
           /\ r.next \in d \cup {NULL} /\ r.prev \in d \cup {NULL}
  BY DEF Header

LEMMA Facts ==
    ASSUME NEW h, WellFormed(h)
    PROVE  /\ HeaderSize \in Nat \ {0} /\ DOMAIN h \subseteq Nat \ {0} /\ NULL \notin DOMAIN h
           /\ \A c \in DOMAIN h :
                /\ c \in Nat \ {0} /\ h[c] \in Header(DOMAIN h)
                /\ h[c].size \in Nat \ {0} /\ h[c].free \in BOOLEAN
                /\ h[c].next \in DOMAIN h \cup {NULL} /\ h[c].prev \in DOMAIN h \cup {NULL}
                /\ EndOf(h, c) \in Nat /\ EndOf(h, c) = c + HeaderSize + h[c].size
                /\ c < EndOf(h, c)
           /\ \A c \in DOMAIN h : h[c].next # NULL =>
                EndOf(h, c) <= h[c].next /\ h[h[c].next].prev = c /\ c < h[c].next
           /\ \A c \in DOMAIN h : h[c].prev # NULL => h[h[c].prev].next = c
           /\ \A b, c \in DOMAIN h : b < c => h[b].next # NULL /\ h[b].next <= c
           /\ \A b, c \in DOMAIN h : b < c => EndOf(h, b) <= c
  <1>1. /\ HeaderSize \in Nat \ {0} /\ DOMAIN h \subseteq Nat \ {0} /\ NULL \notin DOMAIN h
        /\ \A c \in DOMAIN h : c \in Nat \ {0} /\ h[c] \in Header(DOMAIN h)
    BY HeapAssumption DEF WellFormed, Typed, NULL
  <1>2. \A c \in DOMAIN h : /\ h[c].size \in Nat \ {0} /\ h[c].free \in BOOLEAN
                            /\ h[c].next \in DOMAIN h \cup {NULL} /\ h[c].prev \in DOMAIN h \cup {NULL}
    BY <1>1, HeaderFields
  <1>3. \A c \in DOMAIN h : /\ EndOf(h, c) \in Nat /\ EndOf(h, c) = c + HeaderSize + h[c].size
                            /\ c < EndOf(h, c)
    BY <1>1, <1>2 DEF EndOf
  <1>4. \A c \in DOMAIN h : h[c].next # NULL =>
                EndOf(h, c) <= h[c].next /\ h[h[c].next].prev = c /\ c < h[c].next
    BY <1>1, <1>2, <1>3 DEF WellFormed, Ordered, Linked
  <1>5. \A c \in DOMAIN h : h[c].prev # NULL => h[h[c].prev].next = c
    BY DEF WellFormed, Linked
  <1>6. \A b, c \in DOMAIN h : b < c => h[b].next # NULL /\ h[b].next <= c
    BY DEF WellFormed, NoneBetween
  <1>7. \A b, c \in DOMAIN h : b < c => EndOf(h, b) <= c
    <2>1. ASSUME NEW b \in DOMAIN h, NEW c \in DOMAIN h, b < c PROVE EndOf(h, b) <= c
      <3>1. EndOf(h, b) <= h[b].next /\ h[b].next <= c /\ h[b].next \in DOMAIN h
        BY <2>1, <1>2, <1>4, <1>6
      <3>. QED BY <3>1, <1>1, <1>3
    <2>. QED BY <2>1
  <1>. QED BY <1>1, <1>2, <1>3, <1>4, <1>5, <1>6, <1>7

\* What kmalloc does to a list keeps it well formed and inside its memory,
\* and leaves no free chunks touching if none touched before but at b.
LEMMA CarveGood ==
    ASSUME NEW h, NEW b \in DOMAIN h, NEW size \in Nat \ {0},
           WellFormed(h), h[b].size >= size, NoTouch(h, {}, {b}), h[b].free
    PROVE  /\ WellFormed(Carve(h, b, size))
           /\ Inside(Carve(h, b, size), h)
           /\ NoTouch(Carve(h, b, size), {}, {})
  <1> DEFINE g == Carve(h, b, size)
             rest == b + HeaderSize + size
             left == h[b].size - size - HeaderSize
  <1> USE Facts
  <1>1. CASE h[b].size < size + HeaderSize + 1
    <2>1. g = [h EXCEPT ![b] = Block(h[b].size, FALSE, h[b].next, h[b].prev)]
      BY <1>1 DEF Carve
    <2>. HIDE DEF g
    <2>2. h \in [DOMAIN h -> Header(DOMAIN h)]
      BY DEF WellFormed, Typed
    <2>3. /\ DOMAIN g = DOMAIN h
          /\ g[b] = Block(h[b].size, FALSE, h[b].next, h[b].prev)
          /\ \A c \in DOMAIN h \ {b} : g[c] = h[c]
      BY <2>1, <2>2
    <2>4. Block(h[b].size, FALSE, h[b].next, h[b].prev) \in Header(DOMAIN h)
      <3>1. /\ h[b].size \in Nat \ {0}
            /\ h[b].next \in DOMAIN h \cup {NULL} /\ h[b].prev \in DOMAIN h \cup {NULL}
        OBVIOUS
      <3>. QED BY ONLY <3>1 DEF Block, Header
    <2>5. g \in [DOMAIN h -> Header(DOMAIN h)]
      BY <2>1, <2>2, <2>4
    <2>6. \A c \in DOMAIN h : /\ g[c].size = h[c].size /\ g[c].next = h[c].next /\ g[c].prev = h[c].prev
                              /\ g[c].free => h[c].free /\ c # b
      <3>1. /\ g[b].size = h[b].size /\ g[b].free = FALSE
            /\ g[b].next = h[b].next /\ g[b].prev = h[b].prev
        BY <2>3 DEF Block
      <3>. QED BY <3>1, <2>3
    <2>7. \A c \in DOMAIN h : EndOf(g, c) = EndOf(h, c)
      BY <2>6 DEF EndOf
    <2>8. Typed(g)
      BY <2>3, <2>5 DEF Typed
    <2>9. Ordered(g) /\ Linked(g) /\ NoneBetween(g)
      <3>1. Ordered(g)
        BY <2>3, <2>6, <2>7 DEF Ordered, WellFormed
      <3>2. \A c \in DOMAIN h : g[c].next # NULL => g[g[c].next].prev = c
        BY <2>6
      <3>3. \A c \in DOMAIN h : g[c].prev # NULL => g[g[c].prev].next = c
        BY <2>6
      <3>4. NoneBetween(g)
        BY <2>3, <2>6 DEF NoneBetween
      <3>. QED BY <3>1, <3>2, <3>3, <3>4, <2>3 DEF Linked
    <2>10. Inside(g, h)
      BY <2>3, <2>7 DEF Inside, Apart, Below
    <2>11. NoTouch(g, {}, {})
      BY <2>3, <2>6, <2>7 DEF NoTouch
    <2>. QED BY <2>8, <2>9, <2>10, <2>11 DEF WellFormed, g
  <1>2. CASE h[b].size >= size + HeaderSize + 1
    <2>1. /\ left \in Nat \ {0} /\ rest \in Nat \ {0}
          /\ b < rest /\ rest + HeaderSize + left = EndOf(h, b)
          /\ b + HeaderSize + size = rest
      BY <1>2
    <2>2. \A c \in DOMAIN h : (c <= b /\ c < rest) \/ (b < c /\ rest < c /\ EndOf(h, b) <= c)
      BY <2>1
    <2>3. rest \notin DOMAIN h
      BY <2>1, <2>2
    <2> DEFINE D == DOMAIN h \cup {rest}
               e(c) == IF c = rest THEN Block(left, TRUE, h[b].next, b)
                       ELSE IF c = b THEN Block(size, FALSE, rest, h[b].prev)
                       ELSE IF c = h[b].next THEN Block(h[c].size, h[c].free, h[c].next, rest)
                       ELSE h[c]
    <2>4. g = [c \in D |-> e(c)]
      <3>1. ~(h[b].size < size + HeaderSize + 1)
        BY <1>2
      <3>. QED BY <3>1 DEF Carve
    <2>. HIDE DEF g
    <2>5. /\ DOMAIN g = D
          /\ g[rest] = Block(left, TRUE, h[b].next, b)
          /\ g[b] = Block(size, FALSE, rest, h[b].prev)
          /\ h[b].next # NULL => g[h[b].next] = Block(h[h[b].next].size, h[h[b].next].free, h[h[b].next].next, rest)
          /\ \A c \in DOMAIN h : c # b /\ c # h[b].next => g[c] = h[c]
      <3>1. \A c \in D : g[c] = e(c)
        BY <2>4
      <3>2. DOMAIN g = D
        BY <2>4
      <3>3. h[b].next # NULL => h[b].next \in DOMAIN h /\ h[b].next # b /\ h[b].next # rest
        BY <2>3, <2>1
      <3>4. b # rest
        BY <2>1
      <3>. QED BY <3>1, <3>2, <3>3, <3>4, <2>3
    <2>6. /\ g[rest].size = left /\ g[rest].free = TRUE /\ g[rest].next = h[b].next /\ g[rest].prev = b
          /\ g[b].size = size /\ g[b].free = FALSE /\ g[b].next = rest /\ g[b].prev = h[b].prev
          /\ h[b].next # NULL => /\ g[h[b].next].size = h[h[b].next].size /\ g[h[b].next].free = h[h[b].next].free
                                 /\ g[h[b].next].next = h[h[b].next].next /\ g[h[b].next].prev = rest
      BY <2>5 DEF Block
    <2>7. /\ \A c \in DOMAIN h \ {b} : g[c].size = h[c].size /\ g[c].free = h[c].free /\ g[c].next = h[c].next
          /\ \A c \in DOMAIN h : c # h[b].next => g[c].prev = h[c].prev
      <3>1. \A c \in DOMAIN h : c # NULL
        OBVIOUS
      <3>2. h[b].next # b
        BY <3>1
      <3>3. ASSUME NEW c \in DOMAIN h \ {b}
            PROVE  g[c].size = h[c].size /\ g[c].free = h[c].free /\ g[c].next = h[c].next
        <4>1. CASE c = h[b].next
          BY <4>1, <3>1, <2>6
        <4>2. CASE c # h[b].next
          BY <4>2, <2>5
        <4>. QED BY <4>1, <4>2
      <3>4. ASSUME NEW c \in DOMAIN h, c # h[b].next PROVE g[c].prev = h[c].prev
        <4>1. CASE c = b
          BY <4>1, <2>6
        <4>2. CASE c # b
          BY <4>2, <3>4, <2>5
        <4>. QED BY <4>1, <4>2
      <3>. QED BY <3>3, <3>4
    <2>8. \A c \in D : g[c] \in Header(D)
      <3>1. \A c \in DOMAIN h : h[c] \in Header(D)
        BY DEF Header
      <3>3. h[b].next \in D \cup {NULL} /\ h[b].prev \in D \cup {NULL} /\ rest \in D /\ b \in D
        OBVIOUS
      <3>4. g[rest] \in Header(D)
        BY <3>3, <2>1, <2>5 DEF Block, Header
      <3>5. g[b] \in Header(D)
        BY <3>3, <2>1, <2>5 DEF Block, Header
      <3>6. h[b].next # NULL => g[h[b].next] \in Header(D)
        <4>1. ASSUME NEW n \in DOMAIN h, n = h[b].next PROVE g[n] \in Header(D)
          <5>1. h[n].size \in Nat \ {0} /\ h[n].free \in BOOLEAN /\ h[n].next \in D \cup {NULL}
            OBVIOUS
          <5>2. g[n] = Block(h[n].size, h[n].free, h[n].next, rest)
            BY <2>5, <4>1
          <5>. QED BY <5>1, <5>2, <3>3 DEF Block, Header
        <4>. QED BY <4>1
      <3>7. ASSUME NEW c \in DOMAIN h, c # b, c # h[b].next PROVE g[c] \in Header(D)
        BY <3>7, <3>1, <2>5
      <3>8. ASSUME NEW c \in DOMAIN h, c = h[b].next PROVE g[c] \in Header(D)
        <4>1. c # NULL
          OBVIOUS
        <4>. QED BY <4>1, <3>6, <3>8
      <3>. QED BY <3>4, <3>5, <3>7, <3>8
    <2>9. Typed(g)
      <3>1. g = [c \in D |-> g[c]]
        BY <2>4
      <3>2. g \in [D -> Header(D)]
        BY <3>1, <2>8
      <3>. QED BY <3>2, <2>5, <2>1 DEF Typed
    <2>10. /\ \A c \in DOMAIN h \ {b} : EndOf(g, c) = EndOf(h, c)
           /\ EndOf(g, b) = rest /\ EndOf(g, rest) = EndOf(h, b)
      BY <2>6, <2>7, <2>1 DEF EndOf
    <2>11. Ordered(g)
      <3>1. ASSUME NEW c \in D, g[c].next # NULL PROVE EndOf(g, c) <= g[c].next
        <4>1. CASE c = b
          BY <4>1, <2>6, <2>10, <2>1
        <4>2. CASE c = rest
          BY <4>2, <3>1, <2>6, <2>10, <2>1
        <4>3. CASE c \in DOMAIN h \ {b}
          BY <4>3, <3>1, <2>7, <2>10
        <4>. QED BY <4>1, <4>2, <4>3
      <3>. QED BY <3>1, <2>5 DEF Ordered
    <2>12. \A c \in D : g[c].next # NULL => g[g[c].next].prev = c
      <3>1. \A c \in DOMAIN h \ {b} : g[c].next # NULL => g[g[c].next].prev = c
        <4>1. ASSUME NEW c \in DOMAIN h \ {b}, h[c].next # NULL
              PROVE  g[h[c].next].prev = c
          <5>1. h[c].next \in DOMAIN h /\ h[h[c].next].prev = c
            BY <4>1
          <5>2. h[c].next # h[b].next
            BY <5>1, <4>1
          <5>. QED BY <5>1, <5>2, <2>7
        <4>. QED BY <4>1, <2>7
      <3>. QED BY <3>1, <2>6
    <2>13. \A c \in D : g[c].prev # NULL => g[g[c].prev].next = c
      <3>1. \A c \in DOMAIN h : c # h[b].next /\ h[c].prev # NULL => h[c].prev \in DOMAIN h \ {b}
        OBVIOUS
      <3>. QED BY <3>1, <2>6, <2>7
    <2>14. NoneBetween(g)
      <3>1. ASSUME NEW a \in D, NEW c \in D, a < c PROVE g[a].next # NULL /\ g[a].next <= c
        <4>1. CASE a = b
          BY <4>1, <3>1, <2>1, <2>2, <2>6 DEF NULL
        <4>2. CASE a = rest
          BY <4>2, <3>1, <2>1, <2>2, <2>6
        <4>3. CASE a \in DOMAIN h \ {b} /\ c = rest
          <5>1. a < b
            BY <4>3, <3>1, <2>2
          <5>2. h[a].next # NULL /\ h[a].next <= b
            BY <4>3, <5>1
          <5>3. h[a].next \in DOMAIN h
            BY <4>3, <5>2
          <5>4. h[a].next \in Nat /\ b \in Nat
            BY <5>3
          <5>5. g[a].next = h[a].next
            BY <4>3, <2>7
          <5>. QED BY ONLY <4>3, <5>2, <5>4, <5>5, <2>1
        <4>4. CASE a \in DOMAIN h \ {b} /\ c \in DOMAIN h
          BY <4>4, <3>1, <2>7
        <4>. QED BY <4>1, <4>2, <4>3, <4>4
      <3>. QED BY <3>1, <2>5 DEF NoneBetween
    <2>15. Inside(g, h)
      <3>1. ASSUME NEW p \in Nat, Below(h, p) PROVE Below(g, p)
        <4>1. \A c \in DOMAIN h : EndOf(h, c) <= p
          BY <3>1 DEF Below
        <4>. QED BY <4>1, <2>5, <2>10, <2>1 DEF Below
      <3>2. ASSUME NEW p \in Nat, Apart(h, p) PROVE Apart(g, p)
        <4>1. \A c \in DOMAIN h : EndOf(h, c) <= p \/ p + PageSize <= c
          BY <3>2 DEF Apart
        <4>2. PageSize \in Nat \ {0}
          BY HeapAssumption
        <4>. QED BY <4>1, <4>2, <2>5, <2>10, <2>1 DEF Apart
      <3>. QED BY <3>1, <3>2 DEF Inside
    <2>16. NoTouch(g, {}, {})
      <3>1. ASSUME NEW a \in D, NEW c \in D, g[a].free, g[c].free PROVE EndOf(g, a) # c
        <4>1. a # b /\ c # b
          BY <2>6, <3>1
        <4>2. CASE a = rest
          <5>1. c # rest => EndOf(h, b) # c
            BY <4>1, <3>1, <2>7 DEF NoTouch
          <5>2. rest < EndOf(h, b)
            BY <2>1
          <5>. QED BY <4>2, <5>1, <5>2, <2>10
        <4>3. CASE a # rest /\ c = rest
          BY <4>3, <4>1, <2>1, <2>2, <2>10
        <4>4. CASE a # rest /\ c # rest
          BY <4>4, <4>1, <3>1, <2>7, <2>10 DEF NoTouch
        <4>. QED BY <4>2, <4>3, <4>4
      <3>. QED BY <3>1, <2>5 DEF NoTouch
    <2>. QED BY <2>9, <2>11, <2>12, <2>13, <2>14, <2>15, <2>16, <2>5 DEF WellFormed, Linked, g
  <1>. QED BY <1>1, <1>2

\* The chunk that follows b in memory is the next one in the list.
LEMMA TouchIsNext ==
    ASSUME NEW h, WellFormed(h), NEW a \in DOMAIN h, NEW b \in DOMAIN h, EndOf(h, a) = b
    PROVE  h[a].next = b /\ h[b].prev = a
  <1>1. a < b /\ h[a].next # NULL /\ h[a].next <= b /\ b <= h[a].next /\ h[a].next \in DOMAIN h
    BY Facts
  <1>2. h[a].next = b
    BY <1>1, Facts
  <1>. QED BY <1>1, <1>2, Facts

\* Taking in the next chunk keeps the list well formed and where it was.
LEMMA AbsorbGood ==
    ASSUME NEW h, WellFormed(h), NEW a \in DOMAIN h, NEW b \in DOMAIN h, EndOf(h, a) = b
    PROVE  LET g == Absorb(h, a, b)
           IN /\ WellFormed(g) /\ Inside(g, h)
              /\ DOMAIN g = DOMAIN h \ {b} /\ a # b
              /\ \A c \in DOMAIN g : g[c].free = h[c].free
              /\ \A c \in DOMAIN g \ {a} : EndOf(g, c) = EndOf(h, c)
              /\ EndOf(g, a) = EndOf(h, b)
  <1> DEFINE g == Absorb(h, a, b)
             D == DOMAIN h \ {b}
             n == h[b].next
             e(c) == IF c = a THEN Block(h[a].size + HeaderSize + h[b].size, h[a].free, n, h[a].prev)
                     ELSE IF c = n THEN Block(h[c].size, h[c].free, h[c].next, a)
                     ELSE h[c]
  <1> USE Facts
  <1>1. h[a].next = b /\ h[b].prev = a /\ a < b
    BY TouchIsNext
  <1>2. n # NULL => n \in D /\ n # a /\ b < n
    BY <1>1
  <1>3. n \in D \cup {NULL} /\ h[a].prev \in D \cup {NULL} /\ a \in D
    <2>1. h[a].prev # b
      <3>1. SUFFICES ASSUME h[a].prev = b PROVE FALSE
        OBVIOUS
      <3>2. h[b].next = a /\ b < a
        BY <3>1
      <3>. QED BY <3>2, <1>1
    <2>. QED BY <2>1, <1>1, <1>2
  <1>4. g = [c \in D |-> e(c)]
    BY DEF Absorb
  <1>. HIDE DEF g
  <1>5. DOMAIN g = D /\ \A c \in D : g[c] = e(c)
    BY <1>4
  <1>6. /\ g[a] = Block(h[a].size + HeaderSize + h[b].size, h[a].free, n, h[a].prev)
        /\ n # NULL => g[n] = Block(h[n].size, h[n].free, h[n].next, a)
        /\ \A c \in D : c # a /\ c # n => g[c] = h[c]
    BY <1>5, <1>2, <1>3
  <1>7. /\ g[a].size = h[a].size + HeaderSize + h[b].size /\ g[a].free = h[a].free
        /\ g[a].next = n /\ g[a].prev = h[a].prev
        /\ n # NULL => /\ g[n].size = h[n].size /\ g[n].free = h[n].free
                       /\ g[n].next = h[n].next /\ g[n].prev = a
    BY <1>6 DEF Block
  <1>8. \A c \in D : c # NULL
    OBVIOUS
  <1>9. ASSUME NEW c \in D, c # a
        PROVE  g[c].size = h[c].size /\ g[c].free = h[c].free /\ g[c].next = h[c].next
    <2>1. CASE c = n
      BY <2>1, <1>8, <1>7
    <2>2. CASE c # n
      BY <2>2, <1>9, <1>6
    <2>. QED BY <2>1, <2>2
  <1>10. ASSUME NEW c \in D, c # n PROVE g[c].prev = h[c].prev
    <2>1. CASE c = a
      BY <2>1, <1>7
    <2>2. CASE c # a
      BY <2>2, <1>10, <1>6
    <2>. QED BY <2>1, <2>2
  <1>11. ASSUME NEW c \in D PROVE h[c].prev # b \/ c = n
    BY <1>11
  <1>12. ASSUME NEW c \in D, c # a PROVE h[c].next # b
    <2>1. SUFFICES ASSUME h[c].next = b PROVE FALSE
      OBVIOUS
    <2>2. h[b].prev = c
      BY <2>1, <1>8
    <2>. QED BY <2>2, <1>1, <1>12
  <1>13. ASSUME NEW c \in D PROVE g[c] \in Header(D)
    <2>1. g[a] \in Header(D)
      BY <1>6, <1>3 DEF Block, Header
    <2>2. ASSUME c = n PROVE g[c] \in Header(D)
      <3>1. h[c].next \in D \cup {NULL}
        BY <2>2, <1>12, <1>2, <1>8
      <3>2. g[c] = Block(h[c].size, h[c].free, h[c].next, a)
        BY <2>2, <1>6, <1>8
      <3>. QED BY <3>1, <3>2, <1>3 DEF Block, Header
    <2>3. ASSUME c # n, c # a PROVE g[c] \in Header(D)
      <3>1. h[c].next \in D \cup {NULL} /\ h[c].prev \in D \cup {NULL}
        BY <2>3, <1>11, <1>12
      <3>2. g[c] = h[c] /\ h[c] \in Header(DOMAIN h)
        BY <2>3, <1>6
      <3>. QED BY <3>1, <3>2 DEF Header
    <2>. QED BY <2>1, <2>2, <2>3
  <1>14. Typed(g)
    <2>1. g = [c \in D |-> g[c]]
      BY <1>4, <1>5
    <2>2. g \in [D -> Header(D)]
      BY <2>1, <1>13
    <2>. QED BY <2>2, <1>5 DEF Typed
  <1>15. EndOf(g, a) = EndOf(h, b)
    BY <1>7 DEF EndOf
  <1>16. \A c \in D \ {a} : EndOf(g, c) = EndOf(h, c)
    BY <1>9 DEF EndOf
  <1>17. Ordered(g)
    <2>1. ASSUME NEW c \in D, g[c].next # NULL PROVE EndOf(g, c) <= g[c].next
      <3>1. CASE c = a
        BY <3>1, <2>1, <1>7, <1>15
      <3>2. CASE c # a
        BY <3>2, <2>1, <1>9, <1>16
      <3>. QED BY <3>1, <3>2
    <2>. QED BY <2>1, <1>5 DEF Ordered
  <1>18. ASSUME NEW c \in D, g[c].next # NULL PROVE g[g[c].next].prev = c
    <2>1. CASE c = a
      BY <2>1, <1>18, <1>7
    <2>2. CASE c # a
      <3>1. h[c].next # NULL /\ g[c].next = h[c].next
        BY <2>2, <1>18, <1>9
      <3>2. h[c].next \in D /\ h[h[c].next].prev = c
        BY <3>1, <2>2, <1>12
      <3>3. h[c].next # n
        BY <3>2, <2>2, <1>1
      <3>. QED BY <3>1, <3>2, <3>3, <1>10
    <2>. QED BY <2>1, <2>2
  <1>19. ASSUME NEW c \in D, g[c].prev # NULL PROVE g[g[c].prev].next = c
    <2>1. CASE c = n
      BY <2>1, <1>7, <1>8
    <2>2. CASE c # n
      <3>1. g[c].prev = h[c].prev /\ h[c].prev \in DOMAIN h /\ h[h[c].prev].next = c
        BY <2>2, <1>10, <1>19
      <3>2. h[c].prev # a /\ h[c].prev # b
        BY <3>1, <2>2, <1>1, <1>11
      <3>. QED BY <3>1, <3>2, <1>9
    <2>. QED BY <2>1, <2>2
  <1>20. NoneBetween(g)
    <2>1. ASSUME NEW c \in D, NEW d \in D, c < d PROVE g[c].next # NULL /\ g[c].next <= d
      <3>1. CASE c = a
        <4>1. b <= d /\ b # d /\ b \in Nat /\ d \in Nat
          BY <3>1, <2>1, <1>1
        <4>2. b < d
          BY ONLY <4>1
        <4>. QED BY <4>2, <3>1, <1>7
      <3>2. CASE c # a
        BY <3>2, <2>1, <1>9
      <3>. QED BY ONLY <3>1, <3>2
    <2>. QED BY <2>1, <1>5 DEF NoneBetween
  <1>21. Inside(g, h)
    <2>1. ASSUME NEW p \in Nat, Below(h, p) PROVE Below(g, p)
      <3>1. \A c \in DOMAIN h : EndOf(h, c) <= p
        BY <2>1 DEF Below
      <3>. QED BY <3>1, <1>5, <1>15, <1>16 DEF Below
    <2>2. ASSUME NEW p \in Nat, Apart(h, p) PROVE Apart(g, p)
      <3>1. \A c \in DOMAIN h : EndOf(h, c) <= p \/ p + PageSize <= c
        BY <2>2 DEF Apart
      <3>2. PageSize \in Nat \ {0}
        BY HeapAssumption
      <3>3. EndOf(h, b) <= p \/ p + PageSize <= a
        BY <3>1, <3>2
      <3>. QED BY <3>1, <3>3, <1>5, <1>15, <1>16 DEF Apart
    <2>. QED BY <2>1, <2>2 DEF Inside
  <1>22. WellFormed(g)
    <2>1. Linked(g)
      BY <1>18, <1>19, <1>5 DEF Linked
    <2>. QED BY ONLY <1>14, <1>17, <1>20, <2>1 DEF WellFormed
  <1>23. \A c \in D : g[c].free = h[c].free
    BY <1>7, <1>9
  <1>24. DOMAIN g = D /\ a # b
    BY <1>5, <1>1
  <1>. QED BY ONLY <1>15, <1>16, <1>21, <1>22, <1>23, <1>24 DEF g

\* kfree leaves a well formed list without free chunks that touch.
LEMMA KFreeGood ==
    ASSUME NEW h, WellFormed(h), NoTouch(h, {}, {}), NEW b \in DOMAIN h
    PROVE  LET freed == [h EXCEPT ![b] = Block(@.size, TRUE, @.next, @.prev)]
               up == Merged(freed, b, freed[b].next)
               g == Merged(up, up[b].prev, b)
           IN WellFormed(g) /\ Inside(g, h) /\ NoTouch(g, {}, {})
  <1> DEFINE freed == [h EXCEPT ![b] = Block(h[b].size, TRUE, h[b].next, h[b].prev)]
             n == freed[b].next
             up == Merged(freed, b, n)
             p == up[b].prev
             g == Merged(up, p, b)
  <1>1. /\ WellFormed(freed) /\ Inside(freed, h) /\ NoTouch(freed, {b}, {b})
        /\ DOMAIN freed = DOMAIN h /\ freed[b].free
    <2> USE Facts
    <2>1. h \in [DOMAIN h -> Header(DOMAIN h)]
      BY DEF WellFormed, Typed
    <2>. HIDE DEF freed
    <2>2. /\ DOMAIN freed = DOMAIN h
          /\ freed[b] = Block(h[b].size, TRUE, h[b].next, h[b].prev)
          /\ \A c \in DOMAIN h \ {b} : freed[c] = h[c]
      BY <2>1 DEF freed
    <2>3. Block(h[b].size, TRUE, h[b].next, h[b].prev) \in Header(DOMAIN h)
      <3>1. /\ h[b].size \in Nat \ {0}
            /\ h[b].next \in DOMAIN h \cup {NULL} /\ h[b].prev \in DOMAIN h \cup {NULL}
        OBVIOUS
      <3>. QED BY ONLY <3>1 DEF Block, Header
    <2>4. freed \in [DOMAIN h -> Header(DOMAIN h)]
      BY <2>1, <2>3 DEF freed
    <2>5. /\ \A c \in DOMAIN h : freed[c].size = h[c].size /\ freed[c].next = h[c].next /\ freed[c].prev = h[c].prev
          /\ \A c \in DOMAIN h \ {b} : freed[c].free = h[c].free
          /\ freed[b].free
      <3>1. /\ freed[b].size = h[b].size /\ freed[b].free = TRUE
            /\ freed[b].next = h[b].next /\ freed[b].prev = h[b].prev
        BY <2>2 DEF Block
      <3>. QED BY <3>1, <2>2
    <2>6. \A c \in DOMAIN h : EndOf(freed, c) = EndOf(h, c)
      BY <2>5 DEF EndOf
    <2>7. Ordered(freed)
      BY <2>2, <2>5, <2>6 DEF Ordered
    <2>8. Linked(freed)
      <3>1. \A c \in DOMAIN h : freed[c].next # NULL => freed[freed[c].next].prev = c
        BY <2>5
      <3>2. \A c \in DOMAIN h : freed[c].prev # NULL => freed[freed[c].prev].next = c
        BY <2>5
      <3>. QED BY <3>1, <3>2, <2>2 DEF Linked
    <2>9. NoneBetween(freed)
      BY <2>2, <2>5 DEF NoneBetween
    <2>10. Inside(freed, h)
      BY <2>2, <2>6 DEF Inside, Apart, Below
    <2>11. NoTouch(freed, {b}, {b})
      BY <2>2, <2>5, <2>6 DEF NoTouch
    <2>12. Typed(freed)
      BY <2>2, <2>4 DEF Typed
    <2>. QED BY <2>2, <2>5, <2>7, <2>8, <2>9, <2>10, <2>11, <2>12 DEF WellFormed
  <1>2. freed[b].free /\ b \in DOMAIN freed
    BY <1>1
  <1>. HIDE DEF freed
  <1>3. /\ WellFormed(up) /\ Inside(up, h) /\ NoTouch(up, {}, {b})
        /\ b \in DOMAIN up /\ up[b].free
    <2>1. CASE Mergeable(freed, b, n)
      <3>1. n \in DOMAIN freed /\ EndOf(freed, b) = n /\ freed[n].free
        BY <2>1, <1>1, <1>2, Facts DEF Mergeable
      <3>2. up = Absorb(freed, b, n)
        BY <2>1 DEF Merged
      <3>. HIDE DEF up, n
      <3>3. /\ WellFormed(up) /\ Inside(up, freed)
            /\ DOMAIN up = DOMAIN freed \ {n} /\ b # n
            /\ \A c \in DOMAIN up : up[c].free = freed[c].free
            /\ \A c \in DOMAIN up \ {b} : EndOf(up, c) = EndOf(freed, c)
            /\ EndOf(up, b) = EndOf(freed, n)
        BY <3>1, <3>2, <1>1, <1>2, AbsorbGood
      <3>4. NoTouch(up, {}, {b})
        <4>1. ASSUME NEW a \in DOMAIN up, NEW c \in DOMAIN up \ {b}, up[a].free, up[c].free
              PROVE  EndOf(up, a) # c
          <5>1. CASE a = b
            BY <5>1, <4>1, <3>1, <3>3, <1>1 DEF NoTouch
          <5>2. CASE a # b
            BY <5>2, <4>1, <3>3, <1>1 DEF NoTouch
          <5>. QED BY <5>1, <5>2
        <4>. QED BY <4>1 DEF NoTouch
      <3>5. Inside(up, h)
        BY <3>3, <1>1 DEF Inside
      <3>. QED BY <3>3, <3>4, <3>5, <1>2
    <2>2. CASE ~Mergeable(freed, b, n)
      <3>1. up = freed
        BY <2>2 DEF Merged
      <3>. HIDE DEF up
      <3>2. NoTouch(freed, {}, {b})
        <4>1. ASSUME NEW c \in DOMAIN freed \ {b}, freed[c].free, EndOf(freed, b) = c PROVE FALSE
          <5>1. c = n /\ c # NULL /\ b # NULL
            BY <4>1, <1>1, <1>2, TouchIsNext, Facts
          <5>. QED BY <5>1, <4>1, <1>2, <2>2 DEF Mergeable
        <4>. QED BY <4>1, <1>1 DEF NoTouch
      <3>. QED BY <3>1, <3>2, <1>1, <1>2
    <2>. QED BY <2>1, <2>2
  <1>. HIDE DEF up
  <1>4. WellFormed(g) /\ Inside(g, h) /\ NoTouch(g, {}, {})
    <2>1. CASE Mergeable(up, p, b)
      <3>1. p \in DOMAIN up /\ EndOf(up, p) = b
        BY <2>1, <1>3, Facts DEF Mergeable
      <3>2. g = Absorb(up, p, b)
        BY <2>1 DEF Merged
      <3>. HIDE DEF g, p
      <3>3. /\ WellFormed(g) /\ Inside(g, up)
            /\ DOMAIN g = DOMAIN up \ {b} /\ p # b
            /\ \A c \in DOMAIN g : g[c].free = up[c].free
            /\ \A c \in DOMAIN g \ {p} : EndOf(g, c) = EndOf(up, c)
            /\ EndOf(g, p) = EndOf(up, b)
        BY <3>1, <3>2, <1>3, AbsorbGood
      <3>4. NoTouch(g, {}, {})
        <4>1. ASSUME NEW a \in DOMAIN g, NEW c \in DOMAIN g, g[a].free, g[c].free
              PROVE  EndOf(g, a) # c
          <5>1. CASE a = p
            BY <5>1, <4>1, <3>3, <1>3 DEF NoTouch
          <5>2. CASE a # p
            BY <5>2, <4>1, <3>3, <1>3 DEF NoTouch
          <5>. QED BY <5>1, <5>2
        <4>. QED BY <4>1 DEF NoTouch
      <3>5. Inside(g, h)
        BY <3>3, <1>3 DEF Inside
      <3>. QED BY <3>3, <3>4, <3>5
    <2>2. CASE ~Mergeable(up, p, b)
      <3>1. g = up
        BY <2>2 DEF Merged
      <3>. HIDE DEF g
      <3>2. NoTouch(up, {}, {})
        <4>1. ASSUME NEW a \in DOMAIN up, up[a].free, EndOf(up, a) = b PROVE FALSE
          <5>1. a = p /\ a # NULL /\ b # NULL
            BY <4>1, <1>3, TouchIsNext, Facts
          <5>. QED BY <5>1, <4>1, <1>3, <2>2 DEF Mergeable
        <4>. QED BY <4>1, <1>3 DEF NoTouch
      <3>. QED BY <3>1, <3>2, <1>3
    <2>. QED BY <2>1, <2>2
  <1>. QED BY <1>4 DEF g, up, p, n, freed

\* A run of pages holds the payload it was asked for and the header.
LEMMA RunHolds ==
    ASSUME NEW size \in Nat \ {0}
    PROVE  /\ Pages(size) \in Nat
           /\ Pages(size) * PageSize \in Nat
           /\ Pages(size) * PageSize >= size + HeaderSize
  <1>1. /\ PageSize \in Nat \ {0} /\ HeaderSize \in Nat \ {0}
    BY HeapAssumption
  <1>2. ASSUME NEW x \in Nat, NEW q \in Nat \ {0}
        PROVE  /\ (x + q - 1) \div q \in Nat /\ ((x + q - 1) \div q) * q \in Nat
               /\ ((x + q - 1) \div q) * q >= x
    OBVIOUS
  <1>3. size + HeaderSize \in Nat
    BY <1>1
  <1>. QED BY <1>1, <1>2, <1>3 DEF Pages

\* grow_heap leaves a well formed list that ends at the new frontier; only
\* the new chunk may touch a free one.
LEMMA GrownGood ==
    ASSUME WellFormed(heap), NoTouch(heap, {}, {}), Below(heap, bump), bump \in Nat \ {0},
           NEW size \in Nat \ {0}, NEW t, IsTail(t)
    PROVE  LET g == Grown(size, t)
               top == bump + Pages(size) * PageSize
           IN /\ WellFormed(g) /\ NoTouch(g, {}, {bump})
              /\ bump \in DOMAIN g /\ g[bump].free /\ g[bump].size >= size
              /\ Below(g, top)
              /\ \A p \in Nat : Apart(heap, p) /\ p + PageSize <= bump => Apart(g, p)
  <1> DEFINE g == Grown(size, t)
             top == bump + Pages(size) * PageSize
             room == Pages(size) * PageSize - HeaderSize
             D == Chunks \cup {bump}
             e(c) == IF c = bump THEN Block(room, TRUE, NULL, t)
                     ELSE IF c = t THEN Block(heap[c].size, heap[c].free, bump, heap[c].prev)
                     ELSE heap[c]
  <1>1. /\ DOMAIN heap = Chunks /\ Chunks \subseteq Nat \ {0} /\ NULL \notin Chunks
        /\ \A c \in Chunks : /\ heap[c] \in Header(Chunks)
                             /\ heap[c].size \in Nat \ {0} /\ heap[c].free \in BOOLEAN
                             /\ heap[c].next \in Chunks \cup {NULL} /\ heap[c].prev \in Chunks \cup {NULL}
                             /\ EndOf(heap, c) \in Nat /\ EndOf(heap, c) = c + HeaderSize + heap[c].size
                             /\ c < EndOf(heap, c) /\ EndOf(heap, c) <= bump /\ c < bump
                             /\ heap[c].prev # NULL => heap[heap[c].prev].next = c
                             /\ heap[c].next # NULL =>
                                  EndOf(heap, c) <= heap[c].next /\ heap[heap[c].next].prev = c
    BY Facts DEF Below, Chunks
  <1>2. HeaderSize \in Nat \ {0} /\ PageSize \in Nat \ {0}
    BY HeapAssumption
  <1>3. room \in Nat \ {0} /\ room >= size /\ bump + HeaderSize + room = top /\ top \in Nat /\ bump < top
    BY RunHolds, <1>2
  <1>. HIDE DEF room, top
  <1>4. bump \notin Chunks /\ bump # NULL
    BY <1>1 DEF NULL
  <1>5. t \in D \cup {NULL} /\ t # bump
    BY <1>1, <1>4 DEF IsTail
  <1>6. \A c \in Chunks : t \in Chunks /\ c <= t
    <2>1. ASSUME NEW c \in Chunks, t < c PROVE FALSE
      <3>1. t \in Chunks /\ heap[t].next = NULL
        BY DEF IsTail
      <3>. QED BY <3>1, <2>1, Facts DEF Chunks
    <2>2. ASSUME NEW c \in Chunks PROVE t \in Chunks /\ c <= t
      <3>1. t \in Chunks
        BY DEF IsTail
      <3>. QED BY <3>1, <2>1, <1>1
    <2>. QED BY <2>2
  <1>7. \A c \in Chunks : c # t => heap[c].next # NULL
    <2>1. ASSUME NEW c \in Chunks, c # t PROVE heap[c].next # NULL
      <3>1. t \in Chunks /\ c <= t /\ c # t
        BY <2>1, <1>6
      <3>2. t \in Nat /\ c \in Nat
        BY <3>1, <1>1
      <3>3. t \in Chunks /\ c < t
        BY ONLY <3>1, <3>2
      <3>. QED BY <3>3, Facts DEF Chunks
    <2>. QED BY <2>1
  <1>8. g = [c \in D |-> e(c)]
    BY DEF Grown, room
  <1>. HIDE DEF g
  <1>9. /\ DOMAIN g = D
        /\ g[bump] = Block(room, TRUE, NULL, t)
        /\ t \in Chunks => g[t] = Block(heap[t].size, heap[t].free, bump, heap[t].prev)
        /\ \A c \in Chunks : c # t => g[c] = heap[c]
    BY <1>8, <1>4
  <1>10. /\ g[bump].size = room /\ g[bump].free = TRUE /\ g[bump].next = NULL /\ g[bump].prev = t
         /\ t \in Chunks => /\ g[t].size = heap[t].size /\ g[t].free = heap[t].free
                            /\ g[t].next = bump /\ g[t].prev = heap[t].prev
    BY <1>9 DEF Block
  <1>11. ASSUME NEW c \in Chunks
         PROVE  g[c].size = heap[c].size /\ g[c].free = heap[c].free /\ g[c].prev = heap[c].prev
    <2>1. CASE c = t
      BY <2>1, <1>10
    <2>2. CASE c # t
      BY <2>2, <1>9
    <2>. QED BY <2>1, <2>2
  <1>12. \A c \in Chunks : c # t => g[c].next = heap[c].next
    BY <1>9
  <1>13. EndOf(g, bump) = top /\ \A c \in Chunks : EndOf(g, c) = EndOf(heap, c)
    BY <1>10, <1>11, <1>3 DEF EndOf
  <1>14. ASSUME NEW c \in D PROVE g[c] \in Header(D)
    <2>1. CASE c = bump
      BY <2>1, <1>9, <1>3, <1>5, <1>4 DEF Block, Header
    <2>2. CASE c \in Chunks /\ c = t
      <3>1. heap[c].prev \in D \cup {NULL} /\ bump \in D
        BY <2>2, <1>1
      <3>. QED BY <3>1, <2>2, <1>9, <1>1 DEF Block, Header
    <2>3. CASE c \in Chunks /\ c # t
      BY <2>3, <1>9, <1>1 DEF Header
    <2>. QED BY <2>1, <2>2, <2>3
  <1>15. Typed(g)
    <2>1. g = [c \in D |-> g[c]]
      BY <1>8, <1>9
    <2>2. g \in [D -> Header(D)]
      BY <2>1, <1>14
    <2>. QED BY <2>2, <1>9, <1>1 DEF Typed
  <1>16. Ordered(g)
    <2>1. ASSUME NEW c \in D, g[c].next # NULL PROVE EndOf(g, c) <= g[c].next
      <3>1. CASE c = bump
        BY <3>1, <2>1, <1>10
      <3>2. CASE c \in Chunks /\ c = t
        BY <3>2, <1>10, <1>13, <1>1
      <3>3. CASE c \in Chunks /\ c # t
        BY <3>3, <2>1, <1>12, <1>13, <1>1
      <3>. QED BY <3>1, <3>2, <3>3
    <2>. QED BY <2>1, <1>9 DEF Ordered
  <1>17. ASSUME NEW c \in D, g[c].next # NULL PROVE g[g[c].next].prev = c
    <2>1. CASE c = bump
      BY <2>1, <1>17, <1>10
    <2>2. CASE c \in Chunks /\ c = t
      BY <2>2, <1>10
    <2>3. CASE c \in Chunks /\ c # t
      <3>1. g[c].next = heap[c].next /\ heap[c].next \in Chunks /\ heap[heap[c].next].prev = c
        BY <2>3, <1>17, <1>12, <1>1
      <3>. QED BY <3>1, <1>11
    <2>. QED BY <2>1, <2>2, <2>3
  <1>18. ASSUME NEW c \in D, g[c].prev # NULL PROVE g[g[c].prev].next = c
    <2>1. CASE c = bump
      <3>1. t \in Chunks
        BY <2>1, <1>18, <1>10, <1>5
      <3>. QED BY <3>1, <2>1, <1>10
    <2>2. CASE c \in Chunks
      <3>1. g[c].prev = heap[c].prev /\ heap[c].prev \in Chunks /\ heap[heap[c].prev].next = c
        BY <2>2, <1>18, <1>11, <1>1
      <3>2. heap[c].prev # t
        <4>1. SUFFICES ASSUME heap[c].prev = t PROVE FALSE
          OBVIOUS
        <4>2. heap[t].next = c /\ t \in Chunks
          BY <4>1, <3>1
        <4>. QED BY <4>2, <2>2, <1>1 DEF IsTail
      <3>. QED BY <3>1, <3>2, <1>12
    <2>. QED BY <2>1, <2>2
  <1>19. NoneBetween(g)
    <2>1. ASSUME NEW c \in D, NEW d \in D, c < d PROVE g[c].next # NULL /\ g[c].next <= d
      <3>1. CASE c = bump
        BY <3>1, <2>1, <1>1
      <3>2. CASE c \in Chunks /\ c = t
        <4>1. d = bump
          BY <3>2, <2>1, <1>6, <1>1
        <4>. QED BY <4>1, <3>2, <1>10, <1>4
      <3>3. CASE c \in Chunks /\ c # t /\ d \in Chunks
        BY <3>3, <2>1, <1>12, Facts DEF Chunks
      <3>4. CASE c \in Chunks /\ c # t /\ d = bump
        <4>1. heap[c].next \in Chunks
          BY <3>4, <1>7, <1>1
        <4>2. heap[c].next < bump /\ heap[c].next # NULL
          BY <4>1, <1>1
        <4>3. g[c].next = heap[c].next /\ g[c].next \in Nat
          BY <4>1, <3>4, <1>12, <1>1
        <4>. QED BY <4>2, <4>3, <3>4
      <3>. QED BY <3>1, <3>2, <3>3, <3>4
    <2>. QED BY <2>1, <1>9 DEF NoneBetween
  <1>20. NoTouch(g, {}, {bump})
    <2>1. ASSUME NEW a \in D, NEW c \in D \ {bump}, g[a].free, g[c].free PROVE EndOf(g, a) # c
      <3>1. CASE a = bump
        BY <3>1, <1>13, <1>3, <1>1
      <3>2. CASE a \in Chunks
        BY <3>2, <2>1, <1>11, <1>13 DEF NoTouch, Chunks
      <3>. QED BY <3>1, <3>2
    <2>. QED BY <2>1, <1>9 DEF NoTouch
  <1>21. Below(g, top)
    <2>1. ASSUME NEW c \in D PROVE EndOf(g, c) <= top
      <3>1. CASE c = bump
        BY <3>1, <1>13, <1>3
      <3>2. CASE c \in Chunks
        <4>1. EndOf(g, c) \in Nat /\ EndOf(g, c) <= bump
          BY <3>2, <1>13, <1>1
        <4>. QED BY <4>1, <1>3
      <3>. QED BY <3>1, <3>2
    <2>. QED BY <2>1, <1>9 DEF Below
  <1>22. ASSUME NEW p \in Nat, Apart(heap, p), p + PageSize <= bump PROVE Apart(g, p)
    BY <1>22, <1>9, <1>13 DEF Apart, Chunks
  <1>. QED BY <1>3, <1>9, <1>10, <1>15, <1>16, <1>17, <1>18, <1>19, <1>20, <1>21, <1>22 DEF WellFormed, Linked, g, top

HeapInv == HeapTypeOK /\ HeapWhole /\ Coalesced

LEMMA InvIsWellFormed ==
    ASSUME HeapInv
    PROVE  /\ WellFormed(heap) /\ NoTouch(heap, {}, {}) /\ Below(heap, bump)
           /\ bump \in Nat \ {0}
  BY HeapAssumption DEF HeapInv, HeapTypeOK, HeapWhole, Coalesced, WellFormed, Typed, NoTouch, Chunks

\* It holds of the empty heap.
LEMMA InitInv == HeapInit => HeapInv
  <1> SUFFICES ASSUME HeapInit PROVE HeapInv
    OBVIOUS
  <1>1. heap = << >> /\ DOMAIN heap = {} /\ bump \in Nat /\ RamStart <= bump
    BY HeapAssumption DEF HeapInit
  <1>2. HeapTypeOK
    <2>1. heap \in [{} -> Header({})]
      BY <1>1
    <2>. QED BY <2>1, <1>1 DEF HeapInit, HeapTypeOK, Chunks
  <1>3. HeapWhole /\ Coalesced
    BY <1>1 DEF HeapInit, HeapWhole, Coalesced, Chunks, Ordered, Linked, NoneBetween, Below, Apart, GivenApart
  <1>. QED BY <1>2, <1>3 DEF HeapInv

\* A heap that became g below the frontier `top` keeps the invariant.
LEMMA NewHeap ==
    ASSUME HeapInv, WellFormed(heap'), NoTouch(heap', {}, {}), Below(heap', bump'),
           bump' \in Nat, bump <= bump', UNCHANGED <<free_list, held>>,
           \A p \in Nat : Apart(heap, p) /\ p + PageSize <= bump => Apart(heap', p)
    PROVE  HeapInv'
  <1>1. HeapTypeOK'
    BY HeapAssumption DEF HeapInv, HeapTypeOK, WellFormed, Typed, Chunks
  <1>2. Ordered(heap') /\ Linked(heap') /\ NoneBetween(heap') /\ Below(heap', bump')
    BY DEF WellFormed
  <1>3. ASSUME NEW p \in Nat, GivenApart(p) PROVE GivenApart(p)'
    BY <1>3, HeapAssumption DEF GivenApart, HeapInv, HeapTypeOK
  <1>4. \A p \in held' : GivenApart(p)'
    BY <1>3 DEF HeapInv, HeapTypeOK, HeapWhole
  <1>5. (\A i \in DOMAIN free_list : GivenApart(free_list[i]))'
    <2>1. \A i \in DOMAIN free_list : free_list[i] \in Nat /\ GivenApart(free_list[i])
      BY DEF HeapInv, HeapTypeOK, HeapWhole
    <2>2. ASSUME NEW i \in DOMAIN free_list' PROVE GivenApart(free_list[i])'
      <3>1. PICK p \in Nat : p = free_list[i] /\ GivenApart(p) /\ free_list'[i] = p
        BY <2>1, <2>2
      <3>2. GivenApart(p)'
        BY <3>1, <1>3
      <3>. QED BY <3>1, <3>2
    <2>. QED BY <2>2
  <1>6. HeapWhole'
    BY <1>2, <1>4, <1>5 DEF HeapWhole
  <1>7. Coalesced'
    BY DEF NoTouch, Coalesced, Chunks
  <1>. QED BY <1>1, <1>6, <1>7 DEF HeapInv

\* An allocation keeps the invariant.
LEMMA KMallocInv == ASSUME HeapInv, NEW size \in Requests, KMalloc(size) PROVE HeapInv'
  <1>1. size \in Nat \ {0} /\ PageSize \in Nat \ {0}
    BY HeapAssumption
  <1>2. WellFormed(heap) /\ NoTouch(heap, {}, {}) /\ Below(heap, bump) /\ bump \in Nat \ {0}
    BY InvIsWellFormed
  <1>3. CASE \E b \in Chunks : /\ Fits(b, size) /\ heap' = Carve(heap, b, size) /\ bump' = bump
    <2>1. PICK b \in Chunks : Fits(b, size) /\ heap' = Carve(heap, b, size) /\ bump' = bump
      BY <1>3
    <2>2. NoTouch(heap, {}, {b})
      BY <1>2 DEF NoTouch
    <2>3. WellFormed(heap') /\ Inside(heap', heap) /\ NoTouch(heap', {}, {})
      BY <2>1, <2>2, <1>1, <1>2, CarveGood DEF Fits, Chunks
    <2>4. Below(heap', bump') /\ \A p \in Nat : Apart(heap, p) => Apart(heap', p)
      BY <2>1, <2>3, <1>2 DEF Inside
    <2>. QED BY <2>1, <2>3, <2>4, <1>2, NewHeap DEF KMalloc
  <1>4. CASE \E t : /\ IsTail(t) /\ heap' = Carve(Grown(size, t), bump, size)
                    /\ bump' = bump + Pages(size) * PageSize
    <2>1. PICK t : /\ IsTail(t) /\ heap' = Carve(Grown(size, t), bump, size)
                   /\ bump' = bump + Pages(size) * PageSize
      BY <1>4
    <2> DEFINE h == Grown(size, t)
    <2>2. /\ WellFormed(h) /\ NoTouch(h, {}, {bump})
          /\ bump \in DOMAIN h /\ h[bump].free /\ h[bump].size >= size
          /\ Below(h, bump')
          /\ \A p \in Nat : Apart(heap, p) /\ p + PageSize <= bump => Apart(h, p)
      BY <2>1, <1>1, <1>2, GrownGood
    <2>3. heap' = Carve(h, bump, size)
      BY <2>1
    <2>. HIDE DEF h
    <2>4. WellFormed(heap') /\ Inside(heap', h) /\ NoTouch(heap', {}, {})
      BY <2>2, <2>3, <1>1, CarveGood
    <2>5. bump' \in Nat /\ bump <= bump'
      BY <2>1, <1>1, <1>2, RunHolds
    <2>6. Below(heap', bump') /\ \A p \in Nat : Apart(heap, p) /\ p + PageSize <= bump => Apart(heap', p)
      BY <2>2, <2>4, <2>5 DEF Inside
    <2>. QED BY <2>4, <2>5, <2>6, NewHeap DEF KMalloc
  <1>. QED BY <1>3, <1>4 DEF KMalloc

\* So does a free.
LEMMA KFreeInv == ASSUME HeapInv, NEW b \in Chunks, KFree(b) PROVE HeapInv'
  <1>1. WellFormed(heap) /\ NoTouch(heap, {}, {}) /\ Below(heap, bump) /\ bump \in Nat \ {0}
    BY InvIsWellFormed
  <1>2. WellFormed(heap') /\ Inside(heap', heap) /\ NoTouch(heap', {}, {})
    BY <1>1, KFreeGood DEF KFree, Chunks
  <1>3. bump' = bump /\ UNCHANGED <<free_list, held>>
    BY DEF KFree
  <1>. QED BY <1>1, <1>2, <1>3, NewHeap DEF Inside

\* The pages handed out and given back change no chunk.
LEMMA PagesInv ==
    ASSUME HeapInv, PmmAlloc \/ \E p \in held : PmmFree(p)
    PROVE  HeapInv'
  <1>1. /\ heap' = heap /\ bump' \in Nat /\ bump <= bump'
        /\ bump \in Nat \ {0} /\ held \subseteq Nat /\ free_list \in Seq(Nat)
        /\ RamStart \in Nat \ {0} /\ RamStart <= bump /\ PageSize \in Nat \ {0}
        /\ Below(heap, bump) /\ WellFormed(heap)
    <2>1. heap' = heap /\ bump' \in {bump, bump + PageSize}
      BY DEF PmmAlloc, PmmFree
    <2>. QED BY <2>1, InvIsWellFormed, HeapAssumption DEF HeapInv, HeapTypeOK
  <1> DEFINE Old == held \cup {free_list[i] : i \in DOMAIN free_list}
  <1>2. \A p \in Old : p \in Nat /\ GivenApart(p)
    BY <1>1 DEF HeapInv, HeapWhole
  <1>3. ASSUME NEW p \in Nat, GivenApart(p) PROVE GivenApart(p)'
    <2>1. Apart(heap', p)
      BY <1>1, <1>3 DEF GivenApart
    <2>2. p + PageSize <= bump'
      BY <1>1, <1>3 DEF GivenApart
    <2>. QED BY <2>1, <2>2 DEF GivenApart
  <1>4. ASSUME NEW p, p = bump, bump' = bump + PageSize PROVE p \in Nat /\ GivenApart(p)'
    <2>1. Apart(heap, p)
      BY <1>1, <1>4 DEF Apart, Below
    <2>2. Apart(heap', p)
      BY <2>1, <1>1
    <2>3. p + PageSize <= bump'
      BY <1>1, <1>4
    <2>. QED BY <2>2, <2>3, <1>1, <1>4 DEF GivenApart
  <1>5. /\ free_list' \in Seq(Nat) /\ held' \subseteq Nat
        /\ \A p \in held' : p \in Old \/ (p = bump /\ bump' = bump + PageSize)
        /\ \A i \in DOMAIN free_list' : free_list'[i] \in Old
    <2>1. CASE PmmAlloc /\ free_list # << >>
      <3>1. Head(free_list) = free_list[1] /\ 1 \in DOMAIN free_list
        BY <2>1, <1>1
      <3>2. \A i \in DOMAIN Tail(free_list) : Tail(free_list)[i] = free_list[i + 1] /\ i + 1 \in DOMAIN free_list
        BY <2>1, <1>1
      <3>3. free_list' = Tail(free_list) /\ held' = held \cup {Head(free_list)}
        BY <2>1 DEF PmmAlloc
      <3>4. Tail(free_list) \in Seq(Nat) /\ Head(free_list) \in Nat
        BY <2>1, <1>1
      <3>5. \A i \in DOMAIN free_list' : free_list'[i] \in Old
        BY <3>2, <3>3
      <3>6. \A p \in held' : p \in Old
        BY <3>1, <3>3
      <3>. QED BY <3>3, <3>4, <3>5, <3>6, <1>1
    <2>2. CASE PmmAlloc /\ free_list = << >>
      BY <2>2, <1>1 DEF PmmAlloc
    <2>3. CASE \E p \in held : PmmFree(p)
      <3>1. PICK p \in held : PmmFree(p)
        BY <2>3
      <3>2. free_list' = <<p>> \o free_list /\ held' = held \ {p} /\ p \in Nat
        BY <3>1, <1>1 DEF PmmFree
      <3>3. \A i \in DOMAIN free_list' :
              free_list'[i] = p \/ (i - 1 \in DOMAIN free_list /\ free_list'[i] = free_list[i - 1])
        BY <3>2, <1>1
      <3>. QED BY <3>2, <3>3, <1>1
    <2>. QED BY <2>1, <2>2, <2>3
  <1>6. \A p \in held' : GivenApart(p)'
    <2>1. ASSUME NEW p \in held' PROVE GivenApart(p)'
      <3>1. CASE p \in Old
        BY <3>1, <1>2, <1>3
      <3>2. CASE p = bump /\ bump' = bump + PageSize
        BY <3>2, <1>4
      <3>. QED BY <3>1, <3>2, <1>5
    <2>. QED BY <2>1
  <1>7. (\A i \in DOMAIN free_list : GivenApart(free_list[i]))'
    <2>1. ASSUME NEW i \in DOMAIN free_list' PROVE GivenApart(free_list[i])'
      <3>1. PICK p \in Nat : p = free_list'[i] /\ GivenApart(p)
        BY <1>2, <1>5
      <3>2. GivenApart(p)'
        BY <3>1, <1>3
      <3>. QED BY <3>1, <3>2
    <2>. QED BY <2>1
  <1>8. HeapTypeOK'
    BY <1>1, <1>5 DEF HeapInv, HeapTypeOK, Chunks
  <1>9. (Ordered(heap) /\ Linked(heap) /\ NoneBetween(heap))'
    BY <1>1 DEF WellFormed
  <1>10. Below(heap', bump')
    <2>1. \A b \in DOMAIN heap : EndOf(heap, b) \in Nat /\ EndOf(heap, b) <= bump
      BY <1>1, Facts DEF Below
    <2>2. \A b \in DOMAIN heap : EndOf(heap, b) <= bump'
      BY <2>1, <1>1
    <2>. QED BY <2>2, <1>1 DEF Below
  <1>11. Coalesced'
    BY <1>1 DEF HeapInv, Coalesced, Chunks
  <1>. QED BY <1>6, <1>7, <1>8, <1>9, <1>10, <1>11 DEF HeapInv, HeapWhole

\* kmalloc and kfree keep the heap well formed, whatever is asked of them and
\* in whatever order (heap.c).
THEOREM HeapCorrect == HeapSpec => []HeapInv
  <1>1. HeapInv /\ [HeapNext]_heapVars => HeapInv'
    <2> SUFFICES ASSUME HeapInv, [HeapNext]_heapVars PROVE HeapInv'
      OBVIOUS
    <2>1. CASE \E size \in Requests : KMalloc(size)
      BY <2>1, KMallocInv
    <2>2. CASE \E b \in Chunks : KFree(b)
      BY <2>2, KFreeInv
    <2>3. CASE PmmAlloc \/ \E p \in held : PmmFree(p)
      BY <2>3, PagesInv
    <2>4. CASE UNCHANGED heapVars
      BY <2>4 DEF heapVars, HeapInv, HeapTypeOK, HeapWhole, Coalesced, Chunks, GivenApart, Apart, Below
    <2>. QED BY <2>1, <2>2, <2>3, <2>4 DEF HeapNext
  <1>. QED BY <1>1, InitInv, PTL DEF HeapSpec

\* Whatever the sizes, the pages and the order of the calls, the list of the
\* heap holds its chunks in order, apart from each other and from all pages.
THEOREM HeapWholeAlways == HeapSpec => []HeapWhole
  <1>1. HeapInv => HeapWhole
    BY DEF HeapInv
  <1>. QED BY <1>1, HeapCorrect, PTL

\* Two free chunks never touch, whatever was freed in whatever order.
THEOREM CoalescedAlways == HeapSpec => []Coalesced
  <1>1. HeapInv => Coalesced
    BY DEF HeapInv
  <1>. QED BY <1>1, HeapCorrect, PTL

----------------------------------------------------------------------------
(* The pseudo-terminal.                                                    *)

PtyBytes == Keys \cup Prints \cup {"nl", "cr", "bs", " "}

\* Both rings and the edit buffer stay within their arrays (pty.c, ring_push
\* and pty_master_write).
PtyBounds ==
    /\ line \in Seq(Keys) /\ Len(line) < PTY_LINE
    /\ ibuf \in Seq(PtyBytes) /\ Len(ibuf) <= PTY_BUF
    /\ obuf \in Seq(PtyBytes) /\ Len(obuf) <= PTY_BUF
    /\ at \in [PtyReaders -> {"user", "blocked", "ready"}]
    /\ openEnds \subseteq {"master", "slave"}

\* A push keeps a ring within its array, whatever is pushed.
LEMMA PushBounded ==
    ASSUME NEW ring \in Seq(PtyBytes), NEW bytes \in Seq(PtyBytes)
    PROVE  Pushed(ring, bytes) \in Seq(PtyBytes) /\ Len(Pushed(ring, bytes)) <= PTY_BUF
<1> DEFINE all == ring \o bytes
<1>1. all \in Seq(PtyBytes) /\ Len(all) \in Nat /\ PTY_BUF \in Nat \ {0}
  BY PtyAssumption
<1> HIDE DEF all
<1>2. CASE Len(all) > PTY_BUF
  <2>1. SubSeq(all, 1, PTY_BUF) \in Seq(PtyBytes) /\ Len(SubSeq(all, 1, PTY_BUF)) = PTY_BUF
    BY ONLY <1>1, <1>2
  <2> QED
    BY <1>1, <1>2, <2>1 DEF Pushed, Overflows, all
<1>3. CASE ~(Len(all) > PTY_BUF)
  BY <1>1, <1>3 DEF Pushed, Overflows, all
<1> QED
  BY <1>2, <1>3

\* Sequences of up to three elements; two joined.
LEMMA ByteStrings ==
    ASSUME NEW S, NEW a \in S, NEW b \in S, NEW c \in S
    PROVE  <<>> \in Seq(S) /\ <<a>> \in Seq(S) /\ <<a, b>> \in Seq(S) /\ <<a, b, c>> \in Seq(S)
OBVIOUS

LEMMA Joined ==
    ASSUME NEW S, NEW s \in Seq(S), NEW t \in Seq(S)
    PROVE  s \o t \in Seq(S)
OBVIOUS

\* What is left of a ring after a read of its first n bytes.
LEMMA TailBounded ==
    ASSUME NEW S, NEW ring \in Seq(S), NEW n \in 0 .. Len(ring)
    PROVE  /\ SubSeq(ring, n + 1, Len(ring)) \in Seq(S)
           /\ Len(SubSeq(ring, n + 1, Len(ring))) <= Len(ring)
           /\ ring = <<>> => SubSeq(ring, n + 1, Len(ring)) = <<>>
OBVIOUS

\* Waking leaves exactly the readers blocked that were and are not woken.
LEMMA AwakeKeeps ==
    ASSUME NEW ps, at \in [PtyReaders -> {"user", "blocked", "ready"}], at' = Awake(ps)
    PROVE  /\ at' \in [PtyReaders -> {"user", "blocked", "ready"}]
           /\ \A p \in PtyReaders : at'[p] = "blocked" => at[p] = "blocked" /\ p \notin ps
BY DEF Awake

\* A step that fills a ring wakes the readers of that ring.
Wakes(ps) ==
    /\ at' = Awake(ps) /\ openEnds' = openEnds
    /\ ibuf' = ibuf \/ SlaveReaders \subseteq ps
    /\ obuf' = obuf \/ MasterReaders \subseteq ps

LEMMA WakesEnough ==
    ASSUME PtyBounds, PtyNoLostWakeup, NEW ps, Wakes(ps)
    PROVE  at' \in [PtyReaders -> {"user", "blocked", "ready"}] /\ PtyNoLostWakeup'
<1>1. /\ at' \in [PtyReaders -> {"user", "blocked", "ready"}]
      /\ \A p \in PtyReaders : at'[p] = "blocked" => at[p] = "blocked" /\ p \notin ps
  BY AwakeKeeps DEF Wakes, PtyBounds
<1>2. ASSUME NEW p \in SlaveReaders, at'[p] = "blocked"
      PROVE  ibuf' = <<>> /\ "master" \in openEnds'
  <2>1. at[p] = "blocked" /\ p \notin ps
    BY <1>1, <1>2 DEF PtyReaders
  <2> QED
    BY <2>1 DEF Wakes, PtyNoLostWakeup
<1>3. ASSUME NEW p \in MasterReaders, at'[p] = "blocked"
      PROVE  obuf' = <<>> /\ "slave" \in openEnds'
  <2>1. at[p] = "blocked" /\ p \notin ps
    BY <1>1, <1>3 DEF PtyReaders
  <2> QED
    BY <2>1 DEF Wakes, PtyNoLostWakeup
<1> QED
  BY <1>1, <1>2, <1>3 DEF PtyNoLostWakeup

\* Waking nobody changes nobody.
LEMMA AwakeNone ==
    ASSUME PtyBounds
    PROVE  Awake({}) = at
BY DEF Awake, PtyBounds

\* What a keystroke or a write does to the buffers.
Fills(buf, new) == buf' = buf \/ buf' = Pushed(buf, new)

\* One byte typed: the line and the rings stay within bounds.
TypesWithin ==
    /\ line' \in Seq(Keys) /\ Len(line') < PTY_LINE
    /\ ibuf' = ibuf \/ \E new \in Seq(PtyBytes) : ibuf' = Pushed(ibuf, new)
    /\ obuf' = obuf \/ \E new \in Seq(PtyBytes) : obuf' = Pushed(obuf, new)

LEMMA WithinBounds ==
    ASSUME PtyBounds, TypesWithin, NEW ps, Wakes(ps), PtyNoLostWakeup
    PROVE  PtyBounds' /\ PtyNoLostWakeup'
<1>1. at' \in [PtyReaders -> {"user", "blocked", "ready"}] /\ PtyNoLostWakeup'
  BY WakesEnough
<1>2. ibuf' \in Seq(PtyBytes) /\ Len(ibuf') <= PTY_BUF
  BY PushBounded DEF PtyBounds, TypesWithin
<1>3. obuf' \in Seq(PtyBytes) /\ Len(obuf') <= PTY_BUF
  BY PushBounded DEF PtyBounds, TypesWithin
<1> QED
  BY <1>1, <1>2, <1>3 DEF PtyBounds, TypesWithin, Wakes

\* pty_master_write.
LEMMA MasterWriteStep ==
    ASSUME PtyBounds, PtyNoLostWakeup, NEW c \in Keys, MasterWrite(c)
    PROVE  PtyBounds' /\ PtyNoLostWakeup'
<1>1. /\ line \in Seq(Keys) /\ Len(line) < PTY_LINE /\ Len(line) \in Nat
      /\ PTY_LINE \in Nat \ {0} /\ openEnds' = openEnds
  BY PtyAssumption DEF PtyBounds, MasterWrite
<1>2. /\ <<"bs", " ", "bs">> \in Seq(PtyBytes) /\ <<c>> \in Seq(PtyBytes)
      /\ Echoed(c) \in Seq(PtyBytes) /\ Echoed("nl") \in Seq(PtyBytes)
      /\ <<>> \in Seq(PtyBytes) /\ <<"nl">> \in Seq(PtyBytes)
      /\ line \in Seq(PtyBytes)
  <2>1. /\ c \in PtyBytes /\ "nl" \in PtyBytes /\ "cr" \in PtyBytes
        /\ "bs" \in PtyBytes /\ " " \in PtyBytes
    BY DEF PtyBytes
  <2>2. /\ <<"bs", " ", "bs">> \in Seq(PtyBytes) /\ <<c>> \in Seq(PtyBytes)
        /\ <<"cr", "nl">> \in Seq(PtyBytes)
        /\ <<>> \in Seq(PtyBytes) /\ <<"nl">> \in Seq(PtyBytes)
    BY ONLY <2>1, ByteStrings
  <2>3. Echoed(c) \in Seq(PtyBytes) /\ Echoed("nl") \in Seq(PtyBytes)
    BY <2>2 DEF Echoed
  <2>4. line \in Seq(PtyBytes)
    <3>1. Keys \subseteq PtyBytes
      BY DEF PtyBytes
    <3> QED
      BY <1>1, <3>1
  <2> QED
    BY <2>2, <2>3, <2>4
<1>3. \A ending \in Seq(PtyBytes) : line \o ending \in Seq(PtyBytes)
  BY ONLY <1>2, Joined
<1>4. <<>> \in Seq(Keys) /\ Len(<<>>) < PTY_LINE
  BY <1>1
<1>5. CASE TypeIntr
  <2> DEFINE ps == IF fg_pgrp THEN SlaveReaders ELSE {}
  <2>1. TypesWithin /\ Wakes(ps)
    BY <1>1, <1>5 DEF TypeIntr, NoEcho, TypesWithin, Wakes
  <2> HIDE DEF ps
  <2> QED
    BY <2>1, WithinBounds
<1>6. ASSUME NEW bytes \in Seq(PtyBytes), NEW f, Echo(bytes, f), ibuf' = ibuf,
             line' \in Seq(Keys), Len(line') < PTY_LINE
      PROVE  PtyBounds' /\ PtyNoLostWakeup'
  <2> DEFINE ps == IF "ECHO" \in tio THEN MasterReaders ELSE {}
  <2>1. Wakes(ps)
    BY <1>1, <1>6 DEF Echo, Wakes
  <2>2. TypesWithin
    BY <1>6 DEF Echo, TypesWithin
  <2> HIDE DEF ps
  <2> QED
    BY <2>1, <2>2, WithinBounds
<1>7. ASSUME at' = at, NoEcho, ibuf' = ibuf, line' \in Seq(Keys), Len(line') < PTY_LINE
      PROVE  PtyBounds' /\ PtyNoLostWakeup'
  <2>1. Wakes({})
    BY <1>1, <1>7, AwakeNone DEF Wakes, NoEcho
  <2>2. TypesWithin
    BY <1>7 DEF NoEcho, TypesWithin
  <2> QED
    BY <2>1, <2>2, WithinBounds
<1>8. CASE TypeErase
  <2>1. line' \in Seq(Keys) /\ Len(line') < PTY_LINE /\ ibuf' = ibuf
    <3> DEFINE cut == SubSeq(line, 1, Len(line) - 1)
    <3>1. cut \in Seq(Keys) /\ Len(cut) <= Len(line) /\ Len(cut) \in Nat
      BY ONLY <1>1
    <3>2. line' = cut /\ ibuf' = ibuf
      BY <1>8 DEF TypeErase
    <3> HIDE DEF cut
    <3> QED
      BY ONLY <1>1, <3>1, <3>2
  <2>2. (at' = at /\ NoEcho) \/ Echo(<<"bs", " ", "bs">>, screen.faithful)
    BY <1>8 DEF TypeErase
  <2> QED
    BY <1>2, <1>6, <1>7, <2>1, <2>2
<1>9. CASE TypeEof
  <2>1. TypesWithin
    BY <1>2, <1>3, <1>4, <1>9 DEF TypeEof, Commit, NoEcho, TypesWithin
  <2>2. Wakes(SlaveReaders)
    BY <1>1, <1>9 DEF TypeEof, NoEcho, Wakes
  <2> QED
    BY <2>1, <2>2, WithinBounds
<1> DEFINE both == SlaveReaders \cup (IF "ECHO" \in tio THEN MasterReaders ELSE {})
<1>10. CASE TypeNewline
  <2>1. TypesWithin
    <3> DEFINE ending == IF Len(line) < PTY_LINE THEN <<"nl">> ELSE <<>>
    <3>1. line \o ending \in Seq(PtyBytes)
      BY <1>2, <1>3
    <3>2. ibuf' = Pushed(ibuf, line \o ending) /\ line' = <<>>
      BY <1>10 DEF TypeNewline, Commit
    <3>3. obuf' = obuf \/ obuf' = Pushed(obuf, Echoed("nl"))
      BY <1>10 DEF TypeNewline
    <3> HIDE DEF ending
    <3> QED
      BY ONLY <1>2, <1>4, <3>1, <3>2, <3>3 DEF TypesWithin
  <2>2. Wakes(both)
    BY <1>1, <1>10 DEF TypeNewline, Wakes
  <2> HIDE DEF both
  <2> QED
    BY <2>1, <2>2, WithinBounds
<1>11. CASE TypeChar(c)
  <2>1. CASE Len(line) < PTY_LINE - 1
    <3>1. Append(line, c) \in Seq(Keys) /\ Len(Append(line, c)) < PTY_LINE
      BY ONLY <1>1, <2>1, c \in Keys
    <3> QED
      BY <1>2, <1>6, <1>11, <2>1, <3>1 DEF TypeChar
  <2>2. CASE ~(Len(line) < PTY_LINE - 1)
    BY <1>1, <1>7, <1>11, <2>2 DEF TypeChar
  <2> QED
    BY <2>1, <2>2
<1>12. CASE TypeRaw(c)
  <2>1. TypesWithin
    BY <1>1, <1>2, <1>12 DEF TypeRaw, TypesWithin
  <2>2. Wakes(both)
    BY <1>1, <1>12 DEF TypeRaw, Wakes
  <2> HIDE DEF both
  <2> QED
    BY <2>1, <2>2, WithinBounds
<1> QED
  BY <1>5, <1>8, <1>9, <1>10, <1>11, <1>12 DEF MasterWrite

\* pty_slave_write.
LEMMA SlaveWriteStep ==
    ASSUME PtyBounds, PtyNoLostWakeup, NEW c \in Prints, SlaveWrite(c)
    PROVE  PtyBounds' /\ PtyNoLostWakeup'
<1> DEFINE bytes == IF c = "nl" /\ "ONLCR" \in tio THEN <<"cr", "nl">> ELSE <<c>>
<1>1. bytes \in Seq(PtyBytes)
  <2>1. c \in PtyBytes /\ "nl" \in PtyBytes /\ "cr" \in PtyBytes
    BY DEF PtyBytes
  <2>2. <<c>> \in Seq(PtyBytes) /\ <<"cr", "nl">> \in Seq(PtyBytes)
    BY ONLY <2>1, ByteStrings
  <2> QED
    BY <2>2
<1>2. /\ obuf' = Pushed(obuf, bytes) /\ at' = Awake(MasterReaders)
      /\ openEnds' = openEnds /\ ibuf' = ibuf /\ line' = line
  BY DEF SlaveWrite
<1> HIDE DEF bytes
<1>3. TypesWithin
  BY <1>1, <1>2 DEF TypesWithin, PtyBounds
<1>4. Wakes(MasterReaders)
  BY <1>2 DEF Wakes
<1> QED
  BY <1>3, <1>4, WithinBounds

\* The reads: a reader goes to sleep over an empty ring, and a ring that a
\* reader empties further had nobody asleep on it.
LEMMA SlaveReadStep ==
    ASSUME PtyBounds, PtyNoLostWakeup, NEW p \in SlaveReaders, SlaveRead(p)
    PROVE  PtyBounds' /\ PtyNoLostWakeup'
<1>1. /\ line' = line /\ obuf' = obuf /\ openEnds' = openEnds
      /\ \/ at' = [at EXCEPT ![p] = "blocked"] /\ ibuf = <<>> /\ "master" \in openEnds /\ ibuf' = ibuf
         \/ /\ at' = [at EXCEPT ![p] = "user"]
            /\ \E n \in 0 .. Len(ibuf) : ibuf' = SubSeq(ibuf, n + 1, Len(ibuf))
  BY DEF SlaveRead
<1>2. /\ p \in PtyReaders /\ p \notin MasterReaders
      /\ \A q \in MasterReaders \cup SlaveReaders : q \in PtyReaders
  BY PtyAssumption DEF PtyReaders
<1>3. ibuf' \in Seq(PtyBytes) /\ Len(ibuf') <= PTY_BUF /\ (ibuf = <<>> => ibuf' = <<>>)
  <2>1. ibuf \in Seq(PtyBytes) /\ Len(ibuf) <= PTY_BUF /\ Len(ibuf) \in Nat /\ PTY_BUF \in Nat
    BY PtyAssumption DEF PtyBounds
  <2>2. CASE ibuf' = ibuf
    BY <2>1, <2>2
  <2>3. ASSUME NEW n \in 0 .. Len(ibuf), ibuf' = SubSeq(ibuf, n + 1, Len(ibuf))
        PROVE  ibuf' \in Seq(PtyBytes) /\ Len(ibuf') <= PTY_BUF /\ (ibuf = <<>> => ibuf' = <<>>)
    <3>1. /\ SubSeq(ibuf, n + 1, Len(ibuf)) \in Seq(PtyBytes)
          /\ Len(SubSeq(ibuf, n + 1, Len(ibuf))) <= Len(ibuf)
          /\ ibuf = <<>> => SubSeq(ibuf, n + 1, Len(ibuf)) = <<>>
      BY ONLY <2>1, <2>3, TailBounded
    <3>2. Len(ibuf') \in Nat
      BY ONLY <2>3, <3>1
    <3> QED
      BY ONLY <2>1, <2>3, <3>1, <3>2
  <2> QED
    BY <1>1, <2>2, <2>3
<1>4. /\ at' \in [PtyReaders -> {"user", "blocked", "ready"}]
      /\ \A q \in PtyReaders : q # p => at'[q] = at[q]
      /\ at'[p] = "blocked" => ibuf = <<>> /\ "master" \in openEnds
  BY <1>1, <1>2 DEF PtyBounds
<1>5. PtyBounds'
  BY <1>1, <1>3, <1>4 DEF PtyBounds
<1> QED
  BY <1>1, <1>2, <1>3, <1>4, <1>5 DEF PtyNoLostWakeup

\* The terminal program reads what the shell printed and draws it.
LEMMA MasterReadStep ==
    ASSUME PtyBounds, PtyNoLostWakeup, NEW p \in MasterReaders, MasterRead(p)
    PROVE  PtyBounds' /\ PtyNoLostWakeup'
<1>1. /\ line' = line /\ ibuf' = ibuf /\ openEnds' = openEnds
      /\ \/ at' = [at EXCEPT ![p] = "blocked"] /\ obuf = <<>> /\ "slave" \in openEnds /\ obuf' = obuf
         \/ /\ at' = [at EXCEPT ![p] = "user"]
            /\ \E n \in 0 .. Len(obuf) : obuf' = SubSeq(obuf, n + 1, Len(obuf))
  BY DEF MasterRead
<1>2. /\ p \in PtyReaders /\ p \notin SlaveReaders
      /\ \A q \in MasterReaders \cup SlaveReaders : q \in PtyReaders
  BY PtyAssumption DEF PtyReaders
<1>3. obuf' \in Seq(PtyBytes) /\ Len(obuf') <= PTY_BUF /\ (obuf = <<>> => obuf' = <<>>)
  <2>1. obuf \in Seq(PtyBytes) /\ Len(obuf) <= PTY_BUF /\ Len(obuf) \in Nat /\ PTY_BUF \in Nat
    BY PtyAssumption DEF PtyBounds
  <2>2. CASE obuf' = obuf
    BY <2>1, <2>2
  <2>3. ASSUME NEW n \in 0 .. Len(obuf), obuf' = SubSeq(obuf, n + 1, Len(obuf))
        PROVE  obuf' \in Seq(PtyBytes) /\ Len(obuf') <= PTY_BUF /\ (obuf = <<>> => obuf' = <<>>)
    <3>1. /\ SubSeq(obuf, n + 1, Len(obuf)) \in Seq(PtyBytes)
          /\ Len(SubSeq(obuf, n + 1, Len(obuf))) <= Len(obuf)
          /\ obuf = <<>> => SubSeq(obuf, n + 1, Len(obuf)) = <<>>
      BY ONLY <2>1, <2>3, TailBounded
    <3>2. Len(obuf') \in Nat
      BY ONLY <2>3, <3>1
    <3> QED
      BY ONLY <2>1, <2>3, <3>1, <3>2
  <2> QED
    BY <1>1, <2>2, <2>3
<1>4. /\ at' \in [PtyReaders -> {"user", "blocked", "ready"}]
      /\ \A q \in PtyReaders : q # p => at'[q] = at[q]
      /\ at'[p] = "blocked" => obuf = <<>> /\ "slave" \in openEnds
  BY <1>1, <1>2 DEF PtyBounds
<1>5. PtyBounds'
  BY <1>1, <1>3, <1>4 DEF PtyBounds
<1> QED
  BY <1>1, <1>2, <1>3, <1>4, <1>5 DEF PtyNoLostWakeup

\* pty_close: the closed end has no readers left, the other's are woken.
LEMMA CloseStep ==
    ASSUME PtyBounds, PtyNoLostWakeup, NEW end \in {"master", "slave"}, PtyClose(end)
    PROVE  PtyBounds' /\ PtyNoLostWakeup'
<1>1. /\ at' = Awake(PtyReaders \ ReadersOf(end))
      /\ \A p \in ReadersOf(end) : at[p] = "user"
      /\ openEnds' \subseteq openEnds /\ line' = line /\ ibuf' = ibuf /\ obuf' = obuf
  BY DEF PtyClose
<1>2. /\ at' \in [PtyReaders -> {"user", "blocked", "ready"}]
      /\ \A p \in PtyReaders : at'[p] = "blocked" =>
            at[p] = "blocked" /\ p \notin PtyReaders \ ReadersOf(end)
  BY <1>1, AwakeKeeps DEF PtyBounds
<1>3. \A p \in PtyReaders : at'[p] # "blocked"
  BY <1>1, <1>2
<1> QED
  BY <1>1, <1>2, <1>3 DEF PtyBounds, PtyNoLostWakeup, PtyReaders

\* The two together are inductive.
LEMMA PtyStep ==
    ASSUME PtyBounds, PtyNoLostWakeup, [PtyNext]_ptyVars
    PROVE  PtyBounds' /\ PtyNoLostWakeup'
<1>1. CASE \E c \in Keys : MasterWrite(c)
  BY <1>1, MasterWriteStep
<1>2. CASE \E c \in Prints : SlaveWrite(c)
  BY <1>2, SlaveWriteStep
<1>3. CASE \E p \in SlaveReaders : SlaveRead(p)
  BY <1>3, SlaveReadStep
<1>4. CASE \E p \in MasterReaders : MasterRead(p)
  BY <1>4, MasterReadStep
<1>5. CASE (\E mode \in Modes : SetTermios(mode)) \/ SetForeground \/ UNCHANGED ptyVars
  <2>1. UNCHANGED <<line, ibuf, obuf, openEnds, at>>
    BY <1>5 DEF SetTermios, SetForeground, ptyVars
  <2> QED
    BY <2>1 DEF PtyBounds, PtyNoLostWakeup
<1>6. ASSUME NEW p \in PtyReaders, Signalled(p)
      PROVE  PtyBounds' /\ PtyNoLostWakeup'
  <2>1. /\ at' = [at EXCEPT ![p] = "ready"] /\ UNCHANGED <<line, ibuf, obuf, openEnds>>
    BY <1>6 DEF Signalled
  <2>2. /\ at' \in [PtyReaders -> {"user", "blocked", "ready"}]
        /\ \A q \in PtyReaders : at'[q] = "blocked" => at[q] = "blocked"
    BY <2>1 DEF PtyBounds
  <2> QED
    BY <2>1, <2>2 DEF PtyBounds, PtyNoLostWakeup, PtyReaders
<1>7. CASE \E end \in {"master", "slave"} : PtyClose(end)
  BY <1>7, CloseStep
<1> QED
  BY <1>1, <1>2, <1>3, <1>4, <1>5, <1>6, <1>7 DEF PtyNext

LEMMA PtyCorrect == PtySpec => [](PtyBounds /\ PtyNoLostWakeup)
<1>1. PtyInit => PtyBounds /\ PtyNoLostWakeup
  BY PtyAssumption DEF PtyInit, PtyBounds, PtyNoLostWakeup, PtyReaders
<1>2. (PtyBounds /\ PtyNoLostWakeup) /\ [PtyNext]_ptyVars => (PtyBounds /\ PtyNoLostWakeup)'
  BY PtyStep
<1> QED
  BY <1>1, <1>2, PTL DEF PtySpec

\* The rings and the edit buffer never run over their arrays, whatever is
\* typed, printed and echoed in whatever mode (pty.c, ring_push).
THEOREM PtyBoundsAlways == PtySpec => []PtyBounds
BY PtyCorrect, PTL

\* No reader sleeps over bytes or a hang-up: of each end any number read at
\* once (pty.c, pty_slave_read and pty_master_read).
THEOREM PtyNoLostWakeupAlways == PtySpec => []PtyNoLostWakeup
BY PtyCorrect, PTL

\* What the terminal shows: the text, the cursor in it, and whether it is echo.
Screens(echo) ==
    {s \in [text : Seq(PtyBytes), col : Nat, faithful : {echo}] : s.col <= Len(s.text)}

\* k blanks.
LEMMA Blanks ==
    ASSUME NEW S, NEW x \in S, NEW k \in Nat
    PROVE  /\ [i \in 1 .. k |-> x] \in Seq(S)
           /\ Len([i \in 1 .. k |-> x]) = k
           /\ k = 0 => [i \in 1 .. k |-> x] = <<>>
<1> DEFINE e == [i \in 1 .. k |-> x]
<1>1. e \in Seq(S)
  OBVIOUS
<1>2. Len(e) = k
  OBVIOUS
<1> HIDE DEF e
<1>3. k = 0 => e = <<>>
  BY <1>1, <1>2, EmptySeq
<1> QED
  BY <1>1, <1>2, <1>3 DEF e

\* One byte of a text replaced, or added at its end.
Spliced(text, k, c) == SubSeq(text, 1, k) \o <<c>> \o SubSeq(text, k + 2, Len(text))

\* The line of the screen with one cell painted.
LEMMA SplicedText ==
    ASSUME NEW S, NEW text \in Seq(S), NEW k \in Nat, k <= Len(text), NEW c \in S
    PROVE  /\ Spliced(text, k, c) \in Seq(S)
           /\ Len(Spliced(text, k, c)) = IF k < Len(text) THEN Len(text) ELSE k + 1
           /\ \A i \in 1 .. Len(Spliced(text, k, c)) :
                Spliced(text, k, c)[i] = IF i = k + 1 THEN c ELSE text[i]
<1> DEFINE l == SubSeq(text, 1, k)
           r == SubSeq(text, k + 2, Len(text))
           m == l \o <<c>>
           t == Spliced(text, k, c)
           N == Len(text)
           R == IF k < N THEN N - (k + 1) ELSE 0
<1>1. N \in Nat /\ k <= N /\ k \in Nat /\ R \in Nat
  OBVIOUS
<1>2. l \in Seq(S) /\ Len(l) = k /\ \A i \in 1 .. k : l[i] = text[i]
  OBVIOUS
<1>3. r \in Seq(S) /\ Len(r) = R /\ \A i \in 1 .. R : r[i] = text[i + k + 1]
  OBVIOUS
<1>4. <<c>> \in Seq(S) /\ Len(<<c>>) = 1 /\ <<c>>[1] = c
  OBVIOUS
<1>5. t = m \o r
  BY DEF Spliced
<1> HIDE DEF l, r, t, N, R
<1>6. /\ m \in Seq(S) /\ Len(m) = k + 1
      /\ \A i \in 1 .. k + 1 : m[i] = IF i <= k THEN l[i] ELSE <<c>>[i - k]
  BY <1>2, <1>4, ConcatProperties
<1>7. m[k + 1] = c /\ \A i \in 1 .. k : m[i] = text[i]
  BY <1>1, <1>2, <1>4, <1>6
<1> HIDE DEF m
<1>8. /\ t \in Seq(S) /\ Len(t) = (k + 1) + R
      /\ \A i \in 1 .. (k + 1) + R : t[i] = IF i <= k + 1 THEN m[i] ELSE r[i - (k + 1)]
  <2>1. /\ m \o r \in Seq(S) /\ Len(m \o r) = Len(m) + Len(r)
        /\ \A i \in 1 .. Len(m) + Len(r) : (m \o r)[i] = IF i <= Len(m) THEN m[i] ELSE r[i - Len(m)]
    BY ONLY <1>3, <1>6, ConcatProperties
  <2> QED
    BY ONLY <1>3, <1>5, <1>6, <2>1
<1>9. Len(t) = IF k < N THEN N ELSE k + 1
  BY ONLY <1>1, <1>8 DEF R
<1>10. ASSUME NEW i \in 1 .. Len(t) PROVE t[i] = IF i = k + 1 THEN c ELSE text[i]
  <2>1. i \in Int /\ 1 <= i /\ i <= (k + 1) + R /\ i \in 1 .. (k + 1) + R
    BY ONLY <1>1, <1>8, <1>10
  <2>2. t[i] = IF i <= k + 1 THEN m[i] ELSE r[i - (k + 1)]
    BY ONLY <1>8, <2>1
  <2>3. CASE i <= k
    <3>1. i <= k + 1 /\ i # k + 1 /\ i \in 1 .. k
      BY ONLY <1>1, <2>1, <2>3
    <3> QED
      BY ONLY <1>7, <2>2, <3>1
  <2>4. CASE i = k + 1
    <3>1. i <= k + 1
      BY ONLY <1>1, <2>1, <2>4
    <3> QED
      BY ONLY <1>7, <2>2, <2>4, <3>1
  <2>5. CASE i > k + 1
    <3>1. /\ ~(i <= k + 1) /\ i # k + 1
          /\ i - (k + 1) \in 1 .. R /\ (i - (k + 1)) + k + 1 = i
      BY ONLY <1>1, <2>1, <2>5
    <3>2. r[i - (k + 1)] = text[(i - (k + 1)) + k + 1]
      BY ONLY <1>3, <3>1
    <3> QED
      BY ONLY <2>2, <3>1, <3>2
  <2> QED
    BY ONLY <1>1, <2>1, <2>3, <2>4, <2>5
<1> QED
  BY <1>8, <1>9, <1>10 DEF N, t

\* One byte painted.
LEMMA PaintScreen ==
    ASSUME NEW echo, NEW s \in Screens(echo), NEW c \in PtyBytes
    PROVE  /\ Paint(s, c) \in Screens(echo)
           /\ c = "bs" => Paint(s, c).text = s.text /\ Paint(s, c).col = IF s.col > 0 THEN s.col - 1 ELSE 0
           /\ c = "cr" => Paint(s, c).text = s.text /\ Paint(s, c).col = 0
           /\ c = "nl" /\ s.col = 0 => Paint(s, c).text = <<>> /\ Paint(s, c).col = 0
           /\ c \notin {"bs", "cr", "nl"} =>
                /\ Paint(s, c).col = s.col + 1
                /\ Len(Paint(s, c).text) = IF s.col < Len(s.text) THEN Len(s.text) ELSE s.col + 1
                /\ \A i \in 1 .. Len(Paint(s, c).text) :
                     Paint(s, c).text[i] = IF i = s.col + 1 THEN c ELSE s.text[i]
<1>1. /\ s = [text |-> s.text, col |-> s.col, faithful |-> s.faithful]
      /\ s.text \in Seq(PtyBytes) /\ s.col \in Nat /\ s.faithful = echo /\ s.col <= Len(s.text)
      /\ Len(s.text) \in Nat
  BY DEF Screens
<1>2. CASE c = "bs"
  <2>1. Paint(s, c) = [s EXCEPT !.col = IF @ > 0 THEN @ - 1 ELSE 0]
    BY <1>2 DEF Paint
  <2> QED
    BY <1>1, <1>2, <2>1 DEF Screens
<1>3. CASE c = "cr"
  <2>1. Paint(s, c) = [s EXCEPT !.col = 0]
    BY <1>3 DEF Paint
  <2> QED
    BY <1>1, <1>3, <2>1 DEF Screens
<1>4. CASE c = "nl"
  <2> DEFINE b == [i \in 1 .. s.col |-> " "]
  <2>1. Paint(s, c) = [s EXCEPT !.text = b]
    BY <1>4 DEF Paint
  <2>2. b \in Seq(PtyBytes) /\ Len(b) = s.col /\ (s.col = 0 => b = <<>>)
    <3>1. " " \in PtyBytes
      BY DEF PtyBytes
    <3>2. s.col \in Nat
      BY <1>1
    <3>3. [i \in 1 .. s.col |-> " "] \in Seq(PtyBytes)
      BY ONLY <3>1, <3>2, Blanks
    <3>4. Len([i \in 1 .. s.col |-> " "]) = s.col
      BY ONLY <3>1, <3>2, Blanks
    <3>5. s.col = 0 => [i \in 1 .. s.col |-> " "] = <<>>
      BY ONLY <3>1, <3>2, Blanks
    <3> QED
      BY ONLY <3>3, <3>4, <3>5
  <2> HIDE DEF b
  <2>3. Paint(s, c) = [text |-> b, col |-> s.col, faithful |-> s.faithful]
    BY <1>1, <2>1
  <2> QED
    BY <1>1, <1>4, <2>2, <2>3 DEF Screens
<1>5. CASE c \notin {"bs", "cr", "nl"}
  <2> DEFINE k == s.col
             t == SubSeq(s.text, 1, k) \o <<c>> \o SubSeq(s.text, k + 2, Len(s.text))
  <2>1. Paint(s, c) = [s EXCEPT !.col = k + 1, !.text = t]
    BY <1>5 DEF Paint
  <2>2. /\ t \in Seq(PtyBytes)
        /\ Len(t) = IF k < Len(s.text) THEN Len(s.text) ELSE k + 1
        /\ \A i \in 1 .. Len(t) : t[i] = IF i = k + 1 THEN c ELSE s.text[i]
    <3>1. s.text \in Seq(PtyBytes) /\ k \in Nat /\ k <= Len(s.text)
      BY <1>1
    <3>2. t = Spliced(s.text, k, c)
      BY DEF Spliced
    <3> HIDE DEF t, k
    <3> DEFINE x == s.text
    <3> HIDE DEF x
    <3>3. x \in Seq(PtyBytes) /\ k \in Nat /\ k <= Len(x)
      BY <3>1 DEF x
    <3>4. Spliced(x, k, c) \in Seq(PtyBytes)
      BY ONLY <3>3, c \in PtyBytes, SplicedText
    <3>5. Len(Spliced(x, k, c)) = IF k < Len(x) THEN Len(x) ELSE k + 1
      BY ONLY <3>3, c \in PtyBytes, SplicedText
    <3>6. ASSUME NEW i \in 1 .. Len(Spliced(x, k, c))
          PROVE  Spliced(x, k, c)[i] = IF i = k + 1 THEN c ELSE x[i]
      <4> DEFINE u == Spliced(x, k, c)
      <4>1. \A j \in 1 .. Len(u) : u[j] = IF j = k + 1 THEN c ELSE x[j]
        BY ONLY <3>3, c \in PtyBytes, SplicedText
      <4> QED
        BY <3>6, <4>1
    <3> QED
      BY ONLY <3>2, <3>4, <3>5, <3>6 DEF x
  <2> HIDE DEF t
  <2>3. Paint(s, c) = [text |-> t, col |-> k + 1, faithful |-> s.faithful]
    BY <1>1, <2>1
  <2>4. Paint(s, c).col = k + 1 /\ Paint(s, c).text = t /\ Paint(s, c) \in Screens(echo)
    BY <1>1, <2>2, <2>3 DEF Screens
  <2> QED
    BY <1>5, <2>2, <2>4
<1> QED
  BY <1>2, <1>3, <1>4, <1>5

\* f is what is on the screen as n bytes are painted on s one by one.
Runs(f, n, s, bytes) == f[0] = s /\ \A k \in 1 .. n : f[k] = Paint(f[k - 1], bytes[k])
Paints(f, n, s, bytes, echo) ==
    f \in [0 .. n -> Screens(echo)] /\ Runs(f, n, s, bytes)

\* Painting bytes is painting each in turn.
LEMMA PaintSteps ==
    ASSUME NEW echo, NEW s \in Screens(echo), NEW bytes \in Seq(PtyBytes)
    PROVE  \E f : Paints(f, Len(bytes), s, bytes, echo) /\ PaintedOn(s, bytes) = f[Len(bytes)]
<1> DEFINE S == Screens(echo)
           N == Len(bytes)
           g == [p \in Nat \X S |-> IF p[1] \in 1 .. N THEN Paint(p[2], bytes[p[1]]) ELSE p[2]]
           after == CHOOSE f : f = [n \in 0 .. N |-> IF n = 0 THEN s ELSE Paint(f[n - 1], bytes[n])]
<1>1. N \in Nat /\ \A n \in 1 .. N : bytes[n] \in PtyBytes
  OBVIOUS
<1> HIDE DEF N
<1>2. \A n \in 1 .. N : \A m \in S : Paint(m, bytes[n]) \in S
  BY <1>1, PaintScreen
<1> HIDE DEF S
<1>3. g \in [Nat \X S -> S]
  BY <1>2
<1>4. \A n \in 1 .. N : \A m \in S : g[<<n, m>>] = Paint(m, bytes[n])
  BY <1>1
<1>5. s \in S
  BY DEF S
<1> HIDE DEF g
<1>6. PICK i : Iterates(i, S, s, g)
  BY <1>3, <1>5, Iteration
<1>7. i \in [Nat -> S] /\ i[0] = s /\ \A n \in Nat : i[n + 1] = g[<<n + 1, i[n]>>]
  BY <1>6 DEF Iterates
<1> DEFINE f == [n \in 0 .. N |-> i[n]]
<1>8. f \in [0 .. N -> S] /\ f[0] = s
  BY <1>1, <1>7
<1>9. ASSUME NEW k \in 1 .. N PROVE f[k] = Paint(f[k - 1], bytes[k])
  <2>1. k - 1 \in Nat /\ (k - 1) + 1 = k /\ k \in 0 .. N /\ k - 1 \in 0 .. N
    BY <1>1, <1>9
  <2>2. i[k] = g[<<k, i[k - 1]>>] /\ i[k - 1] \in S
    BY <1>7, <2>1
  <2> QED
    BY <1>4, <1>9, <2>1, <2>2
<1> HIDE DEF f
<1>10. f = [n \in 0 .. N |-> IF n = 0 THEN s ELSE Paint(f[n - 1], bytes[n])]
  <2>1. ASSUME NEW n \in 0 .. N, n # 0 PROVE f[n] = Paint(f[n - 1], bytes[n])
    <3>1. n \in 1 .. N
      BY <1>1, <2>1
    <3> QED
      BY <3>1, <1>9
  <2> QED
    BY <2>1, <1>8
<1>11. after = [n \in 0 .. N |-> IF n = 0 THEN s ELSE Paint(after[n - 1], bytes[n])]
  BY <1>10
<1>12. PaintedOn(s, bytes) = after[N]
  BY DEF PaintedOn, N
<1> HIDE DEF after
<1> DEFINE T == {n \in Nat : n \in 0 .. N => after[n] = f[n]}
<1>13. 0 \in T
  BY <1>1, <1>8, <1>11
<1>14. ASSUME NEW n \in T PROVE n + 1 \in T
  <2>1. ASSUME n + 1 \in 0 .. N PROVE after[n + 1] = f[n + 1]
    <3>1. n \in 0 .. N /\ (n + 1) - 1 = n /\ n + 1 # 0
      BY <1>1, <2>1
    <3>2. after[n + 1] = Paint(after[n], bytes[n + 1])
      BY <1>11, <2>1, <3>1
    <3>3. f[n + 1] = Paint(f[n], bytes[n + 1])
      BY <1>10, <2>1, <3>1
    <3> QED
      BY <3>1, <3>2, <3>3
  <2> QED
    BY <2>1
<1>15. T = Nat
  <2> HIDE DEF T
  <2>1. T \in SUBSET Nat
    BY DEF T
  <2> QED
    BY <2>1, <1>13, <1>14, NatSetInduction
<1>16. after[N] = f[N]
  BY <1>1, <1>15
<1> QED
  BY <1>8, <1>9, <1>12, <1>16 DEF Paints, Runs, N, S

\* Painting is determined: two ways to paint n bytes that are the same give the same.
LEMMA PaintsSame ==
    ASSUME NEW s, NEW n \in Nat, NEW bytes, NEW other, NEW f, NEW g,
           Runs(f, n, s, bytes), Runs(g, n, s, other),
           \A i \in 1 .. n : bytes[i] = other[i]
    PROVE  f[n] = g[n]
<1> DEFINE T == {i \in Nat : i <= n => f[i] = g[i]}
<1>1. 0 \in T
  BY DEF Paints, Runs
<1>2. ASSUME NEW i \in T PROVE i + 1 \in T
  <2>1. ASSUME i + 1 <= n PROVE f[i + 1] = g[i + 1]
    <3>1. i \in Nat /\ i <= n /\ i + 1 \in 1 .. n /\ (i + 1) - 1 = i
      BY <2>1
    <3>2. f[i] = g[i]
      BY <1>2, <3>1
    <3>3. f[i + 1] = Paint(f[i], bytes[i + 1])
      BY <3>1 DEF Paints, Runs
    <3>4. g[i + 1] = Paint(g[i], other[i + 1])
      BY <3>1 DEF Paints, Runs
    <3> QED
      BY <3>1, <3>2, <3>3, <3>4
  <2> QED
    BY <2>1
<1>3. T = Nat
  <2> HIDE DEF T
  <2>1. T \in SUBSET Nat
    BY DEF T
  <2> QED
    BY <2>1, <1>1, <1>2, NatSetInduction
<1> QED
  BY <1>3

\* What is painted is a screen.
LEMMA PaintedScreen ==
    ASSUME NEW echo, NEW s \in Screens(echo), NEW bytes \in Seq(PtyBytes)
    PROVE  PaintedOn(s, bytes) \in Screens(echo)
<1>1. PICK f : Paints(f, Len(bytes), s, bytes, echo) /\ PaintedOn(s, bytes) = f[Len(bytes)]
  BY PaintSteps
<1>2. Len(bytes) \in 0 .. Len(bytes)
  OBVIOUS
<1> QED
  BY <1>1, <1>2 DEF Paints

\* Painting none, one, two or three bytes.
LEMMA PaintedFew ==
    ASSUME NEW echo, NEW s \in Screens(echo), NEW w \in Seq(PtyBytes)
    PROVE  /\ Len(w) = 0 => PaintedOn(s, w) = s
           /\ Len(w) = 1 => PaintedOn(s, w) = Paint(s, w[1])
           /\ Len(w) = 2 => PaintedOn(s, w) = Paint(Paint(s, w[1]), w[2])
           /\ Len(w) = 3 => PaintedOn(s, w) = Paint(Paint(Paint(s, w[1]), w[2]), w[3])
<1>1. PICK f : Paints(f, Len(w), s, w, echo) /\ PaintedOn(s, w) = f[Len(w)]
  BY PaintSteps
<1>2. f[0] = s /\ \A k \in 1 .. Len(w) : f[k] = Paint(f[k - 1], w[k])
  BY <1>1 DEF Paints, Runs
<1>3. ASSUME Len(w) = 1 PROVE PaintedOn(s, w) = Paint(s, w[1])
  <2>1. f[1] = Paint(f[1 - 1], w[1])
    BY <1>2, <1>3
  <2> QED
    BY <1>1, <1>2, <1>3, <2>1
<1>4. ASSUME Len(w) = 2 PROVE PaintedOn(s, w) = Paint(Paint(s, w[1]), w[2])
  <2>1. f[1] = Paint(f[1 - 1], w[1]) /\ f[2] = Paint(f[2 - 1], w[2])
    BY <1>2, <1>4
  <2>2. f[1] = Paint(s, w[1]) /\ f[2] = Paint(f[1], w[2])
    BY <1>2, <2>1
  <2> QED
    BY <1>1, <1>4, <2>2
<1>5. ASSUME Len(w) = 3 PROVE PaintedOn(s, w) = Paint(Paint(Paint(s, w[1]), w[2]), w[3])
  <2>1. f[1] = Paint(f[1 - 1], w[1]) /\ f[2] = Paint(f[2 - 1], w[2]) /\ f[3] = Paint(f[3 - 1], w[3])
    BY <1>2, <1>5
  <2>2. f[1] = Paint(s, w[1]) /\ f[2] = Paint(f[1], w[2]) /\ f[3] = Paint(f[2], w[3])
    BY <1>2, <2>1
  <2> QED
    BY <1>1, <1>5, <2>2
<1> QED
  BY <1>1, <1>2, <1>3, <1>4, <1>5

\* Painting one string and then another is painting both.
LEMMA PaintedJoin ==
    ASSUME NEW echo, NEW s \in Screens(echo), NEW a \in Seq(PtyBytes), NEW b \in Seq(PtyBytes)
    PROVE  PaintedOn(s, a \o b) = PaintedOn(PaintedOn(s, a), b)
<1> DEFINE j == a \o b
           A == Len(a)
           B == Len(b)
           mid == PaintedOn(s, a)
<1>1. /\ j \in Seq(PtyBytes) /\ Len(j) = A + B /\ A \in Nat /\ B \in Nat
      /\ \A i \in 1 .. A + B : j[i] = IF i <= A THEN a[i] ELSE b[i - A]
  BY ConcatProperties
<1> HIDE DEF j
<1>2. PICK f : Paints(f, Len(j), s, j, echo) /\ PaintedOn(s, j) = f[Len(j)]
  BY <1>1, PaintSteps
<1>3. PICK fa : Paints(fa, A, s, a, echo) /\ mid = fa[A]
  BY PaintSteps
<1>4. mid \in Screens(echo)
  BY PaintedScreen
<1> HIDE DEF mid
<1>5. PICK fb : Paints(fb, B, mid, b, echo) /\ PaintedOn(mid, b) = fb[B]
  BY <1>4, PaintSteps
<1> HIDE DEF A, B
<1>6. f[A] = mid
  <2>1. \A i \in 1 .. A : j[i] = a[i]
    BY <1>1
  <2>2. Runs(f, A, s, j)
    <3>1. \A k \in 1 .. A : k \in 1 .. A + B
      BY <1>1
    <3> QED
      BY <1>1, <1>2, <3>1 DEF Paints, Runs
  <2>3. Runs(fa, A, s, a)
    BY <1>3 DEF Paints
  <2>4. f[A] = fa[A]
    BY <1>1, <2>1, <2>2, <2>3, PaintsSame
  <2> QED
    BY <1>3, <2>4
<1> DEFINE h == [i \in 0 .. B |-> f[A + i]]
<1>7. Runs(h, B, mid, b)
  <2>1. h[0] = mid
    <3>1. 0 \in 0 .. B /\ A + 0 = A
      BY <1>1
    <3> QED
      BY <3>1, <1>6
  <2>2. ASSUME NEW k \in 1 .. B PROVE h[k] = Paint(h[k - 1], b[k])
    <3>1. /\ k \in 0 .. B /\ k - 1 \in 0 .. B /\ A + k \in 1 .. A + B /\ ~(A + k <= A)
          /\ (A + k) - 1 = A + (k - 1) /\ (A + k) - A = k
      BY <1>1
    <3>2. f[A + k] = Paint(f[(A + k) - 1], j[A + k])
      BY <1>1, <1>2, <3>1 DEF Paints, Runs
    <3>3. j[A + k] = b[(A + k) - A]
      BY <1>1, <3>1
    <3>4. j[A + k] = b[k]
      BY <3>1, <3>3
    <3>5. h[k] = f[A + k] /\ h[k - 1] = f[A + (k - 1)]
      BY <3>1
    <3> HIDE DEF h
    <3> QED
      BY <3>1, <3>2, <3>4, <3>5
  <2> HIDE DEF h
  <2> QED
    BY <2>1, <2>2 DEF Runs
<1>8. h[B] = fb[B]
  <2> HIDE DEF h
  <2>1. Runs(fb, B, mid, b)
    BY <1>5 DEF Paints
  <2> QED
    BY <1>1, <1>7, <2>1, PaintsSame
<1>9. h[B] = f[A + B]
  BY <1>1
<1> QED
  BY <1>1, <1>2, <1>5, <1>8, <1>9 DEF j, mid

\* The same of a byte at a time.
LEMMA PaintBack ==
    ASSUME NEW echo, NEW s \in Screens(echo), s.col > 0
    PROVE  /\ Paint(s, "bs") \in Screens(echo)
           /\ Paint(s, "bs").text = s.text /\ Paint(s, "bs").col = s.col - 1
<1>1. "bs" \in PtyBytes
  BY DEF PtyBytes
<1> QED
  BY <1>1, PaintScreen

\* A printing byte is painted in the cell of the cursor, which moves on.
LEMMA PaintPrint ==
    ASSUME NEW echo, NEW s \in Screens(echo), NEW c \in PtyBytes \ {"bs", "cr", "nl"}
    PROVE  /\ Paint(s, c) \in Screens(echo) /\ Paint(s, c).col = s.col + 1
           /\ Len(Paint(s, c).text) = IF s.col < Len(s.text) THEN Len(s.text) ELSE s.col + 1
           /\ \A i \in 1 .. Len(Paint(s, c).text) :
                Paint(s, c).text[i] = IF i = s.col + 1 THEN c ELSE s.text[i]
  BY PaintScreen

\* The parts of a screen.
LEMMA ScreenFields ==
    ASSUME NEW echo, NEW s \in Screens(echo)
    PROVE  s.col \in Nat /\ s.text \in Seq(PtyBytes) /\ s.col <= Len(s.text) /\ Len(s.text) \in Nat
<1>1. s.col \in Nat /\ s.text \in Seq(PtyBytes) /\ s.col <= Len(s.text)
  BY DEF Screens
<1> QED
  BY <1>1

\* The line l is what s shows left of the cursor, and nothing is right of it.
Shows(s, l) ==
    /\ Len(l) <= s.col
    /\ \A i \in 1 .. Len(l) : s.text[(s.col - Len(l)) + i] = l[i]
    /\ \A i \in s.col + 1 .. Len(s.text) : s.text[i] = " "

\* What the screen shows of a line is left of the cursor.
LEMMA ShowsFits ==
    ASSUME NEW s, NEW l \in Seq(Keys), Shows(s, l)
    PROVE  Len(l) \in Nat /\ Len(l) <= s.col
<1>1. Len(l) \in Nat
  OBVIOUS
<1>2. Len(l) <= s.col
  BY Zenon DEF Shows
<1> QED
  BY <1>1, <1>2

\* It is a suffix of the text left of the cursor.
LEMMA ShowsIsSuffix ==
    ASSUME NEW echo, NEW s \in Screens(echo), NEW l \in Seq(Keys), Shows(s, l)
    PROVE  IsSuffix(l, SubSeq(s.text, 1, s.col))
<1> DEFINE left == SubSeq(s.text, 1, s.col)
           L == Len(l)
           k == s.col
<1>1. k \in Nat /\ s.text \in Seq(PtyBytes) /\ k <= Len(s.text) /\ L \in Nat /\ L <= k
  <2>1. L \in Nat /\ L <= k
    BY ShowsFits
  <2> QED
    BY <2>1, ScreenFields
<1>2. left \in Seq(PtyBytes) /\ Len(left) = k /\ \A i \in 1 .. k : left[i] = s.text[i]
  BY <1>1
<1> HIDE DEF left
<1>3. ASSUME NEW i \in 1 .. L PROVE left[(k - L) + i] = l[i]
  <2>1. (k - L) + i \in 1 .. k
    BY <1>1
  <2> QED
    BY <1>2, <2>1 DEF Shows
<1> HIDE DEF k, L
<1> DEFINE rl == [i \in 1 .. L |-> l[(L - i) + 1]]
           rt == [i \in 1 .. k |-> left[(k - i) + 1]]
<1>4. Reverse(l) = rl /\ Reverse(left) = rt
  BY <1>2 DEF Reverse, L
<1>5. Len(rl) = L /\ Len(rt) = k
  BY <1>1
<1>6. /\ \A i \in 1 .. L : rl[i] \in Keys
      /\ \A i \in 1 .. L : rt[i] \in PtyBytes
  <2>1. \A i \in 1 .. L : (L - i) + 1 \in 1 .. L /\ (k - i) + 1 \in 1 .. k
    BY <1>1
  <2>2. \A i \in 1 .. L : l[i] \in Keys
    BY DEF L
  <2>3. \A i \in 1 .. k : left[i] \in PtyBytes
    BY <1>2
  <2> QED
    BY <1>1, <2>1, <2>2, <2>3
<1>7. ASSUME NEW i \in 1 .. L PROVE rl[i] = rt[i]
  <2>1. (L - i) + 1 \in 1 .. L /\ (k - L) + ((L - i) + 1) = (k - i) + 1 /\ i \in 1 .. k
    BY <1>1
  <2>2. left[(k - i) + 1] = l[(L - i) + 1]
    BY <1>3, <2>1
  <2> QED
    BY <2>1, <2>2
<1> HIDE DEF rl, rt
<1>8. SubSeq(rl, 1, L) = SubSeq(rt, 1, L)
  <2> DEFINE a == SubSeq(rl, 1, L)
             b == SubSeq(rt, 1, L)
  <2>1. 1 \in Int /\ L \in Int /\ L - 1 + 1 = L
    BY <1>1
  <2>2. a \in Seq(Keys) /\ Len(a) = (IF 1 <= L THEN L - 1 + 1 ELSE 0) /\ \A i \in 1 .. L - 1 + 1 : a[i] = rl[1 + i - 1]
    BY <1>6, <2>1, SubSeqProperties
  <2>3. b \in Seq(PtyBytes) /\ Len(b) = (IF 1 <= L THEN L - 1 + 1 ELSE 0) /\ \A i \in 1 .. L - 1 + 1 : b[i] = rt[1 + i - 1]
    BY <1>6, <2>1, SubSeqProperties
  <2> HIDE DEF a, b
  <2>4. Len(a) = L /\ Len(b) = L /\ \A i \in 1 .. L : a[i] = rl[i] /\ b[i] = rt[i]
    <3>1. \A i \in 1 .. L : 1 + i - 1 = i /\ i \in 1 .. L - 1 + 1
      BY <2>1
    <3>2. Len(a) = L /\ Len(b) = L
      BY <1>1, <2>2, <2>3
    <3> QED
      BY <2>2, <2>3, <3>1, <3>2
  <2>5. a \in Seq(PtyBytes)
    <3>1. Keys \subseteq PtyBytes
      BY DEF PtyBytes
    <3> QED
      BY <2>2, <3>1, SeqMonotonic
  <2>6. a = b
    <3>1. \A i \in 1 .. Len(a) : a[i] = b[i]
      BY <1>7, <2>4
    <3> QED
      BY <2>3, <2>4, <2>5, <3>1, SeqEqual
  <2> QED
    BY <2>6 DEF a, b
<1> QED
  BY <1>1, <1>4, <1>5, <1>8 DEF IsSuffix, IsPrefix, left, k, L

\* A character typed.
LEMMA ShowsChar ==
    ASSUME NEW echo, NEW s \in Screens(echo), NEW l \in Seq(Keys), Shows(s, l),
           NEW c \in Keys, c # "nl"
    PROVE  Shows(Paint(s, c), Append(l, c))
<1> DEFINE p == Paint(s, c)
           k == s.col
           L == Len(l)
           m == Append(l, c)
<1>1. /\ k \in Nat /\ s.text \in Seq(PtyBytes) /\ k <= Len(s.text) /\ Len(s.text) \in Nat
      /\ L \in Nat /\ L <= k
  <2>1. L \in Nat /\ L <= k
    BY ShowsFits
  <2> QED
    BY <2>1, ScreenFields
<1>2. c \in PtyBytes /\ c \notin {"bs", "cr", "nl"}
  BY PtyAssumption DEF PtyBytes
<1>3. /\ p.col = k + 1
      /\ Len(p.text) = IF k < Len(s.text) THEN Len(s.text) ELSE k + 1
      /\ \A i \in 1 .. Len(p.text) : p.text[i] = IF i = k + 1 THEN c ELSE s.text[i]
  BY <1>2, PaintScreen
<1>4. Len(m) = L + 1 /\ m[L + 1] = c /\ \A i \in 1 .. L : m[i] = l[i]
  OBVIOUS
<1>5. /\ \A i \in 1 .. L : s.text[(k - L) + i] = l[i]
      /\ \A i \in k + 1 .. Len(s.text) : s.text[i] = " "
  BY DEF Shows
<1> HIDE DEF p, k, L, m
<1>6. ASSUME NEW i \in 1 .. L + 1 PROVE p.text[((k + 1) - (L + 1)) + i] = m[i]
  <2>1. /\ ((k + 1) - (L + 1)) + i = (k - L) + i /\ (k - L) + i \in 1 .. Len(p.text)
        /\ i = L + 1 \/ i \in 1 .. L
        /\ (k - L) + i = k + 1 <=> i = L + 1
    BY <1>1, <1>3
  <2>2. p.text[(k - L) + i] = IF i = L + 1 THEN c ELSE s.text[(k - L) + i]
    BY <1>3, <2>1
  <2>3. CASE i = L + 1
    BY <1>4, <2>1, <2>2, <2>3
  <2>4. CASE i # L + 1
    BY <1>4, <1>5, <2>1, <2>2, <2>4
  <2> QED
    BY <2>3, <2>4
<1>7. ASSUME NEW i \in (k + 1) + 1 .. Len(p.text) PROVE p.text[i] = " "
  <2>1. i \in 1 .. Len(p.text) /\ i # k + 1 /\ i \in k + 1 .. Len(s.text)
    BY <1>1, <1>3
  <2> QED
    BY <1>3, <1>5, <2>1
<1>8. L + 1 <= k + 1
  BY <1>1
<1> QED
  BY <1>3, <1>4, <1>6, <1>7, <1>8 DEF Shows, p, m

\* The last character erased: back, blank, back.
LEMMA ShowsErase ==
    ASSUME NEW echo, NEW s \in Screens(echo), NEW l \in Seq(Keys), Shows(s, l), l # <<>>
    PROVE  Shows(Paint(Paint(Paint(s, "bs"), " "), "bs"), SubSeq(l, 1, Len(l) - 1))
<1> DEFINE p == Paint(s, "bs")
           q == Paint(p, " ")
           r == Paint(q, "bs")
           k == s.col
           L == Len(l)
           m == SubSeq(l, 1, L - 1)
<1>1. /\ k \in Nat /\ s.text \in Seq(PtyBytes) /\ k <= Len(s.text) /\ Len(s.text) \in Nat
      /\ L \in Nat /\ L <= k /\ L > 0
  <2>1. L \in Nat /\ L <= k
    BY ShowsFits
  <2>2. L \in Nat \ {0}
    BY EmptySeq
  <2> QED
    BY <2>1, <2>2, ScreenFields
<1>2. " " \in PtyBytes \ {"bs", "cr", "nl"}
  BY DEF PtyBytes
<1>3. p \in Screens(echo) /\ p.text = s.text /\ p.col = k - 1
  <2>1. s.col > 0
    BY <1>1
  <2> QED
    BY <2>1, PaintBack
<1> HIDE DEF p
<1>4. /\ q \in Screens(echo) /\ q.col = p.col + 1
      /\ Len(q.text) = IF p.col < Len(p.text) THEN Len(p.text) ELSE p.col + 1
      /\ \A i \in 1 .. Len(q.text) : q.text[i] = IF i = p.col + 1 THEN " " ELSE p.text[i]
  BY <1>2, <1>3, PaintPrint
<1> HIDE DEF q
<1>5. r.text = q.text /\ r.col = q.col - 1
  <2>1. q.col > 0
    <3>1. q.col = (k - 1) + 1 /\ k > 0 /\ k \in Nat
      <4>1. q.col = p.col + 1 /\ p.col = k - 1
        BY <1>3, <1>4
      <4>2. k \in Nat /\ L \in Nat /\ L <= k /\ L > 0
        BY <1>1
      <4> HIDE DEF k, L
      <4> QED
        BY ONLY <4>1, <4>2
    <3> HIDE DEF k
    <3> QED
      BY ONLY <3>1
  <2> QED
    BY <1>4, <2>1, PaintBack
<1>6. Len(m) = L - 1 /\ \A i \in 1 .. L - 1 : m[i] = l[i]
  BY <1>1
<1>7. /\ \A i \in 1 .. L : s.text[(k - L) + i] = l[i]
      /\ \A i \in k + 1 .. Len(s.text) : s.text[i] = " "
  BY DEF Shows
<1> HIDE DEF r, k, L, m
<1>8. /\ r.col = k - 1 /\ Len(r.text) = Len(s.text)
      /\ \A i \in 1 .. Len(s.text) : r.text[i] = IF i = k THEN " " ELSE s.text[i]
  <2>1. p.col + 1 = k /\ p.col < Len(p.text)
    BY <1>1, <1>3
  <2>2. Len(q.text) = Len(s.text)
    BY <1>3, <1>4, <2>1
  <2>3. q.col = k
    BY <1>4, <2>1
  <2> QED
    BY <1>3, <1>4, <1>5, <2>1, <2>2, <2>3
<1>9. ASSUME NEW i \in 1 .. L - 1 PROVE r.text[((k - 1) - (L - 1)) + i] = m[i]
  <2>1. /\ ((k - 1) - (L - 1)) + i = (k - L) + i /\ (k - L) + i \in 1 .. Len(s.text)
        /\ (k - L) + i # k /\ i \in 1 .. L
    BY <1>1
  <2> QED
    BY <1>6, <1>7, <1>8, <2>1
<1>10. ASSUME NEW i \in (k - 1) + 1 .. Len(r.text) PROVE r.text[i] = " "
  <2>1. i \in Int /\ k <= i /\ i <= Len(s.text) /\ 1 <= k
    <3>1. i \in (k - 1) + 1 .. Len(s.text) /\ k \in Nat /\ Len(s.text) \in Nat /\ 0 < L /\ L <= k /\ L \in Nat
      BY <1>1, <1>8
    <3> QED
      BY ONLY <3>1
  <2>2. i \in 1 .. Len(s.text)
    BY <1>1, <2>1
  <2>3. i = k \/ i \in k + 1 .. Len(s.text)
    BY <1>1, <2>1
  <2> QED
    BY <1>7, <1>8, <2>2, <2>3
<1>11. L - 1 <= k - 1
  BY <1>1
<1> QED
  BY <1>6, <1>8, <1>9, <1>10, <1>11 DEF Shows, p, q, r, m, L

\* A new line, or a line given to its reader as it is.
LEMMA ShowsNone ==
    ASSUME NEW echo, NEW s \in Screens(echo)
    PROVE  /\ Shows(Paint(Paint(s, "cr"), "nl"), <<>>)
           /\ \A l \in Seq(Keys) : Shows(s, l) => Shows(s, <<>>)
<1>1. "cr" \in PtyBytes /\ "nl" \in PtyBytes /\ Len(<<>>) = 0
  BY DEF PtyBytes
<1> DEFINE p == Paint(s, "cr")
           q == Paint(p, "nl")
<1>2. p \in Screens(echo) /\ p.col = 0
  BY <1>1, PaintScreen
<1> HIDE DEF p
<1>3. q.text = <<>> /\ q.col = 0
  BY <1>1, <1>2, PaintScreen
<1> HIDE DEF q
<1>4. Shows(q, <<>>)
  BY <1>1, <1>3 DEF Shows
<1>5. ASSUME NEW l, Shows(s, l) PROVE Shows(s, <<>>)
  <2>1. 0 <= s.col
    BY ScreenFields
  <2>2. \A i \in s.col + 1 .. Len(s.text) : s.text[i] = " "
    BY <1>5, Zenon DEF Shows
  <2> QED
    <3>1. Len(<<>>) <= s.col /\ 1 .. Len(<<>>) = {}
      BY <1>1, <2>1
    <3> QED
      BY <2>2, <3>1, Zenon DEF Shows
<1> QED
  BY <1>4, <1>5 DEF p, q

\* What is on the screen once all output is painted shows the line.
EchoInv ==
    /\ screen \in Screens(screen.faithful)
    /\ screen.faithful => Shows(Painted(obuf), line)

\* Bytes that fit are painted after those that were there.
LEMMA PaintedMore ==
    ASSUME PtyBounds, screen \in Screens(screen.faithful), NEW bytes \in Seq(PtyBytes),
           ~Overflows(obuf, bytes), obuf' = Pushed(obuf, bytes), screen' = screen
    PROVE  Painted(obuf)' = PaintedOn(Painted(obuf), bytes)
<1>1. obuf \in Seq(PtyBytes) /\ obuf' = obuf \o bytes
  BY DEF PtyBounds, Pushed
<1>2. PaintedOn(screen, obuf \o bytes) = PaintedOn(PaintedOn(screen, obuf), bytes)
  BY <1>1, PaintedJoin
<1> QED
  BY <1>1, <1>2 DEF Painted

\* A step that leaves the screen, the output and the line.
LEMMA SameEcho ==
    ASSUME EchoInv, obuf' = obuf, screen' = screen, line' = line \/ line' = <<>>, PtyBounds
    PROVE  EchoInv'
<1>1. Painted(obuf)' = Painted(obuf)
  BY DEF Painted
<1>2. Painted(obuf) \in Screens(screen.faithful)
  BY PaintedScreen DEF EchoInv, PtyBounds, Painted
<1>3. screen.faithful => Shows(Painted(obuf), <<>>)
  BY <1>2, ShowsNone DEF EchoInv, PtyBounds
<1> QED
  BY <1>1, <1>3 DEF EchoInv

\* A step after which the line on the screen is no echo.
LEMMA NoLongerEcho ==
    ASSUME EchoInv, screen' = [screen EXCEPT !.faithful = FALSE]
    PROVE  EchoInv'
<1>1. screen = [text |-> screen.text, col |-> screen.col, faithful |-> screen.faithful]
      /\ screen.text \in Seq(PtyBytes) /\ screen.col \in Nat /\ screen.col <= Len(screen.text)
  BY DEF EchoInv, Screens
<1>2. screen' = [text |-> screen.text, col |-> screen.col, faithful |-> FALSE]
  BY <1>1
<1> QED
  BY <1>1, <1>2 DEF EchoInv, Screens

\* Changing what is known of the echo leaves a screen.
LEMMA ScreenOf ==
    ASSUME screen \in Screens(screen.faithful), NEW b, screen' = [screen EXCEPT !.faithful = b]
    PROVE  screen' \in Screens(b) /\ screen'.faithful = b /\ (b = screen.faithful => screen' = screen)
<1>1. screen = [text |-> screen.text, col |-> screen.col, faithful |-> screen.faithful]
      /\ screen.text \in Seq(PtyBytes) /\ screen.col \in Nat /\ screen.col <= Len(screen.text)
  BY DEF Screens
<1>2. screen' = [text |-> screen.text, col |-> screen.col, faithful |-> b]
  BY <1>1
<1> QED
  BY <1>1, <1>2 DEF Screens

\* The echo of bytes that make a screen showing the line into one showing the
\* new line.
LEMMA EchoShows ==
    ASSUME EchoInv, PtyBounds, NEW bytes \in Seq(PtyBytes), Echo(bytes, screen.faithful),
           screen.faithful => Shows(PaintedOn(Painted(obuf), bytes), line')
    PROVE  EchoInv'
<1> DEFINE b == screen.faithful /\ "ECHO" \in tio /\ ~Overflows(obuf, bytes)
<1>1. screen' = [screen EXCEPT !.faithful = b] /\ obuf' = IF "ECHO" \in tio THEN Pushed(obuf, bytes) ELSE obuf
  BY DEF Echo
<1>2. screen' \in Screens(b) /\ screen'.faithful = b /\ (b = screen.faithful => screen' = screen)
  BY <1>1, ScreenOf DEF EchoInv
<1>3. ASSUME b PROVE Shows(Painted(obuf), line)'
  <2>1. screen.faithful /\ obuf' = Pushed(obuf, bytes) /\ ~Overflows(obuf, bytes)
    BY <1>1, <1>3
  <2>2. screen' = screen
    BY <1>2, <1>3, <2>1
  <2>3. Painted(obuf)' = PaintedOn(Painted(obuf), bytes)
    BY <2>1, <2>2, PaintedMore DEF EchoInv
  <2> QED
    BY <2>1, <2>3
<1> QED
  BY <1>2, <1>3 DEF EchoInv

\* pty_master_write of one byte.
LEMMA TypedEcho ==
    ASSUME EchoInv, PtyBounds, NEW c \in Keys, MasterWrite(c)
    PROVE  EchoInv'
<1>1. /\ line \in Seq(Keys) /\ obuf \in Seq(PtyBytes)
      /\ screen \in Screens(screen.faithful) /\ Painted(obuf) \in Screens(screen.faithful)
  BY PaintedScreen DEF PtyBounds, EchoInv, Painted
<1>2. /\ c \in PtyBytes /\ "bs" \in PtyBytes /\ " " \in PtyBytes /\ "cr" \in PtyBytes
      /\ "nl" \in PtyBytes
  BY DEF PtyBytes
<1>3. CASE TypeIntr
  BY <1>3, SameEcho DEF TypeIntr, NoEcho
<1>4. CASE TypeErase
  <2>1. CASE line = <<>>
    <3>1. line' = <<>> /\ NoEcho
      <4>1. SubSeq(<<>>, 1, Len(<<>>) - 1) = <<>>
        BY SubSeqEmpty
      <4> QED
        BY <1>4, <2>1, <4>1 DEF TypeErase
    <3> QED
      BY <3>1, SameEcho DEF NoEcho
  <2>2. CASE line # <<>>
    <3> DEFINE w == <<"bs", " ", "bs">>
    <3>1. Echo(w, screen.faithful) /\ line' = SubSeq(line, 1, Len(line) - 1)
      BY <1>4, <2>2 DEF TypeErase
    <3>2. w \in Seq(PtyBytes) /\ Len(w) = 3 /\ w[1] = "bs" /\ w[2] = " " /\ w[3] = "bs"
      BY ONLY <1>2, ByteStrings
    <3> HIDE DEF w
    <3> DEFINE x == Painted(obuf)
    <3>3. x \in Screens(screen.faithful) /\ (screen.faithful => Shows(x, line))
      BY <1>1 DEF EchoInv
    <3> HIDE DEF x
    <3>4. PaintedOn(x, w) = Paint(Paint(Paint(x, "bs"), " "), "bs")
      BY <3>2, <3>3, PaintedFew
    <3>5. screen.faithful => Shows(PaintedOn(x, w), line')
      BY <1>1, <2>2, <3>1, <3>3, <3>4, ShowsErase
    <3> QED
      BY <3>1, <3>2, <3>5, EchoShows DEF x
  <2> QED
    BY <2>1, <2>2
<1>5. CASE TypeEof
  BY <1>5, SameEcho DEF TypeEof, Commit, NoEcho
<1>6. CASE TypeNewline
  <2> DEFINE w == <<"cr", "nl">>
             b == "ECHO" \in tio /\ ~Overflows(obuf, w)
  <2>1. /\ line' = <<>> /\ screen' = [screen EXCEPT !.faithful = b]
        /\ obuf' = IF "ECHO" \in tio THEN Pushed(obuf, w) ELSE obuf
    BY <1>6 DEF TypeNewline, Commit, Echoed
  <2>2. w \in Seq(PtyBytes) /\ Len(w) = 2 /\ w[1] = "cr" /\ w[2] = "nl"
    BY ONLY <1>2, ByteStrings
  <2> HIDE DEF w
  <2>3. screen' \in Screens(b) /\ screen'.faithful = b
    BY <1>1, <2>1, ScreenOf
  <2>4. ASSUME b PROVE Shows(Painted(obuf), line)'
    <3> DEFINE s == screen'
               x == PaintedOn(s, obuf)
    <3>1. obuf' = obuf \o w
      BY <2>1, <2>4 DEF Pushed
    <3>2. x \in Screens(b)
      BY <1>1, <2>3, PaintedScreen
    <3>3. PaintedOn(s, obuf \o w) = PaintedOn(x, w)
      BY <1>1, <2>2, <2>3, PaintedJoin
    <3> HIDE DEF x
    <3>4. PaintedOn(x, w) = Paint(Paint(x, "cr"), "nl")
      BY <2>2, <3>2, PaintedFew
    <3>5. Shows(PaintedOn(s, obuf'), <<>>)
      BY <3>1, <3>2, <3>3, <3>4, ShowsNone
    <3> QED
      BY <2>1, <3>5 DEF Painted
  <2> QED
    BY <2>3, <2>4 DEF EchoInv
<1>7. CASE c # "nl" /\ TypeChar(c)
  <2>1. CASE Len(line) < PTY_LINE - 1
    <3>1. Echo(<<c>>, screen.faithful) /\ line' = Append(line, c)
      BY <1>7, <2>1 DEF TypeChar
    <3>2. <<c>> \in Seq(PtyBytes) /\ Len(<<c>>) = 1 /\ <<c>>[1] = c
      BY ONLY <1>2, ByteStrings
    <3>3. PaintedOn(Painted(obuf), <<c>>) = Paint(Painted(obuf), c)
      BY <1>1, <3>2, PaintedFew
    <3>4. screen.faithful => Shows(PaintedOn(Painted(obuf), <<c>>), line')
      BY <1>1, <1>7, <3>1, <3>3, ShowsChar DEF EchoInv
    <3> QED
      BY <3>1, <3>2, <3>4, EchoShows
  <2>2. CASE ~(Len(line) < PTY_LINE - 1)
    BY <1>7, <2>2, SameEcho DEF TypeChar, NoEcho
  <2> QED
    BY <2>1, <2>2
<1>8. CASE TypeRaw(c)
  BY <1>8, NoLongerEcho DEF TypeRaw
<1> QED
  BY <1>3, <1>4, <1>5, <1>6, <1>7, <1>8 DEF MasterWrite

\* pty_master_read: what is read is painted, the rest is still owed.
LEMMA ReadEcho ==
    ASSUME EchoInv, PtyBounds, NEW p \in MasterReaders, MasterRead(p)
    PROVE  EchoInv'
<1>1. obuf \in Seq(PtyBytes) /\ screen \in Screens(screen.faithful)
  BY DEF PtyBounds, EchoInv
<1>2. CASE obuf' = obuf /\ screen' = screen
  BY <1>2, SameEcho DEF MasterRead
<1>3. ASSUME NEW n \in 0 .. Len(obuf), screen' = Painted(SubSeq(obuf, 1, n)),
             obuf' = SubSeq(obuf, n + 1, Len(obuf)), line' = line
      PROVE  EchoInv'
  <2> DEFINE a == SubSeq(obuf, 1, n)
             b == SubSeq(obuf, n + 1, Len(obuf))
  <2>1. a \in Seq(PtyBytes) /\ b \in Seq(PtyBytes)
    BY <1>1
  <2>2. a \o b = obuf
    <3>1. /\ 1 \in 1 .. Len(obuf) + 1 /\ n \in 1 - 1 .. Len(obuf) /\ Len(obuf) \in n .. Len(obuf)
      BY <1>1
    <3>2. a \o b = SubSeq(obuf, 1, Len(obuf))
      BY <1>1, <3>1, ConcatAdjacentSubSeq
    <3> QED
      BY <1>1, <3>2, SubSeqFull
  <2> HIDE DEF a, b
  <2>3. PaintedOn(screen, obuf) = PaintedOn(PaintedOn(screen, a), b)
    BY <1>1, <2>1, <2>2, PaintedJoin
  <2>4. screen' \in Screens(screen.faithful) /\ screen' = PaintedOn(screen, a)
    BY <1>1, <1>3, <2>1, PaintedScreen DEF Painted, a
  <2>5. screen'.faithful = screen.faithful
    BY <2>4 DEF Screens
  <2>6. Painted(obuf)' = Painted(obuf)
    BY <1>3, <2>3, <2>4 DEF Painted, b
  <2> QED
    BY <1>3, <2>4, <2>5, <2>6 DEF EchoInv
<1> QED
  BY <1>2, <1>3 DEF MasterRead

\* All of it is inductive.
LEMMA EchoStep ==
    ASSUME EchoInv, PtyBounds, [PtyNext]_ptyVars
    PROVE  EchoInv'
<1>1. ASSUME NEW c \in Keys, MasterWrite(c) PROVE EchoInv'
  BY <1>1, TypedEcho
<1>2. ASSUME NEW c \in Prints, SlaveWrite(c) PROVE EchoInv'
  BY <1>2, NoLongerEcho DEF SlaveWrite
<1>3. ASSUME NEW p \in MasterReaders, MasterRead(p) PROVE EchoInv'
  BY <1>3, ReadEcho
<1>4. ASSUME NEW mode \in Modes, SetTermios(mode) PROVE EchoInv'
  BY <1>4, NoLongerEcho DEF SetTermios
<1>5. CASE \/ \E p \in SlaveReaders : SlaveRead(p)
           \/ SetForeground
           \/ \E p \in PtyReaders : Signalled(p)
           \/ \E end \in {"master", "slave"} : PtyClose(end)
           \/ UNCHANGED ptyVars
  <2>1. obuf' = obuf /\ screen' = screen /\ line' = line
    BY <1>5 DEF SlaveRead, SetForeground, Signalled, PtyClose, ptyVars
  <2> QED
    BY <2>1, SameEcho
<1> QED
  BY <1>1, <1>2, <1>3, <1>4, <1>5 DEF PtyNext

\* The line being edited is what the screen shows once the emulator has
\* painted what it is owed, for any keys typed, erased and read in any
\* portions, any size of the rings and any change of modes (pty.c, echo).
THEOREM EchoShowsLineAlways == PtySpec => []EchoShowsLine
<1>1. PtyInit => EchoInv
  <2>1. ASSUME PtyInit PROVE EchoInv
    <3>1. screen = [text |-> <<>>, col |-> 0, faithful |-> TRUE] /\ obuf = <<>> /\ line = <<>>
      BY <2>1 DEF PtyInit, BlankScreen
    <3>2. <<>> \in Seq(PtyBytes) /\ Len(<<>>) = 0
      OBVIOUS
    <3>3. screen \in Screens(TRUE) /\ screen.faithful = TRUE
      BY <3>1, <3>2 DEF Screens
    <3>4. Painted(obuf) = screen
      BY <3>1, <3>2, <3>3, PaintedFew DEF Painted
    <3>5. Shows(screen, <<>>)
      BY <3>1, <3>2 DEF Shows
    <3> QED
      BY <3>1, <3>3, <3>4, <3>5 DEF EchoInv
  <2> QED
    BY <2>1
<1>2. EchoInv /\ PtyBounds /\ [PtyNext]_ptyVars => EchoInv'
  BY EchoStep
<1>3. EchoInv /\ PtyBounds => EchoShowsLine
  <2>1. ASSUME EchoInv, PtyBounds, screen.faithful
        PROVE  /\ IsSuffix(line, SubSeq(Painted(obuf).text, 1, Painted(obuf).col))
               /\ \A i \in Painted(obuf).col + 1 .. Len(Painted(obuf).text) : Painted(obuf).text[i] = " "
    <3> DEFINE x == Painted(obuf)
    <3>1. x \in Screens(screen.faithful) /\ line \in Seq(Keys) /\ Shows(x, line)
      BY <2>1, PaintedScreen DEF PtyBounds, EchoInv, Painted
    <3> HIDE DEF x
    <3>2. IsSuffix(line, SubSeq(x.text, 1, x.col))
      BY <3>1, ShowsIsSuffix
    <3>3. \A i \in x.col + 1 .. Len(x.text) : x.text[i] = " "
      BY <3>1, Zenon DEF Shows
    <3> QED
      BY <3>2, <3>3 DEF x
  <2> QED
    BY <2>1 DEF EchoShowsLine
<1> QED
  BY <1>1, <1>2, <1>3, PtyBoundsAlways, PTL DEF PtySpec

----------------------------------------------------------------------------
(* The seats.                                                              *)

SeatTyped ==
    /\ seats \in [SeatIds -> [pid : Clients \cup {"none"}, fb_pa : {0}]]
    /\ active \in 0 .. SEAT_MAX /\ fbs \in 0 .. MaxFbs
    /\ DOMAIN backing \subseteq SeatIds
    /\ \A i \in DOMAIN backing : backing[i] \in 1 .. fbs
    /\ mapped \in [Clients -> [runs : BOOLEAN, fb : 0 .. MaxFbs]]

\* A process owns one seat at most, and only while it runs.
SeatsApart ==
    /\ \A i, j \in SeatIds : seats[i].pid # "none" /\ seats[i].pid = seats[j].pid => i = j
    /\ \A i \in SeatIds : seats[i].pid # "none" => mapped[seats[i].pid].runs

\* A process draws in a frame buffer only as the owner of the seat whose
\* resource shows it.
DrawsInSeat ==
    \A p \in Clients : mapped[p].fb # 0 =>
        \E i \in DOMAIN backing : seats[i].pid = p /\ backing[i] = mapped[p].fb

SeatInv == SeatTyped /\ SeatsApart /\ DrawsInSeat /\ ScreenFollowsSeat

\* The lowest of a set of seats is one of them.
LEMMA LowestIn ==
    ASSUME NEW T \in SUBSET SeatIds, T # {}
    PROVE  Lowest(T) \in T
<1>1. T \in SUBSET Nat
  BY SeatAssumption DEF SeatIds
<1>2. \E m \in T : \A n \in T : m <= n
  BY <1>1, LeastNatural
<1> QED
  BY <1>2 DEF Lowest

\* Where the frame buffer of a seat's owner is.
LEMMA OwnerDraws ==
    ASSUME SeatInv, NEW i \in SeatIds, seats[i].pid # "none", mapped[seats[i].pid].fb # 0
    PROVE  i \in DOMAIN backing /\ backing[i] = mapped[seats[i].pid].fb
<1>1. seats[i].pid \in Clients
  BY DEF SeatInv, SeatTyped
<1>2. PICK j \in DOMAIN backing : seats[j].pid = seats[i].pid /\ backing[j] = mapped[seats[i].pid].fb
  BY <1>1 DEF SeatInv, DrawsInSeat
<1>3. j = i
  BY <1>2 DEF SeatInv, SeatTyped, SeatsApart
<1> QED
  BY <1>2, <1>3

\* The seat a caller gets was its own or nobody's.
LEMMA RegisteredSeat ==
    ASSUME SeatInv, NEW p \in Clients, NEW i \in SeatIds, Registered(p, i), mapped[p].runs,
           seats' = Enlisted(p, i)
    PROVE  /\ seats[i].pid = p \/ (seats[i].pid = "none" /\ \A j \in SeatIds : seats[j].pid # p)
           /\ seats' \in [SeatIds -> [pid : Clients \cup {"none"}, fb_pa : {0}]]
           /\ seats'[i].pid = p
           /\ \A j \in SeatIds : j # i => seats'[j] = seats[j] /\ seats'[j].pid # p
<1>1. p # "none" /\ seats \in [SeatIds -> [pid : Clients \cup {"none"}, fb_pa : {0}]]
  BY SeatAssumption DEF SeatInv, SeatTyped
<1>2. CASE SeatOf(p) # {}
  <2>1. seats[i].pid = p
    BY <1>2 DEF Registered, SeatOf
  <2>2. \A j \in SeatIds : j # i => seats[j].pid # p
    BY <1>1, <2>1 DEF SeatInv, SeatsApart
  <2>3. seats' = [seats EXCEPT ![i] = [pid |-> p, fb_pa |-> seats[i].fb_pa]] /\ seats[i].fb_pa = 0
    BY <1>1, <2>1 DEF Enlisted
  <2> QED
    BY <1>1, <2>1, <2>2, <2>3
<1>3. CASE SeatOf(p) = {}
  <2>1. SeatIds \ UsedSeats(seats) # {} /\ i = Lowest(SeatIds \ UsedSeats(seats))
    BY <1>3 DEF Registered, UsedSeats
  <2>2. seats[i].pid = "none"
    <3>1. i \in SeatIds \ UsedSeats(seats)
      BY <2>1, LowestIn
    <3> QED
      BY <3>1 DEF UsedSeats
  <2>3. \A j \in SeatIds : seats[j].pid # p
    BY <1>3 DEF SeatOf
  <2>4. seats' = [seats EXCEPT ![i] = [pid |-> p, fb_pa |-> 0]]
    BY <1>1, <2>2 DEF Enlisted
  <2> QED
    BY <1>1, <2>2, <2>3, <2>4
<1> QED
  BY <1>2, <1>3

\* SYS_GFX_ACQUIRE.
LEMMA AcquireStep ==
    ASSUME SeatInv, NEW p \in Clients, NEW i \in SeatIds, GfxAcquire(p, i)
    PROVE  SeatInv'
<1>1. /\ seats[i].pid = p \/ (seats[i].pid = "none" /\ \A j \in SeatIds : seats[j].pid # p)
      /\ seats' \in [SeatIds -> [pid : Clients \cup {"none"}, fb_pa : {0}]]
      /\ seats'[i].pid = p
      /\ \A j \in SeatIds : j # i => seats'[j] = seats[j] /\ seats'[j].pid # p
  BY RegisteredSeat DEF GfxAcquire
<1>2. p # "none" /\ mapped[p].runs /\ active' = IF active = 0 THEN i ELSE active
  BY SeatAssumption DEF GfxAcquire, ActiveWith
<1>3. /\ SeatTyped /\ SEAT_MAX \in Nat /\ MaxFbs \in Nat /\ SeatIds = 1 .. SEAT_MAX
      /\ i \in 1 .. SEAT_MAX
  BY SeatAssumption DEF SeatInv, SeatIds
<1> DEFINE Makes == /\ fbs < MaxFbs /\ i \notin DOMAIN backing /\ fbs' = fbs + 1
                    /\ backing' = [j \in DOMAIN backing \cup {i} |-> IF j = i THEN fbs + 1 ELSE backing[j]]
                    /\ mapped' = [mapped EXCEPT ![p].fb = fbs + 1]
                    /\ shown_id' = IF i = active' THEN i ELSE shown_id
           Keeps == /\ fbs' \in fbs .. MaxFbs /\ UNCHANGED <<backing, mapped, shown_id>>
<1>4. Makes \/ Keeps
  BY <1>2, <1>3 DEF GfxAcquire, ShownToOwner, ActiveWith, SeatTyped
<1>5. SeatTyped'
  <2>1. active' \in 0 .. SEAT_MAX
    BY <1>2, <1>3 DEF SeatTyped
  <2>2. CASE Makes
    <3>1. fbs' \in 0 .. MaxFbs /\ fbs + 1 \in 1 .. fbs' /\ fbs + 1 \in 0 .. MaxFbs
      BY <1>3, <2>2 DEF SeatTyped
    <3>2. DOMAIN backing' \subseteq SeatIds /\ \A j \in DOMAIN backing' : backing'[j] \in 1 .. fbs'
      BY <1>3, <2>2, <3>1 DEF SeatTyped
    <3>3. mapped' \in [Clients -> [runs : BOOLEAN, fb : 0 .. MaxFbs]]
      BY <2>2, <3>1, <1>3 DEF SeatTyped
    <3> QED
      BY <1>1, <2>1, <3>1, <3>2, <3>3 DEF SeatTyped
  <2>3. CASE Keeps
    <3>1. fbs' \in 0 .. MaxFbs /\ \A n \in 1 .. fbs : n \in 1 .. fbs'
      BY <1>3, <2>3 DEF SeatTyped
    <3> QED
      BY <1>1, <1>3, <2>1, <2>3, <3>1 DEF SeatTyped
  <2> QED
    BY <1>4, <2>2, <2>3
<1>6. \A q \in Clients : /\ mapped'[q].runs = mapped[q].runs
                         /\ q # p => mapped'[q] = mapped[q]
  BY <1>3, <1>4 DEF SeatTyped
<1>7. SeatsApart'
  <2>1. ASSUME NEW j \in SeatIds, NEW k \in SeatIds,
               seats'[j].pid # "none", seats'[j].pid = seats'[k].pid
        PROVE  j = k
    BY <1>1, <2>1 DEF SeatInv, SeatsApart
  <2>2. ASSUME NEW j \in SeatIds, seats'[j].pid # "none"
        PROVE  mapped'[seats'[j].pid].runs
    <3>1. seats'[j].pid \in Clients
      BY <1>1, <2>2
    <3>2. mapped[seats'[j].pid].runs
      BY <1>1, <1>2, <2>2 DEF SeatInv, SeatsApart
    <3> QED
      BY <1>6, <3>1, <3>2
  <2> QED
    BY <2>1, <2>2 DEF SeatsApart
<1>8. \A j \in DOMAIN backing : j \in DOMAIN backing' /\ backing'[j] = backing[j]
  BY <1>4
<1>9. DrawsInSeat'
  <2>1. ASSUME NEW q \in Clients, mapped'[q].fb # 0
        PROVE  \E j \in DOMAIN backing' : seats'[j].pid = q /\ backing'[j] = mapped'[q].fb
    <3>1. CASE q = p /\ Makes
      <4>1. i \in DOMAIN backing' /\ backing'[i] = fbs + 1 /\ mapped'[q].fb = fbs + 1
        BY <1>3, <3>1 DEF SeatTyped
      <4> QED
        BY <1>1, <3>1, <4>1
    <3>2. CASE mapped'[q] = mapped[q]
      <4>1. PICK j \in DOMAIN backing : seats[j].pid = q /\ backing[j] = mapped[q].fb
        BY <2>1, <3>2 DEF SeatInv, DrawsInSeat
      <4>2. j \in SeatIds /\ seats'[j].pid = q
        <5>1. j \in SeatIds
          BY <1>3 DEF SeatTyped
        <5>2. CASE j = i
          <6>1. q \in Clients /\ seats[i].pid = q /\ q # "none"
            BY <4>1, <5>2, SeatAssumption
          <6> QED
            BY <1>1, <5>2, <6>1
        <5>3. CASE j # i
          BY <1>1, <4>1, <5>1, <5>3
        <5> QED
          BY <5>1, <5>2, <5>3
      <4> QED
        BY <1>8, <3>2, <4>1, <4>2
    <3> QED
      BY <1>4, <1>6, <3>1, <3>2
  <2> QED
    BY <2>1 DEF DrawsInSeat
<1>10. ScreenFollowsSeat'
  <2>1. active' \in SeatIds /\ seats'[active'].pid # "none" /\ active' # 0
    <3>1. CASE active = 0
      BY <1>1, <1>2, <1>3, <3>1
    <3>2. CASE active # 0
      <4>1. active \in UsedSeats(seats)
        BY <3>2 DEF SeatInv, ScreenFollowsSeat
      <4>2. active \in SeatIds /\ seats[active].pid # "none"
        BY <4>1 DEF UsedSeats
      <4> QED
        BY <1>1, <1>2, <3>2, <4>2
    <3> QED
      BY <3>1, <3>2
  <2>2. ASSUME mapped'[seats'[active'].pid].fb # 0
        PROVE  shown_id' = active' /\ backing'[active'] = mapped'[seats'[active'].pid].fb
    <3>1. CASE Makes /\ active' = i
      <4>1. backing'[i] = fbs + 1 /\ mapped'[p].fb = fbs + 1 /\ shown_id' = i
        BY <1>3, <3>1 DEF SeatTyped
      <4> QED
        BY <1>1, <3>1, <4>1
    <3>2. CASE mapped'[seats'[active'].pid] = mapped[seats'[active'].pid]
      <4> DEFINE q == seats'[active'].pid
      <4>1. q \in Clients
        BY <1>1, <2>1
      <4>2. PICK j \in DOMAIN backing : seats[j].pid = q /\ backing[j] = mapped[q].fb
        BY <2>2, <3>2, <4>1 DEF SeatInv, DrawsInSeat
      <4>3. j \in SeatIds /\ q # "none"
        BY <1>3, <4>1, SeatAssumption DEF SeatTyped
      <4>4. active # 0
        BY <4>2, <4>3 DEF SeatInv, ScreenFollowsSeat, UsedSeats
      <4>5. active' = active /\ seats[active].pid = q
        <5>1. active' = active
          BY <1>2, <4>4
        <5>2. CASE active = i
          <6>1. seats[i].pid # "none"
            BY <4>4, <5>2 DEF SeatInv, ScreenFollowsSeat, UsedSeats
          <6> QED
            BY <1>1, <5>1, <5>2, <6>1
        <5>3. CASE active # i
          BY <1>1, <2>1, <5>1, <5>3
        <5> QED
          BY <5>1, <5>2, <5>3
      <4>6. shown_id = active /\ backing[active] = mapped[q].fb
        BY <2>2, <3>2, <4>4, <4>5 DEF SeatInv, ScreenFollowsSeat
      <4>7. active \in DOMAIN backing
        <5>1. active \in SeatIds
          BY <2>1, <4>5
        <5> QED
          BY <2>2, <3>2, <4>3, <4>5, <5>1, OwnerDraws
      <4>8. shown_id' = active
        BY <1>4, <4>5, <4>6
      <4> QED
        BY <1>8, <3>2, <4>5, <4>6, <4>7, <4>8
    <3>3. Makes /\ active' # i => seats'[active'].pid # p
      BY <1>1, <2>1
    <3>4. seats'[active'].pid \in Clients
      BY <1>1, <2>1
    <3> QED
      BY <1>4, <1>6, <3>1, <3>2, <3>3, <3>4
  <2> QED
    BY <2>1, <2>2 DEF ScreenFollowsSeat, UsedSeats
<1> QED
  BY <1>5, <1>7, <1>9, <1>10 DEF SeatInv

\* SYS_SEAT_SWITCH, Ctrl-Alt-Fn: a seat without a resource has an owner that
\* draws nowhere.
LEMMA SwitchStep ==
    ASSUME SeatInv, NEW i \in SeatIds, SeatSwitch(i)
    PROVE  SeatInv'
<1>1. /\ active' = i /\ shown_id' = Shown(i) /\ UNCHANGED <<seats, backing, fbs, mapped>>
      /\ i \in SeatIds /\ seats[i].pid # "none"
  BY DEF SeatSwitch, UsedSeats
<1>2. i \in 0 .. SEAT_MAX /\ i # 0
  BY SeatAssumption DEF SeatIds
<1>3. SeatTyped' /\ SeatsApart' /\ DrawsInSeat'
  BY <1>1, <1>2 DEF SeatInv, SeatTyped, SeatsApart, DrawsInSeat
<1>4. mapped[seats[i].pid].fb # 0 => shown_id' = i /\ backing[i] = mapped[seats[i].pid].fb
  BY <1>1, OwnerDraws DEF Shown
<1>5. ScreenFollowsSeat'
  BY <1>1, <1>2, <1>4 DEF ScreenFollowsSeat, UsedSeats
<1> QED
  BY <1>3, <1>5 DEF SeatInv

\* thread_exit and seat_release_pid.
LEMMA OwnerExitStep ==
    ASSUME SeatInv, NEW p \in Clients, SeatOwnerExit(p)
    PROVE  SeatInv'
<1>1. /\ mapped' = [mapped EXCEPT ![p] = [runs |-> FALSE, fb |-> 0]]
      /\ UNCHANGED <<backing, fbs>> /\ p # "none"
  BY SeatAssumption DEF SeatOwnerExit
<1>2. /\ SeatTyped /\ SEAT_MAX \in Nat /\ MaxFbs \in Nat /\ SeatIds = 1 .. SEAT_MAX /\ 0 \notin SeatIds
  BY SeatAssumption DEF SeatInv, SeatIds
<1>3. /\ mapped' \in [Clients -> [runs : BOOLEAN, fb : 0 .. MaxFbs]]
      /\ mapped'[p].fb = 0 /\ \A q \in Clients : q # p => mapped'[q] = mapped[q]
  <2>1. [runs |-> FALSE, fb |-> 0] \in [runs : BOOLEAN, fb : 0 .. MaxFbs]
    BY <1>2
  <2> QED
    BY <1>1, <1>2, <2>1 DEF SeatTyped
<1>4. /\ seats' \in [SeatIds -> [pid : Clients \cup {"none"}, fb_pa : {0}]]
      /\ \A j \in SeatIds : /\ seats[j].pid # p => seats'[j] = seats[j]
                            /\ seats[j].pid = p => seats'[j].pid = "none"
  <2>1. CASE SeatOf(p) = {}
    <3>1. seats' = seats /\ \A j \in SeatIds : seats[j].pid # p
      BY <2>1 DEF SeatOwnerExit, SeatOf
    <3> QED
      BY <1>2, <3>1 DEF SeatTyped
  <2>2. CASE SeatOf(p) # {}
    <3>1. PICK i \in SeatIds : seats[i].pid = p /\ seats' = [seats EXCEPT ![i] = Unowned]
      BY <2>2 DEF SeatOwnerExit, SeatOf
    <3>2. \A j \in SeatIds : seats[j].pid = p => j = i
      BY <1>1, <3>1 DEF SeatInv, SeatsApart
    <3>3. Unowned \in [pid : Clients \cup {"none"}, fb_pa : {0}] /\ Unowned.pid = "none"
      BY DEF Unowned
    <3>4. /\ seats' \in [SeatIds -> [pid : Clients \cup {"none"}, fb_pa : {0}]]
          /\ seats'[i].pid = "none" /\ \A j \in SeatIds : j # i => seats'[j] = seats[j]
      BY <1>2, <3>1, <3>3 DEF SeatTyped
    <3> QED
      BY <3>1, <3>2, <3>4
  <2> QED
    BY <2>1, <2>2
<1>5. SeatsApart'
  <2>1. ASSUME NEW j \in SeatIds, seats'[j].pid # "none"
        PROVE  seats'[j] = seats[j] /\ seats[j].pid # p
    BY <1>4, <2>1
  <2>2. ASSUME NEW j \in SeatIds, seats'[j].pid # "none"
        PROVE  mapped'[seats'[j].pid].runs
    <3>1. seats[j].pid \in Clients /\ seats[j].pid # p /\ mapped[seats[j].pid].runs
      BY <1>4, <2>1, <2>2 DEF SeatInv, SeatsApart
    <3> QED
      BY <1>3, <2>1, <2>2, <3>1
  <2>3. ASSUME NEW j \in SeatIds, NEW k \in SeatIds,
               seats'[j].pid # "none", seats'[j].pid = seats'[k].pid
        PROVE  j = k
    BY <2>1, <2>3 DEF SeatInv, SeatsApart
  <2> QED
    BY <2>2, <2>3 DEF SeatsApart
<1>6. DrawsInSeat'
  <2>1. ASSUME NEW q \in Clients, mapped'[q].fb # 0
        PROVE  \E j \in DOMAIN backing' : seats'[j].pid = q /\ backing'[j] = mapped'[q].fb
    <3>1. q # p /\ mapped'[q] = mapped[q]
      BY <1>3, <2>1
    <3>2. PICK j \in DOMAIN backing : seats[j].pid = q /\ backing[j] = mapped[q].fb
      BY <2>1, <3>1 DEF SeatInv, DrawsInSeat
    <3>3. j \in SeatIds
      BY <1>2 DEF SeatTyped
    <3> QED
      BY <1>1, <1>4, <3>1, <3>2, <3>3
  <2> QED
    BY <2>1 DEF DrawsInSeat
\* A seat that was active stays so unless its owner dies, and then the screen
\* is the survivor's.
<1>7. \/ /\ active' = active /\ shown_id' = shown_id
         /\ active # 0 => active \in SeatIds /\ seats'[active].pid # "none"
         /\ active = 0 => UsedSeats(seats) = {}
      \/ active' = 0 /\ UsedSeats(seats') = {}
      \/ /\ active' \in SeatIds /\ seats'[active'].pid # "none"
         /\ shown_id' = Shown(active')
  <2>0. active # 0 => active \in SeatIds /\ seats[active].pid # "none"
    BY DEF SeatInv, ScreenFollowsSeat, UsedSeats
  <2>1. CASE SeatOf(p) = {}
    <3>1. UNCHANGED <<seats, active, shown_id>>
      BY <2>1 DEF SeatOwnerExit
    <3>2. active = 0 => UsedSeats(seats) = {}
      BY DEF SeatInv, ScreenFollowsSeat
    <3> QED
      BY <2>0, <3>1, <3>2
  <2>2. CASE SeatOf(p) # {}
    <3>1. PICK i \in SeatIds : /\ seats[i].pid = p /\ seats' = [seats EXCEPT ![i] = Unowned]
                               /\ active' = Survivor(seats', i)
                               /\ shown_id' = ShownAfter(active')
      BY <2>2 DEF SeatOwnerExit, SeatOf
    <3>2. active # 0
      BY <1>1, <3>1 DEF SeatInv, ScreenFollowsSeat, UsedSeats
    <3>3. CASE active # i
      <4>1. active' = active /\ shown_id' = shown_id
        BY <3>1, <3>3 DEF Survivor, ShownAfter
      <4>2. active \in SeatIds /\ seats'[active] = seats[active] /\ seats[active].pid # "none"
        BY <1>2, <2>0, <3>1, <3>2, <3>3 DEF SeatTyped
      <4> QED
        BY <3>2, <4>1, <4>2
    <3>4. CASE active = i /\ UsedSeats(seats') = {}
      BY <3>1, <3>4 DEF Survivor
    <3>5. CASE active = i /\ UsedSeats(seats') # {}
      <4>1. active' = Lowest(UsedSeats(seats'))
        BY <3>1, <3>5 DEF Survivor
      <4>2. UsedSeats(seats') \subseteq SeatIds
        BY DEF UsedSeats
      <4>3. active' \in UsedSeats(seats')
        BY <3>5, <4>1, <4>2, LowestIn
      <4>4. active' \in SeatIds /\ seats'[active'].pid # "none"
        BY <4>3 DEF UsedSeats
      <4>5. active' # active /\ active' > 0
        BY <1>2, <1>4, <3>1, <3>5, <4>4
      <4> QED
        BY <3>1, <4>4, <4>5 DEF ShownAfter
    <3> QED
      BY <3>3, <3>4, <3>5
  <2> QED
    BY <2>1, <2>2
<1>8. \A j \in SeatIds : seats'[j].pid # "none" /\ mapped'[seats'[j].pid].fb # 0 =>
          /\ seats'[j] = seats[j] /\ mapped'[seats[j].pid] = mapped[seats[j].pid]
          /\ j \in DOMAIN backing /\ backing[j] = mapped[seats[j].pid].fb
  <2>1. ASSUME NEW j \in SeatIds, seats'[j].pid # "none", mapped'[seats'[j].pid].fb # 0
        PROVE  /\ seats'[j] = seats[j] /\ mapped'[seats[j].pid] = mapped[seats[j].pid]
               /\ j \in DOMAIN backing /\ backing[j] = mapped[seats[j].pid].fb
    <3>1. seats'[j] = seats[j] /\ seats[j].pid # p /\ seats[j].pid \in Clients
      BY <1>4, <2>1
    <3>2. mapped'[seats[j].pid] = mapped[seats[j].pid]
      BY <1>3, <3>1
    <3> QED
      BY <2>1, <3>1, <3>2, OwnerDraws
  <2> QED
    BY <2>1
<1>9. ScreenFollowsSeat'
  <2>1. CASE /\ active' = active /\ shown_id' = shown_id
             /\ active # 0 => active \in SeatIds /\ seats'[active].pid # "none"
             /\ active = 0 => UsedSeats(seats) = {}
    <3>1. CASE active = 0
      <4>1. UsedSeats(seats') = {}
        BY <1>4, <2>1, <3>1 DEF UsedSeats
      <4> QED
        BY <2>1, <3>1, <4>1 DEF ScreenFollowsSeat
    <3>2. CASE active # 0
      <4>1. mapped'[seats'[active].pid].fb # 0 =>
                shown_id = active /\ backing[active] = mapped'[seats'[active].pid].fb
        BY <1>8, <2>1, <3>2 DEF SeatInv, ScreenFollowsSeat
      <4> QED
        BY <1>1, <2>1, <3>2, <4>1 DEF ScreenFollowsSeat, UsedSeats
    <3> QED
      BY <3>1, <3>2
  <2>2. CASE active' = 0 /\ UsedSeats(seats') = {}
    BY <2>2 DEF ScreenFollowsSeat
  <2>3. CASE /\ active' \in SeatIds /\ seats'[active'].pid # "none"
             /\ shown_id' = Shown(active')
    <3>1. mapped'[seats'[active'].pid].fb # 0 =>
              shown_id' = active' /\ backing[active'] = mapped'[seats'[active'].pid].fb
      BY <1>8, <2>3 DEF Shown
    <3>2. active' # 0
      BY <1>2, <2>3
    <3> QED
      BY <1>1, <2>3, <3>1, <3>2 DEF ScreenFollowsSeat, UsedSeats
  <2> QED
    BY <1>7, <2>1, <2>2, <2>3
<1>10. SeatTyped'
  <2>1. active' \in 0 .. SEAT_MAX
    BY <1>2, <1>7 DEF SeatTyped
  <2> QED
    BY <1>1, <1>2, <1>3, <1>4, <2>1 DEF SeatTyped
<1> QED
  BY <1>5, <1>6, <1>9, <1>10 DEF SeatInv

\* Every step keeps it; it holds at the start.
LEMMA SeatStep ==
    ASSUME SeatInv, [SeatNext]_seatVars
    PROVE  SeatInv'
<1>1. CASE \E p \in Clients, i \in SeatIds : GfxAcquire(p, i)
  BY <1>1, AcquireStep
<1>2. ASSUME NEW p \in Clients, AcquireRefused(p) PROVE SeatInv'
  <2>1. /\ UNCHANGED <<seats, active, shown_id, backing, mapped>> /\ fbs < MaxFbs /\ fbs' = fbs + 1
    BY <1>2 DEF AcquireRefused
  <2>2. fbs' \in 0 .. MaxFbs /\ \A n \in 1 .. fbs : n \in 1 .. fbs'
    BY <2>1, SeatAssumption DEF SeatInv, SeatTyped
  <2>3. SeatTyped'
    BY <2>1, <2>2 DEF SeatInv, SeatTyped
  <2> QED
    BY <2>1, <2>3 DEF SeatInv, SeatsApart, DrawsInSeat, ScreenFollowsSeat, UsedSeats
<1>3. CASE \E i \in SeatIds : SeatSwitch(i)
  BY <1>3, SwitchStep
<1>4. CASE \E p \in Clients : SeatOwnerExit(p)
  BY <1>4, OwnerExitStep
<1>5. CASE UNCHANGED seatVars
  BY <1>5 DEF seatVars, SeatInv, SeatTyped, SeatsApart, DrawsInSeat, ScreenFollowsSeat, UsedSeats
<1> QED
  BY <1>1, <1>2, <1>3, <1>4, <1>5 DEF SeatNext

LEMMA SeatStart ==
    ASSUME SeatInit
    PROVE  SeatInv
<1>1. SeatTyped
  BY SeatAssumption DEF SeatInit, SeatTyped, Unowned
<1>2. \A i \in SeatIds : seats[i].pid = "none"
  BY DEF SeatInit, Unowned
<1>3. \A p \in Clients : mapped[p].fb = 0
  BY DEF SeatInit
<1>4. ScreenFollowsSeat
  BY <1>2 DEF SeatInit, ScreenFollowsSeat, UsedSeats
<1> QED
  BY <1>1, <1>2, <1>3, <1>4 DEF SeatInv, SeatsApart, DrawsInSeat

\* A process owns one seat at most, a dead one none, and draws only in the
\* frame buffer its seat shows (seat.c, seat_register and seat_release_pid).
THEOREM SeatCorrect == SeatSpec => []SeatInv
BY SeatStart, SeatStep, PTL DEF SeatSpec

\* What the owner of the input draws is what is seen, for any number of
\* clients, seats and frame buffers and any order of acquires, switches and
\* exits (seat.c).
THEOREM ScreenFollowsSeatAlways == SeatSpec => []ScreenFollowsSeat
<1>1. SeatInv => ScreenFollowsSeat
  BY DEF SeatInv
<1> QED
  BY <1>1, SeatCorrect, PTL

----------------------------------------------------------------------------
(* The collector.  Every cell that exists has words that lead to cells     *)
(* that exist: a collection keeps exactly what is within reach, so that    *)
(* even garbage leads only to garbage that is still there.                 *)

Word(R) == R \cup {Immediate}
CellsOf(R) == [car : Word(R), cdr : Word(R), mark : {FALSE}]

\* A heap in order: its cells, and what is held outside it.
Sound(h, outside) ==
    /\ IsFiniteSet(DOMAIN h) /\ DOMAIN h \subseteq Addresses
    /\ h \in [DOMAIN h -> CellsOf(DOMAIN h)]
    /\ outside \subseteq DOMAIN h

\* A stage of marking h from the roots: the words are those of h, what is
\* marked leads to what is marked or still to be looked at, and so do the roots.
Marked(m) == {a \in DOMAIN m.heap : m.heap[a].mark}
MarkState(h) ==
    [heap : [DOMAIN h -> [car : Word(DOMAIN h), cdr : Word(DOMAIN h), mark : BOOLEAN]],
     todo : SUBSET Word(DOMAIN h)]
Marking(h, roots) ==
    {m \in MarkState(h) :
        /\ \A a \in DOMAIN h : m.heap[a].car = h[a].car /\ m.heap[a].cdr = h[a].cdr
        /\ roots \subseteq Word(Marked(m) \cup m.todo)
        /\ \A a \in Marked(m) : {h[a].car, h[a].cdr} \subseteq Word(Marked(m) \cup m.todo)}

\* What marking m has left to do.
LeftOf(m) == 2 * Cardinality(DOMAIN m.heap \ Marked(m)) + Cardinality(m.todo)

\* It is a number, and when it is none no word is left.
LEMMA LeftNat ==
    ASSUME NEW h, IsFiniteSet(DOMAIN h), NEW roots, NEW m \in Marking(h, roots)
    PROVE  LeftOf(m) \in Nat /\ (LeftOf(m) <= 0 => m.todo = {})
<1>1. /\ m \in MarkState(h) /\ DOMAIN m.heap = DOMAIN h /\ m.todo \in SUBSET Word(DOMAIN h)
  BY DEF Marking, MarkState
<1>2. IsFiniteSet(Word(DOMAIN h)) /\ IsFiniteSet(m.todo) /\ IsFiniteSet(DOMAIN h \ Marked(m))
  BY <1>1, FS_AddElement, FS_Subset DEF Word
<1>3. Cardinality(m.todo) \in Nat /\ Cardinality(DOMAIN h \ Marked(m)) \in Nat
  BY <1>2, FS_CardinalityType
<1> QED
  BY <1>1, <1>2, <1>3, FS_EmptySet DEF LeftOf

\* An element more at most is one more at most.
LEMMA AddOne ==
    ASSUME NEW S, NEW x, IsFiniteSet(S)
    PROVE  /\ IsFiniteSet(S \cup {x}) /\ Cardinality(S) \in Nat /\ Cardinality(S \cup {x}) \in Nat
           /\ Cardinality(S \cup {x}) <= Cardinality(S) + 1
<1>1. IsFiniteSet(S \cup {x}) /\ Cardinality(S) \in Nat /\ Cardinality(S \cup {x}) \in Nat
  BY FS_AddElement, FS_CardinalityType
<1>2. Cardinality(S \cup {x}) = IF x \in S THEN Cardinality(S) ELSE Cardinality(S) + 1
  BY FS_AddElement
<1> QED
  BY <1>1, <1>2

\* A word looked at keeps all that and leaves less to do.
LEMMA MarkOneStep ==
    ASSUME NEW h, IsFiniteSet(DOMAIN h), Immediate \notin DOMAIN h,
           NEW roots, NEW m \in Marking(h, roots)
    PROVE  /\ MarkOne(m) \in Marking(h, roots)
           /\ m.todo = {} => MarkOne(m).todo = {}
           /\ m.todo # {} => LeftOf(MarkOne(m)) <= LeftOf(m) - 1
<1> DEFINE D == DOMAIN h
           a == CHOOSE v \in m.todo : TRUE
           o == MarkOne(m)
<1>1. /\ m \in MarkState(h) /\ m.heap \in [D -> [car : Word(D), cdr : Word(D), mark : BOOLEAN]]
      /\ m.todo \in SUBSET Word(D) /\ DOMAIN m.heap = D
      /\ m = [heap |-> m.heap, todo |-> m.todo]
  BY DEF Marking, MarkState
<1>2. /\ \A b \in D : m.heap[b].car = h[b].car /\ m.heap[b].cdr = h[b].cdr
      /\ roots \subseteq Word(Marked(m) \cup m.todo)
      /\ \A b \in Marked(m) : {h[b].car, h[b].cdr} \subseteq Word(Marked(m) \cup m.todo)
  BY DEF Marking
<1>3. IsFiniteSet(Word(D)) /\ IsFiniteSet(m.todo) /\ IsFiniteSet(D \ Marked(m))
  BY <1>1, FS_AddElement, FS_Subset DEF Word
<1>4. Cardinality(m.todo) \in Nat /\ Cardinality(D \ Marked(m)) \in Nat
  BY <1>3, FS_CardinalityType
<1>5. CASE m.todo = {}
  BY <1>5 DEF MarkOne
<1>6. CASE m.todo # {} /\ (a = Immediate \/ m.heap[a].mark)
  <2>1. a \in m.todo /\ o = [heap |-> m.heap, todo |-> m.todo \ {a}]
    BY <1>6, <1>1 DEF MarkOne
  <2> HIDE DEF o, a
  <2>2. a # Immediate => a \in Marked(m)
    BY <2>1, <1>1, <1>6 DEF Word, Marked
  <2>3. o.heap = m.heap /\ o.todo = m.todo \ {a} /\ Marked(o) = Marked(m) /\ o \in MarkState(h)
    BY <2>1, <1>1 DEF Marked, MarkState
  <2>4. o \in Marking(h, roots)
    <3>1. Word(Marked(o) \cup o.todo) = Word(Marked(m) \cup m.todo)
      BY <2>2, <2>3 DEF Word
    <3>2. /\ \A b \in D : o.heap[b].car = h[b].car /\ o.heap[b].cdr = h[b].cdr
          /\ roots \subseteq Word(Marked(o) \cup o.todo)
          /\ \A b \in Marked(o) : {h[b].car, h[b].cdr} \subseteq Word(Marked(o) \cup o.todo)
      BY <2>3, <3>1, <1>2
    <3> QED
      BY <2>3, <3>2 DEF Marking
  <2>5. Cardinality(o.todo) = Cardinality(m.todo) - 1
    BY <2>1, <2>3, <1>3, FS_RemoveElement
  <2> QED
    BY <1>6, <2>3, <2>4, <2>5, <1>4, <1>1 DEF LeftOf, o
<1>7. CASE m.todo # {} /\ a # Immediate /\ ~m.heap[a].mark
  <2> DEFINE w == {m.heap[a].car, m.heap[a].cdr}
  <2>1. /\ a \in m.todo
        /\ o = [heap |-> [m.heap EXCEPT ![a] = Cell(@.car, @.cdr, TRUE)],
               todo |-> (m.todo \ {a}) \cup w]
    BY <1>7, <1>1 DEF MarkOne
  <2> HIDE DEF o, a
  <2>2. a \in D /\ a \in D \ Marked(m) /\ w \subseteq Word(D) /\ w = {h[a].car, h[a].cdr}
    BY <2>1, <1>1, <1>2, <1>7 DEF Word, Marked
  <2>3. /\ o.heap \in [D -> [car : Word(D), cdr : Word(D), mark : BOOLEAN]]
        /\ o.heap[a] = [car |-> h[a].car, cdr |-> h[a].cdr, mark |-> TRUE]
        /\ \A b \in D \ {a} : o.heap[b] = m.heap[b]
        /\ o.todo = (m.todo \ {a}) \cup w
        /\ o \in MarkState(h)
    BY <2>1, <2>2, <1>1, <1>2 DEF MarkState, Cell
  <2>4. Marked(o) = Marked(m) \cup {a} /\ DOMAIN o.heap = D
    BY <2>2, <2>3, <1>1 DEF Marked
  <2>5. roots \subseteq Word(Marked(o) \cup o.todo)
    BY <1>2, <2>3, <2>4 DEF Word
  <2>6. \A b \in Marked(o) : {h[b].car, h[b].cdr} \subseteq Word(Marked(o) \cup o.todo)
    BY <1>2, <2>2, <2>3, <2>4 DEF Word
  <2>7. \A b \in D : o.heap[b].car = h[b].car /\ o.heap[b].cdr = h[b].cdr
    BY <2>3, <1>2
  <2>8. o \in Marking(h, roots)
    BY <2>3, <2>5, <2>6, <2>7 DEF Marking
  <2>9. /\ Cardinality(D \ Marked(o)) = Cardinality(D \ Marked(m)) - 1
        /\ Cardinality(D \ Marked(o)) \in Nat
    <3> DEFINE u == D \ Marked(m)
    <3>1. D \ Marked(o) = u \ {a}
      BY <2>4
    <3>2. IsFiniteSet(u) /\ a \in u
      BY <2>2, <1>3
    <3> HIDE DEF u, D
    <3>3. IsFiniteSet(u \ {a}) /\ Cardinality(u \ {a}) = Cardinality(u) - 1
      BY <3>2, FS_RemoveElement
    <3>4. Cardinality(u \ {a}) \in Nat
      BY <3>3, FS_CardinalityType
    <3> QED
      BY <3>1, <3>3, <3>4 DEF u
  <2>10. Cardinality(o.todo) <= Cardinality(m.todo) + 1 /\ Cardinality(o.todo) \in Nat
    <3> DEFINE t == m.todo \ {a}
               u == t \cup {h[a].car}
    <3>1. IsFiniteSet(t) /\ Cardinality(t) = Cardinality(m.todo) - 1
      BY <2>1, <1>3, FS_RemoveElement
    <3>2. o.todo = u \cup {h[a].cdr}
      BY <2>2, <2>3
    <3> HIDE DEF t
    <3>3. IsFiniteSet(u) /\ Cardinality(u) \in Nat /\ Cardinality(u) <= Cardinality(t) + 1
      BY <3>1, AddOne
    <3> HIDE DEF u
    <3>4. Cardinality(o.todo) \in Nat /\ Cardinality(o.todo) <= Cardinality(u) + 1
      BY <3>2, <3>3, AddOne
    <3> QED
      BY <3>1, <3>3, <3>4, <1>4
  <2>11. LeftOf(o) <= LeftOf(m) - 1
    BY <2>4, <2>9, <2>10, <1>1, <1>4 DEF LeftOf
  <2> QED
    BY <1>7, <2>8, <2>11 DEF o
<1> QED
  BY <1>5, <1>6, <1>7

\* Marking ends: when every word that could turn up has been looked at, all
\* that the roots lead to is marked, and the words are those that were there.
LEMMA MarkAllGood ==
    ASSUME NEW h, IsFiniteSet(DOMAIN h), Immediate \notin DOMAIN h,
           h \in [DOMAIN h -> CellsOf(DOMAIN h)],
           NEW roots \in SUBSET DOMAIN h
    PROVE  \E m \in Marking(h, roots) : m.todo = {} /\ MarkAll(h, roots) = m.heap
<1> DEFINE D == DOMAIN h
           start == [heap |-> h, todo |-> roots]
           S == Marking(h, roots)
           g == [p \in Nat \X S |-> MarkOne(p[2])]
           after == CHOOSE f : f = [n \in Nat |-> IF n = 0 THEN start ELSE MarkOne(f[n - 1])]
           M == 2 * Cardinality(D) + Cardinality(roots)
<1>1. start \in S /\ Marked(start) = {} /\ DOMAIN start.heap = D
  BY DEF Marking, MarkState, Marked, CellsOf, Word
<1>2. g \in [Nat \X S -> S]
  <2>1. \A m \in S : MarkOne(m) \in S
    BY MarkOneStep
  <2> QED
    BY <2>1
<1>3. PICK f : Iterates(f, S, start, g)
  <2>1. start \in S
    BY <1>1
  <2> HIDE DEF g, S, start, D, M, after
  <2> QED
    BY <2>1, <1>2, Iteration
<1>4. \A n \in Nat : f[n + 1] = MarkOne(f[n])
  <2>1. ASSUME NEW n \in Nat PROVE f[n + 1] = MarkOne(f[n])
    <3>1. <<n + 1, f[n]>> \in Nat \X S /\ <<n + 1, f[n]>>[2] = f[n]
      BY <1>3 DEF Iterates
    <3>2. g[<<n + 1, f[n]>>] = MarkOne(<<n + 1, f[n]>>[2])
      <4> HIDE DEF S
      <4> QED
        BY <3>1
    <3> HIDE DEF g, S
    <3> QED
      BY <3>1, <3>2, <1>3 DEF Iterates
  <2> QED
    BY <2>1
<1>5. f = [n \in Nat |-> IF n = 0 THEN start ELSE MarkOne(f[n - 1])]
  <2>1. ASSUME NEW n \in Nat, n # 0 PROVE f[n] = MarkOne(f[n - 1])
    <3>1. n - 1 \in Nat /\ (n - 1) + 1 = n
      BY <2>1
    <3> QED
      BY <3>1, <1>4
  <2> QED
    BY <2>1, <1>3 DEF Iterates
<1>6. after = [n \in Nat |-> IF n = 0 THEN start ELSE MarkOne(after[n - 1])]
  BY <1>5
<1>7. MarkAll(h, roots) = after[M].heap
  BY DEF MarkAll
<1> HIDE DEF after
<1>8. after[0] = start /\ \A n \in Nat : after[n + 1] = MarkOne(after[n])
  <2>1. after[0] = start
    BY <1>6
  <2>2. ASSUME NEW n \in Nat PROVE after[n + 1] = MarkOne(after[n])
    <3>1. n + 1 \in Nat /\ n + 1 # 0 /\ (n + 1) - 1 = n
      OBVIOUS
    <3> QED
      BY <3>1, <1>6
  <2> QED
    BY <2>1, <2>2
<1>9. IsFiniteSet(roots) /\ Cardinality(D) \in Nat /\ Cardinality(roots) \in Nat
  BY FS_Subset, FS_CardinalityType
<1> DEFINE T == {n \in Nat : after[n] \in S /\ (after[n].todo = {} \/ LeftOf(after[n]) <= M - n)}
<1>10. 0 \in T
  <2>1. start.heap = h /\ D \ Marked(start) = D /\ start.todo = roots
    BY <1>1
  <2>2. LeftOf(start) = M
    BY <2>1 DEF LeftOf
  <2> QED
    BY <1>1, <1>8, <1>9, <2>2
<1>11. ASSUME NEW n \in T PROVE n + 1 \in T
  <2>1. n \in Nat /\ after[n] \in S /\ after[n + 1] = MarkOne(after[n])
    BY <1>8
  <2>2. after[n + 1] \in S
    BY <2>1, MarkOneStep
  <2>3. CASE after[n].todo = {}
    BY <2>1, <2>2, <2>3, MarkOneStep
  <2>4. CASE after[n].todo # {}
    <3>1. LeftOf(after[n]) \in Int /\ LeftOf(after[n + 1]) \in Int
      BY <2>1, <2>2, LeftNat
    <3>2. LeftOf(after[n + 1]) <= LeftOf(after[n]) - 1
      BY <2>1, <2>4, MarkOneStep
    <3>3. LeftOf(after[n]) <= M - n
      BY <2>4
    <3> HIDE DEF M
    <3> QED
      BY <3>1, <3>2, <3>3, <2>1, <2>2, <1>9 DEF M
  <2> QED
    BY <2>3, <2>4
<1>12. M \in T
  <2>1. T = Nat
    <3> HIDE DEF T
    <3>1. T \in SUBSET Nat
      BY DEF T
    <3> QED
      BY <3>1, <1>10, <1>11, NatSetInduction
  <2> QED
    BY <2>1, <1>9
<1>13. after[M].todo = {}
  <2>1. after[M] \in S /\ (after[M].todo = {} \/ LeftOf(after[M]) <= M - M)
    BY <1>12
  <2> HIDE DEF M
  <2>2. M \in Nat
    BY <1>9 DEF M
  <2> QED
    BY <2>1, <2>2, LeftNat
<1> QED
  BY <1>7, <1>12, <1>13

\* What a collection keeps is a heap in order, holding the roots, and so is
\* the heap an allocation goes on with; no cell moves or changes.
LEMMA CollectedSound ==
    ASSUME Sound(cells, Roots(stack))
    PROVE  /\ Sound(Collected, Roots(stack)) /\ DOMAIN Collected \subseteq Live
           /\ Sound(AfterGc, Roots(stack)) /\ DOMAIN AfterGc \subseteq Live
<1> DEFINE h == cells
           roots == Roots(stack)
<1>1. /\ IsFiniteSet(DOMAIN h) /\ DOMAIN h \subseteq Addresses /\ Immediate \notin DOMAIN h
      /\ h \in [DOMAIN h -> CellsOf(DOMAIN h)] /\ roots \in SUBSET DOMAIN h
  BY LispGcAssumption DEF Sound, Immediate
<1>2. PICK m \in Marking(h, roots) : m.todo = {} /\ MarkAll(h, roots) = m.heap
  <2> HIDE DEF h, roots
  <2> QED
    BY <1>1, MarkAllGood
<1> DEFINE K == Marked(m)
           c == Collected
<1>3. /\ DOMAIN m.heap = DOMAIN h /\ K = {a \in DOMAIN h : m.heap[a].mark}
      /\ \A a \in DOMAIN h : m.heap[a].car = h[a].car /\ m.heap[a].cdr = h[a].cdr
      /\ roots \subseteq Word(K)
      /\ \A a \in K : {h[a].car, h[a].cdr} \subseteq Word(K)
  BY <1>2 DEF Marking, MarkState, Marked
<1>4. c = [a \in K |-> Cell(m.heap[a].car, m.heap[a].cdr, FALSE)]
  BY <1>2, <1>3 DEF Collected, Swept
<1> HIDE DEF c, K
<1>5. DOMAIN c = K /\ K \subseteq DOMAIN h /\ roots \subseteq K
  BY <1>1, <1>3, <1>4 DEF Word
<1>6. c \in [K -> CellsOf(K)]
  BY <1>3, <1>4, <1>5 DEF Cell, CellsOf
<1>7. IsFiniteSet(K)
  BY <1>1, <1>5, FS_Subset
<1>8. Sound(c, roots) /\ DOMAIN c \subseteq Live
  BY <1>1, <1>5, <1>6, <1>7 DEF Sound, Live
<1> QED
  BY <1>8 DEF AfterGc, Live, c

\* All there is to be reached exists.
LEMMA SoundIsEnough ==
    ASSUME Sound(cells, Roots(stack))
    PROVE  NothingReachableFreed
<1>1. Holds(cells, Roots(stack), Live)
  BY DEF Sound, Holds, Words, Live, CellsOf, Word
<1> QED
  BY <1>1 DEF NothingReachableFreed

\* A new cell, whose words were held, joins a heap in order.
LEMMA PlacedSound ==
    ASSUME Sound(cells, Roots(stack)), NEW a \in Addresses, NEW car \in Values, NEW cdr \in Values,
           Placed(a, car, cdr), symtab' \subseteq symtab \cup {a}
    PROVE  Sound(cells, Roots(stack))'
<1> DEFINE h == AfterGc
           D == DOMAIN h
<1>1. Sound(h, Roots(stack))
  BY CollectedSound
<1>2. /\ a \notin D
      /\ cells' = [b \in D \cup {a} |-> IF b = a THEN Cell(car, cdr, FALSE) ELSE h[b]]
      /\ stack' = stack \cup {a} /\ plists' = plists
  BY DEF Placed
<1>3. IsFiniteSet(D) /\ D \subseteq Addresses /\ h \in [D -> CellsOf(D)] /\ Roots(stack) \subseteq D
  BY <1>1 DEF Sound
<1> HIDE DEF h
<1>4. DOMAIN cells' = D \cup {a} /\ IsFiniteSet(D \cup {a})
  BY <1>2, <1>3, FS_AddElement
<1>5. Cell(car, cdr, FALSE) \in CellsOf(D \cup {a})
  BY <1>3 DEF Cell, CellsOf, Word, Values, Roots
<1>6. \A b \in D : h[b] \in CellsOf(D \cup {a})
  BY <1>3 DEF CellsOf, Word
<1>7. cells' \in [D \cup {a} -> CellsOf(D \cup {a})]
  BY <1>2, <1>5, <1>6
<1>8. Roots(stack)' \subseteq D \cup {a}
  BY <1>2, <1>3 DEF Roots
<1> QED
  BY <1>3, <1>4, <1>7, <1>8 DEF Sound

\* A word of a cell becomes one that was held.
LEMMA StoreSound ==
    ASSUME Sound(cells, Roots(stack)), Store
    PROVE  Sound(cells, Roots(stack))'
<1>1. PICK a \in stack, v \in Values :
        \/ cells' = [cells EXCEPT ![a] = Cell(v, @.cdr, @.mark)]
        \/ cells' = [cells EXCEPT ![a] = Cell(@.car, v, @.mark)]
  BY DEF Store
<1>2. /\ IsFiniteSet(Live) /\ Live \subseteq Addresses /\ cells \in [Live -> CellsOf(Live)]
      /\ Roots(stack) \subseteq Live
  BY DEF Sound, Live
<1>3. a \in Live /\ v \in Word(Live) /\ cells[a] \in CellsOf(Live)
  BY <1>2 DEF Values, Word, Roots
<1>4. /\ Cell(v, cells[a].cdr, cells[a].mark) \in CellsOf(Live)
      /\ Cell(cells[a].car, v, cells[a].mark) \in CellsOf(Live)
  BY <1>3 DEF Cell, CellsOf
<1>5. DOMAIN cells' = Live /\ cells' \in [Live -> CellsOf(Live)]
  BY <1>1, <1>2, <1>4
<1>6. Roots(stack)' = Roots(stack)
  BY DEF Store, Roots
<1> QED
  BY <1>2, <1>5, <1>6 DEF Sound

\* Every step of the evaluator or the collector keeps the heap in order.
LEMMA GcStep ==
    ASSUME Sound(cells, Roots(stack)), [GcNext]_gcVars
    PROVE  Sound(cells, Roots(stack))'
<1> DEFINE Kept == cells' = cells /\ Roots(stack)' \subseteq Live
<1>1. ASSUME NEW a \in Addresses, NEW car \in Values, NEW cdr \in Values, MakeCons(a, car, cdr)
      PROVE  Sound(cells, Roots(stack))'
  BY <1>1, PlacedSound DEF MakeCons
<1>2. ASSUME NEW a \in Addresses, Intern(a)
      PROVE  Sound(cells, Roots(stack))'
  <2>1. Immediate \in Values
    BY DEF Values
  <2> QED
    BY <1>2, <2>1, PlacedSound DEF Intern
<1>3. CASE Interrupted
  <2>1. cells' = AfterGc /\ Roots(stack)' \subseteq Roots(stack)
    BY <1>3 DEF Interrupted, Roots
  <2> QED
    BY <2>1, CollectedSound DEF Sound
<1>4. CASE CallGc
  <2>1. cells' = Collected /\ Roots(stack)' = Roots(stack)
    BY <1>4 DEF CallGc, Roots
  <2> QED
    BY <2>1, CollectedSound DEF Sound
<1>5. CASE Load
  <2>1. PICK v \in symtab \cup plists \cup UNION {{cells[a].car, cells[a].cdr} : a \in stack} :
          v # Immediate /\ stack' = stack \cup {v}
    BY <1>5 DEF Load
  <2>2. Roots(stack) \subseteq Live /\ cells \in [Live -> CellsOf(Live)] /\ stack \subseteq Live
    BY DEF Sound, Live, Roots
  <2>3. v \in Live
    <3>1. CASE v \in symtab \cup plists
      BY <3>1, <2>2 DEF Roots
    <3>2. CASE \E a \in stack : v \in {cells[a].car, cells[a].cdr}
      <4>1. PICK a \in stack : v \in {cells[a].car, cells[a].cdr}
        BY <3>2
      <4>2. cells[a] \in CellsOf(Live)
        BY <2>2
      <4>3. v \in Word(Live)
        BY <4>1, <4>2 DEF CellsOf
      <4> QED
        BY <4>3, <2>1 DEF Word
    <3> QED
      BY <2>1, <3>1, <3>2
  <2>4. Kept
    BY <1>5, <2>1, <2>2, <2>3 DEF Load, Roots
  <2> QED
    BY <2>4 DEF Sound, Live
<1>6. CASE Store
  BY <1>6, StoreSound
<1>7. CASE Return \/ DropTextProp \/ PutTextProp \/ UNCHANGED gcVars
  <2>1. Roots(stack) \subseteq Live
    BY DEF Sound, Live
  <2>2. cells' = cells /\ Roots(stack)' \subseteq Roots(stack)
    BY <1>7 DEF Return, DropTextProp, PutTextProp, gcVars, Roots
  <2> QED
    BY <2>1, <2>2 DEF Sound, Live
<1> QED
  BY <1>1, <1>2, <1>3, <1>4, <1>5, <1>6, <1>7 DEF GcNext

\* What the evaluator can get at by following words from the obarray, the
\* buffers' text and its own locals is never freed, for any number of cells
\* and any sharing and cycles among them, wherever collections fall between
\* its steps (lm_core.c, gc_alloc and gc_collect).
THEOREM NothingReachableFreedAlways == GcSpec => []NothingReachableFreed
<1>1. GcInit => Sound(cells, Roots(stack))
  BY FS_EmptySet DEF GcInit, Sound, Roots
<1>2. Sound(cells, Roots(stack)) /\ [GcNext]_gcVars => Sound(cells, Roots(stack))'
  BY GcStep
<1> QED
  BY <1>1, <1>2, SoundIsEnough, PTL DEF GcSpec

=============================================================================
