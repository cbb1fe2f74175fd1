----------------------------- MODULE Redisplay -----------------------------
(***************************************************************************)
(* Redisplay of a frame with one window, src/rd_core.c 797-1164: the text  *)
(* of a buffer from the window's start line on, the modeline, the echo     *)
(* area whose height follows its content, and the cursor are laid out in   *)
(* the back grid; cells that differ from the front grid are painted in the *)
(* frame buffer, and one rectangle for each run of them is flushed.  Lines *)
(* are truncated; faces, line wrap and canvases are left out.              *)
(***************************************************************************)
EXTENDS Integers, Sequences, FiniteSets, SequencesExt

CONSTANTS
    Glyphs,        \* characters; "nl" ends a line
    COLS, ROWS,    \* f->cols, f->rows
    EchoLines,     \* how many lines the echo area may show
    MaxText,       \* bound on the text
    RD_MAX_RECTS

ASSUME RedisplayAssumption ==
    /\ {COLS, ROWS, RD_MAX_RECTS} \subseteq Nat \ {0}
    /\ 1 \in EchoLines /\ EchoLines \subseteq 1 .. ROWS - 2

VARIABLES
    body, dot,     \* the buffer's text and point
    top_line,      \* the window's start line
    elines,        \* lines in the echo area
    front,         \* the grid as it was painted last
    cur_p,         \* the cell of the cursor then
    fb,            \* what is painted in each cell of the frame buffer
    panel,         \* what the display shows of each cell
    current,       \* nothing has changed since the last redisplay
    spilled        \* some frame had a run without a slot that ended before the right edge

rdVars == <<body, dot, top_line, elines, front, cur_p, fb, panel, current, spilled>>

Cells == (0 .. COLS - 1) \X (0 .. ROWS - 1)
Hidden == <<-1, -1>>

RdInit ==
    /\ body = <<>> /\ dot = 0 /\ top_line = 0
    /\ elines = 1                          \* f->echo is empty
    /\ front = <<>>                        \* ch 0xFF: no cell matches it
    /\ cur_p = Hidden
    /\ fb = <<>> /\ panel = <<>>           \* nothing painted, nothing shown
    /\ current = FALSE /\ spilled = FALSE

----------------------------------------------------------------------------
(* Layout.                                                                 *)

text_rows == ROWS - elines - 1

NewlinesBefore(p) == Cardinality({i \in 1 .. p : body[i] = "nl"})

\* The start line is nudged until point's line is in the window.
Scrolled ==
    LET l == NewlinesBefore(dot)
    IN IF top_line > l THEN l
       ELSE IF l >= top_line + text_rows THEN l - text_rows + 1 ELSE top_line

\* The walk to the start of line n from position p in line l: the position,
\* or the end of the text when there are fewer lines.
RECURSIVE LineStart(_, _, _)
LineStart(n, l, p) ==
    IF l < n /\ p < Len(body)
    THEN LineStart(n, IF body[p + 1] = "nl" THEN l + 1 ELSE l, p + 1) ELSE p

\* The position after the last character of the line that p is in.
RECURSIVE LineEnd(_)
LineEnd(p) == IF p < Len(body) /\ body[p + 1] # "nl" THEN LineEnd(p + 1) ELSE p

\* Character col of line n, or the blank after it.
LineCell(n, col) ==
    LET p == LineStart(n, 0, 0)
    IN IF NewlinesBefore(p) = n /\ p + col < LineEnd(p) THEN body[p + col + 1] ELSE " "

\* layout_leaf and rd_layout, when the window starts at line top.
Back(top) ==
    [c \in Cells |->
       CASE c[2] < text_rows -> LineCell(top + c[2], c[1])
         [] c[2] = text_rows -> "-"
         [] c[2] > text_rows -> "echo"]

CursorAt(top) ==
    LET l == NewlinesBefore(dot)
        col == dot - LineStart(l, 0, 0)
    IN IF col < COLS THEN <<col, l - top>> ELSE Hidden

----------------------------------------------------------------------------
(* Paint and diff.                                                         *)

Differs(back, c) == c \notin DOMAIN front \/ back[c] # front[c]

\* Mutant: a cell that the cursor has left is not painted again.
ChangedIgnoringOld(back, cursor, c) == Differs(back, c) \/ c = cursor

Altered(back, cursor, c) == Differs(back, c) \/ (c = cursor) # (c = cur_p)

\* A run of altered cells of a row, from the left edge up to the right one.
RunsOf(cells, row) ==
    {<<x1, x2>> \in (0 .. COLS - 1) \X (1 .. COLS) :
       /\ x1 < x2
       /\ \A x \in x1 .. x2 - 1 : <<x, row>> \in cells
       /\ <<x1 - 1, row>> \notin cells /\ <<x2, row>> \notin cells}

\* The damage rectangles, row by row; beyond RD_MAX_RECTS the last one grows.
Grow(r, x1, x2, row) ==
    LET x == IF x1 < r.x THEN x1 ELSE r.x
    IN [r EXCEPT !.x = x, !.h = row + 1 - r.y, !.w = IF x + @ < x2 THEN x2 - x ELSE @]
Damage(rects, x1, x2, row) ==
    IF Len(rects) < RD_MAX_RECTS THEN Append(rects, [x |-> x1, y |-> row, w |-> x2 - x1, h |-> 1])
    ELSE [rects EXCEPT ![RD_MAX_RECTS] = Grow(@, x1, x2, row)]

RECURSIVE Damaged(_, _)
Damaged(rects, runs) ==
    IF runs = <<>> THEN rects
    ELSE Damaged(Damage(rects, Head(runs)[1], Head(runs)[2], Head(runs)[3]), Tail(runs))

InOrder(r, s) == r[3] < s[3] \/ (r[3] = s[3] /\ r[1] < s[1])
Runs(cells) ==
    SetToSortSeq(UNION {{<<run[1], run[2], row>> : run \in RunsOf(cells, row)} : row \in 0 .. ROWS - 1}, InOrder)

Spills(runs) == \E i \in DOMAIN runs : i > RD_MAX_RECTS /\ runs[i][2] < COLS

Covers(r, c) == c[1] \in r.x .. r.x + r.w - 1 /\ c[2] \in r.y .. r.y + r.h - 1

\* (redisplay): the cells are painted, then the rectangles are flushed.
RdRedisplay ==
    /\ ~current /\ current' = TRUE
    /\ \E top \in {Scrolled} : \E back \in {Back(top)}, cursor \in {CursorAt(top)} :
       \E cells \in {{c \in Cells : Altered(back, cursor, c)}} : \E runs \in {Runs(cells)} :
       \E rects \in {Range(Damaged(<<>>, runs))} :
         /\ top_line' = top
         /\ front' = back
         /\ cur_p' = cursor
         /\ spilled' = (spilled \/ Spills(runs))
         /\ fb' = [c \in Cells |-> IF c \in cells THEN [ch |-> back[c], inverse |-> c = cursor] ELSE fb[c]]
         /\ \E flushed \in {{c \in Cells : \E r \in rects : Covers(r, c)}} :
              panel' = [c \in flushed \cup DOMAIN panel |->
                          IF c \in flushed THEN fb'[c] ELSE panel[c]]
    /\ UNCHANGED <<body, dot, elines>>

----------------------------------------------------------------------------
(* Between two redisplays: editing, moving, messages.                      *)

Edit(b, p) ==
    /\ body' = b /\ dot' = p /\ current' = FALSE
    /\ UNCHANGED <<top_line, elines, front, cur_p, fb, panel, spilled>>

RdInsert(g) == Len(body) < MaxText /\ Edit(InsertAt(body, dot + 1, g), dot + 1)
RdDelete == dot > 0 /\ Edit(RemoveAt(body, dot), dot - 1)
RdMove(p) == p \in 0 .. Len(body) /\ Edit(body, p)

RdEcho(n) ==
    /\ elines' = n /\ current' = FALSE
    /\ UNCHANGED <<body, dot, top_line, front, cur_p, fb, panel, spilled>>

RdNext ==
    \/ \E g \in Glyphs : RdInsert(g)
    \/ RdDelete
    \/ \E p \in 0 .. MaxText : RdMove(p)
    \/ \E n \in EchoLines : RdEcho(n)
    \/ RdRedisplay

----------------------------------------------------------------------------
\* The lines of the text: line n is what lies between two line ends.
Breaks == {0} \cup {i \in DOMAIN body : body[i] = "nl"}
TextLine(n) ==
    LET before == {i \in Breaks : Cardinality({j \in Breaks : j < i}) = n}
        after == {i \in Breaks \cup {Len(body) + 1} : \E j \in before : i > j}
    IN IF before = {} THEN <<>>
       ELSE LET i == CHOOSE j \in before : TRUE
                e == CHOOSE j \in after : \A k \in after : j <= k
            IN SubSeq(body, i + 1, e - 1)

\* "make the screen match the model" (lm_gfx.c:558): however many edits, moves
\* and changes of the echo area's height came between, and whatever scrolled,
\* the frame buffer holds after a redisplay consecutive lines of the text, cut
\* or filled with blanks, point's line among them, with exactly one inverted
\* cell, where point is, or none if that is beyond the edge; nothing painted
\* before shines through.  The display shows the same, frames with more runs
\* than slots included, as long as every run without a slot went to the right
\* edge.  After one that did not, only the frame buffer is right: the rectangle
\* grown for it may have lost its right end (rd_core.c:1125).
ScreenIsText ==
    current =>
      LET line == NewlinesBefore(dot)
          col == Cardinality({i \in 1 .. dot : \A j \in i .. dot : body[j] # "nl"})
      IN /\ spilled \/ panel = fb
         /\ DOMAIN fb = Cells
         /\ \E top \in 0 .. line :
              /\ line < top + text_rows
              /\ \A c \in Cells :
                   /\ fb[c].inverse <=> c = <<col, line - top>>
                   /\ fb[c].ch =
                        CASE c[2] >= text_rows -> Back(top)[c]
                          [] c[2] < text_rows -> IF c[1] < Len(TextLine(top + c[2]))
                                                 THEN TextLine(top + c[2])[c[1] + 1] ELSE " "
=============================================================================
