-------------------------------- MODULE Pty --------------------------------
(***************************************************************************)
(* A pseudo-terminal, src/pty.c: keystrokes go from the master through the *)
(* line discipline to the slave's readers, output and echo go back to the  *)
(* terminal emulator.  Both rings drop what they have no room for; readers *)
(* sleep on the ring's count.  No call is preempted, so a write of several *)
(* bytes is several writes of one, and the only interleaving is at the     *)
(* sleeps of the two reads.                                                *)
(***************************************************************************)
EXTENDS Integers, Sequences, SequencesExt, Functions

CONSTANTS
    MasterReaders, SlaveReaders, \* processes reading each end
    Keys,        \* what may be typed: "nl" and ordinary characters, "erase", "eof", "intr"
    Prints,      \* what programs write
    Modes,       \* termios settings programs ask for, as sets of flags
    PTY_BUF, PTY_LINE,
    MaxTyped     \* bound on the bytes written into either end

ASSUME PtyAssumption ==
    /\ MasterReaders \cap SlaveReaders = {}
    /\ {PTY_BUF, PTY_LINE} \subseteq Nat \ {0}
    /\ Keys \cap {"bs", "cr"} = {}    \* a typed "bs" is "erase", "cr" is "nl"

VARIABLES
    tio,         \* the flags set in p->tio
    line,        \* line[0..line_len): the pending cooked line
    ibuf, obuf,  \* the rings, oldest byte first
    fg_pgrp,     \* a foreground group is set; the slave's readers are in it
    openEnds,    \* the ends that are open
    at,          \* of each reader: "user", "blocked" (sched_block) or "ready" again
    typed,       \* bytes written so far
    screen       \* the emulator's current line; faithful: echo alone made all of it

ptyVars == <<tio, line, ibuf, obuf, fg_pgrp, openEnds, at, typed, screen>>

Cooked == {"ISIG", "ICANON", "ECHO", "ONLCR"}
PtyReaders == MasterReaders \cup SlaveReaders
BlankScreen == [text |-> <<>>, col |-> 0, faithful |-> TRUE]

PtyInit ==
    /\ tio = Cooked
    /\ line = <<>> /\ ibuf = <<>> /\ obuf = <<>>
    /\ fg_pgrp = FALSE
    /\ openEnds = {"master", "slave"}
    /\ at = [p \in PtyReaders |-> "user"]
    /\ typed = 0
    /\ screen = BlankScreen

----------------------------------------------------------------------------
\* ring_push of each byte in turn: the bytes there is no room for are lost.
Overflows(ring, bytes) == Len(ring \o bytes) > PTY_BUF
Pushed(ring, bytes) ==
    IF Overflows(ring, bytes) THEN SubSeq(ring \o bytes, 1, PTY_BUF) ELSE ring \o bytes

\* sched_wake on the count of a ring, and a signal to every reader of it.
Awake(ps) == [p \in PtyReaders |-> IF p \in ps /\ at[p] = "blocked" THEN "ready" ELSE at[p]]

\* The echo of a key, and whether the line on the screen is echo alone: what
\* is lost, typed without echo or printed by a program is not.
Echo(bytes, faithful) ==
    /\ obuf' = IF "ECHO" \in tio THEN Pushed(obuf, bytes) ELSE obuf
    /\ at' = Awake(IF "ECHO" \in tio THEN MasterReaders ELSE {})
    /\ screen' = [screen EXCEPT !.faithful =
                    faithful /\ "ECHO" \in tio /\ ~Overflows(obuf, bytes)]

NoEcho == UNCHANGED <<obuf, screen>>
Echoed(c) == IF c = "nl" THEN <<"cr", "nl">> ELSE <<c>>

\* commit_line, with the bytes that end the line.
Commit(ending) == ibuf' = Pushed(ibuf, line \o ending) /\ line' = <<>>

TypeIntr ==
    /\ "ISIG" \in tio
    /\ at' = Awake(IF fg_pgrp THEN SlaveReaders ELSE {})
    /\ UNCHANGED <<line, ibuf>> /\ NoEcho

TypeErase ==
    /\ IF line = <<>> THEN at' = at /\ NoEcho ELSE Echo(<<"bs", " ", "bs">>, screen.faithful)
    /\ line' = SubSeq(line, 1, Len(line) - 1)
    /\ UNCHANGED ibuf

TypeEof ==
    /\ Commit(<<>>)
    /\ at' = Awake(SlaveReaders)
    /\ NoEcho

\* The new line is committed and wakes the slave; its echo wakes the master.
TypeNewline ==
    /\ Commit(IF Len(line) < PTY_LINE THEN <<"nl">> ELSE <<>>)
    /\ at' = Awake(SlaveReaders \cup (IF "ECHO" \in tio THEN MasterReaders ELSE {}))
    /\ obuf' = IF "ECHO" \in tio THEN Pushed(obuf, Echoed("nl")) ELSE obuf
    /\ screen' = [screen EXCEPT !.faithful = "ECHO" \in tio /\ ~Overflows(obuf, Echoed("nl"))]

\* Mutant: a character beyond the edit buffer is echoed all the same.
TypeCharEchoed(c) ==
    /\ Echo(<<c>>, screen.faithful)
    /\ line' = IF Len(line) < PTY_LINE - 1 THEN Append(line, c) ELSE line
    /\ UNCHANGED ibuf

TypeChar(c) ==
    /\ IF Len(line) < PTY_LINE - 1
       THEN Echo(<<c>>, screen.faithful) /\ line' = Append(line, c)
       ELSE at' = at /\ NoEcho /\ UNCHANGED line
    /\ UNCHANGED ibuf

TypeRaw(c) ==
    /\ ibuf' = Pushed(ibuf, <<c>>)
    /\ at' = Awake(SlaveReaders \cup (IF "ECHO" \in tio THEN MasterReaders ELSE {}))
    /\ obuf' = IF "ECHO" \in tio THEN Pushed(obuf, Echoed(c)) ELSE obuf
    /\ screen' = [screen EXCEPT !.faithful = FALSE]
    /\ UNCHANGED line

\* pty_master_write of one byte.
MasterWrite(c) ==
    /\ "master" \in openEnds /\ typed < MaxTyped
    /\ typed' = typed + 1
    /\ \/ c = "intr" /\ TypeIntr
       \/ /\ c # "intr" \/ "ISIG" \notin tio
          /\ \/ "ICANON" \in tio /\ c = "erase" /\ TypeErase
             \/ "ICANON" \in tio /\ c = "eof" /\ TypeEof
             \/ "ICANON" \in tio /\ c = "nl" /\ TypeNewline
             \/ "ICANON" \in tio /\ c \notin {"erase", "eof", "nl"} /\ TypeChar(c)
             \/ "ICANON" \notin tio /\ TypeRaw(c)
    /\ UNCHANGED <<tio, fg_pgrp, openEnds>>

\* pty_slave_write of one byte.
SlaveWrite(c) ==
    LET bytes == IF c = "nl" /\ "ONLCR" \in tio THEN <<"cr", "nl">> ELSE <<c>>
    IN /\ "slave" \in openEnds /\ typed < MaxTyped
       /\ typed' = typed + 1
       /\ obuf' = Pushed(obuf, bytes)
       /\ at' = Awake(MasterReaders)
       /\ screen' = [screen EXCEPT !.faithful = FALSE]
       /\ UNCHANGED <<tio, line, ibuf, fg_pgrp, openEnds>>

\* The reads: a reader that finds the ring empty and the peer open sleeps and
\* looks again when it is woken.
SlaveRead(p) ==
    /\ "slave" \in openEnds /\ at[p] \in {"user", "ready"}
    /\ \/ /\ ibuf = <<>> /\ "master" \in openEnds
          /\ at' = [at EXCEPT ![p] = "blocked"]
          /\ UNCHANGED ibuf
       \/ /\ ibuf # <<>> \/ "master" \notin openEnds
          /\ at' = [at EXCEPT ![p] = "user"]
          /\ \E n \in 0 .. Len(ibuf) :
               (ibuf # <<>> => n > 0) /\ ibuf' = SubSeq(ibuf, n + 1, Len(ibuf))
    /\ UNCHANGED <<tio, line, obuf, fg_pgrp, openEnds, typed, screen>>

\* The terminal emulator (external) paints what it reads.
Paint(s, c) ==
    CASE c = "bs" -> [s EXCEPT !.col = IF @ > 0 THEN @ - 1 ELSE 0]
      [] c = "cr" -> [s EXCEPT !.col = 0]
      [] c = "nl" -> [s EXCEPT !.text = [i \in 1 .. s.col |-> " "]]
      [] OTHER -> [s EXCEPT !.col = @ + 1,
                            !.text = SubSeq(@, 1, s.col) \o <<c>> \o SubSeq(@, s.col + 2, Len(@))]

PaintedOn(s, bytes) ==
    LET after[n \in 0 .. Len(bytes)] == IF n = 0 THEN s ELSE Paint(after[n - 1], bytes[n])
    IN after[Len(bytes)]
Painted(bytes) == PaintedOn(screen, bytes)

MasterRead(p) ==
    /\ "master" \in openEnds /\ at[p] \in {"user", "ready"}
    /\ \/ /\ obuf = <<>> /\ "slave" \in openEnds
          /\ at' = [at EXCEPT ![p] = "blocked"]
          /\ UNCHANGED <<obuf, screen>>
       \/ /\ obuf # <<>> \/ "slave" \notin openEnds
          /\ at' = [at EXCEPT ![p] = "user"]
          /\ \E n \in 0 .. Len(obuf) :
               /\ obuf # <<>> => n > 0
               /\ screen' = Painted(SubSeq(obuf, 1, n))
               /\ obuf' = SubSeq(obuf, n + 1, Len(obuf))
    /\ UNCHANGED <<tio, line, ibuf, fg_pgrp, openEnds, typed>>

\* TCSETS on either end.
SetTermios(mode) ==
    /\ openEnds # {}
    /\ tio # mode /\ tio' = mode
    /\ screen' = [screen EXCEPT !.faithful = FALSE]
    /\ UNCHANGED <<line, ibuf, obuf, fg_pgrp, openEnds, at, typed>>

SetForeground ==
    /\ openEnds # {} /\ ~fg_pgrp /\ fg_pgrp' = TRUE
    /\ UNCHANGED <<tio, line, ibuf, obuf, openEnds, at, typed, screen>>

\* A signal ends the sleep, not the read: the loop looks again.
Signalled(p) ==
    /\ at[p] = "blocked" /\ at' = [at EXCEPT ![p] = "ready"]
    /\ UNCHANGED <<tio, line, ibuf, obuf, fg_pgrp, openEnds, typed, screen>>

ReadersOf(end) == IF end = "master" THEN MasterReaders ELSE SlaveReaders

\* Mutant: both ends wake the readers of the output ring.
PtyCloseWrongRing(end) ==
    /\ end \in openEnds /\ \A p \in ReadersOf(end) : at[p] = "user"
    /\ openEnds' = openEnds \ {end}
    /\ at' = Awake(MasterReaders)
    /\ UNCHANGED <<tio, line, ibuf, obuf, fg_pgrp, typed, screen>>

\* pty_close, by the last descriptor of an end: nobody is reading it.
PtyClose(end) ==
    /\ end \in openEnds /\ \A p \in ReadersOf(end) : at[p] = "user"
    /\ openEnds' = openEnds \ {end}
    /\ at' = Awake(PtyReaders \ ReadersOf(end))
    /\ UNCHANGED <<tio, line, ibuf, obuf, fg_pgrp, typed, screen>>

PtyNext ==
    \/ \E c \in Keys : MasterWrite(c)
    \/ \E c \in Prints : SlaveWrite(c)
    \/ \E p \in SlaveReaders : SlaveRead(p)
    \/ \E p \in MasterReaders : MasterRead(p)
    \/ \E mode \in Modes : SetTermios(mode)
    \/ SetForeground
    \/ \E p \in PtyReaders : Signalled(p)
    \/ \E end \in {"master", "slave"} : PtyClose(end)

PtySpec == PtyInit /\ [][PtyNext]_ptyVars

----------------------------------------------------------------------------
\* A process sleeps in a read only while its ring is empty and the other end
\* open, whichever of several readers took the bytes, whatever mode the
\* terminal is in and whoever closed, wrote or was signalled in between.
PtyNoLostWakeup ==
    /\ \A p \in SlaveReaders : at[p] = "blocked" => ibuf = <<>> /\ "master" \in openEnds
    /\ \A p \in MasterReaders : at[p] = "blocked" => obuf = <<>> /\ "slave" \in openEnds

\* "erase on screen: back, blank, back": once the emulator has painted what it
\* is owed, the line on the screen ends in the line being edited, and nothing
\* but blanks follows the cursor, unless echo was off, output was lost or a
\* program wrote since the line began.
EchoShowsLine ==
    LET shown == Painted(obuf)
        left == SubSeq(shown.text, 1, shown.col)
    IN screen.faithful =>
         /\ IsSuffix(line, left)
         /\ \A i \in shown.col + 1 .. Len(shown.text) : shown.text[i] = " "
=============================================================================
