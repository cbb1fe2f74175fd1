------------------------------- MODULE Memory -------------------------------
(***************************************************************************)
(* What the address spaces promise to user programs.  Every space has its  *)
(* own image; fork copies it; a store changes the storing space only,      *)
(* unless the page belongs to a shared-memory object, which all its        *)
(* mappings see.  A page comes into an image only where none was, and only *)
(* munmap, exit and exec take it away.  Frames, reference counts,          *)
(* copy-on-write and the TLB do not appear here.                           *)
(***************************************************************************)
CONSTANTS Spaces, Va, Values, Objs, Zero

VARIABLES
    live,     \* address spaces in existence
    image,    \* image[s][va]: what space s has at va
    object    \* the contents of the shared-memory objects

vars == <<live, image, object>>

Unmapped == [kind |-> "unmapped"]
Own(v) == [kind |-> "own", value |-> v]
Shared(o) == [kind |-> "shared", obj |-> o]
Absent == [kind |-> "absent"]

Init ==
    /\ live = {}
    /\ image = [s \in Spaces |-> [va \in Va |-> Unmapped]]
    /\ object = [o \in Objs |-> Absent]

Start(s, im) ==
    /\ s \notin live
    /\ live' = live \cup {s}
    /\ image' = [image EXCEPT ![s] = im]
    /\ UNCHANGED object

Fork(p, c) ==
    /\ p \in live /\ c \notin live
    /\ live' = live \cup {c}
    /\ image' = [image EXCEPT ![c] = image[p]]
    /\ UNCHANGED object

Exit(s) ==
    /\ s \in live
    /\ live' = live \ {s}
    /\ image' = [image EXCEPT ![s] = [va \in Va |-> Unmapped]]
    /\ UNCHANGED object

Store(s, va, v) ==
    /\ s \in live
    /\ \/ /\ image[s][va].kind = "own"
          /\ image' = [image EXCEPT ![s][va] = Own(v)]
          /\ UNCHANGED object
       \/ /\ image[s][va].kind = "shared"
          /\ object' = [object EXCEPT ![image[s][va].obj] = Own(v)]
          /\ UNCHANGED image
    /\ UNCHANGED live

\* sbrk and mmap, also when memory runs out half-way.
Grow(s, vas) ==
    /\ s \in live
    /\ \A va \in vas : image[s][va] = Unmapped
    /\ image' = [image EXCEPT ![s] = [va \in Va |-> IF va \in vas THEN Own(Zero) ELSE @[va]]]
    /\ UNCHANGED <<live, object>>

Attach(s, va, o) ==
    /\ s \in live
    /\ image[s][va] = Unmapped /\ object[o] # Absent
    /\ image' = [image EXCEPT ![s][va] = Shared(o)]
    /\ UNCHANGED <<live, object>>

Unmap(s, vas) ==
    /\ s \in live
    /\ image' = [image EXCEPT ![s] = [va \in Va |-> IF va \in vas THEN Unmapped ELSE @[va]]]
    /\ UNCHANGED <<live, object>>

NewObject(o) ==
    /\ object[o] = Absent
    /\ object' = [object EXCEPT ![o] = Own(Zero)]
    /\ UNCHANGED <<live, image>>

\* A load changes nothing, and so do the moves of frames and translations.
Load == UNCHANGED vars

Next ==
    \/ Load
    \/ \E s \in Spaces :
         \/ Exit(s)
         \/ \E va \in Va : (\E v \in Values : Store(s, va, v)) \/ \E o \in Objs : Attach(s, va, o)
         \/ \E c \in Spaces : Fork(s, c)
         \/ \E vas \in SUBSET Va : Grow(s, vas) \/ Unmap(s, vas)
         \/ \E im \in [Va -> {Unmapped} \cup {Own(v) : v \in Values}] : Start(s, im)
    \/ \E o \in Objs : NewObject(o)

Spec == Init /\ [][Next]_vars
=============================================================================
