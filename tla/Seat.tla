-------------------------------- MODULE Seat --------------------------------
(***************************************************************************)
(* Who owns the screen: the seats of src/seat.c, with the system calls     *)
(* that use them, the exit of an owner and the scanout of virtio_gpu.c.    *)
(* Every call runs to its end before another starts.  The device is        *)
(* external: a resource is created once, a second time is an error, and    *)
(* only a resource that exists can be put on the scanout.                  *)
(***************************************************************************)
EXTENDS Integers, FiniteSets

CONSTANTS
    Clients,     \* processes that use the display; a pid is never used again
    SEAT_MAX,
    MaxFbs       \* frame buffers that fit in memory

ASSUME SeatAssumption ==
    /\ SEAT_MAX \in Nat \ {0} /\ MaxFbs \in Nat
    /\ "none" \notin Clients

VARIABLES
    seats,       \* of each seat: the pid of its owner or "none", and fb_pa
    active,      \* the seat with the screen, 0 before the first client
    shown_id,    \* the resource on the scanout, 0 for the boot splash
    backing,     \* device: of each resource that exists, its frame buffer
    fbs,         \* frame buffers made so far
    mapped       \* of each client: running or not, and the frame buffer it draws in

seatVars == <<seats, active, shown_id, backing, fbs, mapped>>

SeatIds == 1 .. SEAT_MAX
Unowned == [pid |-> "none", fb_pa |-> 0]
UsedSeats(tbl) == {i \in SeatIds : tbl[i].pid # "none"}
SeatOf(p) == {i \in SeatIds : seats[i].pid = p}
Lowest(s) == CHOOSE i \in s : \A j \in s : i <= j

SeatInit ==
    /\ seats = [i \in SeatIds |-> Unowned]
    /\ active = 0 /\ shown_id = 0
    /\ backing = [i \in {} |-> 0]
    /\ fbs = 0
    /\ mapped = [p \in Clients |-> [runs |-> TRUE, fb |-> 0]]

----------------------------------------------------------------------------
\* seat_register finds the caller's seat, or takes the first free one; the
\* first client gets the screen.
Registered(p, i) ==
    IF SeatOf(p) # {} THEN i \in SeatOf(p)
    ELSE UsedSeats(seats) # SeatIds /\ i = Lowest(SeatIds \ UsedSeats(seats))
Enlisted(p, i) == [seats EXCEPT ![i] = [pid |-> p, fb_pa |-> IF @.pid = p THEN @.fb_pa ELSE 0]]
ActiveWith(i) == IF active = 0 THEN i ELSE active

\* gfx_show, when the resource exists.
Shown(i) == IF i \in DOMAIN backing THEN i ELSE shown_id

ShownToOwner(i) == IF i = ActiveWith(i) THEN i ELSE shown_id

\* SYS_GFX_ACQUIRE registers without a frame buffer first.  The second call of
\* seat_register finds that seat and stores nothing, so fb_pa stays 0 and
\* every acquire makes a frame buffer; the seat's resource is created once and
\* never destroyed, so whoever takes over the seat of a dead owner is refused.
GfxAcquire(p, i) ==
    /\ mapped[p].runs /\ Registered(p, i)
    /\ seats' = Enlisted(p, i)
    /\ active' = ActiveWith(i)
    /\ \/ /\ fbs < MaxFbs /\ i \notin DOMAIN backing
          /\ fbs' = fbs + 1
          /\ backing' = [j \in DOMAIN backing \cup {i} |-> IF j = i THEN fbs + 1 ELSE backing[j]]
          /\ mapped' = [mapped EXCEPT ![p].fb = fbs + 1]
          /\ shown_id' = ShownToOwner(i)
       \/ /\ fbs < MaxFbs /\ i \in DOMAIN backing
          /\ fbs' = fbs + 1
          /\ UNCHANGED <<backing, mapped, shown_id>>
       \/ /\ fbs = MaxFbs
          /\ UNCHANGED <<fbs, backing, mapped, shown_id>>

\* No seat is left: the frame buffer has been made and stays made.
AcquireRefused(p) ==
    /\ mapped[p].runs /\ SeatOf(p) = {} /\ UsedSeats(seats) = SeatIds
    /\ fbs < MaxFbs /\ fbs' = fbs + 1
    /\ UNCHANGED <<seats, active, shown_id, backing, mapped>>

\* SYS_SEAT_SWITCH by any process, and Ctrl-Alt-Fn in the reader of the input.
SeatSwitch(i) ==
    /\ i \in UsedSeats(seats)
    /\ \E p \in Clients : mapped[p].runs
    /\ active' = i
    /\ shown_id' = Shown(i)
    /\ UNCHANGED <<seats, backing, fbs, mapped>>

\* seat_release_pid: the screen of the dead owner goes to the first survivor.
Survivor(tbl, i) ==
    IF active # i THEN active
    ELSE IF UsedSeats(tbl) = {} THEN 0 ELSE Lowest(UsedSeats(tbl))

\* Mutant: the survivor becomes active but is not put on the screen.
ShownAfterForgot(now) == shown_id

ShownAfter(now) == IF now # active /\ now > 0 THEN Shown(now) ELSE shown_id

\* thread_exit.  That the pages of the frame buffer are freed with the address
\* space while the resource still has them for backing is left out.
SeatOwnerExit(p) ==
    /\ mapped[p].runs
    /\ mapped' = [mapped EXCEPT ![p] = [runs |-> FALSE, fb |-> 0]]
    /\ IF SeatOf(p) = {} THEN UNCHANGED <<seats, active, shown_id>>
       ELSE \E i \in SeatOf(p) :
              LET left == [seats EXCEPT ![i] = Unowned]
              IN /\ seats' = left
                 /\ active' = Survivor(left, i)
                 /\ shown_id' = ShownAfter(Survivor(left, i))
    /\ UNCHANGED <<backing, fbs>>

SeatNext ==
    \/ \E p \in Clients, i \in SeatIds : GfxAcquire(p, i)
    \/ \E p \in Clients : AcquireRefused(p)
    \/ \E i \in SeatIds : SeatSwitch(i)
    \/ \E p \in Clients : SeatOwnerExit(p)

SeatSpec == SeatInit /\ [][SeatNext]_seatVars

----------------------------------------------------------------------------
\* Input goes to the owner of the active seat, so what that owner draws must
\* be what is seen: once its acquire has succeeded its frame buffer is on the
\* scanout, through switches, exits of other owners, seats taken over from
\* the dead and acquires that failed for lack of memory.  An owner whose acquire
\* has failed has no frame buffer and draws nothing.  The screen is nobody's
\* only while there is no seat at all.
ScreenFollowsSeat ==
    IF active = 0 THEN UsedSeats(seats) = {}
    ELSE /\ active \in UsedSeats(seats)
         /\ LET fb == mapped[seats[active].pid].fb
            IN fb # 0 => shown_id = active /\ backing[active] = fb
=============================================================================
