-------------------------------- MODULE LifeThreads --------------------------------
(***************************************************************************)
(* lab09: the threads of life.c.  main draws the foreground grid, wakes    *)
(* every thread out of pause() with a signal, sleeps half a second and     *)
(* swaps the two grid pointers; a thread computes its share of the         *)
(* background grid and goes back to pause().                               *)
(*                                                                         *)
(* Nothing synchronises them: a signal that does not find its thread in    *)
(* pause() only runs the empty handler, the two pointers are read and      *)
(* swapped without a lock, and nobody waits for the end of a computation.  *)
(***************************************************************************)
EXTENDS Grid

CONSTANTS
    Junk,               \* what malloc may leave in the other grid
    thread_no,
    Punctual            \* assume, as the README does, that half a second is enough
                        \* for every thread to compute and be back in pause()

ASSUME ThreadsAssumption ==
    /\ Junk \subseteq Grids
    /\ thread_no \in Nat \ {0}
    /\ Punctual \in BOOLEAN

Threads == 0 .. thread_no - 1
Buffers == 1 .. 2
Unread == 0

VARIABLES
    grids,                  \* the two arrays
    foreground, background, \* the pointers of main: which array each names
    main,                   \* "draw", "kill" (with the next thread), "sleep", "swap", "tmp"
    next,
    threads,                \* pc, the two pointers as read, the cell computed next
    worked,                 \* history: shares computed since the last swap (2: more than one)
    missed                  \* history: the threads this iteration's signal has not found in pause()

vars == <<grids, foreground, background, main, next, threads, worked, missed>>

Init ==
    /\ \E seed \in Seeds, junk \in Junk : grids = <<seed, junk>>
    /\ foreground = 1 /\ background = 2
    /\ main = "draw" /\ next = 0
    /\ threads = [t \in Threads |-> [pc |-> "ready", src |-> Unread, dst |-> Unread, cell |-> 0]]
    /\ worked = [t \in Threads |-> 0] /\ missed = {}
-----------------------------------------------------------------------------
(* update_part_grid: thread_id computes the cells from First to Last. *)
Width_Floor == Size \div thread_no
Width == Size \div thread_no + IF Size % thread_no = 0 THEN 0 ELSE 1
First(t) == t * Width
Last_NoClamp(t) == First(t) + Width - 1
Last_Overlap(t) == IF First(t) + Width >= Size THEN Size - 1 ELSE First(t) + Width
Last(t) == IF First(t) + Width - 1 >= Size THEN Size - 1 ELSE First(t) + Width - 1

Pause(t) ==
    /\ threads[t].pc = "ready"
    /\ threads' = [threads EXCEPT ![t].pc = "paused"]
    /\ UNCHANGED <<grids, foreground, background, main, next, worked, missed>>

(* The arguments of the call, evaluated in any order. *)
ReadPointer(t) ==
    /\ threads[t].pc = "woken"
    /\ \/ threads[t].src = Unread /\ threads' = [threads EXCEPT ![t].src = foreground]
       \/ threads[t].dst = Unread /\ threads' = [threads EXCEPT ![t].dst = background]
    /\ UNCHANGED <<grids, foreground, background, main, next, worked, missed>>

Call(t) ==
    /\ threads[t].pc = "woken" /\ threads[t].src # Unread /\ threads[t].dst # Unread
    /\ threads' = [threads EXCEPT ![t].pc = "compute", ![t].cell = First(t)]
    /\ UNCHANGED <<grids, foreground, background, main, next, worked, missed>>

ComputeCell(t) ==
    LET th == threads[t] IN
    /\ th.pc = "compute" /\ th.cell <= Last(t)
    /\ grids' = [grids EXCEPT ![th.dst][th.cell] = is_alive(th.cell, grids[th.src])]
    /\ threads' = [threads EXCEPT ![t].cell = @ + 1]
    /\ UNCHANGED <<foreground, background, main, next, worked, missed>>

EndPart(t) ==
    /\ threads[t].pc = "compute" /\ threads[t].cell > Last(t)
    /\ threads' = [threads EXCEPT ![t] = [pc |-> "ready", src |-> Unread, dst |-> Unread, cell |-> 0]]
    /\ worked' = [worked EXCEPT ![t] = IF @ = 2 THEN 2 ELSE @ + 1]
    /\ UNCHANGED <<grids, foreground, background, main, next, missed>>
-----------------------------------------------------------------------------
AllPaused == \A t \in Threads : threads[t].pc = "paused"

(* draw_grid(foreground) *)
Draw ==
    /\ main = "draw"
    /\ main' = "kill" /\ next' = 0
    /\ UNCHANGED <<grids, foreground, background, threads, worked, missed>>

(* pthread_kill: wakes the thread if it is in pause(), is lost otherwise. *)
Kill_NoWake ==
    /\ main = "kill" /\ next \in Threads
    /\ next' = next + 1
    /\ UNCHANGED <<grids, foreground, background, main, threads, worked, missed>>
Kill ==
    /\ main = "kill" /\ next \in Threads
    /\ threads' = [threads EXCEPT ![next].pc = IF @ = "paused" THEN "woken" ELSE @]
    /\ next' = next + 1
    /\ missed' = IF threads[next].pc = "paused" THEN missed ELSE missed \cup {next}
    /\ UNCHANGED <<grids, foreground, background, main, worked>>

Sleep ==
    /\ main = "kill" /\ next = thread_no
    /\ main' = "sleep"
    /\ UNCHANGED <<grids, foreground, background, next, threads, worked, missed>>

Wake ==
    /\ main = "sleep"
    /\ Punctual => AllPaused
    /\ main' = "swap"
    /\ UNCHANGED <<grids, foreground, background, next, threads, worked, missed>>

(* tmp = foreground; foreground = background; and then background = tmp. *)
SwapForeground ==
    /\ main = "swap"
    /\ foreground' = background
    /\ main' = "tmp"
    /\ UNCHANGED <<grids, background, next, threads, worked, missed>>
SwapBackground ==
    /\ main = "tmp"
    /\ background' = 3 - background
    /\ main' = "draw"
    /\ worked' = [t \in Threads |-> 0] /\ missed' = {}
    /\ UNCHANGED <<grids, foreground, next, threads>>
-----------------------------------------------------------------------------
Thread(t) == Pause(t) \/ ReadPointer(t) \/ Call(t) \/ ComputeCell(t) \/ EndPart(t)
Main == Draw \/ Kill \/ Sleep \/ Wake \/ SwapForeground \/ SwapBackground
Next == Main \/ \E t \in Threads : Thread(t)

Spec == Init /\ [][Next]_vars
FairSpec == Spec /\ WF_vars(Main) /\ \A t \in Threads : WF_vars(Thread(t))
-----------------------------------------------------------------------------
(* No thread ever computes a cell outside the grid (grid.c:108-112). *)
TypeOK ==
    /\ grids \in [Buffers -> Grids]
    /\ foreground \in Buffers /\ background \in Buffers
    /\ main \in {"draw", "kill", "sleep", "swap", "tmp"} /\ next \in 0 .. thread_no
    /\ threads \in [Threads -> [pc : {"ready", "paused", "woken", "compute"},
                                src : Buffers \cup {Unread}, dst : Buffers \cup {Unread}, cell : Nat]]
    /\ worked \in [Threads -> 0 .. 2] /\ missed \subseteq Threads
    /\ \A t \in Threads : threads[t].pc = "compute" /\ threads[t].cell <= Last(t) => threads[t].cell \in Cells

(* "Each thread writes only to its own cells": two threads are never about
   to write the same cell, however late one of them is (grid.c:108-114). *)
OwnCells ==
    \A t, u \in Threads :
        t # u /\ threads[t].pc = "compute" /\ threads[u].pc = "compute" /\ threads[t].cell = threads[u].cell
            => threads[t].cell > Last(t) \/ threads[u].cell > Last(u)

(* Nothing makes main wait until the threads it has created are in pause(),
   and a signal that comes before is lost.  If half a second is enough, such
   a signal costs its thread this one iteration: every other thread does its
   work once in it, and so does every thread in the next (life.c:36-40,
   110-122). *)
OncePerIteration == Punctual /\ main = "swap" =>
    \A t \in Threads : worked[t] = IF t \in missed THEN 0 ELSE 1

(* What is drawn is, generation by generation, what the sequential program
   draws after the picture before, but for the iterations in which a signal
   was lost: every cell of the background was computed from the foreground
   before the swap, and nothing of the malloc'd memory or of an older picture
   is left in it (life.c:107-122). *)
Sequential == INSTANCE Life WITH world <- grids[foreground]
ImplementsLife ==
    Sequential!LifeInit /\ [][Punctual /\ missed = {} => Sequential!Generation]_(grids[foreground])
=============================================================================
