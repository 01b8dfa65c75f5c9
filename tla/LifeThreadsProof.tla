------------------------------ MODULE LifeThreadsProof ------------------------------
(***************************************************************************)
(* Theorems about LifeThreads, for any size of the grid, any number of     *)
(* threads and any initial grids: that the shares are disjoint and cover   *)
(* the grid, and that the threads implement the sequential game if half a  *)
(* second is enough, but for the iterations a signal was lost in.          *)
(***************************************************************************)
EXTENDS LifeThreads, TLAPS

-----------------------------------------------------------------------------
(* The shares. *)

(* A grid has cells. *)
LEMMA GridHasCells == Size \in Nat \ {0} /\ Cells = 0 .. Size - 1
<1>1. grid_height \in Nat \ {0} /\ grid_width \in Nat \ {0}
  BY GridAssumption
<1>2. \A h, w \in Nat \ {0} : h * w \in Nat \ {0}
  BY SMT
<1> QED
  BY <1>1, <1>2 DEF Size, Cells

(* A share is wide enough, rounding up, for the threads to cover the grid. *)
LEMMA WidthCovers == Width \in Nat \ {0} /\ Size <= thread_no * Width
<1> DEFINE d == Size \div thread_no  r == Size % thread_no
<1>1. thread_no \in Nat \ {0} /\ Size \in Nat \ {0}
  BY ThreadsAssumption, GridHasCells
<1>2. d \in Nat /\ r \in 0 .. thread_no - 1 /\ Size = thread_no * d + r
  BY <1>1, SMT
<1>3. Width = d + IF r = 0 THEN 0 ELSE 1
  BY DEF Width
<1> HIDE DEF d, r
<1>4. CASE r = 0
  <2>1. Width = d /\ Size = thread_no * d
    BY <1>1, <1>2, <1>3, <1>4
  <2>2. d # 0
    BY <1>1, <2>1
  <2> QED
    BY <1>1, <1>2, <2>1, <2>2
<1>5. CASE r # 0
  <2>1. Width = d + 1 /\ thread_no * (d + 1) = thread_no * d + thread_no
    BY <1>1, <1>2, <1>3, <1>5
  <2>2. thread_no * d \in Nat
    BY <1>1, <1>2
  <2> QED
    BY <1>1, <1>2, <2>1, <2>2
<1> QED
  BY <1>4, <1>5

(* First(t) is a place in the grid or behind it, and no thread's share
   begins before the one before it ends. *)
LEMMA SharesInOrder ==
    /\ \A t \in Threads : First(t) \in Nat /\ Last(t) \in Int /\ Last(t) < Size /\ Last(t) < First(t) + Width
    /\ \A t, u \in Threads : t < u => First(t) + Width <= First(u)
<1>1. Width \in Nat /\ Size \in Nat /\ Threads \subseteq Nat
  BY WidthCovers, GridHasCells, ThreadsAssumption DEF Threads
<1>2. \A t \in Threads : First(t) \in Nat
  BY <1>1 DEF First
<1>3. ASSUME NEW t \in Threads, NEW u \in Threads, t < u PROVE First(t) + Width <= First(u)
  <2>1. u - t - 1 \in Nat /\ u = t + 1 + (u - t - 1)
    BY <1>1, <1>3
  <2>2. \A a, b, w \in Nat : (a + 1 + b) * w = a * w + w + b * w /\ b * w \in Nat
    BY SMT
  <2> QED
    BY <1>1, <2>1, <2>2 DEF First
<1> QED
  BY <1>1, <1>2, <1>3 DEF Last

(* Each thread writes only to its own cells. *)
LEMMA SharesAreDisjoint ==
    ASSUME NEW t \in Threads, NEW u \in Threads, NEW cell \in Int,
           First(t) <= cell, cell <= Last(t), First(u) <= cell, cell <= Last(u)
    PROVE  t = u
<1>1. t \in Int /\ u \in Int
  BY DEF Threads
<1>2. t < u \/ u < t \/ t = u
  BY <1>1
<1> QED
  BY <1>2, SharesInOrder, WidthCovers

(* Each cell is some thread's. *)
LEMMA SharesCover == \A cell \in Cells : \E t \in Threads : First(t) <= cell /\ cell <= Last(t)
<1> SUFFICES ASSUME NEW cell \in Cells PROVE \E t \in Threads : First(t) <= cell /\ cell <= Last(t)
  OBVIOUS
<1> DEFINE t == cell \div Width  r == cell % Width
<1>1. Width \in Nat \ {0} /\ cell \in Nat /\ cell < Size /\ thread_no \in Nat \ {0} /\ Size \in Nat
  BY WidthCovers, GridHasCells, ThreadsAssumption
<1>2. t \in Nat /\ r \in 0 .. Width - 1 /\ cell = Width * t + r
  BY <1>1, SMT
<1> HIDE DEF t, r
<1>3. First(t) = Width * t
  BY <1>1, <1>2 DEF First
<1>4. Width * t \in Nat /\ Width * t <= cell /\ cell < Width * t + Width
  BY <1>1, <1>2
<1>5. t < thread_no
  <2>1. \A a, n, w \in Nat : n <= a => n * w <= w * a
    <3> SUFFICES ASSUME NEW a \in Nat, NEW n \in Nat, NEW w \in Nat, n <= a PROVE n * w <= w * a
      OBVIOUS
    <3>1. a - n \in Nat /\ w * a = n * w + (a - n) * w /\ (a - n) * w \in Nat
      BY SMT
    <3> QED
      BY <3>1
  <2>2. thread_no <= t => thread_no * Width <= Width * t
    BY <1>1, <1>2, <2>1
  <2>3. ~(thread_no * Width <= Width * t)
    BY <1>1, <1>4, WidthCovers
  <2> QED
    BY <1>1, <1>2, <2>2, <2>3
<1>6. t \in Threads
  BY <1>1, <1>2, <1>5 DEF Threads
<1>7. cell <= Last(t)
  BY <1>1, <1>3, <1>4 DEF Last
<1> QED
  BY <1>3, <1>4, <1>6, <1>7

-----------------------------------------------------------------------------
(* A thread's pointers have been read before it computes, and it computes
   from its first cell on. *)
Computes(t) == threads[t].pc = "compute" =>
    /\ threads[t].src \in Buffers /\ threads[t].dst \in Buffers
    /\ First(t) <= threads[t].cell

(* Holds whatever happens. *)
Always == TypeOK /\ \A t \in Threads : Computes(t)

(* The threads this iteration's signal has been sent to, and has woken. *)
Signalled(t) == main \in {"sleep", "swap", "tmp"} \/ (main = "kill" /\ t < next)
Heard(t) == Signalled(t) /\ t \notin missed
Idle(t) == threads[t].pc \in {"ready", "paused"} /\ threads[t].src = Unread /\ threads[t].dst = Unread

(* The cells from First(t) to before `upto` are as the next generation wants
   them. *)
Computed(t, upto) == \A cell \in Cells :
    First(t) <= cell /\ cell < upto /\ cell <= Last(t) => grids[background][cell] = is_alive(cell, grids[foreground])

(* Where a thread is in an iteration: before its signal or without it, at
   work with the pointers of this iteration, or done. *)
Before(t) == Idle(t) /\ worked[t] = 0
Working(t) ==
    /\ worked[t] = 0 /\ main \in {"kill", "sleep"}
    /\ threads[t].src \in {Unread, foreground} /\ threads[t].dst \in {Unread, background}
    /\ \/ threads[t].pc = "woken"
       \/ threads[t].pc = "compute" /\ Computed(t, threads[t].cell)
Done(t) ==
    /\ Idle(t) /\ worked[t] = 1
    /\ main # "tmp" => Computed(t, Size)

Core ==
    /\ (foreground = background) <=> (main = "tmp")
    /\ \A t \in missed : Signalled(t)
    /\ \A t \in Threads : IF Heard(t) THEN Working(t) \/ Done(t) ELSE Before(t)

IInv == Always /\ (Punctual => Core)

-----------------------------------------------------------------------------
ThreadStates == [pc : {"ready", "paused", "woken", "compute"},
                 src : Buffers \cup {Unread}, dst : Buffers \cup {Unread}, cell : Nat]

(* The rules say alive or dead. *)
LEMMA AliveOrDead ==
    ASSUME NEW grid \in Grids, NEW cell \in Cells PROVE is_alive(cell, grid) \in BOOLEAN
<1> DEFINE count == Cardinality({other \in Neighbours(cell) : grid[other]})
<1>1. is_alive(cell, grid) = IF grid[cell] THEN count \in {2, 3} ELSE count = 3
  BY DEF is_alive
<1> HIDE DEF count
<1>2. grid[cell] \in BOOLEAN
  BY DEF Grids
<1>3. CASE grid[cell] = TRUE
  <2>1. is_alive(cell, grid) = (count \in {2, 3})
    BY <1>1, <1>3
  <2> QED
    BY <2>1
<1>4. CASE grid[cell] = FALSE
  <2>1. is_alive(cell, grid) = (count = 3)
    BY <1>1, <1>4
  <2> QED
    BY <2>1
<1> QED
  BY <1>2, <1>3, <1>4

(* A thread in its share is in the grid. *)
LEMMA ShareInGrid ==
    ASSUME NEW t \in Threads, NEW cell \in Nat, cell <= Last(t) PROVE cell \in Cells
  BY SharesInOrder, GridHasCells

(* Everything is well formed at first. *)
LEMMA InitAlways == Init => Always
<1> SUFFICES ASSUME Init PROVE Always
  OBVIOUS
<1>1. grids \in [Buffers -> Grids]
  <2>1. PICK seed \in Seeds, junk \in Junk : grids = <<seed, junk>>
    BY DEF Init
  <2> QED
    BY <2>1, GridAssumption, ThreadsAssumption DEF Buffers
<1>2. threads \in [Threads -> ThreadStates] /\ \A t \in Threads : threads[t].pc = "ready"
  BY DEF Init, ThreadStates
<1>3. next \in 0 .. thread_no
  BY ThreadsAssumption DEF Init
<1>4. worked \in [Threads -> 0 .. 2] /\ foreground \in Buffers /\ background \in Buffers
  BY DEF Init, Buffers
<1>5. TypeOK
  BY <1>1, <1>2, <1>3, <1>4 DEF Init, TypeOK, ThreadStates
<1> QED
  BY <1>2, <1>5 DEF Always, Computes

(* What a cell's computation does to the grids. *)
LEMMA ComputeCellEffect ==
    ASSUME Always, NEW t \in Threads, ComputeCell(t)
    PROVE  LET th == threads[t] IN
           /\ th.src \in Buffers /\ th.dst \in Buffers /\ th.cell \in Cells
           /\ grids' \in [Buffers -> Grids]
           /\ \A b \in Buffers : \A cell \in Cells :
                 grids'[b][cell] = IF b = th.dst /\ cell = th.cell THEN is_alive(cell, grids[th.src]) ELSE grids[b][cell]
           /\ \A b \in Buffers \ {th.dst} : grids'[b] = grids[b]
<1> DEFINE th == threads[t]
<1>1. th.pc = "compute" /\ th.cell <= Last(t)
  BY DEF ComputeCell
<1>2. th.src \in Buffers /\ th.dst \in Buffers /\ th.cell \in Cells
  BY <1>1 DEF Always, TypeOK, Computes
<1>3. is_alive(th.cell, grids[th.src]) \in BOOLEAN
  BY <1>2, AliveOrDead DEF Always, TypeOK
<1>4. grids \in [Buffers -> [Cells -> BOOLEAN]]
  BY DEF Always, TypeOK, Grids
<1>5. grids' = [grids EXCEPT ![th.dst] = [grids[th.dst] EXCEPT ![th.cell] = is_alive(th.cell, grids[th.src])]]
  BY <1>2, <1>4 DEF ComputeCell
<1> QED
  BY <1>2, <1>3, <1>4, <1>5 DEF Grids

(* Every thread's step keeps everything well formed. *)
LEMMA ThreadKeepsAlways ==
    ASSUME Always, NEW t \in Threads, Thread(t) PROVE Always'
<1>1. /\ threads \in [Threads -> ThreadStates] /\ threads[t] \in ThreadStates
      /\ \A u \in Threads : Computes(u)
  BY DEF Always, TypeOK, ThreadStates
<1>2. ASSUME NEW new \in ThreadStates, threads' = [threads EXCEPT ![t] = new],
             new.pc = "compute" => new.src \in Buffers /\ new.dst \in Buffers /\ First(t) <= new.cell,
             grids' \in [Buffers -> Grids], worked' \in [Threads -> 0 .. 2],
             UNCHANGED <<foreground, background, main, next, missed>>
      PROVE  Always'
  <2>1. threads' \in [Threads -> ThreadStates]
    BY <1>1, <1>2
  <2>2. \A u \in Threads : Computes(u)'
    BY <1>1, <1>2 DEF Computes
  <2>3. \A u \in Threads : threads'[u].cell <= Last(u) => threads'[u].cell \in Cells
    BY <2>1, ShareInGrid DEF ThreadStates
  <2> QED
    BY <1>2, <2>1, <2>2, <2>3 DEF Always, TypeOK, ThreadStates
<1>3. grids \in [Buffers -> Grids] /\ worked \in [Threads -> 0 .. 2] /\ foreground \in Buffers /\ background \in Buffers
  BY DEF Always, TypeOK
<1>4. CASE Pause(t)
  <2>1. [threads[t] EXCEPT !.pc = "paused"] \in ThreadStates
    BY <1>1 DEF ThreadStates
  <2> QED
    BY <1>1, <1>2, <1>3, <1>4, <2>1 DEF Pause, ThreadStates
<1>5. CASE ReadPointer(t)
  <2>1. /\ [threads[t] EXCEPT !.src = foreground] \in ThreadStates
        /\ [threads[t] EXCEPT !.dst = background] \in ThreadStates
    BY <1>1, <1>3 DEF ThreadStates
  <2> QED
    BY <1>1, <1>2, <1>3, <1>5, <2>1 DEF ReadPointer, ThreadStates
<1>6. CASE Call(t)
  <2>1. First(t) \in Nat
    BY SharesInOrder
  <2>2. [threads[t] EXCEPT !.pc = "compute", !.cell = First(t)] \in ThreadStates
    BY <1>1, <2>1 DEF ThreadStates
  <2>3. threads[t].src \in Buffers /\ threads[t].dst \in Buffers
    BY <1>1, <1>6 DEF Call, ThreadStates
  <2>4. threads' = [threads EXCEPT ![t] = [threads[t] EXCEPT !.pc = "compute", !.cell = First(t)]]
    BY <1>1, <1>6 DEF Call
  <2> DEFINE new == [threads[t] EXCEPT !.pc = "compute", !.cell = First(t)]
  <2>5. new.src = threads[t].src /\ new.dst = threads[t].dst /\ new.cell = First(t)
    BY <1>1 DEF ThreadStates
  <2> HIDE DEF new
  <2>6. new.cell \in Nat /\ First(t) <= new.cell
    BY <2>1, <2>5
  <2>7. UNCHANGED <<grids, worked, foreground, background, main, next, missed>>
    BY <1>6 DEF Call
  <2> QED
    BY <1>2, <1>3, <1>6, <2>2, <2>3, <2>4, <2>5, <2>6, <2>7 DEF new
<1>7. CASE ComputeCell(t)
  <2> DEFINE new == [threads[t] EXCEPT !.cell = threads[t].cell + 1]
  <2>1. threads' = [threads EXCEPT ![t] = new]
    BY <1>1, <1>7 DEF ComputeCell
  <2>2. new \in ThreadStates /\ new.src = threads[t].src /\ new.dst = threads[t].dst /\ new.cell = threads[t].cell + 1
    BY <1>1 DEF ThreadStates
  <2>3. threads[t].pc = "compute" /\ threads[t].cell \in Nat /\ First(t) \in Nat
    BY <1>1, <1>7, SharesInOrder DEF ComputeCell, ThreadStates
  <2>4. First(t) <= new.cell /\ new.src \in Buffers /\ new.dst \in Buffers
    BY <1>1, <2>2, <2>3 DEF Computes
  <2>5. grids' \in [Buffers -> Grids]
    BY <1>7, ComputeCellEffect
  <2> HIDE DEF new
  <2> QED
    BY <1>2, <1>3, <1>7, <2>1, <2>2, <2>4, <2>5 DEF ComputeCell
<1>8. CASE EndPart(t)
  <2> DEFINE new == [pc |-> "ready", src |-> Unread, dst |-> Unread, cell |-> 0]
  <2>1. new \in ThreadStates /\ new.pc # "compute"
    BY DEF ThreadStates
  <2>2. worked' \in [Threads -> 0 .. 2]
    BY <1>3, <1>8 DEF EndPart
  <2> HIDE DEF new
  <2> QED
    BY <1>2, <1>3, <1>8, <2>1, <2>2 DEF EndPart, new
<1> QED
  BY <1>4, <1>5, <1>6, <1>7, <1>8 DEF Thread

(* So does main's. *)
LEMMA MainKeepsAlways ==
    ASSUME Always, Main PROVE Always'
<1>1. /\ threads \in [Threads -> ThreadStates] /\ \A u \in Threads : Computes(u)
      /\ thread_no \in Nat
  BY ThreadsAssumption DEF Always, TypeOK, ThreadStates
<1>2. CASE Kill
  <2> DEFINE new == [threads[next] EXCEPT !.pc = IF threads[next].pc = "paused" THEN "woken" ELSE threads[next].pc]
  <2>1. next \in Threads /\ threads' = [threads EXCEPT ![next] = new]
    BY <1>1, <1>2 DEF Kill
  <2>2. new \in ThreadStates /\ (new.pc = "compute" => new = threads[next])
    BY <1>1, <2>1 DEF ThreadStates
  <2> HIDE DEF new
  <2>3. threads' \in [Threads -> ThreadStates] /\ \A u \in Threads : threads'[u].pc = "compute" => threads'[u] = threads[u]
    BY <1>1, <2>1, <2>2
  <2>4. next' \in 0 .. thread_no /\ missed' \subseteq Threads
    BY <1>1, <1>2 DEF Kill, Threads, Always, TypeOK
  <2> QED
    BY <1>1, <1>2, <2>3, <2>4 DEF Kill, Always, TypeOK, Computes, ThreadStates
<1>3. CASE Draw \/ Sleep \/ Wake
  <2>1. UNCHANGED <<grids, foreground, background, threads, worked, missed>> /\ next' \in 0 .. thread_no
        /\ main' \in {"draw", "kill", "sleep", "swap", "tmp"}
    BY <1>1, <1>3 DEF Draw, Sleep, Wake, Always, TypeOK
  <2> QED
    BY <2>1 DEF Always, TypeOK, Computes
<1>4. CASE SwapForeground \/ SwapBackground
  <2>1. /\ UNCHANGED <<grids, threads, next>> /\ main' \in {"draw", "kill", "sleep", "swap", "tmp"}
        /\ missed' \subseteq Threads
        /\ foreground' \in Buffers /\ background' \in Buffers /\ worked' \in [Threads -> 0 .. 2]
    BY <1>4 DEF SwapForeground, SwapBackground, Always, TypeOK, Buffers
  <2> QED
    BY <2>1 DEF Always, TypeOK, Computes
<1> QED
  BY <1>2, <1>3, <1>4 DEF Main

(* Every step does. *)
LEMMA NextAlways == Always /\ [Next]_vars => Always'
<1> SUFFICES ASSUME Always, [Next]_vars PROVE Always'
  OBVIOUS
<1>1. CASE UNCHANGED vars
  BY <1>1 DEF vars, Always, TypeOK, Computes
<1> QED
  BY <1>1, ThreadKeepsAlways, MainKeepsAlways DEF Next

-----------------------------------------------------------------------------
(* If half a second is enough. *)

(* A computed cell stays so while neither grid pointer moves and nobody
   writes to it or to the foreground. *)
LEMMA StaysComputed ==
    ASSUME NEW u \in Threads, NEW upto \in Int, Computed(u, upto),
           UNCHANGED <<foreground, background>>, grids'[foreground] = grids[foreground],
           \A cell \in Cells : First(u) <= cell /\ cell <= Last(u) => grids'[background][cell] = grids[background][cell]
    PROVE  Computed(u, upto)'
  BY DEF Computed

(* The cell computed is one more of the thread's own; nothing else changes,
   the foreground least of all. *)
LEMMA ComputeCellCore ==
    ASSUME Always, Core, NEW t \in Threads, ComputeCell(t)
    PROVE  /\ Working(t) /\ grids'[foreground] = grids[foreground]
           /\ Computed(t, threads[t].cell)'
           /\ \A u \in Threads \ {t} : \A cell \in Cells :
                 First(u) <= cell /\ cell <= Last(u) => grids'[background][cell] = grids[background][cell]
<1> DEFINE th == threads[t]
<1>1. th.pc = "compute" /\ th.cell <= Last(t) /\ th.src # Unread /\ th.dst # Unread /\ First(t) <= th.cell
      /\ UNCHANGED <<foreground, background>>
  BY DEF ComputeCell, Always, Computes, Buffers, Unread
<1>2. Working(t)
  BY <1>1 DEF Core, Before, Done, Idle
<1>3. th.src = foreground /\ th.dst = background /\ foreground # background /\ Computed(t, th.cell)
  BY <1>1, <1>2 DEF Working, Core
<1>4. foreground \in Buffers /\ background \in Buffers /\ th.cell \in Nat
  BY DEF Always, TypeOK
<1>5. /\ th.cell \in Cells /\ grids'[foreground] = grids[foreground]
      /\ \A cell \in Cells :
           grids'[background][cell] = IF cell = th.cell THEN is_alive(cell, grids[foreground]) ELSE grids[background][cell]
  BY <1>3, <1>4, ComputeCellEffect
<1>6. Computed(t, threads[t].cell)'
  <2>0. threads'[t].cell = th.cell + 1
    BY DEF ComputeCell, Always, TypeOK
  <2> SUFFICES ASSUME NEW cell \in Cells, First(t) <= cell, cell < th.cell + 1, cell <= Last(t)
               PROVE  grids'[background][cell] = is_alive(cell, grids[foreground])
    BY <1>1, <1>5, <2>0 DEF Computed
  <2>1. cell \in Int /\ (cell < th.cell \/ cell = th.cell)
    BY <1>4, GridHasCells
  <2> QED
    BY <1>3, <1>5, <2>1 DEF Computed
<1>7. ASSUME NEW u \in Threads \ {t}, NEW cell \in Cells, First(u) <= cell, cell <= Last(u)
      PROVE  grids'[background][cell] = grids[background][cell]
  <2>1. cell # th.cell
    BY <1>1, <1>4, <1>7, SharesAreDisjoint
  <2> QED
    BY <1>5, <2>1
<1> QED
  BY <1>2, <1>5, <1>6, <1>7

(* A thread's step takes it from one place in the iteration to the next, and
   leaves the other threads where they are. *)
LEMMA ThreadKeepsCore ==
    ASSUME Always, Core, NEW t \in Threads, Thread(t) PROVE Core'
<1>1. /\ UNCHANGED <<foreground, background, main, next, missed>>
      /\ \A u \in Threads \ {t} : threads'[u] = threads[u] /\ worked'[u] = worked[u]
  BY DEF Thread, Pause, ReadPointer, Call, ComputeCell, EndPart, Always, TypeOK
<1>2. /\ threads \in [Threads -> ThreadStates] /\ threads[t] \in ThreadStates /\ worked \in [Threads -> 0 .. 2]
  BY DEF Always, TypeOK, ThreadStates
<1>3. \A u \in Threads : (Signalled(u)' <=> Signalled(u)) /\ (Heard(u)' <=> Heard(u))
  BY <1>1 DEF Signalled, Heard
<1>4. ASSUME NEW u \in Threads \ {t}, NEW upto \in Int, Computed(u, upto) PROVE Computed(u, upto)'
  <2>1. CASE ComputeCell(t)
    BY <1>1, <1>4, <2>1, ComputeCellCore, StaysComputed
  <2>2. CASE ~ComputeCell(t)
    <3>1. grids' = grids
      BY <2>2 DEF Thread, Pause, ReadPointer, Call, EndPart
    <3> QED
      BY <1>1, <1>4, <3>1 DEF Computed
  <2> QED
    BY <2>1, <2>2
<1>5. ASSUME NEW u \in Threads \ {t}
      PROVE  IF Heard(u)' THEN Working(u)' \/ Done(u)' ELSE Before(u)'
  <2>1. /\ Before(u) => Before(u)'
        /\ threads[u].cell \in Int /\ Size \in Int
    BY <1>1, <1>2, GridHasCells DEF Before, Idle, ThreadStates
  <2>2. Working(u) => Working(u)'
    BY <1>1, <1>4, <1>5, <2>1 DEF Working
  <2>3. Done(u) => Done(u)'
    BY <1>1, <1>4, <1>5, <2>1 DEF Done, Idle
  <2> QED
    BY <1>3, <1>5, <2>1, <2>2, <2>3 DEF Core
<1>6. IF Heard(t)' THEN Working(t)' \/ Done(t)' ELSE Before(t)'
  <2>1. CASE Pause(t)
    <3>1. grids' = grids /\ worked' = worked /\ Idle(t) /\ Idle(t)'
      BY <1>2, <2>1 DEF Pause, Core, Before, Working, Done, Idle, ThreadStates
    <3>2. ~Working(t)
      BY <2>1 DEF Pause, Working
    <3>3. Computed(t, Size) => Computed(t, Size)'
      BY <1>1, <3>1 DEF Computed
    <3> QED
      BY <1>1, <1>3, <3>1, <3>2, <3>3 DEF Core, Before, Done
  <2>2. ASSUME threads[t].pc \in {"woken", "compute"} PROVE Working(t) /\ Heard(t)
    BY <2>2 DEF Core, Before, Done, Idle
  <2>3. CASE ReadPointer(t)
    <3>1. Working(t) /\ Heard(t) /\ worked' = worked
      BY <2>2, <2>3 DEF ReadPointer
    <3> QED
      BY <1>1, <1>2, <1>3, <2>3, <3>1 DEF ReadPointer, Working, ThreadStates
  <2>4. CASE Call(t)
    <3>1. Working(t) /\ Heard(t) /\ worked' = worked
      BY <2>2, <2>4 DEF Call
    <3>2. /\ threads'[t].pc = "compute" /\ threads'[t].cell = First(t)
          /\ threads'[t].src = threads[t].src /\ threads'[t].dst = threads[t].dst
      BY <1>2, <2>4 DEF Call, ThreadStates
    <3>3. \A cell \in Cells : ~(First(t) <= cell /\ cell < First(t))
      BY GridHasCells, SharesInOrder
    <3>4. Computed(t, threads[t].cell)'
      BY <3>2, <3>3 DEF Computed
    <3> QED
      BY <1>1, <1>3, <3>1, <3>2, <3>4 DEF Working
  <2>5. CASE ComputeCell(t)
    <3>1. Working(t) /\ Heard(t) /\ worked' = worked
      BY <2>2, <2>5 DEF ComputeCell
    <3>2. /\ threads'[t].pc = "compute" /\ threads'[t].cell = threads[t].cell + 1
          /\ threads'[t].src = threads[t].src /\ threads'[t].dst = threads[t].dst
      BY <1>2, <2>5 DEF ComputeCell, ThreadStates
    <3>3. Computed(t, threads[t].cell)'
      BY <2>5, ComputeCellCore
    <3> QED
      BY <1>1, <1>3, <3>1, <3>2, <3>3 DEF Working
  <2>6. CASE EndPart(t)
    <3>1. Working(t) /\ Heard(t) /\ grids' = grids /\ threads[t].pc = "compute" /\ threads[t].cell > Last(t)
      BY <2>2, <2>6 DEF EndPart
    <3>2. Idle(t)' /\ worked'[t] = 1
      BY <1>2, <2>6, <3>1 DEF EndPart, Idle, Working
    <3>3. \A cell \in Cells : cell <= Last(t) => cell < threads[t].cell
      BY <1>2, <3>1, GridHasCells, SharesInOrder DEF ThreadStates
    <3>4. Computed(t, Size)'
      BY <1>1, <3>1, <3>3 DEF Computed, Working
    <3> QED
      BY <1>3, <3>1, <3>2, <3>4 DEF Done
  <2> QED
    BY <2>1, <2>3, <2>4, <2>5, <2>6 DEF Thread
<1>7. \A u \in missed' : Signalled(u)'
  BY <1>1, <1>3 DEF Core, Always, TypeOK
<1> QED
  BY <1>1, <1>5, <1>6, <1>7 DEF Core

(* main's step takes all the threads to the next part of the iteration. *)
LEMMA MainKeepsCore ==
    ASSUME Always, Core, Punctual, Main PROVE Core'
<1>1. /\ threads \in [Threads -> ThreadStates] /\ next \in Int /\ thread_no \in Nat /\ Threads = 0 .. thread_no - 1
      /\ foreground \in Buffers /\ background \in Buffers /\ missed \subseteq Threads
  BY ThreadsAssumption DEF Always, TypeOK, ThreadStates, Threads
<1>2. CASE Draw
  <2>1. main = "draw" /\ main' = "kill" /\ next' = 0 /\ UNCHANGED <<foreground, background, threads, worked, missed>>
    BY <1>2 DEF Draw
  <2>2. missed = {} /\ \A t \in Threads : ~Heard(t) /\ ~Heard(t)'
    BY <1>1, <2>1 DEF Core, Signalled, Heard
  <2> QED
    BY <2>1, <2>2 DEF Core, Before, Idle
<1>3. CASE Kill
  <2>1. PICK n \in Threads :
            /\ n = next /\ main = "kill" /\ main' = "kill" /\ next' = n + 1
            /\ UNCHANGED <<grids, foreground, background, worked>>
            /\ threads' = [threads EXCEPT ![n].pc = IF threads[n].pc = "paused" THEN "woken" ELSE threads[n].pc]
            /\ missed' = IF threads[n].pc = "paused" THEN missed ELSE missed \cup {n}
    BY <1>1, <1>3 DEF Kill
  <2>2. \A t \in Threads : Signalled(t)' <=> Signalled(t) \/ t = n
    BY <1>1, <2>1 DEF Signalled
  <2>3. ~Signalled(n) /\ n \notin missed /\ Before(n)
    BY <1>1, <2>1 DEF Signalled, Heard, Core
  <2>4. IF Heard(n)' THEN Working(n)' ELSE Before(n)'
    <3>1. threads'[n].src = threads[n].src /\ threads'[n].dst = threads[n].dst /\ worked' = worked
      BY <1>1, <2>1 DEF ThreadStates
    <3>2. CASE threads[n].pc = "paused"
      <4>1. threads'[n].pc = "woken" /\ Heard(n)'
        BY <1>1, <2>1, <2>2, <2>3, <3>2 DEF ThreadStates, Heard
      <4> QED
        BY <2>1, <2>3, <3>1, <4>1 DEF Working, Before, Idle
    <3>3. CASE threads[n].pc # "paused"
      <4>1. threads'[n].pc = threads[n].pc /\ ~Heard(n)'
        BY <1>1, <2>1, <3>3 DEF ThreadStates, Heard
      <4> QED
        BY <2>3, <3>1, <4>1 DEF Before, Idle
    <3> QED
      BY <3>2, <3>3
  <2>5. ASSUME NEW t \in Threads \ {n} PROVE IF Heard(t)' THEN Working(t)' \/ Done(t)' ELSE Before(t)'
    <3>1. threads'[t] = threads[t] /\ worked'[t] = worked[t] /\ (Heard(t)' <=> Heard(t))
      BY <1>1, <2>1, <2>2 DEF Heard
    <3>2. (Working(t) => Working(t)') /\ (Done(t) => Done(t)') /\ (Before(t) => Before(t)')
      BY <2>1, <3>1 DEF Working, Done, Before, Idle, Computed
    <3> QED
      BY <2>5, <3>1, <3>2 DEF Core
  <2>6. \A t \in missed' : Signalled(t)'
    BY <1>1, <2>1, <2>2 DEF Core
  <2> QED
    BY <2>1, <2>4, <2>5, <2>6 DEF Core
<1>4. CASE Sleep
  <2>1. /\ main = "kill" /\ next = thread_no /\ main' = "sleep"
        /\ UNCHANGED <<grids, foreground, background, threads, worked, missed>>
    BY <1>4 DEF Sleep
  <2>2. \A t \in Threads : Signalled(t)' /\ (Heard(t)' <=> Heard(t))
    BY <1>1, <2>1 DEF Signalled, Heard
  <2>3. ASSUME NEW t \in Threads
        PROVE  (Working(t) => Working(t)') /\ (Done(t) => Done(t)') /\ (Before(t) => Before(t)')
    BY <2>1 DEF Working, Done, Before, Idle, Computed
  <2> QED
    BY <1>1, <2>1, <2>2, <2>3 DEF Core
<1>5. ASSUME main \in {"swap", "tmp"} PROVE \A t \in Threads : IF t \in missed THEN Before(t) ELSE Done(t)
  BY <1>5 DEF Core, Signalled, Heard, Working
<1>6. CASE Wake
  <2>1. /\ main = "sleep" /\ main' = "swap" /\ AllPaused
        /\ UNCHANGED <<grids, foreground, background, threads, worked, missed>>
    BY <1>6 DEF Wake
  <2>2. ASSUME NEW t \in Threads
        PROVE  /\ Signalled(t)' /\ (Heard(t)' <=> Heard(t)) /\ ~Working(t)
               /\ (Done(t) => Done(t)') /\ (Before(t) => Before(t)')
    BY <2>1 DEF Signalled, Heard, Working, AllPaused, Done, Before, Idle, Computed
  <2> QED
    BY <1>1, <2>1, <2>2 DEF Core
<1>7. CASE SwapForeground
  <2>1. main = "swap" /\ main' = "tmp" /\ foreground' = background /\ UNCHANGED <<background, threads, worked, missed>>
    BY <1>7 DEF SwapForeground
  <2> QED
    BY <1>1, <1>5, <2>1 DEF Core, Done, Before, Idle, Signalled, Heard
<1>8. CASE SwapBackground
  <2>1. /\ main = "tmp" /\ main' = "draw" /\ background' = 3 - background /\ foreground' = foreground
        /\ threads' = threads /\ worked' = [t \in Threads |-> 0] /\ missed' = {}
    BY <1>8 DEF SwapBackground
  <2>2. foreground' # background'
    BY <1>1, <2>1 DEF Core, Buffers
  <2>3. \A t \in Threads : Before(t)' /\ ~Heard(t)'
    BY <1>5, <2>1 DEF Done, Before, Idle, Signalled, Heard
  <2> QED
    BY <2>1, <2>2, <2>3 DEF Core
<1> QED
  BY <1>2, <1>3, <1>4, <1>6, <1>7, <1>8 DEF Main

(* The first iteration has not begun. *)
LEMMA InitCore == Init => Core
<1> SUFFICES ASSUME Init PROVE Core
  OBVIOUS
<1>1. main = "draw" /\ foreground = 1 /\ background = 2
  BY DEF Init
<1>2. missed = {} /\ \A t \in Threads : Before(t) /\ ~Heard(t)
  BY <1>1 DEF Init, Before, Idle, Signalled, Heard
<1> QED
  BY <1>1, <1>2 DEF Core

(* Every step keeps the iterations apart. *)
LEMMA NextIInv == IInv /\ [Next]_vars => IInv'
<1> SUFFICES ASSUME IInv, [Next]_vars, Punctual PROVE Core'
  BY NextAlways DEF IInv
<1>1. Always /\ Core
  BY DEF IInv
<1>2. CASE UNCHANGED vars
  BY <1>1, <1>2 DEF vars, Core, Signalled, Heard, Before, Working, Done, Idle, Computed
<1> QED
  BY <1>1, <1>2, ThreadKeepsCore, MainKeepsCore DEF Next

(* The strengthened invariant holds in every reachable state. *)
THEOREM Invariance == Spec => []IInv
<1>1. Init => IInv
  BY InitAlways, InitCore DEF IInv
<1> QED
  BY <1>1, NextIInv, PTL DEF Spec

-----------------------------------------------------------------------------
(* No thread ever computes a cell outside the grid, whatever the sizes and
   the number of threads (grid.c:108-112). *)
THEOREM TypeCorrect == Spec => []TypeOK
<1>1. IInv => TypeOK
  BY DEF IInv, Always
<1> QED
  BY <1>1, Invariance, PTL

(* Two threads are never about to write the same cell, however late one of
   them is (grid.c:108-114). *)
THEOREM CellSafety == Spec => []OwnCells
<1>1. IInv => OwnCells
  <2> SUFFICES ASSUME IInv, NEW t \in Threads, NEW u \in Threads, t # u,
                      threads[t].pc = "compute", threads[u].pc = "compute", threads[t].cell = threads[u].cell,
                      ~(threads[t].cell > Last(t)), ~(threads[u].cell > Last(u))
               PROVE  FALSE
    BY DEF OwnCells
  <2>1. threads[t].cell \in Nat /\ First(t) <= threads[t].cell /\ First(u) <= threads[t].cell
    BY DEF IInv, Always, TypeOK, Computes
  <2>2. threads[t].cell <= Last(t) /\ threads[t].cell <= Last(u)
    BY <2>1, SharesInOrder
  <2> QED
    BY <2>1, <2>2, SharesAreDisjoint
<1> QED
  BY <1>1, Invariance, PTL

(* If half a second is enough, every thread works once in every iteration but
   those its signal has not found it in pause() in (life.c:36-40, 110-122). *)
THEOREM IterationSafety == Spec => []OncePerIteration
<1>1. IInv => OncePerIteration
  BY DEF IInv, Core, Signalled, Heard, Working, Done, Before, OncePerIteration
<1> QED
  BY <1>1, Invariance, PTL

(* The sequential game is played by the same rules on the same cells. *)
LEMMA SameRules ==
    /\ Sequential!Cells = Cells
    /\ \A cell, grid : Sequential!is_alive(cell, grid) = is_alive(cell, grid)
<1>1. Sequential!Cells = Cells
  BY DEF Sequential!Cells, Sequential!Size, Cells, Size
<1>2. \A cell : Sequential!Neighbours(cell) = Neighbours(cell)
  BY <1>1 DEF Sequential!Neighbours, Sequential!Row, Sequential!Col, Neighbours, Row, Col
<1>3. ASSUME NEW cell, NEW grid PROVE Sequential!is_alive(cell, grid) = is_alive(cell, grid)
  <2>1. {other \in Sequential!Neighbours(cell) : grid[other]} = {other \in Neighbours(cell) : grid[other]}
    BY <1>2
  <2>2. \A S : Sequential!Cardinality(S) = Cardinality(S)
    BY DEF Sequential!Cardinality, Cardinality
  <2> QED
    BY <2>1, <2>2, Zenon DEF Sequential!is_alive, is_alive
<1> QED
  BY <1>1, <1>3

(* If half a second is enough, the threads implement the sequential game in
   every iteration no signal is lost in: the foreground changes with the swap
   only, and is then the next generation of what it was (life.c:107-122). *)
THEOREM Refinement == Spec => ImplementsLife
<1>1. Init => Sequential!LifeInit
  BY DEF Init, Sequential!LifeInit
<1>2. IInv /\ [Next]_vars => [Punctual /\ missed = {} => Sequential!Generation]_(grids[foreground])
  <2> SUFFICES ASSUME IInv, [Next]_vars, Punctual, missed = {}
               PROVE  Sequential!Generation \/ grids'[foreground'] = grids[foreground]
    OBVIOUS
  <2>1. Always /\ Core
    BY DEF IInv
  <2>2. CASE SwapForeground
    <3>1. main = "swap" /\ grids' = grids /\ foreground' = background
      BY <2>2 DEF SwapForeground
    <3>2. \A t \in Threads : Computed(t, Size)
      BY <2>1, <3>1 DEF Core, Signalled, Heard, Working, Done
    <3>3. ASSUME NEW cell \in Cells PROVE grids[background][cell] = is_alive(cell, grids[foreground])
      <4>1. PICK t \in Threads : First(t) <= cell /\ cell <= Last(t)
        BY SharesCover
      <4>2. cell < Size
        BY GridHasCells
      <4> QED
        BY <3>2, <4>1, <4>2 DEF Computed
    <3>4. grids[background] = [cell \in Cells |-> grids[background][cell]]
      BY <2>1 DEF Always, TypeOK, Grids
    <3>5. grids'[foreground'] = Sequential!update_grid(grids[foreground])
      BY <3>1, <3>3, <3>4, SameRules DEF Sequential!update_grid
    <3> QED
      BY <3>5 DEF Sequential!Generation
  <2>3. ASSUME NEW t \in Threads, ComputeCell(t) PROVE grids'[foreground'] = grids[foreground]
    <3>1. foreground' = foreground
      BY <2>3 DEF ComputeCell
    <3> QED
      BY <2>1, <2>3, <3>1, ComputeCellCore
  <2>4. CASE UNCHANGED <<grids, foreground>>
    BY <2>4
  <2>5. CASE \/ \E t \in Threads : Pause(t) \/ ReadPointer(t) \/ Call(t) \/ EndPart(t)
             \/ Draw \/ Kill \/ Sleep \/ Wake \/ SwapBackground \/ UNCHANGED vars
    BY <2>4, <2>5 DEF Pause, ReadPointer, Call, EndPart, Draw, Kill, Sleep, Wake, SwapBackground, vars
  <2> QED
    BY <2>2, <2>3, <2>5 DEF Next, Main, Thread
<1> QED
  BY <1>1, <1>2, Invariance, PTL DEF Spec, ImplementsLife
=============================================================================
