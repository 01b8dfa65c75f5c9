---------------------------------- MODULE Santa ----------------------------------
(***************************************************************************)
(* lab10: the Santa Claus problem.  Every reindeer thread owns a mutex it  *)
(* locks before its holidays; coming back it counts itself, the last one   *)
(* signals Santa and resets the counter.  Santa waits on a condition       *)
(* variable with no predicate, delivers, and unlocks the mutexes of all    *)
(* the reindeer so that they can leave again.                              *)
(*                                                                         *)
(* Sleeping is a state a thread leaves at any time.  main only starts the  *)
(* threads and ends the process after a minute, which is not modelled.     *)
(***************************************************************************)
EXTENDS Integers, FiniteSets

CONSTANTS
    Reindeer,       \* nine of them in the code
    MaxSpurious     \* bound on the spurious wake-ups of a behaviour

ASSUME ReindeerAssumption ==
    /\ IsFiniteSet(Reindeer) /\ Reindeer # {}
    /\ MaxSpurious \in Nat

N == Cardinality(Reindeer)

VARIABLES
    reindeer,           \* "lock", "holidays" or "back"
    locked,             \* the reindeer whose mutex is locked
    reindeers_ready_no,
    santa,              \* "call" (about to wait), "asleep", "woken", "deliver", "release"
    released,           \* mutexes unlocked so far in Santa's loop
    counted,            \* history: who makes up reindeers_ready_no
    spurious,           \* spurious wake-ups so far
    lost                \* history: a last reindeer has signalled santa_cond while
                        \* Santa was not in pthread_cond_wait

vars == <<reindeer, locked, reindeers_ready_no, santa, released, counted, spurious, lost>>

Init ==
    /\ reindeer = [r \in Reindeer |-> "lock"]
    /\ locked = {} /\ reindeers_ready_no = 0
    /\ santa = "call" /\ released = {}
    /\ counted = {} /\ spurious = 0 /\ lost = FALSE

Goto(r, label) == reindeer' = [reindeer EXCEPT ![r] = label]

(* pthread_mutex_lock on the reindeer's own mutex. *)
Leave_NoLock(r) ==
    /\ reindeer[r] = "lock"
    /\ Goto(r, "holidays")
    /\ UNCHANGED <<locked, reindeers_ready_no, santa, released, counted, spurious, lost>>
Leave(r) ==
    /\ reindeer[r] = "lock" /\ r \notin locked
    /\ locked' = locked \cup {r}
    /\ Goto(r, "holidays")
    /\ UNCHANGED <<reindeers_ready_no, santa, released, counted, spurious, lost>>

(* The end of sleep(rand() % 6 + 5). *)
Return(r) ==
    /\ reindeer[r] = "holidays"
    /\ Goto(r, "back")
    /\ UNCHANGED <<locked, reindeers_ready_no, santa, released, counted, spurious, lost>>

(* pthread_cond_signal reaches Santa only if he is asleep at that moment. *)
Signal ==
    /\ santa' = IF santa = "asleep" THEN "woken" ELSE santa
    /\ lost' = (lost \/ santa # "asleep")

(* The critical section of reindeers_ready_mutex. *)
CountIn_NoSignal(r) ==
    /\ reindeer[r] = "back"
    /\ reindeers_ready_no' = (reindeers_ready_no + 1) % N
    /\ counted' = IF reindeers_ready_no + 1 = N THEN {} ELSE counted \cup {r}
    /\ Goto(r, "lock")
    /\ UNCHANGED <<locked, santa, released, spurious, lost>>
CountIn_OneShort(r) ==
    /\ reindeer[r] = "back"
    /\ IF reindeers_ready_no + 2 = N THEN Signal ELSE UNCHANGED <<santa, lost>>
    /\ reindeers_ready_no' = (reindeers_ready_no + 1) % N
    /\ counted' = IF reindeers_ready_no + 1 = N THEN {} ELSE counted \cup {r}
    /\ Goto(r, "lock")
    /\ UNCHANGED <<locked, released, spurious>>
CountIn(r) ==
    /\ reindeer[r] = "back"
    /\ IF reindeers_ready_no + 1 = N
         THEN Signal /\ reindeers_ready_no' = 0 /\ counted' = {}
         ELSE /\ reindeers_ready_no' = reindeers_ready_no + 1
              /\ counted' = counted \cup {r}
              /\ UNCHANGED <<santa, lost>>
    /\ Goto(r, "lock")
    /\ UNCHANGED <<locked, released, spurious>>

(* pthread_cond_wait: nobody else ever takes santa_mutex. *)
FallAsleep ==
    /\ santa = "call"
    /\ santa' = "asleep"
    /\ UNCHANGED <<reindeer, locked, reindeers_ready_no, released, counted, spurious, lost>>

(* A wait may end without a signal; there is no loop to notice it. *)
SpuriousWakeup ==
    /\ santa = "asleep" /\ spurious < MaxSpurious
    /\ santa' = "woken" /\ spurious' = spurious + 1
    /\ UNCHANGED <<reindeer, locked, reindeers_ready_no, released, counted, lost>>

StartDelivery_Skipped ==
    /\ santa = "woken"
    /\ santa' = "release" /\ released' = {}
    /\ UNCHANGED <<reindeer, locked, reindeers_ready_no, counted, spurious, lost>>
StartDelivery ==
    /\ santa = "woken"
    /\ santa' = "deliver"
    /\ UNCHANGED <<reindeer, locked, reindeers_ready_no, released, counted, spurious, lost>>

EndDelivery ==
    /\ santa = "deliver"
    /\ santa' = "release" /\ released' = {}
    /\ UNCHANGED <<reindeer, locked, reindeers_ready_no, counted, spurious, lost>>

(* pthread_mutex_unlock on each reindeer's mutex in turn, whoever holds it. *)
Release(r) ==
    /\ santa = "release" /\ r \notin released
    /\ locked' = locked \ {r}
    /\ released' = released \cup {r}
    /\ UNCHANGED <<reindeer, reindeers_ready_no, santa, counted, spurious, lost>>

EndRelease ==
    /\ santa = "release" /\ released = Reindeer
    /\ santa' = "call" /\ released' = {}
    /\ UNCHANGED <<reindeer, locked, reindeers_ready_no, counted, spurious, lost>>

ReindeerStep(r) == Leave(r) \/ Return(r) \/ CountIn(r)
SantaStep ==
    FallAsleep \/ StartDelivery \/ EndDelivery \/ EndRelease \/ \E r \in Reindeer : Release(r)

Next == (\E r \in Reindeer : ReindeerStep(r)) \/ SantaStep \/ SpuriousWakeup

Spec == Init /\ [][Next]_vars

(* Every thread that can run is eventually scheduled, every sleep ends. *)
FairSpec == Spec /\ WF_vars(SantaStep) /\ \A r \in Reindeer : WF_vars(ReindeerStep(r))
-----------------------------------------------------------------------------
TypeOK ==
    /\ reindeer \in [Reindeer -> {"lock", "holidays", "back"}]
    /\ locked \subseteq Reindeer /\ released \subseteq Reindeer /\ counted \subseteq Reindeer
    /\ reindeers_ready_no \in 0 .. N - 1
    /\ santa \in {"call", "asleep", "woken", "deliver", "release"}
    /\ spurious \in 0 .. MaxSpurious /\ lost \in BOOLEAN

(* Back from holidays and stopped at its own mutex. *)
Waiting(r) == reindeer[r] = "lock" /\ r \in locked
AllWaiting == \A r \in Reindeer : Waiting(r)

(* Unless Santa has been woken without a signal, which no loop around his wait
   would notice, the counter counts reindeer, each once: the ninth to be
   counted is the ninth to be back (main.c:48-58), however early they return; *)
CountsEachOnce == spurious = 0 =>
    reindeers_ready_no = Cardinality(counted) /\ \A r \in counted : Waiting(r)

(* ... and "Santa can be woken only when all nine reindeer have come back", and
   they are with him as long as he delivers (main.c:67-72). *)
WokenByAll == spurious = 0 /\ santa \in {"woken", "deliver"} => AllWaiting

(* Santa sleeps while all reindeer wait for him in one case only, whatever
   spurious wake-ups there have been: a last reindeer sent its signal while he
   was not in pthread_cond_wait.  Nothing in the code rules that out but the
   five seconds that holidays take at least (main.c:53-57, 67). *)
NoSleepWhileAllWait == santa \in {"call", "asleep"} /\ AllWaiting => lost

(* Deliveries never cease, again unless such a signal has been lost
   (main.c:65-77). *)
AlwaysDeliversAgain == []<>(santa = "deliver" \/ lost)
=============================================================================
