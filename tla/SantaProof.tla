-------------------------------- MODULE SantaProof --------------------------------
(***************************************************************************)
(* Theorems about Santa, for any finite set of reindeer and any number of  *)
(* spurious wake-ups.                                                      *)
(***************************************************************************)
EXTENDS Santa, FiniteSetTheorems, TLAPS

(* Whatever the spurious wake-ups, as long as every signal of a last reindeer
   has reached Santa: who waits for him when he is about to sleep or asleep has
   been counted since the last signal, and so has who waits again already while
   he still unlocks the mutexes of others. *)
Counting == Cardinality(counted) <= reindeers_ready_no
Heard == ~lost =>
    /\ santa \in {"call", "asleep"} => \A r \in Reindeer : Waiting(r) => r \in counted
    /\ santa = "release" => \A r \in released : Waiting(r) => r \in counted

(* Without spurious wake-ups Santa unlocks only the mutexes of those who wait,
   so a mutex of somebody who is away stays locked, and those who have been
   counted since the last signal wait: none while he delivers, and only such as
   he has released before while he unlocks the mutexes. *)
Core ==
    /\ reindeers_ready_no = Cardinality(counted)
    /\ \A r \in counted : Waiting(r)
    /\ \A r \in Reindeer : reindeer[r] # "lock" => r \in locked
    /\ santa \in {"woken", "deliver"} => AllWaiting /\ counted = {}
    /\ santa = "release" =>
         counted \subseteq released /\ \A r \in Reindeer : r \notin released => Waiting(r)

IInv == TypeOK /\ Counting /\ Heard /\ (spurious = 0 => Core)

-----------------------------------------------------------------------------
(* There is at least one reindeer. *)
LEMMA SomeReindeer == N \in Nat /\ N >= 1
<1>1. Cardinality(Reindeer) \in Nat
  BY ReindeerAssumption, FS_CardinalityType
<1>2. Cardinality(Reindeer) # 0
  BY ReindeerAssumption, FS_EmptySet
<1> QED
  BY <1>1, <1>2 DEF N

(* A set of reindeer as many as all, with one more, is all of them. *)
LEMMA AllCounted ==
    ASSUME NEW S \in SUBSET Reindeer, NEW r \in Reindeer, r \notin S
    PROVE  /\ Cardinality(S) \in Nat
           /\ Cardinality(S \cup {r}) = Cardinality(S) + 1
           /\ Cardinality(S) + 1 = N => S \cup {r} = Reindeer
<1>1. IsFiniteSet(S)
  BY ReindeerAssumption, FS_Subset
<1>2. Cardinality(S \cup {r}) = Cardinality(S) + 1 /\ Cardinality(S) \in Nat
  BY <1>1, FS_AddElement, FS_CardinalityType
<1>3. ASSUME Cardinality(S) + 1 = N PROVE S \cup {r} = Reindeer
  <2>1. S \cup {r} \subseteq Reindeer
    OBVIOUS
  <2> QED
    BY <1>2, <1>3, <2>1, ReindeerAssumption, FS_Subset DEF N
<1> QED
  BY <1>2, <1>3

-----------------------------------------------------------------------------
(* Types. *)

(* The types hold at the start; zero is a value of the counter. *)
LEMMA InitTypeOK == Init => TypeOK
<1> SUFFICES ASSUME Init PROVE TypeOK
  OBVIOUS
<1>1. reindeers_ready_no \in 0 .. N - 1
  BY SomeReindeer DEF Init
<1>2. spurious \in 0 .. MaxSpurious
  BY ReindeerAssumption DEF Init
<1>3. lost \in BOOLEAN
  BY DEF Init
<1> QED
  BY <1>1, <1>2, <1>3 DEF Init, TypeOK

(* The counter goes back to zero before it reaches N,
   so it keeps its type (main.c:48-58). *)
LEMMA NextTypeOK == TypeOK /\ [Next]_vars => TypeOK'
<1> SUFFICES ASSUME TypeOK, [Next]_vars PROVE TypeOK'
  OBVIOUS
<1> USE DEF TypeOK, Goto
<1>1. ASSUME NEW r \in Reindeer, Leave(r) PROVE TypeOK'
  BY <1>1 DEF Leave
<1>2. ASSUME NEW r \in Reindeer, Return(r) PROVE TypeOK'
  BY <1>2 DEF Return
<1>3. ASSUME NEW r \in Reindeer, CountIn(r) PROVE TypeOK'
  <2>1. reindeers_ready_no' \in 0 .. N - 1
    BY <1>3, SomeReindeer DEF CountIn
  <2>2. lost' \in BOOLEAN
    BY <1>3 DEF CountIn, Signal
  <2> QED
    BY <1>3, <2>1, <2>2 DEF CountIn, Signal
<1>4. ASSUME SantaStep PROVE TypeOK'
  BY <1>4 DEF SantaStep, FallAsleep, StartDelivery, EndDelivery, EndRelease, Release
<1>5. CASE SpuriousWakeup
  BY <1>5, ReindeerAssumption DEF SpuriousWakeup
<1>6. CASE UNCHANGED vars
  BY <1>6 DEF vars
<1> QED
  BY <1>1, <1>2, <1>3, <1>4, <1>5, <1>6 DEF Next, ReindeerStep

-----------------------------------------------------------------------------
(* What one step of a reindeer does. *)

(* A reindeer leaves only when its mutex is free, so nobody who waits leaves. *)
LEMMA LeaveEffect ==
    ASSUME TypeOK, NEW r \in Reindeer, Leave(r)
    PROVE  /\ \A q \in Reindeer : Waiting(q)' <=> Waiting(q)
           /\ reindeer' = [reindeer EXCEPT ![r] = "holidays"] /\ locked' = locked \cup {r}
           /\ UNCHANGED <<reindeers_ready_no, santa, released, counted, spurious, lost>>
  BY DEF TypeOK, Leave, Goto, Waiting

(* Coming back does not make a reindeer wait yet. *)
LEMMA ReturnEffect ==
    ASSUME TypeOK, NEW r \in Reindeer, Return(r)
    PROVE  /\ \A q \in Reindeer : Waiting(q)' <=> Waiting(q)
           /\ reindeer' = [reindeer EXCEPT ![r] = "back"] /\ reindeer[r] = "holidays"
           /\ UNCHANGED <<locked, reindeers_ready_no, santa, released, counted, spurious, lost>>
  BY DEF TypeOK, Return, Goto, Waiting

(* A reindeer that counts itself in waits from then on, if its mutex is still
   locked; nobody else is affected. *)
LEMMA CountInEffect ==
    ASSUME TypeOK, NEW r \in Reindeer, CountIn(r)
    PROVE  /\ \A q \in Reindeer : Waiting(q)' <=> Waiting(q) \/ (q = r /\ r \in locked)
           /\ reindeer' = [reindeer EXCEPT ![r] = "lock"] /\ reindeer[r] = "back"
           /\ UNCHANGED <<locked, released, spurious>>
<1>1. /\ reindeer' = [reindeer EXCEPT ![r] = "lock"] /\ reindeer[r] = "back"
      /\ UNCHANGED <<locked, released, spurious>>
  BY DEF CountIn, Goto
<1>2. reindeer'[r] = "lock" /\ \A q \in Reindeer : q # r => reindeer'[q] = reindeer[q]
  BY <1>1 DEF TypeOK
<1> QED
  BY <1>1, <1>2 DEF Waiting

-----------------------------------------------------------------------------
(* Counted reindeer and the counter. *)

(* Nobody is counted at the start. *)
LEMMA InitCounting == Init => Counting
  BY FS_EmptySet DEF Init, Counting

(* A reindeer counted twice makes the counter larger, not the set. *)
LEMMA NextCounting == TypeOK /\ Counting /\ [Next]_vars => Counting'
<1> SUFFICES ASSUME TypeOK, Counting, [Next]_vars PROVE Counting'
  OBVIOUS
<1>1. ASSUME NEW r \in Reindeer, CountIn(r) PROVE Counting'
  <2>1. CASE reindeers_ready_no + 1 = N
    <3>1. reindeers_ready_no' = 0 /\ counted' = {}
      BY <1>1, <2>1 DEF CountIn
    <3> QED
      BY <3>1, FS_EmptySet DEF Counting
  <2>2. CASE reindeers_ready_no + 1 # N
    <3>1. reindeers_ready_no' = reindeers_ready_no + 1 /\ counted' = counted \cup {r}
      BY <1>1, <2>2 DEF CountIn
    <3>2. Cardinality(counted) \in Nat /\ Cardinality(counted') <= Cardinality(counted) + 1
      <4>1. IsFiniteSet(counted)
        BY ReindeerAssumption, FS_Subset DEF TypeOK
      <4>2. Cardinality(counted) \in Nat
        BY <4>1, FS_CardinalityType
      <4>3. CASE r \in counted
        <5>1. counted' = counted
          BY <3>1, <4>3
        <5> QED
          BY <4>2, <5>1
      <4>4. CASE r \notin counted
        BY <3>1, <4>1, <4>2, <4>4, FS_AddElement
      <4> QED
        BY <4>2, <4>3, <4>4
    <3>3. Cardinality(counted') \in Nat
      <4>1. IsFiniteSet(counted')
        BY <3>1, ReindeerAssumption, FS_Subset DEF TypeOK
      <4> QED
        BY <4>1, FS_CardinalityType
    <3>4. reindeers_ready_no \in Nat
      BY SomeReindeer DEF TypeOK
    <3> QED
      BY <3>1, <3>2, <3>3, <3>4 DEF Counting
  <2> QED
    BY <2>1, <2>2
<1>2. CASE ~\E r \in Reindeer : CountIn(r)
  <2>1. UNCHANGED <<reindeers_ready_no, counted>>
    BY <1>2 DEF Next, ReindeerStep, SantaStep, Leave, Return, FallAsleep, SpuriousWakeup,
           StartDelivery, EndDelivery, EndRelease, Release, vars
  <2> QED
    BY <2>1 DEF Counting
<1> QED
  BY <1>1, <1>2

-----------------------------------------------------------------------------
(* Signals that reach Santa. *)

(* Nobody waits before having locked its mutex once. *)
LEMMA InitHeard == Init => Heard
  BY DEF Init, Heard, Waiting

(* A signal wakes Santa, who then releases all who wait; until the next one
   those who begin to wait are counted (main.c:48-57, 67-75). *)
LEMMA NextHeard == TypeOK /\ Heard /\ [Next]_vars => Heard'
<1> SUFFICES ASSUME TypeOK, Heard, [Next]_vars, ~lost' PROVE Heard'
  BY DEF Heard
<1>1. ASSUME NEW r \in Reindeer, Leave(r) \/ Return(r) PROVE Heard'
  <2>1. /\ \A q \in Reindeer : Waiting(q)' <=> Waiting(q)
        /\ UNCHANGED <<santa, released, counted, lost>>
    BY <1>1, LeaveEffect, ReturnEffect
  <2> QED
    BY <2>1 DEF Heard, TypeOK
<1>2. ASSUME NEW r \in Reindeer, CountIn(r) PROVE Heard'
  <2>1. \A q \in Reindeer : Waiting(q)' => Waiting(q) \/ q = r
    BY <1>2, CountInEffect
  <2>2. released' = released /\ ~lost
    BY <1>2 DEF CountIn, Signal, TypeOK
  <2>3. CASE reindeers_ready_no + 1 = N
    <3>1. santa' = "woken"
      BY <1>2, <2>3 DEF CountIn, Signal
    <3> QED
      BY <3>1 DEF Heard
  <2>4. CASE reindeers_ready_no + 1 # N
    <3>1. santa' = santa /\ counted' = counted \cup {r}
      BY <1>2, <2>4 DEF CountIn
    <3> QED
      BY <2>1, <2>2, <3>1 DEF Heard, TypeOK
  <2> QED
    BY <2>3, <2>4
<1>3. CASE SantaStep \/ SpuriousWakeup
  <2>1. UNCHANGED <<reindeer, counted, lost>>
    BY <1>3 DEF SantaStep, FallAsleep, StartDelivery, EndDelivery, EndRelease, Release, SpuriousWakeup
  <2>2. CASE FallAsleep \/ EndRelease
    <3>1. locked' = locked /\ \A r \in Reindeer : Waiting(r) => r \in counted
      BY <2>1, <2>2 DEF FallAsleep, EndRelease, Heard
    <3>2. santa' \in {"call", "asleep"}
      BY <2>2 DEF FallAsleep, EndRelease
    <3> QED
      BY <2>1, <3>1, <3>2 DEF Heard, Waiting
  <2>3. CASE StartDelivery \/ EndDelivery \/ SpuriousWakeup
    BY <2>3 DEF StartDelivery, EndDelivery, SpuriousWakeup, Heard
  <2>4. ASSUME NEW r \in Reindeer, Release(r) PROVE Heard'
    <3>1. santa = "release" /\ santa' = santa /\ locked' = locked \ {r} /\ released' = released \cup {r}
      BY <2>4 DEF Release
    <3> QED
      BY <2>1, <3>1 DEF Heard, Waiting
  <2> QED
    BY <1>3, <2>2, <2>3, <2>4 DEF SantaStep
<1>4. CASE UNCHANGED vars
  BY <1>4 DEF vars, Heard, Waiting
<1> QED
  BY <1>1, <1>2, <1>3, <1>4 DEF Next, ReindeerStep

-----------------------------------------------------------------------------
(* Without spurious wake-ups. *)

(* At the start nobody is counted and every reindeer has its mutex to lock. *)
LEMMA InitCore == Init => Core
<1> SUFFICES ASSUME Init PROVE Core
  OBVIOUS
<1>1. reindeers_ready_no = Cardinality(counted)
  BY FS_EmptySet DEF Init
<1> QED
  BY <1>1 DEF Init, Core, Waiting

(* A wake-up without a signal is never forgotten. *)
LEMMA StillNoSpurious ==
    ASSUME TypeOK, [Next]_vars, spurious' = 0
    PROVE  spurious = 0 /\ ~SpuriousWakeup
<1>1. SpuriousWakeup \/ UNCHANGED spurious
  BY DEF Next, ReindeerStep, SantaStep, Leave, Return, CountIn, FallAsleep,
         StartDelivery, EndDelivery, EndRelease, Release, vars
<1>2. spurious \in Nat
  BY ReindeerAssumption DEF TypeOK
<1>3. ~SpuriousWakeup
  BY <1>2 DEF SpuriousWakeup
<1> QED
  BY <1>1, <1>3

(* The last one to be counted finds all the others waiting; the others join
   those who wait. *)
LEMMA CountInKeepsCore ==
    ASSUME TypeOK, Core, NEW r \in Reindeer, CountIn(r)
    PROVE  Core'
<1>1. /\ \A q \in Reindeer : Waiting(q)' <=> Waiting(q) \/ q = r
      /\ reindeer' = [reindeer EXCEPT ![r] = "lock"] /\ reindeer[r] = "back"
      /\ UNCHANGED <<locked, released>>
  BY CountInEffect DEF Core
<1>2. ~Waiting(r) /\ r \notin counted /\ santa \notin {"woken", "deliver"}
  BY <1>1 DEF Core, Waiting, AllWaiting
<1>3. santa = "release" => r \in released
  BY <1>2 DEF Core
<1>4. /\ Cardinality(counted) \in Nat
      /\ Cardinality(counted \cup {r}) = Cardinality(counted) + 1
      /\ Cardinality(counted) + 1 = N => counted \cup {r} = Reindeer
  BY <1>2, AllCounted DEF TypeOK
<1>5. \A q \in Reindeer : reindeer'[q] # "lock" => q \in locked'
  BY <1>1 DEF TypeOK, Core
<1>6. CASE reindeers_ready_no + 1 = N
  <2>1. /\ santa' = IF santa = "asleep" THEN "woken" ELSE santa
        /\ reindeers_ready_no' = 0 /\ counted' = {}
    BY <1>6 DEF CountIn, Signal
  <2>2. counted \cup {r} = Reindeer
    BY <1>4, <1>6 DEF Core
  <2>3. AllWaiting'
    BY <1>1, <2>2 DEF Core, AllWaiting
  <2>4. reindeers_ready_no' = Cardinality(counted')
    BY <2>1, FS_EmptySet
  <2>5. \A q \in Reindeer : Waiting(q)'
    BY <2>3 DEF AllWaiting
  <2> QED
    BY <1>5, <2>1, <2>3, <2>4, <2>5 DEF Core
<1>7. CASE reindeers_ready_no + 1 # N
  <2>1. santa' = santa /\ reindeers_ready_no' = reindeers_ready_no + 1 /\ counted' = counted \cup {r}
    BY <1>7 DEF CountIn
  <2>2. reindeers_ready_no' = Cardinality(counted')
    BY <1>4, <2>1 DEF Core
  <2>3. \A q \in counted' : Waiting(q)'
    BY <1>1, <2>1 DEF Core, TypeOK
  <2>4. santa' = "release" =>
          counted' \subseteq released' /\ \A q \in Reindeer : q \notin released' => Waiting(q)'
    BY <1>1, <1>3, <2>1 DEF Core
  <2> QED
    BY <1>2, <1>5, <2>1, <2>2, <2>3, <2>4 DEF Core
<1> QED
  BY <1>6, <1>7

(* The other steps of a reindeer leave alone who waits and who is counted. *)
LEMMA HolidaysKeepCore ==
    ASSUME TypeOK, Core, NEW r \in Reindeer, Leave(r) \/ Return(r)
    PROVE  Core'
<1>1. /\ \A q \in Reindeer : Waiting(q)' <=> Waiting(q)
      /\ UNCHANGED <<reindeers_ready_no, santa, released, counted>>
  BY LeaveEffect, ReturnEffect
<1>2. \A q \in Reindeer : reindeer'[q] # "lock" => q \in locked'
  <2>1. CASE Leave(r)
    BY <2>1, LeaveEffect DEF TypeOK, Core
  <2>2. CASE Return(r)
    BY <2>2, ReturnEffect DEF TypeOK, Core
  <2> QED
    BY <2>1, <2>2
<1>3. AllWaiting' <=> AllWaiting
  BY <1>1 DEF AllWaiting
<1>4. \A q \in counted' : Waiting(q)'
  BY <1>1 DEF Core, TypeOK
<1> QED
  BY <1>1, <1>2, <1>3, <1>4 DEF Core

(* Santa's own steps: he unlocks the mutexes of those who wait, one by one. *)
LEMMA SantaKeepsCore ==
    ASSUME TypeOK, Core, SantaStep
    PROVE  Core'
<1>1. UNCHANGED <<reindeer, reindeers_ready_no, counted>>
  BY DEF SantaStep, FallAsleep, StartDelivery, EndDelivery, EndRelease, Release
<1>2. CASE FallAsleep \/ StartDelivery \/ EndDelivery \/ EndRelease
  <2>1. UNCHANGED locked
    BY <1>2 DEF FallAsleep, StartDelivery, EndDelivery, EndRelease
  <2>2. \A q \in Reindeer : Waiting(q)' <=> Waiting(q)
    BY <1>1, <2>1 DEF Waiting
  <2>3. santa' \in {"woken", "deliver"} => AllWaiting /\ counted = {}
    BY <1>2 DEF FallAsleep, StartDelivery, EndDelivery, EndRelease, Core
  <2>4. santa' = "release" => AllWaiting /\ counted = {}
    BY <1>2 DEF FallAsleep, StartDelivery, EndDelivery, EndRelease, Core
  <2>5. \A q \in counted' : Waiting(q)'
    BY <1>1, <2>2 DEF Core, TypeOK
  <2> QED
    BY <1>1, <2>1, <2>2, <2>3, <2>4, <2>5 DEF Core, AllWaiting
<1>3. ASSUME NEW r \in Reindeer, Release(r) PROVE Core'
  <2>1. santa = "release" /\ r \notin released /\ santa' = santa
        /\ locked' = locked \ {r} /\ released' = released \cup {r}
    BY <1>3 DEF Release
  <2>2. Waiting(r) /\ r \notin counted
    BY <2>1 DEF Core
  <2>3. \A q \in Reindeer : Waiting(q)' <=> Waiting(q) /\ q # r
    BY <1>1, <2>1 DEF Waiting
  <2>4. \A q \in counted' : Waiting(q)'
    BY <1>1, <2>2, <2>3 DEF Core, TypeOK
  <2>5. \A q \in Reindeer : reindeer'[q] # "lock" => q \in locked'
    BY <1>1, <2>1, <2>2 DEF Core, Waiting
  <2> QED
    BY <1>1, <2>1, <2>3, <2>4, <2>5 DEF Core
<1> QED
  BY <1>2, <1>3 DEF SantaStep

(* Every step keeps it, however early the reindeer return, unless it is a
   wake-up without a signal. *)
LEMMA NextCore ==
    ASSUME TypeOK, spurious = 0 => Core, [Next]_vars, spurious' = 0
    PROVE  Core'
<1>1. Core /\ ~SpuriousWakeup
  BY StillNoSpurious
<1>2. CASE UNCHANGED vars
  BY <1>1, <1>2 DEF vars, Core, Waiting, AllWaiting
<1> QED
  BY <1>1, <1>2, HolidaysKeepCore, CountInKeepsCore, SantaKeepsCore DEF Next, ReindeerStep

-----------------------------------------------------------------------------
(* The strengthened invariant holds in every reachable state. *)
THEOREM Invariance == Spec => []IInv
<1>1. Init => IInv
  BY InitTypeOK, InitCounting, InitHeard, InitCore DEF IInv
<1>2. IInv /\ [Next]_vars => IInv'
  BY NextTypeOK, NextCounting, NextHeard, NextCore DEF IInv
<1> QED
  BY <1>1, <1>2, PTL DEF Spec

-----------------------------------------------------------------------------
(* The counter stays below the number of reindeer outside its critical
   section, whatever Santa does (main.c:48-58). *)
THEOREM TypeCorrect == Spec => []TypeOK
<1>1. IInv => TypeOK
  BY DEF IInv
<1> QED
  BY <1>1, Invariance, PTL

(* The counter counts reindeer, each once, however early they return
   (main.c:48-58), unless Santa has been woken without a signal. *)
THEOREM CountSafety == Spec => []CountsEachOnce
<1>1. IInv => CountsEachOnce
  BY DEF IInv, CountsEachOnce, Core
<1> QED
  BY <1>1, Invariance, PTL

(* Santa is woken by a signal, and delivers, only with all reindeer back,
   however early they return (main.c:67-72). *)
THEOREM WakingSafety == Spec => []WokenByAll
<1>1. IInv => WokenByAll
  BY DEF IInv, WokenByAll, Core
<1> QED
  BY <1>1, Invariance, PTL

(* Santa sleeps while all reindeer wait for him only if a signal found him out
   of his wait: there is no other way, whatever spurious wake-ups there are
   and however early the reindeer return (main.c:53-57, 67). *)
THEOREM SleepSafety == Spec => []NoSleepWhileAllWait
<1>1. IInv => NoSleepWhileAllWait
  <2> SUFFICES ASSUME IInv, santa \in {"call", "asleep"}, AllWaiting, ~lost PROVE FALSE
    BY DEF NoSleepWhileAllWait
  <2>1. TypeOK /\ Counting /\ Heard
    BY DEF IInv
  <2>2. counted = Reindeer
    BY <2>1 DEF Heard, AllWaiting, TypeOK
  <2>3. N <= reindeers_ready_no /\ reindeers_ready_no \in 0 .. N - 1
    BY <2>1, <2>2 DEF Counting, N, TypeOK
  <2> QED
    BY <2>3, SomeReindeer
<1> QED
  BY <1>1, Invariance, PTL
=============================================================================
