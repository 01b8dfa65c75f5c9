--------------------------- MODULE ProducerConsumer ---------------------------
(***************************************************************************)
(* kolokwium2/test_2: one producer and one consumer thread share a buffer  *)
(* (a stack: buffer[count++] / buffer[--count]) guarded by one mutex and   *)
(* two condition variables; main joins both threads and runs the checks    *)
(* of checks.h.                                                            *)
(*                                                                         *)
(* A thread's pc names the statement it executes next:                     *)
(*   mutexcheck, condcheck  the check_mutex_* and check_cond_* calls       *)
(*   lock                   pthread_mutex_lock                             *)
(*   test                   the while condition, the mutex held            *)
(*   waiting, wakeup        inside pthread_cond_wait, before and after     *)
(*                          the wake-up (the mutex not held)               *)
(*   signal, unlock         pthread_cond_signal, pthread_mutex_unlock      *)
(***************************************************************************)
EXTENDS Integers, FiniteSets

CONSTANTS
    BUFFER_SIZE,    \* capacity of the buffer
    VALUE_COUNT,    \* how many values are produced and consumed
    MaxSpurious     \* bound on the spurious wake-ups of a behaviour

ASSUME SizesAssumption ==
    /\ BUFFER_SIZE \in Nat \ {0}
    /\ VALUE_COUNT \in Nat \ {0}
    /\ MaxSpurious \in Nat

Producer == "producer"
Consumer == "consumer"
Threads == {Producer, Consumer}
Other(t) == IF t = Producer THEN Consumer ELSE Producer
Values == 0 .. VALUE_COUNT - 1

VARIABLES
    mutex,          \* the thread that holds the mutex, or "free"
    buffer, count,  \* the shared stack and its fill level
    i,              \* loop counter of each thread
    pc,             \* statement each thread executes next
    mainpc,         \* "join", "check" or "done"
    mutex1, cond1,  \* the globals of checks.h
    processed_value_count, processed_value_sum,
    taken,          \* history: the values passed to process_value
    failed,         \* some check printed FAIL
    spurious        \* spurious wake-ups so far

harness == <<mainpc, mutex1, cond1, failed>>
tally == <<processed_value_count, processed_value_sum, taken>>
vars == <<mutex, buffer, count, i, pc, harness, tally, spurious>>

Goto(t, label) == pc' = [pc EXCEPT ![t] = label]

Init ==
    /\ mutex = "free"
    /\ buffer = [k \in 0 .. BUFFER_SIZE - 1 |-> 0]
    /\ count = 0
    /\ i = [t \in Threads |-> 0]
    /\ pc = [t \in Threads |-> "mutexcheck"]
    /\ mainpc = "join"
    /\ mutex1 = "NULL" /\ cond1 = "NULL"
    /\ processed_value_count = 0 /\ processed_value_sum = 0 /\ taken = {}
    /\ failed = FALSE
    /\ spurious = 0

(* check_mutex_producer, check_mutex_consumer: the first caller records the
   mutex, the second must have been given the same one. *)
CheckMutex(t) ==
    /\ pc[t] = "mutexcheck" /\ mutex = "free"
    /\ mutex1' = "mutex"
    /\ failed' = (failed \/ mutex1 \notin {"NULL", "mutex"})
    /\ Goto(t, "condcheck")
    /\ UNCHANGED <<mutex, buffer, count, i, mainpc, cond1, tally, spurious>>

(* pthread_cond_broadcast and pthread_cond_signal on the condition a thread
   waits for: the waiter, if there is one, leaves the wait queue. *)
Wake(t, next) ==
    pc' = [pc EXCEPT ![t] = next,
                     ![Other(t)] = IF @ = "waiting" THEN "wakeup" ELSE @]

(* check_cond_producer, check_cond_consumer: broadcasts the thread's own
   condition, on which only the thread itself ever waits, then requires the
   two conditions to differ.  A thread's condition is named after it. *)
CheckCond(t) ==
    /\ pc[t] = "condcheck" /\ mutex = "free"
    /\ IF cond1 = "NULL" THEN cond1' = t /\ UNCHANGED failed
                         ELSE failed' = (failed \/ cond1 = t) /\ UNCHANGED cond1
    /\ Goto(t, "lock")
    /\ UNCHANGED <<mutex, buffer, count, i, mainpc, mutex1, tally, spurious>>

(* pthread_mutex_lock, and the re-acquisition at the end of a wait. *)
Lock(t) ==
    /\ pc[t] \in {"lock", "wakeup"} /\ mutex = "free"
    /\ mutex' = t
    /\ Goto(t, "test")
    /\ UNCHANGED <<buffer, count, i, harness, tally, spurious>>

(* The conditions the while loops wait on. *)
MustWait(t) == IF t = Producer THEN count = BUFFER_SIZE ELSE count = 0

(* pthread_cond_wait: releases the mutex and starts waiting in one step. *)
Wait_Spin(t) ==
    /\ pc[t] = "test" /\ MustWait(t)
    /\ mutex' = "free"
    /\ Goto(t, "lock")
    /\ UNCHANGED <<buffer, count, i, harness, tally, spurious>>
Wait(t) ==
    /\ pc[t] = "test" /\ MustWait(t)
    /\ mutex' = "free"
    /\ Goto(t, "waiting")
    /\ UNCHANGED <<buffer, count, i, harness, tally, spurious>>

(* A wait may end without a signal; the loop tests its condition again. *)
SpuriousWakeup(t) ==
    /\ pc[t] = "waiting" /\ spurious < MaxSpurious
    /\ spurious' = spurious + 1
    /\ Goto(t, "wakeup")
    /\ UNCHANGED <<mutex, buffer, count, i, harness, tally>>

Produce ==
    /\ pc[Producer] = "test" /\ ~MustWait(Producer)
    /\ buffer' = [buffer EXCEPT ![count] = i[Producer]]
    /\ count' = count + 1
    /\ Goto(Producer, "signal")
    /\ UNCHANGED <<mutex, i, harness, tally, spurious>>

(* value = buffer[--count]; process_value(value) *)
Consume_NoPredecrement ==
    /\ pc[Consumer] = "test" /\ ~MustWait(Consumer)
    /\ LET value == buffer[count % BUFFER_SIZE] IN
         /\ processed_value_sum' = processed_value_sum + value
         /\ taken' = taken \cup {value}
    /\ processed_value_count' = processed_value_count + 1
    /\ count' = count - 1
    /\ Goto(Consumer, "signal")
    /\ UNCHANGED <<mutex, buffer, i, harness, spurious>>
Consume ==
    /\ pc[Consumer] = "test" /\ ~MustWait(Consumer)
    /\ LET value == buffer[count - 1] IN
         /\ processed_value_sum' = processed_value_sum + value
         /\ taken' = taken \cup {value}
    /\ processed_value_count' = processed_value_count + 1
    /\ count' = count - 1
    /\ Goto(Consumer, "signal")
    /\ UNCHANGED <<mutex, buffer, i, harness, spurious>>

(* pthread_cond_signal on the condition of the other thread. *)
Signal_Lost(t) ==
    /\ pc[t] = "signal"
    /\ Goto(t, "unlock")
    /\ UNCHANGED <<mutex, buffer, count, i, harness, tally, spurious>>
Signal(t) ==
    /\ pc[t] = "signal"
    /\ Wake(t, "unlock")
    /\ UNCHANGED <<mutex, buffer, count, i, harness, tally, spurious>>

(* pthread_mutex_unlock, ++i and the test of the for loop. *)
Unlock(t) ==
    /\ pc[t] = "unlock"
    /\ mutex' = "free"
    /\ i' = [i EXCEPT ![t] = @ + 1]
    /\ Goto(t, IF i[t] + 1 < VALUE_COUNT THEN "lock" ELSE "done")
    /\ UNCHANGED <<buffer, count, harness, tally, spurious>>

(* main: both pthread_join calls return, then check_wait, check_results;
   the expected sum of checks.h is (20 / 2) * (0 + 19) for 20 values. *)
JoinGuard_First == pc[Producer] = "done"
JoinGuard == \A t \in Threads : pc[t] = "done"
Join ==
    /\ mainpc = "join" /\ JoinGuard
    /\ mainpc' = "check"
    /\ UNCHANGED <<mutex, buffer, count, i, pc, mutex1, cond1, failed, tally, spurious>>
ExpectedSum == (VALUE_COUNT * (VALUE_COUNT - 1)) \div 2
RunChecks ==
    /\ mainpc = "check"
    /\ failed' = (\/ failed
                  \/ processed_value_count # VALUE_COUNT
                  \/ processed_value_sum # ExpectedSum)
    /\ mainpc' = "done"
    /\ UNCHANGED <<mutex, buffer, count, i, pc, mutex1, cond1, tally, spurious>>

ThreadStep(t) ==
    \/ CheckMutex(t) \/ CheckCond(t) \/ Lock(t) \/ Wait(t) \/ Signal(t) \/ Unlock(t)
    \/ t = Producer /\ Produce
    \/ t = Consumer /\ Consume

Terminated == mainpc = "done" /\ UNCHANGED vars

Next ==
    \/ \E t \in Threads : ThreadStep(t) \/ SpuriousWakeup(t)
    \/ Join \/ RunChecks
    \/ Terminated

Spec == Init /\ [][Next]_vars

(* Every thread that can run is eventually scheduled. *)
Fairness == (\A t \in Threads : WF_vars(ThreadStep(t))) /\ WF_vars(Join) /\ WF_vars(RunChecks)
FairSpec == Spec /\ Fairness
-----------------------------------------------------------------------------
Pcs == {"mutexcheck", "condcheck", "lock", "test", "waiting", "wakeup",
        "signal", "unlock", "done"}

TypeOK ==
    /\ mutex \in Threads \cup {"free"}
    /\ buffer \in [0 .. BUFFER_SIZE - 1 -> Values]
    /\ count \in 0 .. BUFFER_SIZE
    /\ i \in [Threads -> 0 .. VALUE_COUNT]
    /\ pc \in [Threads -> Pcs]
    /\ mainpc \in {"join", "check", "done"}
    /\ mutex1 \in {"NULL", "mutex"} /\ cond1 \in Threads \cup {"NULL"}
    /\ processed_value_count \in 0 .. VALUE_COUNT /\ processed_value_sum \in Nat
    /\ taken \subseteq Values
    /\ failed \in BOOLEAN
    /\ spurious \in 0 .. MaxSpurious

(* A value is in transit between the buffer update and the loop counter. *)
InFlight(t) == IF pc[t] \in {"signal", "unlock"} THEN 1 ELSE 0
Produced == i[Producer] + InFlight(Producer)
Pending == {buffer[k] : k \in 0 .. count - 1}

(* Only the holder of the mutex is between lock and unlock, so two threads
   never touch buffer and count at once (main.c:53-65, 82-95). *)
MutualExclusion == \A t \in Threads : pc[t] \in {"test", "signal", "unlock"} <=> mutex = t

(* Every value the producer has stored is either still in the buffer, in one
   place only, or was processed; never both (main.c:60 and 88). *)
ExactlyOnce ==
    /\ \A j, k \in 0 .. count - 1 : buffer[j] = buffer[k] => j = k
    /\ Pending \cap taken = {}
    /\ Pending \cup taken = 0 .. Produced - 1

(* A thread sleeps in pthread_cond_wait while its condition has become true
   only if the other thread is just about to signal it. *)
NoLostWakeup ==
    \A t \in Threads :
        pc[t] = "waiting" /\ ~MustWait(t) => pc[Other(t)] = "signal"

(* checks.h never prints FAIL: the mutex is shared, the two conditions are
   different, all values were processed when main gets past the joins. *)
ChecksPass == ~failed

(* Both threads finish and main reports (main.c:112-118). *)
Termination == <>(mainpc = "done")

(* The program implements the hand-over of Handoff, fairness included. *)
Abstract == INSTANCE Handoff WITH produced <- Produced, pending <- Pending, processed <- taken
ImplementsHandoff == Abstract!HFairSpec
=============================================================================
