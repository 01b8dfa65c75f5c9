------------------------ MODULE ProducerConsumerProof ------------------------
(***************************************************************************)
(* Safety of kolokwium2/test_2 for every buffer size and value count.      *)
(*                                                                         *)
(* Everything follows from one inductive invariant.  TypeOK alone is not   *)
(* inductive: that count stays within the buffer needs mutual exclusion    *)
(* and the loop conditions, that the values stored stay below VALUE_COUNT  *)
(* needs the loop counters, and that count is the number of values stored  *)
(* and not processed links the two threads.                                *)
(***************************************************************************)
EXTENDS ProducerConsumer, FiniteSetTheorems, TLAPS

Consumed == i[Consumer] + InFlight(Consumer)

(* count and processed_value_count are functions of the two loop counters,
   and a thread inside its loop has iterations left. *)
Counters ==
    /\ count = Produced - Consumed
    /\ processed_value_count = Consumed
    /\ \A t \in Threads : pc[t] # "done" => i[t] < VALUE_COUNT

IInv == TypeOK /\ MutualExclusion /\ Counters /\ ExactlyOnce /\ NoLostWakeup

(* The steps that neither store nor process a value. *)
ControlStep(t) ==
    CheckMutex(t) \/ CheckCond(t) \/ Lock(t) \/ Wait(t) \/ SpuriousWakeup(t) \/ Signal(t)

(* Before the threads start nothing is produced (main.c and checks.h, static values). *)
LEMMA InitIInv == Init => IInv
<1> SUFFICES ASSUME Init PROVE IInv
  OBVIOUS
<1> USE SizesAssumption DEF Init
<1>1. TypeOK
  <2>1. buffer \in [0 .. BUFFER_SIZE - 1 -> Values]
    BY DEF Values
  <2>2. i \in [Threads -> 0 .. VALUE_COUNT] /\ pc \in [Threads -> Pcs]
    BY DEF Threads, Pcs
  <2>3. /\ mutex \in Threads \cup {"free"} /\ count \in 0 .. BUFFER_SIZE
        /\ processed_value_count \in 0 .. VALUE_COUNT /\ processed_value_sum \in Nat
        /\ taken \subseteq Values /\ spurious \in 0 .. MaxSpurious
    OBVIOUS
  <2>4. /\ mainpc \in {"join", "check", "done"} /\ mutex1 \in {"NULL", "mutex"}
        /\ cond1 \in Threads \cup {"NULL"} /\ failed \in BOOLEAN
    OBVIOUS
  <2> QED BY <2>1, <2>2, <2>3, <2>4 DEF TypeOK
<1>2. MutualExclusion
  BY DEF MutualExclusion, Threads, Producer, Consumer
<1>3. /\ Produced = 0 /\ Consumed = 0 /\ Pending = {}
  BY DEF Produced, Consumed, InFlight, Pending, Threads, Producer, Consumer
<1>4. Counters
  BY <1>3 DEF Counters
<1>5. ExactlyOnce
  BY <1>3 DEF ExactlyOnce
<1>6. NoLostWakeup
  BY DEF NoLostWakeup
<1> QED BY <1>1, <1>2, <1>4, <1>5, <1>6 DEF IInv

(* What the values in transit and the buffer say only depends on the shared
   data and on whether a thread is between its update and its counter. *)
LEMMA DataFrame ==
  ASSUME UNCHANGED <<buffer, count, i, tally>>,
         InFlight(Producer)' = InFlight(Producer),
         InFlight(Consumer)' = InFlight(Consumer)
  PROVE  /\ Produced' = Produced /\ Consumed' = Consumed
         /\ Pending' = Pending
         /\ ExactlyOnce => ExactlyOnce'
BY DEF Produced, Consumed, Pending, ExactlyOnce, tally

(* A step that moves no value keeps the types. *)
LEMMA ControlKeepsType ==
  ASSUME TypeOK, NEW t \in Threads, ControlStep(t)
  PROVE  TypeOK'
<1> USE DEF TypeOK, Goto, harness, tally, Threads
<1>1. CASE CheckMutex(t)
  BY <1>1, Zenon DEF CheckMutex, Pcs
<1>2. CASE CheckCond(t)
  BY <1>2 DEF CheckCond, Pcs
<1>3. CASE Lock(t)
  BY <1>3 DEF Lock, Pcs
<1>4. CASE Wait(t)
  BY <1>4 DEF Wait, Pcs
<1>5. CASE SpuriousWakeup(t)
  BY <1>5, SizesAssumption DEF SpuriousWakeup, Pcs
<1>6. CASE Signal(t)
  BY <1>6 DEF Signal, Wake, Pcs
<1> QED BY <1>1, <1>2, <1>3, <1>4, <1>5, <1>6 DEF ControlStep

(* A step that moves no value keeps the counting equations. *)
LEMMA ControlKeepsData ==
  ASSUME TypeOK, Counters, NEW t \in Threads, ControlStep(t)
  PROVE  /\ UNCHANGED <<buffer, count, i, tally>>
         /\ InFlight(Producer)' = InFlight(Producer)
         /\ InFlight(Consumer)' = InFlight(Consumer)
         /\ Counters'
<1>1. UNCHANGED <<buffer, count, i, tally>>
  BY DEF ControlStep, CheckMutex, CheckCond, Lock, Wait, SpuriousWakeup, Signal
<1>2. \A s \in Threads :
        /\ pc'[s] \in {"signal", "unlock"} <=> pc[s] \in {"signal", "unlock"}
        /\ pc'[s] # "done" <=> pc[s] # "done"
  BY DEF TypeOK, ControlStep, CheckMutex, CheckCond, Lock, Wait, SpuriousWakeup, Signal,
         Goto, Wake, Threads, Producer, Consumer, Other
<1>3. /\ InFlight(Producer)' = InFlight(Producer)
      /\ InFlight(Consumer)' = InFlight(Consumer)
  BY <1>2 DEF InFlight, Threads
<1>4. Produced' = Produced /\ Consumed' = Consumed
  BY <1>1, <1>3, DataFrame
<1>5. Counters'
  BY <1>1, <1>2, <1>4 DEF Counters, tally
<1> QED BY <1>1, <1>3, <1>5

(* Locking and waiting hand the mutex from one thread to the next. *)
LEMMA ControlKeepsMutex ==
  ASSUME TypeOK, MutualExclusion, NEW t \in Threads, ControlStep(t)
  PROVE  MutualExclusion'
<1> USE DEF TypeOK, MutualExclusion, Goto, Threads, Producer, Consumer
<1>1. CASE CheckMutex(t)
  BY <1>1 DEF CheckMutex
<1>2. CASE CheckCond(t)
  BY <1>2 DEF CheckCond
<1>3. CASE Lock(t)
  BY <1>3 DEF Lock
<1>4. CASE Wait(t)
  BY <1>4 DEF Wait
<1>5. CASE SpuriousWakeup(t)
  BY <1>5 DEF SpuriousWakeup
<1>6. CASE Signal(t)
  BY <1>6 DEF Signal, Wake, Other
<1> QED BY <1>1, <1>2, <1>3, <1>4, <1>5, <1>6 DEF ControlStep

(* No control step changes count; a signal is consumed by waking the waiter,
   and a thread only starts to wait while its own condition requires it. *)
LEMMA ControlKeepsWakeups ==
  ASSUME TypeOK, MutualExclusion, NoLostWakeup, NEW t \in Threads, ControlStep(t)
  PROVE  NoLostWakeup'
<1> USE DEF TypeOK, MutualExclusion, NoLostWakeup, MustWait, Goto, Threads, Producer, Consumer, Other
<1>1. CASE CheckMutex(t)
  BY <1>1 DEF CheckMutex
<1>2. CASE CheckCond(t)
  BY <1>2 DEF CheckCond
<1>3. CASE Lock(t)
  BY <1>3 DEF Lock
<1>4. CASE Wait(t)
  BY <1>4 DEF Wait
<1>5. CASE SpuriousWakeup(t)
  BY <1>5 DEF SpuriousWakeup
<1>6. CASE Signal(t)
  BY <1>6 DEF Signal, Wake
<1> QED BY <1>1, <1>2, <1>3, <1>4, <1>5, <1>6 DEF ControlStep

(* Such a step keeps the whole invariant. *)
LEMMA ControlKeepsIInv ==
  ASSUME IInv, NEW t \in Threads, ControlStep(t)
  PROVE  IInv'
BY ControlKeepsType, ControlKeepsData, ControlKeepsMutex, ControlKeepsWakeups, DataFrame DEF IInv

(* A value is pushed where there is room and counted once. *)
LEMMA ProduceKeepsIInv ==
  ASSUME IInv, Produce
  PROVE  IInv'
<1> DEFINE v == i[Producer]
<1> USE SizesAssumption DEF Threads, Producer, Consumer
<1>1. /\ pc[Producer] = "test" /\ pc' = [pc EXCEPT ![Producer] = "signal"]
      /\ buffer' = [buffer EXCEPT ![count] = v] /\ count' = count + 1
      /\ UNCHANGED <<mutex, i, harness, tally, spurious>>
  BY DEF Produce, Goto
<1>2. /\ pc \in [Threads -> Pcs] /\ i \in [Threads -> 0 .. VALUE_COUNT]
      /\ count \in 0 .. BUFFER_SIZE /\ buffer \in [0 .. BUFFER_SIZE - 1 -> Values]
  BY DEF IInv, TypeOK
<1>3. count \in 0 .. BUFFER_SIZE - 1
  BY <1>2 DEF Produce, MustWait
<1>4. v \in Values
  BY <1>1, <1>2 DEF IInv, Counters, Values
<1>5. mutex = Producer /\ pc[Consumer] \notin {"test", "signal", "unlock"}
  BY <1>1 DEF IInv, MutualExclusion
<1>6. /\ Produced = v /\ Produced' = v + 1
      /\ Consumed = i[Consumer] /\ Consumed' = Consumed
  BY <1>1, <1>2, <1>5 DEF Produced, Consumed, InFlight
<1>7. TypeOK'
  <2>1. buffer' \in [0 .. BUFFER_SIZE - 1 -> Values] /\ count' \in 0 .. BUFFER_SIZE
    BY <1>1, <1>2, <1>3, <1>4
  <2>2. pc' \in [Threads -> Pcs]
    BY <1>1, <1>2 DEF Pcs
  <2> QED BY <1>1, <2>1, <2>2 DEF IInv, TypeOK, harness, tally
<1>8. MutualExclusion'
  BY <1>1, <1>2, <1>5 DEF IInv, MutualExclusion
<1>9. Counters'
  <2>1. count = Produced - Consumed /\ processed_value_count = Consumed
    BY DEF IInv, Counters
  <2>2. \A t \in Threads : pc'[t] # "done" => i'[t] < VALUE_COUNT
    BY <1>1, <1>2, <1>4 DEF IInv, Counters, Values
  <2> QED BY <1>1, <1>2, <1>6, <2>1, <2>2 DEF Counters, tally
<1>10. ExactlyOnce'
  <2>1. /\ \A j, k \in 0 .. count - 1 : buffer[j] = buffer[k] => j = k
        /\ Pending \cap taken = {} /\ Pending \cup taken = 0 .. v - 1
    BY <1>6 DEF IInv, ExactlyOnce
  <2>2. /\ buffer'[count] = v
        /\ \A k \in 0 .. count - 1 : buffer'[k] = buffer[k] /\ buffer[k] \in Pending
    BY <1>1, <1>2, <1>3 DEF Pending
  <2>3. v \notin Pending /\ v \notin taken
    BY <2>1, <1>4 DEF Values
  <2>4. Pending' = Pending \cup {v}
    <3>1. Pending' = {buffer'[k] : k \in 0 .. count}
      BY <1>1, <1>2 DEF Pending
    <3>2. 0 .. count = (0 .. count - 1) \cup {count}
      BY <1>2
    <3> QED BY <3>1, <3>2, <2>2 DEF Pending
  <2>5. \A j, k \in 0 .. count' - 1 : buffer'[j] = buffer'[k] => j = k
    BY <1>1, <1>2, <2>1, <2>2, <2>3
  <2>6. taken' = taken /\ 0 .. Produced' - 1 = (0 .. v - 1) \cup {v}
    BY <1>1, <1>2, <1>6 DEF tally
  <2> QED BY <2>1, <2>3, <2>4, <2>5, <2>6 DEF ExactlyOnce
<1>11. NoLostWakeup'
  BY <1>1, <1>2, <1>3 DEF NoLostWakeup, MustWait, Other
<1> QED BY <1>7, <1>8, <1>9, <1>10, <1>11 DEF IInv

(* A value is popped from a stack that is not empty and processed once. *)
LEMMA ConsumeKeepsIInv ==
  ASSUME IInv, Consume
  PROVE  IInv'
<1> DEFINE v == buffer[count - 1]
<1> USE SizesAssumption DEF Threads, Producer, Consumer
<1>1. /\ pc[Consumer] = "test" /\ pc' = [pc EXCEPT ![Consumer] = "signal"]
      /\ processed_value_sum' = processed_value_sum + v /\ taken' = taken \cup {v}
      /\ processed_value_count' = processed_value_count + 1 /\ count' = count - 1
      /\ UNCHANGED <<mutex, buffer, i, harness, spurious>>
  BY DEF Consume, Goto
<1>2. /\ pc \in [Threads -> Pcs] /\ i \in [Threads -> 0 .. VALUE_COUNT]
      /\ count \in 0 .. BUFFER_SIZE /\ buffer \in [0 .. BUFFER_SIZE - 1 -> Values]
  BY DEF IInv, TypeOK
<1>3. count \in 1 .. BUFFER_SIZE
  BY <1>2 DEF Consume, MustWait
<1>4. v \in Values
  BY <1>2, <1>3
<1>5. mutex = Consumer /\ pc[Producer] \notin {"test", "signal", "unlock"}
  BY <1>1 DEF IInv, MutualExclusion
<1>6. /\ Produced' = Produced
      /\ Consumed = i[Consumer] /\ Consumed' = Consumed + 1
  BY <1>1, <1>2, <1>5 DEF Produced, Consumed, InFlight
<1>7. i[Consumer] < VALUE_COUNT /\ processed_value_count = i[Consumer]
  BY <1>1, <1>6 DEF IInv, Counters
<1>8. TypeOK'
  <2>1. count' \in 0 .. BUFFER_SIZE /\ processed_value_count' \in 0 .. VALUE_COUNT
    BY <1>1, <1>2, <1>3, <1>7
  <2>2. pc' \in [Threads -> Pcs] /\ processed_value_sum' \in Nat /\ taken' \subseteq Values
    <3>1. pc' \in [Threads -> Pcs]
      BY <1>1, <1>2 DEF Pcs
    <3>2. processed_value_sum' \in Nat
      BY <1>1, <1>4 DEF Values, IInv, TypeOK
    <3>3. taken' \subseteq Values
      BY <1>1, <1>4 DEF IInv, TypeOK
    <3> QED BY <3>1, <3>2, <3>3
  <2> QED BY <1>1, <2>1, <2>2 DEF IInv, TypeOK, harness
<1>9. MutualExclusion'
  BY <1>1, <1>2, <1>5 DEF IInv, MutualExclusion
<1>10. Counters'
  <2>1. Produced \in Int /\ Consumed \in Int /\ count = Produced - Consumed
    BY <1>2 DEF IInv, Counters, Produced, Consumed, InFlight
  <2> QED BY <1>1, <1>2, <1>6, <1>7, <2>1 DEF IInv, Counters
<1>11. ExactlyOnce'
  <2>1. /\ \A j, k \in 0 .. count - 1 : buffer[j] = buffer[k] => j = k
        /\ Pending \cap taken = {} /\ Pending \cup taken = 0 .. Produced - 1
    BY DEF IInv, ExactlyOnce
  <2>2. v \in Pending
    BY <1>3 DEF Pending
  <2>3. Pending' = Pending \ {v}
    <3>1. Pending' = {buffer[k] : k \in 0 .. count - 2}
      BY <1>1, <1>3 DEF Pending
    <3>2. 0 .. count - 1 = (0 .. count - 2) \cup {count - 1}
      BY <1>3
    <3>3. \A k \in 0 .. count - 2 : buffer[k] # v
      BY <2>1, <1>3
    <3> QED BY <3>1, <3>2, <3>3 DEF Pending
  <2>4. \A j, k \in 0 .. count' - 1 : buffer'[j] = buffer'[k] => j = k
    BY <1>1, <1>3, <2>1
  <2> QED BY <1>1, <1>6, <2>1, <2>2, <2>3, <2>4 DEF ExactlyOnce
<1>12. NoLostWakeup'
  BY <1>1, <1>2, <1>3 DEF NoLostWakeup, MustWait, Other
<1> QED BY <1>8, <1>9, <1>10, <1>11, <1>12 DEF IInv

(* The loop counter moves on when the mutex is released, after the signal. *)
LEMMA UnlockKeepsIInv ==
  ASSUME IInv, NEW t \in Threads, Unlock(t)
  PROVE  IInv'
<1> USE SizesAssumption DEF Threads, Producer, Consumer
<1>1. /\ pc[t] = "unlock" /\ mutex' = "free" /\ i' = [i EXCEPT ![t] = @ + 1]
      /\ pc' = [pc EXCEPT ![t] = IF i[t] + 1 < VALUE_COUNT THEN "lock" ELSE "done"]
      /\ UNCHANGED <<buffer, count, harness, tally, spurious>>
  BY DEF Unlock, Goto
<1>2. pc \in [Threads -> Pcs] /\ i \in [Threads -> 0 .. VALUE_COUNT]
  BY DEF IInv, TypeOK
<1>3. i[t] < VALUE_COUNT /\ mutex = t
  BY <1>1 DEF IInv, Counters, MutualExclusion
<1>4. TypeOK'
  <2>1. i' \in [Threads -> 0 .. VALUE_COUNT] /\ pc' \in [Threads -> Pcs]
    BY <1>1, <1>2, <1>3 DEF Pcs
  <2> QED BY <1>1, <2>1 DEF IInv, TypeOK, harness, tally
<1>5. MutualExclusion'
  BY <1>1, <1>2, <1>3 DEF IInv, MutualExclusion
<1>6. Produced' = Produced /\ Consumed' = Consumed
  BY <1>1, <1>2 DEF Produced, Consumed, InFlight
<1>7. Counters'
  BY <1>1, <1>2, <1>3, <1>6 DEF IInv, Counters, tally
<1>8. ExactlyOnce'
  BY <1>1, <1>6 DEF IInv, ExactlyOnce, Pending, tally
<1>9. NoLostWakeup'
  BY <1>1, <1>2 DEF IInv, NoLostWakeup, MustWait, Other
<1> QED BY <1>4, <1>5, <1>7, <1>8, <1>9 DEF IInv

(* main only touches its own pc and the verdict; stuttering touches nothing. *)
LEMMA MainKeepsIInv ==
  ASSUME IInv, Join \/ RunChecks \/ UNCHANGED vars
  PROVE  IInv'
<1>1. UNCHANGED <<mutex, buffer, count, i, pc, tally>>
  BY DEF Join, RunChecks, vars
<1>2. TypeOK'
  <2>1. CASE Join
    BY <2>1 DEF Join, IInv, TypeOK, tally
  <2>2. CASE RunChecks
    BY <2>2, Zenon DEF RunChecks, IInv, TypeOK, tally
  <2>3. CASE UNCHANGED vars
    BY <2>3 DEF vars, harness, tally, IInv, TypeOK
  <2> QED BY <2>1, <2>2, <2>3
<1>3. /\ InFlight(Producer)' = InFlight(Producer)
      /\ InFlight(Consumer)' = InFlight(Consumer)
  BY <1>1 DEF InFlight
<1>4. Counters' /\ ExactlyOnce'
  BY <1>1, <1>3, DataFrame DEF IInv, Counters, tally
<1>5. MutualExclusion' /\ NoLostWakeup'
  BY <1>1 DEF IInv, MutualExclusion, NoLostWakeup, MustWait
<1> QED BY <1>2, <1>4, <1>5 DEF IInv

(* Every step keeps the invariant. *)
LEMMA StepIInv == IInv /\ [Next]_vars => IInv'
<1> SUFFICES ASSUME IInv, [Next]_vars PROVE IInv'
  OBVIOUS
<1>1. ASSUME NEW t \in Threads, ThreadStep(t) \/ SpuriousWakeup(t) PROVE IInv'
  BY <1>1, ControlKeepsIInv, ProduceKeepsIInv, ConsumeKeepsIInv, UnlockKeepsIInv
  DEF ThreadStep, ControlStep
<1> QED BY <1>1, MainKeepsIInv DEF Next, Terminated

(* The state of the program keeps its types; in particular count never leaves
   0 .. BUFFER_SIZE, so buffer[count++] and buffer[--count] (main.c:60, 88)
   stay inside the array. *)
THEOREM TypeCorrect == Spec => []TypeOK
<1>1. IInv => TypeOK
  BY DEF IInv
<1> QED BY InitIInv, StepIInv, <1>1, PTL DEF Spec

(* Only the thread that holds the mutex is between lock and unlock. *)
THEOREM MutexSafety == Spec => []MutualExclusion
<1>1. IInv => MutualExclusion
  BY DEF IInv
<1> QED BY InitIInv, StepIInv, <1>1, PTL DEF Spec

(* Every value stored is in one place of the buffer or has been processed. *)
THEOREM ExactlyOnceSafety == Spec => []ExactlyOnce
<1>1. IInv => ExactlyOnce
  BY DEF IInv
<1> QED BY InitIInv, StepIInv, <1>1, PTL DEF Spec

(* No thread sleeps on a condition that is true unless its signal is due. *)
THEOREM WakeupSafety == Spec => []NoLostWakeup
<1>1. IInv => NoLostWakeup
  BY DEF IInv
<1> QED BY InitIInv, StepIInv, <1>1, PTL DEF Spec

(* There are count values pending, so a store finds Handoff with room left. *)
LEMMA PendingBound ==
  ASSUME count \in Nat
  PROVE  Cardinality(Pending) \in Nat /\ Cardinality(Pending) <= count
<1> DEFINE S == 0 .. count - 1
           f == [k \in S |-> buffer[k]]
<1>1. IsFiniteSet(S) /\ Cardinality(S) = count
  BY FS_Interval
<1>2. f \in Surjection(S, Pending)
  BY DEF Surjection, Pending
<1>3. IsFiniteSet(Pending) /\ Cardinality(Pending) <= Cardinality(S)
  BY <1>1, <1>2, FS_Surjection
<1> QED BY <1>1, <1>3, FS_CardinalityType

(* Every execution of the program is one of the hand-over: a store is a Put,
   processing a value is a Take, every other step a stutter (the safety part
   of ImplementsHandoff). *)
THEOREM HandoffSafety == Spec => Abstract!HSpec
<1>1. Init => Abstract!HInit
  BY DEF Init, Abstract!HInit, Produced, InFlight, Pending, Threads, Producer, Consumer
<1>2. IInv /\ [Next]_vars => [Abstract!HNext]_(Abstract!hvars)
  <2> SUFFICES ASSUME IInv, [Next]_vars PROVE Abstract!HNext \/ UNCHANGED Abstract!hvars
    OBVIOUS
  <2>1. /\ pc \in [Threads -> Pcs] /\ i \in [Threads -> 0 .. VALUE_COUNT]
        /\ count \in 0 .. BUFFER_SIZE /\ buffer \in [0 .. BUFFER_SIZE - 1 -> Values]
        /\ BUFFER_SIZE \in Nat \ {0}
    BY SizesAssumption DEF IInv, TypeOK
  <2>2. ASSUME NEW t \in Threads, ControlStep(t) PROVE UNCHANGED Abstract!hvars
    BY <2>2, ControlKeepsData, DataFrame DEF IInv, Abstract!hvars, tally
  <2>3. CASE Produce
    <3>1. pc[Producer] = "test" /\ pc' = [pc EXCEPT ![Producer] = "signal"]
          /\ buffer' = [buffer EXCEPT ![count] = i[Producer]] /\ count' = count + 1
          /\ i' = i /\ taken' = taken /\ count < BUFFER_SIZE
      BY <2>1, <2>3 DEF Produce, Goto, MustWait, tally, Producer
    <3>2. Produced = i[Producer] /\ Produced' = Produced + 1 /\ Produced < VALUE_COUNT
      BY <2>1, <3>1 DEF Produced, InFlight, IInv, Counters, Threads, Producer, Consumer
    <3>3. Cardinality(Pending) < BUFFER_SIZE
      BY <2>1, <3>1, PendingBound
    <3>4. Pending' = Pending \cup {Produced}
      <4>1. 0 .. count = (0 .. count - 1) \cup {count}
        BY <2>1
      <4>2. Pending' = {buffer'[k] : k \in 0 .. count}
        BY <2>1, <3>1 DEF Pending
      <4>3. buffer'[count] = Produced /\ \A k \in 0 .. count - 1 : buffer'[k] = buffer[k]
        BY <2>1, <3>1, <3>2
      <4> QED BY <4>1, <4>2, <4>3 DEF Pending
    <3>5. Abstract!Cardinality(Pending) = Cardinality(Pending)
      BY DEF Abstract!Cardinality, Cardinality
    <3> QED BY <3>1, <3>2, <3>3, <3>4, <3>5 DEF Abstract!HNext, Abstract!Put
  <2>4. CASE Consume
    <3> DEFINE v == buffer[count - 1]
    <3>1. pc[Consumer] = "test" /\ pc' = [pc EXCEPT ![Consumer] = "signal"]
          /\ buffer' = buffer /\ count' = count - 1 /\ count > 0
          /\ i' = i /\ taken' = taken \cup {v}
      BY <2>1, <2>4 DEF Consume, Goto, MustWait, Producer, Consumer
    <3>2. Produced' = Produced
      BY <2>1, <3>1 DEF Produced, InFlight, Threads, Producer, Consumer
    <3>3. v \in Pending /\ Pending' = Pending \ {v}
      <4>1. 0 .. count - 1 = (0 .. count - 2) \cup {count - 1}
        BY <2>1, <3>1
      <4>2. \A k \in 0 .. count - 2 : buffer[k] # v
        BY <2>1, <3>1 DEF IInv, ExactlyOnce
      <4>3. Pending' = {buffer[k] : k \in 0 .. count - 2}
        BY <2>1, <3>1 DEF Pending
      <4> QED BY <4>1, <4>2, <4>3 DEF Pending
    <3> QED BY <3>1, <3>2, <3>3 DEF Abstract!HNext, Abstract!Take
  <2>5. ASSUME NEW t \in Threads, Unlock(t) PROVE UNCHANGED Abstract!hvars
    <3>1. Produced' = Produced
      BY <2>1, <2>5 DEF Unlock, Goto, Produced, InFlight, Threads, Producer, Consumer
    <3> QED BY <2>5, <3>1 DEF Unlock, Abstract!hvars, Pending, tally
  <2>6. CASE Join \/ RunChecks \/ UNCHANGED vars
    BY <2>6 DEF Join, RunChecks, vars, Abstract!hvars, Produced, InFlight, Pending, tally
  <2>7. ASSUME NEW t \in Threads, ThreadStep(t) \/ SpuriousWakeup(t)
        PROVE  Abstract!HNext \/ UNCHANGED Abstract!hvars
    <3>1. ControlStep(t) \/ Unlock(t) \/ Produce \/ Consume
      BY <2>7 DEF ThreadStep, ControlStep
    <3> QED BY <3>1, <2>2, <2>3, <2>4, <2>5
  <2>8. (\E t \in Threads : ThreadStep(t) \/ SpuriousWakeup(t)) \/ Join \/ RunChecks \/ UNCHANGED vars
    BY DEF Next, Terminated
  <2> QED BY <2>6, <2>7, <2>8
<1> QED BY <1>1, <1>2, InitIInv, StepIInv, PTL DEF Spec, Abstract!HSpec

-----------------------------------------------------------------------------
(* The checks of checks.h. *)

(* The sum of the values in the buffer is what some function of the fill levels
   grows to when it begins with 0 and adds the values one after the other. *)
PartialSums == {s \in [0 .. BUFFER_SIZE -> Int] : s[0] = 0 /\ \A k \in 0 .. count - 1 : s[k + 1] = s[k] + buffer[k]}
SumsUp == \E s \in PartialSums : 2 * (processed_value_sum + s[count]) = Produced * (Produced - 1)

(* A thread that is done has gone through all iterations, the first caller of
   check_cond_* never calls it again, and nothing has failed. *)
NothingFailed ==
    /\ \A t \in Threads : pc[t] = "done" => i[t] = VALUE_COUNT
    /\ cond1 # "NULL" => pc[cond1] \notin {"mutexcheck", "condcheck"}
    /\ mainpc # "join" => \A t \in Threads : pc[t] = "done"
    /\ ~failed

(* A step that moves no value keeps the sum. *)
LEMMA SumFrame ==
    ASSUME SumsUp, UNCHANGED <<buffer, count, processed_value_sum>>, Produced' = Produced PROVE SumsUp'
  BY DEF SumsUp, PartialSums

(* A value that is stored is added to the sum of the buffer. *)
LEMMA ProduceKeepsSum == ASSUME IInv, SumsUp, Produce PROVE SumsUp'
<1>1. /\ buffer' = [buffer EXCEPT ![count] = i[Producer]] /\ count' = count + 1 /\ count < BUFFER_SIZE
      /\ processed_value_sum' = processed_value_sum
  BY SizesAssumption DEF Produce, MustWait, tally, IInv, TypeOK
<1>2. /\ count \in 0 .. BUFFER_SIZE - 1 /\ processed_value_sum \in Int /\ i[Producer] \in Int
      /\ buffer \in [0 .. BUFFER_SIZE - 1 -> Values]
  BY <1>1, SizesAssumption DEF IInv, TypeOK, Threads
<1>3. Produced = i[Producer] /\ Produced' = i[Producer] + 1
  BY DEF Produce, Goto, Produced, InFlight, IInv, TypeOK, tally, Threads
<1>4. PICK s \in PartialSums : 2 * (processed_value_sum + s[count]) = Produced * (Produced - 1)
  BY DEF SumsUp
<1>5. /\ s \in [0 .. BUFFER_SIZE -> Int] /\ s[0] = 0
      /\ \A k \in 0 .. count - 1 : s[k + 1] = s[k] + buffer[k]
  BY DEF PartialSums
<1> DEFINE r == [s EXCEPT ![count + 1] = s[count] + i[Producer]]
<1>6. /\ r \in [0 .. BUFFER_SIZE -> Int] /\ r[count + 1] = s[count] + i[Producer]
      /\ \A k \in 0 .. count : r[k] = s[k]
  <2>1. count + 1 \in 0 .. BUFFER_SIZE /\ s[count] \in Int /\ \A k \in 0 .. count : k \in 0 .. BUFFER_SIZE /\ k # count + 1
    BY <1>2, <1>5, SizesAssumption
  <2> QED
    BY <1>2, <1>5, <2>1
<1> HIDE DEF r
<1>7. \A k \in 0 .. count' - 1 : r[k + 1] = r[k] + buffer'[k]
  <2> SUFFICES ASSUME NEW k \in 0 .. count PROVE r[k + 1] = r[k] + buffer'[k]
    BY <1>1, <1>2
  <2>1. CASE k = count
    BY <1>1, <1>2, <1>6, <2>1
  <2>2. CASE k \in 0 .. count - 1
    <3>1. k + 1 \in 0 .. count /\ k \in 0 .. count /\ buffer'[k] = buffer[k]
      BY <1>1, <1>2, <2>2
    <3> QED
      BY <1>5, <1>6, <2>2, <3>1
  <2> QED
    BY <1>2, <2>1, <2>2
<1>8. r \in PartialSums'
  <2>1. r[0] = 0
    BY <1>2, <1>5, <1>6
  <2> QED
    BY <1>6, <1>7, <2>1 DEF PartialSums
<1>9. 2 * (processed_value_sum' + r[count']) = Produced' * (Produced' - 1)
  <2>1. Produced' * (Produced' - 1) = Produced * (Produced - 1) + 2 * i[Producer]
    BY <1>2, <1>3
  <2>2. s[count] \in Int
    BY <1>2, <1>5, SizesAssumption
  <2> QED
    BY <1>1, <1>2, <1>4, <1>6, <2>1, <2>2
<1> QED
  BY <1>8, <1>9 DEF SumsUp

(* A value that is processed leaves the sum of the buffer. *)
LEMMA ConsumeKeepsSum == ASSUME IInv, SumsUp, Consume PROVE SumsUp'
<1>1. /\ processed_value_sum' = processed_value_sum + buffer[count - 1] /\ count' = count - 1 /\ buffer' = buffer
      /\ count > 0
  BY DEF Consume, MustWait, IInv, TypeOK, Producer, Consumer
<1>2. count \in 1 .. BUFFER_SIZE /\ processed_value_sum \in Int /\ buffer[count - 1] \in Int
  BY <1>1, SizesAssumption DEF IInv, TypeOK, Values
<1>3. Produced' = Produced
  BY DEF Consume, Goto, Produced, InFlight, IInv, TypeOK, Threads, Producer, Consumer
<1>4. PICK s \in PartialSums : 2 * (processed_value_sum + s[count]) = Produced * (Produced - 1)
  BY DEF SumsUp
<1>5. s \in PartialSums' /\ s[count - 1] \in Int /\ s[count] = s[count - 1] + buffer[count - 1]
  <2>1. count - 1 \in 0 .. BUFFER_SIZE /\ count - 1 \in 0 .. count - 1 /\ count - 1 + 1 = count
    BY <1>2, SizesAssumption
  <2>2. s \in [0 .. BUFFER_SIZE -> Int] /\ s[0] = 0 /\ \A k \in 0 .. count - 1 : s[k + 1] = s[k] + buffer[k]
    BY <1>4 DEF PartialSums
  <2>3. \A k \in 0 .. count' - 1 : s[k + 1] = s[k] + buffer'[k]
    BY <1>1, <1>2, <2>2
  <2>4. s \in PartialSums'
    BY <2>2, <2>3 DEF PartialSums
  <2>5. s[count] = s[count - 1] + buffer[count - 1]
    BY <2>1, <2>2
  <2> QED
    BY <2>1, <2>2, <2>4, <2>5
<1>6. processed_value_sum' + s[count'] = processed_value_sum + s[count]
  BY <1>1, <1>2, <1>5
<1> QED
  BY <1>3, <1>4, <1>5, <1>6 DEF SumsUp

(* Every step keeps the sum. *)
LEMMA StepKeepsSum == IInv /\ SumsUp /\ [Next]_vars => SumsUp'
<1> SUFFICES ASSUME IInv, SumsUp, [Next]_vars PROVE SumsUp'
  OBVIOUS
<1>1. ASSUME NEW t \in Threads, ControlStep(t) PROVE SumsUp'
  <2>1. UNCHANGED <<buffer, count, i, tally>> /\ Produced' = Produced
    BY <1>1, ControlKeepsData, DataFrame DEF IInv
  <2> QED
    BY <2>1, SumFrame DEF tally
<1>2. ASSUME NEW t \in Threads, Unlock(t) PROVE SumsUp'
  <2>1. Produced' = Produced
    BY <1>2 DEF Unlock, Goto, Produced, InFlight, IInv, TypeOK, Threads, Producer, Consumer
  <2> QED
    BY <1>2, <2>1, SumFrame DEF Unlock, tally
<1>3. CASE Join \/ RunChecks \/ UNCHANGED vars
  <2>1. Produced' = Produced
    BY <1>3 DEF Join, RunChecks, vars, Produced, InFlight
  <2> QED
    BY <1>3, <2>1, SumFrame DEF Join, RunChecks, vars, tally
<1> QED
  BY <1>1, <1>2, <1>3, ProduceKeepsSum, ConsumeKeepsSum DEF Next, Terminated, ThreadStep, ControlStep

(* When both threads are done, everything was processed. *)
LEMMA AllProcessed ==
    ASSUME IInv, SumsUp, NothingFailed, mainpc = "check"
    PROVE  processed_value_count = VALUE_COUNT /\ processed_value_sum = ExpectedSum
<1>1. \A t \in Threads : pc[t] = "done" /\ i[t] = VALUE_COUNT
  BY DEF NothingFailed
<1>2. Produced = VALUE_COUNT /\ Consumed = VALUE_COUNT
  BY <1>1, SizesAssumption DEF Produced, Consumed, InFlight, Threads
<1>3. count = 0 /\ processed_value_count = VALUE_COUNT
  BY <1>2, SizesAssumption DEF IInv, Counters
<1>4. 2 * processed_value_sum = VALUE_COUNT * (VALUE_COUNT - 1)
  BY <1>2, <1>3 DEF SumsUp, PartialSums, IInv, TypeOK
<1>5. VALUE_COUNT * (VALUE_COUNT - 1) \in Int /\ processed_value_sum \in Int
  BY SizesAssumption DEF IInv, TypeOK
<1> HIDE DEF IInv
<1>6. processed_value_sum = (VALUE_COUNT * (VALUE_COUNT - 1)) \div 2
  BY <1>4, <1>5
<1> QED
  BY <1>3, <1>6 DEF ExpectedSum

(* No check fails. *)
LEMMA StepFailsNothing == IInv /\ SumsUp /\ NothingFailed /\ [Next]_vars => NothingFailed'
<1> SUFFICES ASSUME IInv, SumsUp, NothingFailed, [Next]_vars PROVE NothingFailed'
  OBVIOUS
<1>1. /\ pc \in [Threads -> Pcs] /\ i \in [Threads -> 0 .. VALUE_COUNT] /\ cond1 \in Threads \cup {"NULL"}
      /\ mutex1 \in {"NULL", "mutex"} /\ failed \in BOOLEAN
  BY DEF IInv, TypeOK
<1> USE <1>1 DEF NothingFailed, Threads, Producer, Consumer
<1>2. ASSUME NEW t \in Threads, CheckMutex(t) PROVE NothingFailed'
  BY <1>2 DEF CheckMutex, Goto
<1>3. ASSUME NEW t \in Threads, CheckCond(t) PROVE NothingFailed'
  BY <1>3 DEF CheckCond, Goto
<1>4. ASSUME NEW t \in Threads, Lock(t) \/ Wait(t) \/ SpuriousWakeup(t) PROVE NothingFailed'
  BY <1>4 DEF Lock, Wait, SpuriousWakeup, Goto, harness
<1>5. ASSUME NEW t \in Threads, Signal(t) PROVE NothingFailed'
  BY <1>5 DEF Signal, Wake, Other, harness
<1>6. ASSUME NEW t \in Threads, Unlock(t) PROVE NothingFailed'
  <2>1. i[t] + 1 < VALUE_COUNT \/ i[t] + 1 = VALUE_COUNT
    BY <1>6, SizesAssumption DEF Unlock, IInv, Counters
  <2>2. /\ pc[t] = "unlock" /\ i' = [i EXCEPT ![t] = @ + 1]
        /\ pc' = [pc EXCEPT ![t] = IF i[t] + 1 < VALUE_COUNT THEN "lock" ELSE "done"]
        /\ UNCHANGED <<mainpc, cond1, failed>>
    BY <1>6 DEF Unlock, Goto, harness
  <2> QED
    BY <2>1, <2>2
<1>7. CASE Produce \/ Consume
  BY <1>7 DEF Produce, Consume, Goto, harness
<1>8. CASE Join
  BY <1>8 DEF Join, JoinGuard
<1>9. CASE RunChecks
  BY <1>9, AllProcessed DEF RunChecks
<1>10. CASE UNCHANGED vars
  BY <1>10 DEF vars, harness
<1> QED
  BY <1>2, <1>3, <1>4, <1>5, <1>6, <1>7, <1>8, <1>9, <1>10 DEF Next, Terminated, ThreadStep

(* checks.h never prints FAIL, for any number of values and any size of the
   buffer: the sum of the values processed and of those in the buffer is that
   of the values produced (checks.h; main.c:60, 88). *)
THEOREM CheckSafety == Spec => []ChecksPass
<1>1. Init => IInv /\ SumsUp /\ NothingFailed
  <2> SUFFICES ASSUME Init PROVE SumsUp /\ NothingFailed
    BY InitIInv
  <2>1. SumsUp
    <3> DEFINE s == [k \in 0 .. BUFFER_SIZE |-> 0]
    <3>1. s \in PartialSums /\ s[count] = 0
      BY SizesAssumption DEF Init, PartialSums
    <3>2. Produced = 0
      BY DEF Init, Produced, InFlight, Threads
    <3> HIDE DEF s
    <3> QED
      BY <3>1, <3>2 DEF Init, SumsUp
  <2> QED
    BY <2>1 DEF Init, NothingFailed, Threads, Producer, Consumer
<1>2. IInv /\ SumsUp /\ NothingFailed /\ [Next]_vars => (IInv /\ SumsUp /\ NothingFailed)'
  BY StepIInv, StepKeepsSum, StepFailsNothing
<1>3. NothingFailed => ChecksPass
  BY DEF NothingFailed, ChecksPass
<1> QED
  BY <1>1, <1>2, <1>3, PTL DEF Spec
=============================================================================
