------------------------------- MODULE Handoff -------------------------------
(***************************************************************************)
(* What the producer/consumer program of kolokwium2/test_2 promises,       *)
(* without threads, mutexes or condition variables: the values             *)
(* 0 .. VALUE_COUNT-1 are made available in order, never more than         *)
(* BUFFER_SIZE of them at a time, and each is processed exactly once.      *)
(***************************************************************************)
EXTENDS Integers, FiniteSets

CONSTANTS BUFFER_SIZE, VALUE_COUNT

VARIABLES
    produced,   \* how many values have been produced: 0 .. produced-1
    pending,    \* the values produced and not yet processed
    processed   \* the values processed

hvars == <<produced, pending, processed>>

HInit == produced = 0 /\ pending = {} /\ processed = {}

Put ==
    /\ produced < VALUE_COUNT
    /\ Cardinality(pending) < BUFFER_SIZE
    /\ pending' = pending \cup {produced}
    /\ produced' = produced + 1
    /\ UNCHANGED processed

Take == \E v \in pending :
    /\ pending' = pending \ {v}
    /\ processed' = processed \cup {v}
    /\ UNCHANGED produced

HNext == Put \/ Take

HSpec == HInit /\ [][HNext]_hvars

HFairSpec == HSpec /\ WF_hvars(HNext)
=============================================================================
