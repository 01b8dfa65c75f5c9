--------------------------------- MODULE Collatz ---------------------------------
(***************************************************************************)
(* lab02: the library of collatz.c and the client that calls it.  An int   *)
(* has WIDTH bits; the results of collatz_conjecture() that it cannot hold *)
(* wrap around, as in the machine code of an unoptimised build.            *)
(***************************************************************************)
EXTENDS Integers

CONSTANTS
    WIDTH,              \* bits of an int
    Inputs,             \* numbers the client asks for
    MaxIterations       \* its values of max_iteration

VARIABLES
    pc,                 \* call, loop, return
    input, max_iter,    \* arguments of test_collatz_convergence()
    n, iter_no,
    iter,               \* what it has returned
    overflowed          \* history: a result has wrapped around in this call

vars == <<pc, input, max_iter, n, iter_no, iter, overflowed>>

Modulus == 2^WIDTH
Wrap(x) == ((x + 2^(WIDTH - 1)) % Modulus) - 2^(WIDTH - 1)

(* collatz_conjecture(), without and with the limits of an int *)
Rule(x) == IF x % 2 = 0 THEN x \div 2 ELSE 3 * x + 1
collatz_conjecture(x) == Wrap(Rule(x))

Init ==
    /\ pc = "call"
    /\ input = 1 /\ max_iter = 0 /\ n = 1 /\ iter_no = 1 /\ iter = 0
    /\ overflowed = FALSE

(* run() of the client goes on to its next number. *)
Call ==
    /\ pc = "call"
    /\ input' \in Inputs /\ max_iter' \in MaxIterations
    /\ n' = input' /\ iter_no' = 1 /\ overflowed' = FALSE
    /\ pc' = "loop"
    /\ UNCHANGED iter

Continue_Strict == iter_no < max_iter
Continue == iter_no <= max_iter

(* An iteration of the loop *)
Iterate ==
    /\ pc = "loop" /\ Continue
    /\ n' = collatz_conjecture(n)
    /\ overflowed' = (overflowed \/ n' # Rule(n))
    /\ \/ n' = 1 /\ iter' = iter_no /\ pc' = "return" /\ UNCHANGED iter_no
       \/ n' # 1 /\ iter_no' = iter_no + 1 /\ UNCHANGED <<iter, pc>>
    /\ UNCHANGED <<input, max_iter>>

GiveUp ==
    /\ pc = "loop" /\ ~Continue
    /\ iter' = -1 /\ pc' = "return"
    /\ UNCHANGED <<input, max_iter, n, iter_no, overflowed>>

(* The result is printed, and nothing is left of the call. *)
Return ==
    /\ pc = "return"
    /\ pc' = "call"
    /\ input' = 1 /\ max_iter' = 0 /\ n' = 1 /\ iter_no' = 1 /\ iter' = 0
    /\ overflowed' = FALSE

Next == Call \/ Iterate \/ GiveUp \/ Return
-----------------------------------------------------------------------------
(* The numbers that follow input, by the rule over the integers *)
Orbit == LET orbit[k \in 0 .. max_iter] == IF k = 0 THEN input ELSE Rule(orbit[k - 1])
         IN  orbit

(* Where no int overflows on the way, the library returns the first of max_iter
   applications of the rule that gives 1, and -1 if none does (collatz.c:13-24);
   for the number 1 itself it counts the three steps back to 1. *)
FirstOne ==
    pc = "return" /\ ~overflowed =>
        IF \E k \in 1 .. max_iter : Orbit[k] = 1
        THEN /\ iter \in 1 .. max_iter /\ Orbit[iter] = 1
             /\ \A k \in 1 .. iter - 1 : Orbit[k] # 1
        ELSE iter = -1
=============================================================================
