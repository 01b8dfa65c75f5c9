------------------------------- MODULE MCSmall -------------------------------
(***************************************************************************)
(* The small models, one of which is run in each behaviour: they have      *)
(* nothing to do with each other, so the reachable states are those of     *)
(* each of them by itself.  PingTiming and Reverse are extended, the others *)
(* have variables of their own.                                            *)
(***************************************************************************)
EXTENDS PingTiming, Reverse

CONSTANTS
    Garbage,                            \* a model value
    Instance,                           \* of Fifo
    CAPACITY, BlockSizes, FileSizes,    \* of CheckPipe
    WIDTH, Inputs, MaxIterations,       \* of Collatz
    Counts, MAX_PROCESSES               \* of Integral

ASSUME PipeAssumption ==
    CAPACITY \in Nat /\ BlockSizes \subseteq 1 .. CAPACITY /\ FileSizes \subseteq Nat
ASSUME CollatzAssumption == Inputs \subseteq Int /\ MaxIterations \subseteq Int
ASSUME IntegralAssumption == Counts \subseteq Nat /\ MAX_PROCESSES \in Nat

Program == {"lab02", "lab03", "lab06/zad1", "lab06/zad2", "ping", "zad2", "zad3"}

VARIABLES
    program,
    fifoPc, turn, content, value, shown, interrupted, alone, overlapped,
    forkPc, sigaction, buffered, stdout, printed, late, failedCall,
    pipePc, block_size, size, unread, bytesRead, pipe, readEnd, writeEnd, bytes_total,
    retval, verdict, failedPipe,
    intPc, input, max_iter, n, iter_no, iter, overflowed,
    sumPc, child, count, i, area, areaEnd, children, res

fifoVars == <<fifoPc, turn, content, value, shown, interrupted, alone, overlapped>>
forkVars == <<forkPc, sigaction, buffered, stdout, printed, late, failedCall>>
pipeVars == <<pipePc, block_size, size, unread, bytesRead, pipe, readEnd, writeEnd,
              bytes_total, retval, verdict, failedPipe>>
intVars == <<intPc, input, max_iter, n, iter_no, iter, overflowed>>
sumVars == <<sumPc, child, count, i, area, areaEnd, children, res>>

Fifos == INSTANCE Fifo WITH pc <- fifoPc
Fork == INSTANCE CheckFork WITH pc <- forkPc, failed <- failedCall
Pipe == INSTANCE CheckPipe WITH pc <- pipePc, failed <- failedPipe
Coll == INSTANCE Collatz WITH pc <- intPc
Sum == INSTANCE Integral WITH pc <- sumPc, n <- count, content <- area, writeEnd <- areaEnd

(* The values of the constants: all positive numbers of an int of 8 bits, ... *)
PositiveInts == 1 .. 127
FewRectangles == 0 .. 5
(* ... and files whose bytes are all different: what a byte is does not matter. *)
FilesOfAllSizes == {[k \in 1 .. length |-> k] : length \in 0 .. 10}

MCInit ==
    /\ program \in Program
    /\ Fifos!Init /\ Fork!Init /\ Pipe!Init /\ Coll!Init /\ Sum!Init /\ ReverseInit
    /\ Init /\ (program # "ping" => now = 0)
    /\ program # "zad2" => buffered

MCNext ==
    \/ /\ program = "ping" /\ Next
       /\ UNCHANGED <<program, fifoVars, forkVars, pipeVars, intVars, sumVars, reverseVars>>
    \/ /\ program = "lab06/zad2" /\ Fifos!Next
       /\ UNCHANGED <<program, vars, forkVars, pipeVars, intVars, sumVars, reverseVars>>
    \/ /\ program = "zad2" /\ Fork!Next
       /\ UNCHANGED <<program, vars, fifoVars, pipeVars, intVars, sumVars, reverseVars>>
    \/ /\ program = "zad3" /\ Pipe!Next
       /\ UNCHANGED <<program, vars, fifoVars, forkVars, intVars, sumVars, reverseVars>>
    \/ /\ program = "lab02" /\ Coll!Next
       /\ UNCHANGED <<program, vars, fifoVars, forkVars, pipeVars, sumVars, reverseVars>>
    \/ /\ program = "lab06/zad1" /\ Sum!Next
       /\ UNCHANGED <<program, vars, fifoVars, forkVars, pipeVars, intVars, reverseVars>>
    \/ /\ program = "lab03" /\ ReverseNext
       /\ UNCHANGED <<program, vars, fifoVars, forkVars, pipeVars, intVars, sumVars>>

(* The system schedules every process that can run, and a sleep ends.  A process
   makes finitely many steps, so the fairness of each follows from this one. *)
Fairness ==
    /\ WF_fifoVars(program = "lab06/zad2" /\ \E p \in Fifos!Process : Fifos!Step(p))
    /\ WF_forkVars(program = "zad2" /\ Fork!Next)
    /\ WF_pipeVars(program = "zad3" /\ Pipe!Next)

MCVars == <<program, vars, fifoVars, forkVars, pipeVars, intVars, sumVars, reverseVars>>
MCSpec == MCInit /\ [][MCNext]_MCVars /\ Fairness
-----------------------------------------------------------------------------
(* lab06/zad2, main.c:63-90: see Fifo. *)
OwnResult == Fifos!OwnResult
(* kolokwium1, zad2.c:27-51: see CheckFork. *)
LinesOnce == program = "zad2" => Fork!LinesOnce
(* kolokwium1, zad3.c:28-33: see CheckPipe. *)
WritingPasses == program = "zad3" => Pipe!WritingPasses
(* lab02, collatz.c:13-24: see Collatz. *)
FirstOne == Coll!FirstOne
(* lab06/zad1, main.c:39-70: see Integral. *)
EveryAreaOnce == Sum!EveryAreaOnce
=============================================================================
