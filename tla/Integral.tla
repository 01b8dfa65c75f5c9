--------------------------------- MODULE Integral ---------------------------------
(***************************************************************************)
(* lab06/zad1: a child per rectangle, with a pipe of its own, sends the    *)
(* area of the rectangle to the parent.  The parent reads before it starts *)
(* the next child and never calls wait(), so every child that has ended    *)
(* goes on counting towards the limit on processes.  An area is named by   *)
(* the number of its rectangle.                                            *)
(***************************************************************************)
EXTENDS Naturals, Sequences

CONSTANTS
    Counts,             \* values of the argument n
    MAX_PROCESSES,      \* children the system lets a process have
    Garbage             \* what partial contains before anything is read

VARIABLES
    pc,                 \* of the parent: main, pipe, close, read, done
    child,              \* the latest child: none, running, written, ended
    n, i,
    content,            \* of the pipe of the latest child
    writeEnd,           \* who has its write end open
    children,           \* processes that were started and not waited for
    res                 \* what has been added up, in order

vars == <<pc, child, n, i, content, writeEnd, children, res>>

Init ==
    /\ pc = "main" /\ child = "none"
    /\ n = 0 /\ i = 0 /\ content = <<>> /\ writeEnd = {}
    /\ children = 0 /\ res = <<>>

Main ==
    /\ pc = "main"
    /\ n' \in Counts
    /\ pc' = "pipe"
    /\ UNCHANGED <<child, i, content, writeEnd, children, res>>

(* The condition of the loop *)
More_OneShort == i + 1 < n
More == i < n

(* pipe() and fork(); a failed fork() is taken for the parent's branch. *)
Fork ==
    /\ pc = "pipe" /\ More
    /\ content' = <<>>
    /\ IF children < MAX_PROCESSES
       THEN /\ child' = "running" /\ children' = children + 1
            /\ writeEnd' = {"parent", "child"}
       ELSE /\ child' = "none" /\ UNCHANGED children
            /\ writeEnd' = {"parent"}
    /\ pc' = "close"
    /\ UNCHANGED <<n, i, res>>

(* A pipe that cannot be made ends the program without a result. *)
NoPipe ==
    /\ pc = "pipe" /\ More
    /\ pc' = "failed"
    /\ UNCHANGED <<child, n, i, content, writeEnd, children, res>>

(* calc_chunk() and write() of the child, then close() and its end *)
Write ==
    /\ child = "running"
    /\ content' = Append(content, i)
    /\ child' = "written"
    /\ UNCHANGED <<pc, n, i, writeEnd, children, res>>

End ==
    /\ child = "written"
    /\ writeEnd' = writeEnd \ {"child"}
    /\ child' = "ended"
    /\ UNCHANGED <<pc, n, i, content, children, res>>

CloseWrite ==
    /\ pc = "close"
    /\ writeEnd' = writeEnd \ {"parent"}
    /\ pc' = "read"
    /\ UNCHANGED <<child, n, i, content, children, res>>

(* read() waits for the area; without a writer it returns 0 and partial is
   added as it is. *)
MayRead == content # <<>> \/ writeEnd = {}
Read ==
    /\ pc = "read" /\ MayRead
    /\ res' = Append(res, IF content = <<>> THEN Garbage ELSE Head(content))
    /\ content' = <<>>
    /\ i' = i + 1
    /\ pc' = "pipe"
    /\ UNCHANGED <<child, n, writeEnd, children>>

Finish ==
    /\ pc = "pipe" /\ ~More
    /\ pc' = "done"
    /\ UNCHANGED <<child, n, i, content, writeEnd, children, res>>

Next == Main \/ Fork \/ NoPipe \/ Write \/ End \/ CloseWrite \/ Read \/ Finish
-----------------------------------------------------------------------------
(* As long as the system can hold a process for every rectangle, the sum that is
   printed has each area once, in order, however slow a child is to write or to
   end (main.c:39-70); beyond that the rest of the sum is made of a variable
   nobody has written to. *)
EveryAreaOnce ==
    pc = "done" /\ n <= MAX_PROCESSES => res = [k \in 1 .. n |-> k - 1]
=============================================================================
