-------------------------------- MODULE Printers --------------------------------
(***************************************************************************)
(* lab08: user processes (users.c) and printer processes (printers.c)      *)
(* that share memory: per printer a semaphore (1: free) and a buffer.      *)
(* A user takes the semaphore and copies a document into the buffer; the   *)
(* printer polls the semaphore, prints the buffer letter by letter when it *)
(* finds it taken, and gives it back.                                      *)
(*                                                                         *)
(* A document is <<user, n>>; a buffer holds, per letter position, the     *)
(* document the letter comes from.  Every document has DocLen letters.     *)
(* Both programs register SIGINT with System V semantics (_XOPEN_SOURCE    *)
(* without _DEFAULT_SOURCE): a blocked sem_wait() or wait() fails.         *)
(***************************************************************************)
EXTENDS Integers, Sequences, FiniteSets

CONSTANTS
    Users, PRINTERS_NO,
    DocLen,             \* letters of a document
    MaxJobs,            \* bound on the documents of each user
    InterruptUsers, InterruptPrinters   \* whether SIGINT is sent, once, to each program

ASSUME ParametersAssumption ==
    /\ PRINTERS_NO \in Nat \ {0} /\ DocLen \in Nat \ {0} /\ MaxJobs \in Nat
    /\ InterruptUsers \in BOOLEAN /\ InterruptPrinters \in BOOLEAN

Printer == 1 .. PRINTERS_NO
Letters == 1 .. DocLen
Docs == Users \X (1 .. MaxJobs)
Blank == <<>>           \* a byte of the zeroed memory

VARIABLES
    sem, buffer,        \* shared memory, per printer
    user,               \* per user: pc, job number, chosen printer, letters copied
    printer,            \* per printer process: pc and the letters printed so far
    running,            \* is_running in the two programs
    interrupted,        \* users whose sem_wait() the signal interrupts
    parent,             \* main of printers.c: "wait", "destroy", "exited"
    holder,             \* history: the last document that got each semaphore
    taken,              \* history: all the documents that got each semaphore
    printCount,         \* history: complete printouts of each document
    overtaken           \* history: the printers that have found their semaphore
                        \* taken before the copy was complete

shared == <<sem, buffer>>
history == <<holder, taken, printCount, overtaken>>
vars == <<sem, buffer, user, printer, running, interrupted, parent, holder, taken, printCount, overtaken>>

Init ==
    /\ sem = [p \in Printer |-> 1]
    /\ buffer = [p \in Printer |-> [l \in Letters |-> Blank]]
    /\ user = [u \in Users |-> [pc |-> "top", job |-> 0, p |-> 1, copied |-> 0]]
    /\ printer = [p \in Printer |-> [pc |-> "test", out |-> <<>>]]
    /\ running = [prog \in {"users", "printers"} |-> TRUE]
    /\ interrupted = {} /\ parent = "wait"
    /\ holder = [p \in Printer |-> Blank] /\ taken = [p \in Printer |-> {}]
    /\ printCount = [d \in Docs |-> 0] /\ overtaken = {}

Doc(u) == <<u, user[u].job>>
-----------------------------------------------------------------------------
(* users.c *)

(* The loop's test, the sleep and a new document. *)
Start(u) ==
    /\ user[u].pc = "top" /\ running["users"] /\ user[u].job < MaxJobs
    /\ user' = [user EXCEPT ![u] = [pc |-> "scan", job |-> @.job + 1, p |-> 1, copied |-> 0]]
    /\ UNCHANGED <<shared, printer, running, interrupted, parent, history>>

UserExit(u) ==
    /\ user[u].pc = "top" /\ ~running["users"]
    /\ user' = [user EXCEPT ![u].pc = "exited"]
    /\ UNCHANGED <<shared, printer, running, interrupted, parent, history>>

(* get_printer_idx: one sem_getvalue() per step; the first printer seen free
   is taken, a random one if none was. *)
Scan(u) ==
    LET p == user[u].p IN
    /\ user[u].pc = "scan"
    /\ \/ sem[p] > 0 /\ user' = [user EXCEPT ![u].pc = "wait"]
       \/ sem[p] = 0 /\ p < PRINTERS_NO /\ user' = [user EXCEPT ![u].p = p + 1]
       \/ /\ sem[p] = 0 /\ p = PRINTERS_NO
          /\ \E q \in Printer : user' = [user EXCEPT ![u].pc = "wait", ![u].p = q]
    /\ UNCHANGED <<shared, printer, running, interrupted, parent, history>>

SemWait_Any(u) ==
    LET p == user[u].p IN
    /\ user[u].pc = "wait"
    /\ sem' = [sem EXCEPT ![p] = 0]
    /\ user' = [user EXCEPT ![u].pc = "copy"]
    /\ holder' = [holder EXCEPT ![p] = Doc(u)] /\ taken' = [taken EXCEPT ![p] = @ \cup {Doc(u)}]
    /\ interrupted' = interrupted \ {u}
    /\ UNCHANGED <<buffer, printer, running, parent, printCount, overtaken>>
SemWait(u) ==
    LET p == user[u].p IN
    /\ user[u].pc = "wait" /\ sem[p] > 0
    /\ sem' = [sem EXCEPT ![p] = @ - 1]
    /\ user' = [user EXCEPT ![u].pc = "copy"]
    /\ holder' = [holder EXCEPT ![p] = Doc(u)] /\ taken' = [taken EXCEPT ![p] = @ \cup {Doc(u)}]
    /\ interrupted' = interrupted \ {u}
    /\ UNCHANGED <<buffer, printer, running, parent, printCount, overtaken>>

(* sem_wait() fails with EINTR: reported, and the user goes on all the same. *)
SemWaitFails(u) ==
    /\ user[u].pc = "wait" /\ u \in interrupted
    /\ user' = [user EXCEPT ![u].pc = "copy"]
    /\ interrupted' = interrupted \ {u}
    /\ UNCHANGED <<shared, printer, running, parent, history>>

(* memcpy, a letter at a time; a document never ends in the middle. *)
Copy_Short(u) ==
    LET k == user[u].copied + 1 IN
    /\ user[u].pc = "copy"
    /\ buffer' = [buffer EXCEPT ![user[u].p][k] = Doc(u)]
    /\ user' = [user EXCEPT ![u].copied = k, ![u].pc = IF k + 1 = DocLen THEN "top" ELSE "copy"]
    /\ UNCHANGED <<sem, printer, running, interrupted, parent, history>>
Copy(u) ==
    LET k == user[u].copied + 1 IN
    /\ user[u].pc = "copy"
    /\ buffer' = [buffer EXCEPT ![user[u].p][k] = Doc(u)]
    /\ user' = [user EXCEPT ![u].copied = k, ![u].pc = IF k = DocLen THEN "top" ELSE "copy"]
    /\ UNCHANGED <<sem, printer, running, interrupted, parent, history>>
-----------------------------------------------------------------------------
(* printers.c *)

Copying(p) == \E u \in Users : user[u].pc = "copy" /\ user[u].p = p

(* while(is_running): a signal that comes after the test is seen one round
   later. *)
Test(p) ==
    /\ printer[p].pc = "test" /\ running["printers"]
    /\ printer' = [printer EXCEPT ![p].pc = "poll"]
    /\ UNCHANGED <<shared, user, running, interrupted, parent, history>>

PrinterExit(p) ==
    /\ printer[p].pc = "test" /\ ~running["printers"]
    /\ printer' = [printer EXCEPT ![p].pc = "exited"]
    /\ UNCHANGED <<shared, user, running, interrupted, parent, history>>

(* sem_getvalue(): taken or not. *)
Overtake(p) == overtaken' = IF Copying(p) THEN overtaken \cup {p} ELSE overtaken
Poll_EarlyPost(p) ==
    /\ printer[p].pc = "poll"
    /\ \/ /\ sem[p] = 0
          /\ sem' = [sem EXCEPT ![p] = 1]
          /\ printer' = [printer EXCEPT ![p].pc = "print"]
          /\ Overtake(p)
       \/ sem[p] > 0 /\ printer' = [printer EXCEPT ![p].pc = "test"] /\ UNCHANGED <<sem, overtaken>>
    /\ UNCHANGED <<buffer, user, running, interrupted, parent, holder, taken, printCount>>
Poll(p) ==
    /\ printer[p].pc = "poll"
    /\ \/ sem[p] = 0 /\ printer' = [printer EXCEPT ![p].pc = "print"] /\ Overtake(p)
       \/ sem[p] > 0 /\ printer' = [printer EXCEPT ![p].pc = "test"] /\ UNCHANGED overtaken
    /\ UNCHANGED <<shared, user, running, interrupted, parent, holder, taken, printCount>>

(* The for loop: strlen() is evaluated again before every letter. *)
StrLen(p) == Cardinality({k \in Letters : \A l \in 1 .. k : buffer[p][l] # Blank})
PrintLetter(p) ==
    LET k == Len(printer[p].out) IN
    /\ printer[p].pc = "print" /\ k < StrLen(p)
    /\ printer' = [printer EXCEPT ![p].out = Append(@, buffer[p][k + 1])]
    /\ UNCHANGED <<shared, user, running, interrupted, parent, history>>

(* The end of the loop. *)
Whole(d) == [l \in Letters |-> d]
PrintEnd(p) ==
    /\ printer[p].pc = "print" /\ Len(printer[p].out) >= StrLen(p)
    /\ printer' = [printer EXCEPT ![p].pc = "post"]
    /\ printCount' = [d \in Docs |-> printCount[d] + IF printer[p].out = Whole(d) THEN 1 ELSE 0]
    /\ UNCHANGED <<shared, user, running, interrupted, parent, holder, taken, overtaken>>

SemPost(p) ==
    /\ printer[p].pc = "post"
    /\ sem' = [sem EXCEPT ![p] = @ + 1]
    /\ printer' = [printer EXCEPT ![p] = [pc |-> "test", out |-> <<>>]]
    /\ UNCHANGED <<buffer, user, running, interrupted, parent, history>>

(* main: wait() until it fails, because no child is left or because the
   handler ran while it was blocked. *)
WaitLoopEnds ==
    /\ parent = "wait"
    /\ (\A p \in Printer : printer[p].pc = "exited") \/ ~running["printers"]
    /\ parent' = "destroy"
    /\ UNCHANGED <<shared, user, printer, running, interrupted, history>>

(* sem_destroy() on every semaphore, munmap, shm_unlink. *)
Destroy ==
    /\ parent = "destroy"
    /\ parent' = "exited"
    /\ UNCHANGED <<shared, user, printer, running, interrupted, history>>
-----------------------------------------------------------------------------
(* Ctrl+C in the terminal of one of the programs. *)
SignalUsers ==
    /\ InterruptUsers /\ running["users"]
    /\ running' = [running EXCEPT !["users"] = FALSE]
    /\ interrupted' = {u \in Users : user[u].pc = "wait" /\ sem[user[u].p] = 0}
    /\ UNCHANGED <<shared, user, printer, parent, history>>
SignalPrinters ==
    /\ InterruptPrinters /\ running["printers"]
    /\ running' = [running EXCEPT !["printers"] = FALSE]
    /\ UNCHANGED <<shared, user, printer, interrupted, parent, history>>

UserStep(u) == Start(u) \/ UserExit(u) \/ Scan(u) \/ SemWait(u) \/ SemWaitFails(u) \/ Copy(u)
PrinterStep(p) == Test(p) \/ Poll(p) \/ PrintLetter(p) \/ PrintEnd(p) \/ SemPost(p) \/ PrinterExit(p)

Next ==
    \/ \E u \in Users : UserStep(u)
    \/ \E p \in Printer : PrinterStep(p)
    \/ WaitLoopEnds \/ Destroy \/ SignalUsers \/ SignalPrinters

Spec == Init /\ [][Next]_vars

(* Processes are scheduled.  A sem_wait() that is possible again and again
   succeeds at last: sem_post() wakes a waiter, if not always the same one. *)
Fairness ==
    /\ \A u \in Users : WF_vars(UserStep(u)) /\ SF_vars(SemWait(u))
    /\ \A p \in Printer : WF_vars(PrinterStep(p))
FairSpec == Spec /\ Fairness
-----------------------------------------------------------------------------
(* The semaphores are binary although sem_post() only ever adds (printers.c:73). *)
TypeOK ==
    /\ sem \in [Printer -> 0 .. 1]
    /\ buffer \in [Printer -> [Letters -> Docs \cup {Blank}]]
    /\ user \in [Users -> [pc : {"top", "scan", "wait", "copy", "exited"}, job : 0 .. MaxJobs,
                           p : Printer, copied : 0 .. DocLen]]
    /\ printer \in [Printer -> [pc : {"test", "poll", "print", "post", "exited"}, out : Seq(Docs \cup {Blank})]]
    /\ running \in [{"users", "printers"} -> BOOLEAN]
    /\ interrupted \subseteq Users /\ parent \in {"wait", "destroy", "exited"}
    /\ holder \in [Printer -> Docs \cup {Blank}]
    /\ taken \in [Printer -> SUBSET Docs]
    /\ printCount \in [Docs -> Nat] /\ overtaken \subseteq Printer

(* A printer that prints has been taken and stays taken until its post, even
   if users die in between or never copy (printers.c:55-73). *)
BusyPrinterIsTaken == \A p \in Printer : printer[p].pc \in {"print", "post"} => sem[p] = 0

(* Nothing in the code keeps a printer from starting before the copy is
   complete.  As long as no sem_wait() has been interrupted, that spoils
   nothing but this printer's own work: every letter it prints is of a
   document whose user has taken this very printer, and one that has never
   started too early prints the document of the user who took it, whole
   (printers.c:52-66, users.c:96-101). *)
PrintsItsDocument == running["users"] =>
    \A p \in Printer :
        /\ \A k \in 1 .. Len(printer[p].out) : printer[p].out[k] \in taken[p]
        /\ printer[p].pc = "post" /\ p \notin overtaken => printer[p].out = Whole(holder[p])

(* Who copies into the buffer of such a printer has its semaphore, so that no
   two users ever copy into it and none while it is being printed
   (users.c:96-101). *)
ExclusiveCopy == running["users"] =>
    \A u \in Users : user[u].pc = "copy" /\ user[u].p \notin overtaken =>
        /\ holder[user[u].p] = Doc(u) /\ sem[user[u].p] = 0
        /\ printer[user[u].p].pc \notin {"print", "post"}
        /\ \A v \in Users \ {u} : user[v].pc = "copy" => user[v].p # user[u].p

(* Every document is printed whole in the end, unless the very printer its
   user took starts too early, or Ctrl+C ends a program (users.c:90-105). *)
EveryJobPrinted == \A u \in Users : \A n \in 1 .. MaxJobs :
    (user[u].pc = "wait" /\ user[u].job = n)
        ~> (\/ printCount[<<u, n>>] > 0 \/ \E p \in overtaken : <<u, n>> \in taken[p]
            \/ ~running["users"] \/ ~running["printers"])
=============================================================================
