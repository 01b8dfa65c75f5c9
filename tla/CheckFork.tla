------------------------------- MODULE CheckFork -------------------------------
(***************************************************************************)
(* kolokwium1/test_1, second exercise: zad2.c tests a signal mask on       *)
(* itself, then starts check_fork in a child and sends it a signal.  Each  *)
(* test prints one line.  "make test" runs the program into a pipe, where  *)
(* stdio keeps lines in a buffer of the process: fork() copies it, execl() *)
(* drops it, a normal end writes it out, a fatal signal does not.          *)
(***************************************************************************)
EXTENDS Sequences

Process == {"zad2", "child"}
Signal == {"SIGUSR1", "SIGUSR2"}
MaskLine == "PASS: signal mask"
ForkLine == "PASS: fork exec"
(* SIG_DFL, SIG_IGN, and the sig_pass() of zad2.h and of check_fork.c, which
   are named by what they print *)
Disposition == {"SIG_DFL", "SIG_IGN", MaskLine, ForkLine}

VARIABLES
    pc,             \* of both processes
    sigaction,      \* of both processes: what a signal does
    buffered,       \* the output is a pipe or a file, not a terminal
    stdout,         \* of both processes: lines in the stdio buffer
    printed,        \* the lines of the output
    late,           \* history: the signal came when check_fork was not ready
    failed          \* history: fork() or execl() has failed

vars == <<pc, sigaction, buffered, stdout, printed, late, failed>>

Ended == {"exited", "killed"}

Init ==
    /\ pc = [p \in Process |-> IF p = "zad2" THEN "mask" ELSE "none"]
    /\ sigaction = [p \in Process |-> [s \in Signal |-> "SIG_DFL"]]
    /\ buffered \in BOOLEAN
    /\ stdout = [p \in Process |-> <<>>] /\ printed = <<>>
    /\ late = FALSE /\ failed = FALSE

printf(p, line) ==
    IF buffered
    THEN stdout' = [stdout EXCEPT ![p] = Append(@, line)] /\ UNCHANGED printed
    ELSE printed' = Append(printed, line) /\ UNCHANGED stdout

(* The end of main() and exit() *)
Flush(p) ==
    /\ printed' = printed \o stdout[p]
    /\ stdout' = [stdout EXCEPT ![p] = <<>>]

(* mask() *)
Mask_Missing ==
    /\ pc["zad2"] = "mask"
    /\ pc' = [pc EXCEPT !["zad2"] = "check_mask"]
    /\ UNCHANGED <<sigaction, buffered, stdout, printed, late, failed>>
Mask ==
    /\ pc["zad2"] = "mask"
    /\ sigaction' = [sigaction EXCEPT !["zad2"]["SIGUSR2"] = "SIG_IGN"]
    /\ pc' = [pc EXCEPT !["zad2"] = "check_mask"]
    /\ UNCHANGED <<buffered, stdout, printed, late, failed>>

(* The two raise() of check_mask(): SIGUSR2 must be ignored, SIGUSR1 runs the
   handler that has just been registered. *)
check_mask ==
    /\ pc["zad2"] = "check_mask"
    /\ sigaction' = [sigaction EXCEPT !["zad2"]["SIGUSR1"] = MaskLine]
    /\ IF sigaction["zad2"]["SIGUSR2"] = "SIG_DFL"
       THEN pc' = [pc EXCEPT !["zad2"] = "killed"] /\ UNCHANGED <<stdout, printed>>
       ELSE pc' = [pc EXCEPT !["zad2"] = "fork"] /\ printf("zad2", MaskLine)
    /\ UNCHANGED <<buffered, late, failed>>

(* The child has copies of everything.  Without a child process() returns. *)
Fork ==
    /\ pc["zad2"] = "fork"
    /\ \/ /\ pc' = [pc EXCEPT !["zad2"] = "sleep", !["child"] = "exec"]
          /\ sigaction' = [sigaction EXCEPT !["child"] = sigaction["zad2"]]
          /\ stdout' = [stdout EXCEPT !["child"] = stdout["zad2"]]
          /\ UNCHANGED <<printed, failed>>
       \/ /\ pc' = [pc EXCEPT !["zad2"] = "return"]
          /\ failed' = TRUE
          /\ printf("zad2", "Fork ERR")
          /\ UNCHANGED sigaction
    /\ UNCHANGED <<buffered, late>>

(* execl() keeps what is ignored and resets what is handled.  If it fails the
   child returns from process() and from main(). *)
Exec ==
    /\ pc["child"] = "exec"
    /\ \/ /\ pc' = [pc EXCEPT !["child"] = "start"]
          /\ sigaction' = [sigaction EXCEPT !["child"] = [s \in Signal |->
                IF @[s] = "SIG_IGN" THEN "SIG_IGN" ELSE "SIG_DFL"]]
          /\ stdout' = [stdout EXCEPT !["child"] = <<>>]
          /\ UNCHANGED failed
       \/ /\ pc' = [pc EXCEPT !["child"] = "return"]
          /\ failed' = TRUE
          /\ UNCHANGED <<sigaction, stdout>>
    /\ UNCHANGED <<buffered, printed, late>>

(* main() of check_fork: sigaction(), then sigsuspend() *)
Register ==
    /\ pc["child"] = "start"
    /\ sigaction' = [sigaction EXCEPT !["child"]["SIGUSR1"] = ForkLine]
    /\ pc' = [pc EXCEPT !["child"] = "ready"]
    /\ UNCHANGED <<buffered, stdout, printed, late, failed>>

Suspend ==
    /\ pc["child"] = "ready"
    /\ pc' = [pc EXCEPT !["child"] = "suspended"]
    /\ UNCHANGED <<sigaction, buffered, stdout, printed, late, failed>>

(* kill() after the second of sleep(), wherever the child is by then.  A
   handler ends sigsuspend(); a signal to a child that has ended is lost. *)
Send(signal) ==
    LET reaction == sigaction["child"][signal]
        handled == pc["child"] \notin Ended /\ reaction \in {MaskLine, ForkLine}
    IN  /\ pc["zad2"] = "sleep"
        /\ pc' = [pc EXCEPT !["zad2"] = "wait", !["child"] =
                IF @ \notin Ended /\ reaction = "SIG_DFL" THEN "killed"
                ELSE IF @ = "suspended" /\ handled THEN "return"
                ELSE @]
        /\ IF handled THEN printf("child", reaction) ELSE UNCHANGED <<stdout, printed>>
        /\ late' = (late \/ pc["child"] \in {"exec", "start", "ready"})
        /\ UNCHANGED <<sigaction, buffered, failed>>

Kill == Send("SIGUSR1")

Wait ==
    /\ pc["zad2"] = "wait" /\ pc["child"] \in Ended
    /\ pc' = [pc EXCEPT !["zad2"] = "return"]
    /\ UNCHANGED <<sigaction, buffered, stdout, printed, late, failed>>

Exit(p) ==
    /\ pc[p] = "return"
    /\ Flush(p)
    /\ pc' = [pc EXCEPT ![p] = "exited"]
    /\ UNCHANGED <<sigaction, buffered, late, failed>>

ParentStep == Mask \/ check_mask \/ Fork \/ Kill \/ Wait \/ Exit("zad2")
ChildStep == Exec \/ Register \/ Suspend \/ Exit("child")
Next == ParentStep \/ ChildStep
-----------------------------------------------------------------------------
Lines(line) == {n \in DOMAIN printed : printed[n] = line}

(* The exercise comes to its end, and each of its two tests has left exactly one
   line behind, on a terminal and in a pipe, although the child is a copy of a
   process that has printed already (zad2.c:27-51, zad2.h:7-21).  This depends on
   a second being enough for the child: if the signal comes while check_fork is
   not yet in sigsuspend(), it may wait for a signal that has gone, and its
   parent for it; if a call fails the exercise ends, but a line is missing, or
   twice there. *)
LinesOnce ==
    <>(late \/ /\ pc["zad2"] \in Ended
               /\ ~failed => \A line \in {MaskLine, ForkLine} : \E n \in DOMAIN printed :
                                Lines(line) = {n})

(* The safety half of it: where the exercise has ended in time and without a
   failing call, each line is there exactly once. *)
OnceAtEnd ==
    pc["zad2"] \in Ended /\ ~late /\ ~failed =>
        \A line \in {MaskLine, ForkLine} : \E n \in DOMAIN printed : Lines(line) = {n}
=============================================================================
