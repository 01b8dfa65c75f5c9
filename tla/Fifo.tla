---------------------------------- MODULE Fifo ----------------------------------
(***************************************************************************)
(* lab06/zad2: the program forks, the parent sends the interval and the    *)
(* number of rectangles over one FIFO, and the child sends the integral    *)
(* back over another.  The FIFOs are two files of the current directory:   *)
(* every instance of the program that is started in it opens the same ones.*)
(*                                                                         *)
(* The parent's arguments are a value of their own per instance; what a    *)
(* FIFO carries is such a value, or the integral computed from it.         *)
(***************************************************************************)
EXTENDS Sequences

CONSTANTS
    Instance,       \* the times the program is started
    Garbage         \* what a variable nobody has written to contains

ParentOf(i) == <<i, "parent">>
ChildOf(i) == <<i, "child">>
Process == Instance \X {"parent", "child"}
FifoName == {"my_fifo1", "my_fifo2"}

VARIABLES
    pc,             \* of a process: where it is with the FIFO of its turn
    turn,           \* of a process: first or second FIFO it uses
    content,        \* of a FIFO: what was written and not yet read
    value,          \* in_args of a child and then its res, res of a parent
    shown,          \* of an instance: what the parent has printed
    interrupted,    \* the instances that have got a Ctrl+C
    alone,          \* the instances whose fork() has failed
    overlapped      \* history: the instances that ran while another one did

vars == <<pc, turn, content, value, shown, interrupted, alone, overlapped>>

Alive(p) == pc[p] \in {"open", "opening", "transfer", "close"}
Holding == {"opening", "transfer", "close"}

Arguments(i) == [of |-> i, are |-> "arguments"]
(* calc(), which ends with something whatever the arguments are *)
calc(args) == IF args = Garbage THEN Garbage ELSE [args EXCEPT !.are = "integral"]

(* Both processes begin with the FIFO that leads to the child. *)
Uses_Crossed(p) == IF (turn[p] = 1) <=> (p[2] = "parent") THEN "my_fifo2" ELSE "my_fifo1"
Uses(p) == IF turn[p] = 1 THEN "my_fifo2" ELSE "my_fifo1"
Reads(p) == (p[2] = "child") <=> (Uses(p) = "my_fifo2")

(* A blocked open() already counts as an end of the FIFO. *)
Readers(f) == {p \in Process : pc[p] \in Holding /\ Uses(p) = f /\ Reads(p)}
Writers(f) == {p \in Process : pc[p] \in Holding /\ Uses(p) = f /\ ~Reads(p)}
Partners(p) == IF Reads(p) THEN Writers(Uses(p)) ELSE Readers(Uses(p))

Init ==
    /\ pc = [p \in Process |-> "none"]
    /\ turn = [p \in Process |-> 1]
    /\ content = [f \in FifoName |-> <<>>]
    /\ value = [p \in Process |-> Garbage]
    /\ shown = [i \in Instance |-> Garbage]
    /\ interrupted = {} /\ alone = {} /\ overlapped = {}

(* main() up to fork().  A FIFO that is there already is used as it is, any
   other failure of mkfifo() ends the program; a failed fork() is taken for
   the parent's side. *)
Start(i) ==
    LET others == {j \in Instance \ {i} : Alive(ParentOf(j)) \/ Alive(ChildOf(j))}
    IN  /\ pc[ParentOf(i)] = "none"
        /\ \/ /\ pc' = [pc EXCEPT ![ParentOf(i)] = "open", ![ChildOf(i)] = "open"]
              /\ UNCHANGED alone
           \/ /\ pc' = [pc EXCEPT ![ParentOf(i)] = "open"]
              /\ alone' = alone \cup {i}
           \/ /\ pc' = [pc EXCEPT ![ParentOf(i)] = "dead"]
              /\ UNCHANGED alone
        /\ overlapped' = overlapped \cup others \cup {j \in {i} : others # {}}
        /\ UNCHANGED <<turn, content, value, shown, interrupted>>

(* open() waits until the other end has been opened too, and lets those go on
   who wait for this end. *)
Open(p) ==
    /\ pc[p] = "open"
    /\ pc' = [q \in Process |->
                IF q = p THEN IF Partners(p) = {} THEN "opening" ELSE "transfer"
                ELSE IF q \in Partners(p) /\ pc[q] = "opening" THEN "transfer"
                ELSE pc[q]]
    /\ UNCHANGED <<turn, content, value, shown, interrupted, alone, overlapped>>

(* What is in a FIFO goes with its last end. *)
LeaveFifo(p) ==
    content' = IF Readers(Uses(p)) \cup Writers(Uses(p)) \subseteq {p}
               THEN [content EXCEPT ![Uses(p)] = <<>>]
               ELSE content

(* write() of a whole packet; without a reader SIGPIPE kills the writer. *)
Write(p) ==
    /\ pc[p] = "transfer" /\ ~Reads(p)
    /\ \/ /\ Partners(p) # {}
          /\ content' = [content EXCEPT ![Uses(p)] =
                Append(@, IF p[2] = "parent" THEN Arguments(p[1]) ELSE calc(value[p]))]
          /\ pc' = [pc EXCEPT ![p] = "close"]
       \/ /\ Partners(p) = {}
          /\ LeaveFifo(p)
          /\ pc' = [pc EXCEPT ![p] = "dead"]
    /\ UNCHANGED <<turn, value, shown, interrupted, alone, overlapped>>

(* read() waits for a packet.  When nobody can write any more it returns 0,
   which is not looked at, and the variable keeps what it contained. *)
EndOfFile(p) == content[Uses(p)] = <<>> /\ Partners(p) = {}
Read(p) ==
    /\ pc[p] = "transfer" /\ Reads(p)
    /\ \/ /\ content[Uses(p)] # <<>>
          /\ value' = [value EXCEPT ![p] = Head(content[Uses(p)])]
          /\ content' = [content EXCEPT ![Uses(p)] = Tail(@)]
       \/ /\ EndOfFile(p)
          /\ UNCHANGED <<value, content>>
    /\ pc' = [pc EXCEPT ![p] = "close"]
    /\ UNCHANGED <<turn, shown, interrupted, alone, overlapped>>

(* close(), and after the second FIFO the end of the process: the parent prints
   what it has and waits for nobody. *)
Close(p) ==
    /\ pc[p] = "close"
    /\ LeaveFifo(p)
    /\ \/ /\ turn[p] = 1
          /\ turn' = [turn EXCEPT ![p] = 2]
          /\ pc' = [pc EXCEPT ![p] = "open"]
          /\ UNCHANGED shown
       \/ /\ turn[p] = 2
          /\ pc' = [pc EXCEPT ![p] = "done"]
          /\ shown' = IF p[2] = "parent" THEN [shown EXCEPT ![p[1]] = value[p]] ELSE shown
          /\ UNCHANGED turn
    /\ UNCHANGED <<value, interrupted, alone, overlapped>>

(* Ctrl+C goes to both processes, and each of them ends when it gets there. *)
CtrlC(i) ==
    /\ Alive(ParentOf(i)) /\ i \notin interrupted
    /\ interrupted' = interrupted \cup {i}
    /\ UNCHANGED <<pc, turn, content, value, shown, alone, overlapped>>

Die(p) ==
    /\ Alive(p) /\ p[1] \in interrupted
    /\ IF pc[p] \in Holding THEN LeaveFifo(p) ELSE UNCHANGED content
    /\ pc' = [pc EXCEPT ![p] = "dead"]
    /\ UNCHANGED <<turn, value, shown, interrupted, alone, overlapped>>

Step(p) == Open(p) \/ Write(p) \/ Read(p) \/ Close(p) \/ Die(p)
Next ==
    \/ \E p \in Process : Step(p)
    \/ \E i \in Instance : Start(i) \/ CtrlC(i)
-----------------------------------------------------------------------------
(* An instance that has got its child prints the integral of its own interval,
   if no other one was alive at the same time and nobody interrupted it: no
   open() waits for ever, and no read() finds an empty FIFO or another's packet
   (main.c:63-90).  The files survive a crash, but nothing written to them does.
   A parent that has ended may leave a child behind that still holds its end of
   my_fifo1, so a start right after the first run has shown its result overlaps,
   and may read 0 bytes. *)
OwnResult ==
    \A i \in Instance :
        Alive(ParentOf(i)) ~> \/ shown[i] = calc(Arguments(i))
                              \/ i \in overlapped \cup interrupted \cup alone

(* The safety half of it: under the same conditions a parent that has ended its
   second turn has printed the integral of its own interval, and nothing else. *)
ShownIsOwn ==
    \A i \in Instance :
        pc[ParentOf(i)] = "done" => \/ shown[i] = calc(Arguments(i))
                                   \/ i \in overlapped \cup interrupted \cup alone
=============================================================================
