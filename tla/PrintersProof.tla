------------------------------ MODULE PrintersProof ------------------------------
(***************************************************************************)
(* Theorems about Printers, for any set of users and any numbers of        *)
(* printers, letters and documents.                                        *)
(***************************************************************************)
EXTENDS Printers, FiniteSetTheorems, TLAPS

Busy(p) == printer[p].pc \in {"print", "post"}

(* A user who looks for a printer, waits or copies has a document, and who
   copies is not done. *)
JobInProgress == \A u \in Users :
    /\ user[u].pc \in {"scan", "wait", "copy"} => user[u].job >= 1
    /\ user[u].pc \in {"scan", "wait"} => user[u].copied = 0
    /\ user[u].pc = "copy" => user[u].copied < DocLen

(* Holds whatever happens. *)
Always == TypeOK /\ BusyPrinterIsTaken /\ JobInProgress

(* As long as no sem_wait() is interrupted: who copies has taken the printer,
   so all letters in its buffer and on its paper are of documents whose users
   have. *)
CopierTook(u) == user[u].pc = "copy" => Doc(u) \in taken[user[u].p]
LettersTaken(p) ==
    /\ \A l \in Letters : buffer[p][l] \in taken[p] \cup {Blank}
    /\ \A k \in 1 .. Len(printer[p].out) : printer[p].out[k] \in taken[p]
    /\ printer[p].pc \in {"test", "poll"} => printer[p].out = <<>>

(* If the printer has never started too early, the copier got the semaphore
   last, before the printer saw it taken; what he copied so far is still
   there; when nobody copies, the buffer holds the document whole, and what
   has been printed is the beginning of it. *)
CopierInOrder(u) == LET p == user[u].p IN
    user[u].pc = "copy" /\ p \notin overtaken =>
        /\ holder[p] = Doc(u) /\ sem[p] = 0 /\ ~Busy(p)
        /\ \A l \in Letters : l <= user[u].copied => buffer[p][l] = Doc(u)
BufferInOrder(p) == sem[p] = 0 /\ p \notin overtaken =>
    /\ holder[p] \in Docs
    /\ ~Copying(p) => \A l \in Letters : buffer[p][l] = holder[p]
PaperInOrder(p) == Busy(p) /\ p \notin overtaken =>
    /\ Len(printer[p].out) <= DocLen
    /\ \A k \in 1 .. Len(printer[p].out) : printer[p].out[k] = holder[p]
    /\ printer[p].pc = "post" => Len(printer[p].out) = DocLen
Core ==
    /\ interrupted = {}
    /\ \A u \in Users : CopierTook(u) /\ CopierInOrder(u)
    /\ \A p \in Printer : LettersTaken(p) /\ BufferInOrder(p) /\ PaperInOrder(p)

IInv == Always /\ (running["users"] => Core)

-----------------------------------------------------------------------------
(* The length of the text in a buffer. *)
LEMMA CountLetters == IsFiniteSet(Letters) /\ Cardinality(Letters) = DocLen
  BY ParametersAssumption, FS_Interval DEF Letters

(* strlen() stays inside the buffer (printers.c). *)
LEMMA StrLenBound ==
    ASSUME NEW p \in Printer PROVE StrLen(p) \in Nat /\ StrLen(p) <= DocLen
<1>1. {k \in Letters : \A l \in 1 .. k : buffer[p][l] # Blank} \in SUBSET Letters
  OBVIOUS
<1> QED
  BY <1>1, CountLetters, FS_Subset, FS_CardinalityType DEF StrLen

(* A buffer full of letters is a whole document. *)
LEMMA StrLenWhole ==
    ASSUME NEW p \in Printer, \A l \in Letters : buffer[p][l] # Blank
    PROVE  StrLen(p) = DocLen
<1>1. {k \in Letters : \A l \in 1 .. k : buffer[p][l] # Blank} = Letters
  BY ParametersAssumption DEF Letters
<1> QED
  BY <1>1, CountLetters DEF StrLen

(* What strlen() counts are letters. *)
LEMMA StrLenLetter ==
    ASSUME NEW p \in Printer, NEW k \in Nat, k < StrLen(p)
    PROVE  k + 1 \in Letters /\ buffer[p][k + 1] # Blank
<1> DEFINE S == {m \in Letters : \A l \in 1 .. m : buffer[p][l] # Blank}
<1>1. SUFFICES ASSUME k + 1 \notin S PROVE FALSE
  BY ParametersAssumption DEF Letters
<1>2. S \subseteq 1 .. k
  <2> SUFFICES ASSUME NEW m \in S, m \notin 1 .. k PROVE FALSE
    OBVIOUS
  <2>1. m \in Letters /\ m \in Nat /\ k + 1 <= m /\ m <= DocLen
    BY ParametersAssumption DEF Letters
  <2>2. k + 1 \in Letters /\ \A l \in 1 .. k + 1 : l \in 1 .. m
    BY <2>1, ParametersAssumption DEF Letters
  <2> QED
    BY <1>1, <2>2
<1>3. Cardinality(S) <= k
  <2>1. IsFiniteSet(1 .. k) /\ Cardinality(1 .. k) = k
    BY FS_Interval
  <2> QED
    BY <1>2, <2>1, FS_Subset
<1>4. Cardinality(S) = StrLen(p) /\ StrLen(p) \in Nat
  BY StrLenBound DEF StrLen
<1> QED
  BY <1>3, <1>4

(* A document has a letter at every place. *)
LEMMA DocIsNotBlank == \A d \in Docs : d # Blank
  BY DEF Docs, Blank

-----------------------------------------------------------------------------
(* Types, and the semaphores as locks. *)

(* The semaphores are 1 and nobody has started. *)
LEMMA InitAlways == Init => Always
<1> SUFFICES ASSUME Init PROVE Always
  OBVIOUS
<1> USE ParametersAssumption DEF Init
<1>1. sem \in [Printer -> 0 .. 1]
  OBVIOUS
<1>2. buffer \in [Printer -> [Letters -> Docs \cup {Blank}]]
  OBVIOUS
<1>3. user \in [Users -> [pc : {"top", "scan", "wait", "copy", "exited"}, job : 0 .. MaxJobs,
                          p : Printer, copied : 0 .. DocLen]]
  BY DEF Printer
<1>4. printer \in [Printer -> [pc : {"test", "poll", "print", "post", "exited"}, out : Seq(Docs \cup {Blank})]]
  OBVIOUS
<1>5. running \in [{"users", "printers"} -> BOOLEAN]
  OBVIOUS
<1>6. holder \in [Printer -> Docs \cup {Blank}] /\ printCount \in [Docs -> Nat] /\ taken \in [Printer -> SUBSET Docs]
  OBVIOUS
<1>7. interrupted \subseteq Users /\ parent \in {"wait", "destroy", "exited"} /\ overtaken \subseteq Printer
  OBVIOUS
<1>8. BusyPrinterIsTaken
  BY DEF BusyPrinterIsTaken
<1>9. JobInProgress
  BY DEF JobInProgress
<1> QED
  BY <1>1, <1>2, <1>3, <1>4, <1>5, <1>6, <1>7, <1>8, <1>9 DEF Always, TypeOK

(* What a user's step has to respect. *)
UserState == [pc : {"top", "scan", "wait", "copy", "exited"}, job : 0 .. MaxJobs,
              p : Printer, copied : 0 .. DocLen]
Fitting(s) ==
    /\ s \in UserState
    /\ s.pc \in {"scan", "wait", "copy"} => s.job >= 1
    /\ s.pc \in {"scan", "wait"} => s.copied = 0
    /\ s.pc = "copy" => s.copied < DocLen

(* What a user has done fits where he is in his loop. *)
LEMMA AlwaysFitting == Always => \A u \in Users : Fitting(user[u])
  BY DEF Always, TypeOK, JobInProgress, Fitting, UserState

(* If one user changes to something that fits, all of them still do. *)
LEMMA UserChange ==
    ASSUME Always, NEW u \in Users, NEW s, Fitting(s), user' = [user EXCEPT ![u] = s]
    PROVE  user' \in [Users -> UserState] /\ JobInProgress'
<1>1. user \in [Users -> UserState]
  BY DEF Always, TypeOK, UserState
<1>2. user' \in [Users -> UserState]
  BY <1>1 DEF Fitting
<1>3. JobInProgress'
  BY <1>1 DEF Always, JobInProgress, Fitting
<1> QED
  BY <1>2, <1>3

(* A step of a user changes nobody else, and to something that fits (users.c:88-104). *)
LEMMA UserStepChange ==
    ASSUME Always, NEW u \in Users, UserStep(u)
    PROVE  \E s : Fitting(s) /\ user' = [user EXCEPT ![u] = s]
<1> USE ParametersAssumption
<1>0. Fitting(user[u])
  BY AlwaysFitting
<1>1. CASE Start(u)
  <2>1. Fitting([pc |-> "scan", job |-> user[u].job + 1, p |-> 1, copied |-> 0])
    BY <1>0, <1>1 DEF Start, Fitting, UserState, Printer
  <2> QED
    BY <1>1, <2>1 DEF Start
<1>2. CASE UserExit(u)
  <2>1. Fitting([user[u] EXCEPT !.pc = "exited"])
    BY <1>0, <1>2 DEF UserExit, Fitting, UserState
  <2> QED
    BY <1>2, <2>1 DEF UserExit
<1>3. CASE Scan(u)
  <2>1. user[u].pc = "scan"
    BY <1>3 DEF Scan
  <2>2. CASE user' = [user EXCEPT ![u].pc = "wait"]
    <3>1. Fitting([user[u] EXCEPT !.pc = "wait"])
      BY <1>0, <2>1 DEF Fitting, UserState
    <3> QED
      BY <2>2, <3>1
  <2>3. CASE user[u].p < PRINTERS_NO /\ user' = [user EXCEPT ![u].p = user[u].p + 1]
    <3>1. Fitting([user[u] EXCEPT !.p = user[u].p + 1])
      BY <1>0, <2>1, <2>3 DEF Fitting, UserState, Printer
    <3> QED
      BY <2>3, <3>1
  <2>4. ASSUME NEW q \in Printer, user' = [user EXCEPT ![u].pc = "wait", ![u].p = q]
        PROVE  \E s : Fitting(s) /\ user' = [user EXCEPT ![u] = s]
    <3>1. Fitting([user[u] EXCEPT !.pc = "wait", !.p = q])
      BY <1>0, <2>1 DEF Fitting, UserState
    <3>2. user' = [user EXCEPT ![u] = [user[u] EXCEPT !.pc = "wait", !.p = q]]
      BY <2>4
    <3> QED
      BY <3>1, <3>2
  <2> QED
    BY <1>3, <2>2, <2>3, <2>4 DEF Scan
<1>4. CASE SemWait(u) \/ SemWaitFails(u)
  <2>1. Fitting([user[u] EXCEPT !.pc = "copy"])
    BY <1>0, <1>4 DEF SemWait, SemWaitFails, Fitting, UserState
  <2> QED
    BY <1>4, <2>1 DEF SemWait, SemWaitFails
<1>5. CASE Copy(u)
  <2> DEFINE k == user[u].copied + 1
             s == [user[u] EXCEPT !.copied = k, !.pc = IF k = DocLen THEN "top" ELSE "copy"]
  <2>0. user[u] \in UserState /\ user[u].pc = "copy" /\ user[u].copied < DocLen /\ user[u].job >= 1
    BY <1>0, <1>5 DEF Copy, Fitting
  <2>1. Fitting(s)
    <3>1. s.copied \in 0 .. DocLen /\ s.pc \in {"top", "copy"} /\ s.job = user[u].job
      BY <2>0 DEF UserState
    <3>2. s.pc = "copy" => s.copied < DocLen
      BY <2>0, <3>1 DEF UserState
    <3>3. s \in UserState
      BY <2>0, <3>1 DEF UserState
    <3> QED
      BY <2>0, <3>1, <3>2, <3>3 DEF Fitting
  <2>2. user' = [user EXCEPT ![u] = s]
    BY <1>5 DEF Copy
  <2> QED
    BY <2>1, <2>2
<1> QED
  BY <1>1, <1>2, <1>3, <1>4, <1>5 DEF UserStep

(* A user only takes semaphores, and takes a free one. *)
LEMMA UserKeepsAlways ==
    ASSUME Always, NEW u \in Users, UserStep(u) PROVE Always'
<1>1. user' \in [Users -> UserState] /\ JobInProgress'
  BY UserStepChange, UserChange
<1>2. UNCHANGED <<printer, running, parent, printCount, overtaken>>
  BY DEF UserStep, Start, UserExit, Scan, SemWait, SemWaitFails, Copy, history
<1>3. interrupted' \subseteq Users
  BY DEF UserStep, Start, UserExit, Scan, SemWait, SemWaitFails, Copy, Always, TypeOK
<1>4. CASE SemWait(u)
  <2>1. Doc(u) \in Docs
    BY <1>4, AlwaysFitting DEF SemWait, Doc, Docs, Fitting, UserState
  <2>2. holder' \in [Printer -> Docs \cup {Blank}] /\ taken' \in [Printer -> SUBSET Docs]
    BY <1>4, <2>1 DEF SemWait, Always, TypeOK
  <2>3. sem' \in [Printer -> 0 .. 1]
    BY <1>4 DEF SemWait, Always, TypeOK
  <2>4. BusyPrinterIsTaken'
    BY <1>2, <1>4 DEF SemWait, Always, TypeOK, BusyPrinterIsTaken
  <2>5. buffer' = buffer
    BY <1>4 DEF SemWait
  <2> QED
    BY <1>1, <1>2, <1>3, <2>2, <2>3, <2>4, <2>5 DEF Always, TypeOK, UserState
<1>5. CASE Copy(u)
  <2>1. Doc(u) \in Docs /\ user[u].copied + 1 \in Letters
    BY <1>5, AlwaysFitting, ParametersAssumption DEF Copy, Doc, Docs, Fitting, UserState, Letters
  <2>2. buffer' \in [Printer -> [Letters -> Docs \cup {Blank}]]
    BY <1>5, <2>1 DEF Copy, Always, TypeOK
  <2>3. UNCHANGED <<sem, holder, taken>>
    BY <1>5 DEF Copy, history
  <2> QED
    BY <1>1, <1>2, <1>3, <2>2, <2>3 DEF Always, TypeOK, UserState, BusyPrinterIsTaken
<1>6. CASE Start(u) \/ UserExit(u) \/ Scan(u) \/ SemWaitFails(u)
  <2>1. UNCHANGED <<sem, buffer, holder, taken>>
    BY <1>6 DEF Start, UserExit, Scan, SemWaitFails, shared, history
  <2> QED
    BY <1>1, <1>2, <1>3, <2>1 DEF Always, TypeOK, UserState, BusyPrinterIsTaken
<1> QED
  BY <1>4, <1>5, <1>6 DEF UserStep

(* A printer posts a semaphore that is taken, so it is 1 afterwards (printers.c:73). *)
LEMMA PrinterKeepsAlways ==
    ASSUME Always, NEW p \in Printer, PrinterStep(p) PROVE Always'
<1>1. UNCHANGED <<buffer, user, running, interrupted, parent, holder, taken>>
  BY DEF PrinterStep, Test, Poll, PrintLetter, PrintEnd, SemPost, PrinterExit, shared, history
<1>2. JobInProgress'
  BY <1>1 DEF Always, JobInProgress
<1>3. overtaken' \subseteq Printer
  BY DEF PrinterStep, Test, Poll, Overtake, PrintLetter, PrintEnd, SemPost, PrinterExit, history, Always, TypeOK
<1>4. printCount' \in [Docs -> Nat]
  <2>1. CASE PrintEnd(p)
    BY <2>1 DEF PrintEnd, Always, TypeOK
  <2>2. CASE ~PrintEnd(p)
    BY <2>2 DEF PrinterStep, Test, Poll, PrintLetter, SemPost, PrinterExit, history, Always, TypeOK
  <2> QED
    BY <2>1, <2>2
<1> DEFINE PrinterState == [pc : {"test", "poll", "print", "post", "exited"}, out : Seq(Docs \cup {Blank})]
<1>5. printer \in [Printer -> PrinterState] /\ printer[p].out \in Seq(Docs \cup {Blank})
  BY DEF Always, TypeOK
<1>6. printer' \in [Printer -> PrinterState]
  <2>1. CASE SemPost(p)
    <3>1. [pc |-> "test", out |-> <<>>] \in PrinterState
      OBVIOUS
    <3> QED
      BY <1>5, <2>1, <3>1 DEF SemPost
  <2>2. CASE PrintLetter(p)
    <3>1. Len(printer[p].out) + 1 \in Letters
      BY <1>5, <2>2, StrLenBound, ParametersAssumption DEF PrintLetter, Letters
    <3>2. buffer[p][Len(printer[p].out) + 1] \in Docs \cup {Blank}
      BY <3>1 DEF Always, TypeOK
    <3>3. Append(printer[p].out, buffer[p][Len(printer[p].out) + 1]) \in Seq(Docs \cup {Blank})
      BY <1>5, <3>2
    <3> QED
      BY <1>5, <2>2, <3>3 DEF PrintLetter
  <2>3. CASE Test(p) \/ Poll(p) \/ PrintEnd(p) \/ PrinterExit(p)
    BY <1>5, <2>3 DEF Test, Poll, PrintEnd, PrinterExit
  <2> QED
    BY <2>1, <2>2, <2>3 DEF PrinterStep
<1>7. sem' \in [Printer -> 0 .. 1] /\ BusyPrinterIsTaken'
  <2>1. CASE SemPost(p)
    BY <1>5, <2>1 DEF SemPost, Always, TypeOK, BusyPrinterIsTaken
  <2>2. CASE Test(p) \/ Poll(p) \/ PrintLetter(p) \/ PrintEnd(p) \/ PrinterExit(p)
    <3>1. sem' = sem
      BY <2>2 DEF Test, Poll, PrintLetter, PrintEnd, PrinterExit, shared
    <3>2. \A q \in Printer : printer'[q].pc \in {"print", "post"} =>
            printer[q].pc \in {"print", "post"} \/ sem[q] = 0
      BY <1>5, <2>2 DEF Test, Poll, PrintLetter, PrintEnd, PrinterExit
    <3> QED
      BY <3>1, <3>2 DEF Always, TypeOK, BusyPrinterIsTaken
  <2> QED
    BY <2>1, <2>2 DEF PrinterStep
<1> QED
  BY <1>1, <1>2, <1>3, <1>4, <1>6, <1>7 DEF Always, TypeOK

Outside == WaitLoopEnds \/ Destroy \/ SignalUsers \/ SignalPrinters

(* Signals and the parent touch neither semaphores nor buffers. *)
LEMMA OutsideKeepsAlways == Always /\ (Outside \/ UNCHANGED vars) => Always'
<1> SUFFICES ASSUME Always, Outside \/ UNCHANGED vars PROVE Always'
  OBVIOUS
<1>1. UNCHANGED <<sem, buffer, user, printer, history>>
  BY DEF Outside, WaitLoopEnds, Destroy, SignalUsers, SignalPrinters, vars, shared, history
<1>2. running' \in [{"users", "printers"} -> BOOLEAN]
  BY DEF Outside, WaitLoopEnds, Destroy, SignalUsers, SignalPrinters, vars, Always, TypeOK
<1>3. interrupted' \subseteq Users /\ parent' \in {"wait", "destroy", "exited"}
  BY DEF Outside, WaitLoopEnds, Destroy, SignalUsers, SignalPrinters, vars, Always, TypeOK
<1> QED
  BY <1>1, <1>2, <1>3 DEF Always, TypeOK, BusyPrinterIsTaken, JobInProgress, history

(* Types and taken semaphores hold whatever happens. *)
LEMMA NextAlways == Always /\ [Next]_vars => Always'
  BY UserKeepsAlways, PrinterKeepsAlways, OutsideKeepsAlways DEF Next, Outside

-----------------------------------------------------------------------------
(* The invariant while no user is interrupted. *)

(* At the start nobody copies and no semaphore is taken. *)
LEMMA InitCore == Init => Core
<1> SUFFICES ASSUME Init PROVE Core
  OBVIOUS
<1>1. \A p \in Printer : LettersTaken(p)
  BY DEF Init, LettersTaken
<1> QED
  BY <1>1 DEF Init, Core, CopierTook, CopierInOrder, BufferInOrder, PaperInOrder, Busy

(* is_running is never set again. *)
LEMMA StillRunning ==
    ASSUME TypeOK, [Next]_vars, running'["users"]
    PROVE  running["users"] /\ ~SignalUsers
<1>1. UNCHANGED running \/ SignalUsers \/ SignalPrinters
  BY DEF Next, UserStep, Start, UserExit, Scan, SemWait, SemWaitFails, Copy, PrinterStep, Test, Poll, PrintLetter,
         PrintEnd, SemPost, PrinterExit, WaitLoopEnds, Destroy, vars
<1>2. ~SignalUsers
  BY DEF SignalUsers, TypeOK
<1> QED
  BY <1>1, <1>2 DEF SignalPrinters, TypeOK

(* Steps of a user that neither take a printer nor copy. *)
LEMMA QuietUserKeepsCore ==
    ASSUME Always, Core, NEW u \in Users, Start(u) \/ UserExit(u) \/ Scan(u)
    PROVE  Core'
<1>1. UNCHANGED <<sem, buffer, printer, interrupted, holder, taken, overtaken>>
  BY DEF Start, UserExit, Scan, shared, history
<1>2. /\ user[u].pc # "copy" /\ user'[u].pc # "copy"
      /\ \A v \in Users \ {u} : user'[v] = user[v]
  BY DEF Start, UserExit, Scan, Always, TypeOK
<1>3. \A p \in Printer : Copying(p)' <=> Copying(p)
  BY <1>2 DEF Copying
<1>4. \A v \in Users : CopierTook(v)' /\ CopierInOrder(v)'
  BY <1>1, <1>2 DEF Core, CopierTook, CopierInOrder, Doc, Busy
<1>5. \A p \in Printer : LettersTaken(p)' /\ BufferInOrder(p)' /\ PaperInOrder(p)'
  BY <1>1, <1>3 DEF Core, LettersTaken, BufferInOrder, PaperInOrder, Busy
<1> QED
  BY <1>1, <1>4, <1>5 DEF Core

(* The printer that is taken was free, so nobody copies into its buffer and
   it does not print. *)
LEMMA SemWaitKeepsCore ==
    ASSUME Always, Core, NEW u \in Users, SemWait(u)
    PROVE  Core'
<1> DEFINE q == user[u].p
<1>1. /\ user[u].pc = "wait" /\ sem[q] > 0 /\ q \in Printer /\ Doc(u) \in Docs /\ user[u].copied = 0
      /\ sem' = [sem EXCEPT ![q] = @ - 1] /\ sem'[q] = 0
      /\ holder' = [holder EXCEPT ![q] = Doc(u)]
      /\ user' = [user EXCEPT ![u].pc = "copy"]
      /\ taken' = [taken EXCEPT ![q] = @ \cup {Doc(u)}]
      /\ interrupted' = {} /\ UNCHANGED <<buffer, printer, overtaken>>
  BY AlwaysFitting DEF SemWait, Always, TypeOK, Fitting, UserState, Doc, Docs, Core
<1>2. /\ user'[u].pc = "copy" /\ user'[u].p = q /\ user'[u].copied = 0 /\ Doc(u)' = Doc(u)
      /\ \A v \in Users \ {u} : user'[v] = user[v]
  BY <1>1 DEF Always, TypeOK, Doc
<1>3. ~Busy(q)
  BY <1>1 DEF Always, BusyPrinterIsTaken, Busy
<1>4. \A p \in Printer \ {q} : sem'[p] = sem[p] /\ holder'[p] = holder[p]
  BY <1>1 DEF Always, TypeOK
<1>5. holder'[q] = Doc(u) /\ Doc(u) \in taken'[q] /\ \A p \in Printer : taken[p] \subseteq taken'[p]
  BY <1>1 DEF Always, TypeOK
<1>10. /\ \A v \in Users : CopierTook(v)'
       /\ \A p \in Printer : LettersTaken(p)'
  <2>1. \A v \in Users \ {u} : CopierTook(v)'
    BY <1>2, <1>5, AlwaysFitting DEF Core, CopierTook, Doc, Fitting, UserState
  <2>2. CopierTook(u)'
    BY <1>2, <1>5 DEF CopierTook
  <2>3. \A p \in Printer : LettersTaken(p)'
    BY <1>1, <1>5 DEF Core, LettersTaken
  <2> QED
    BY <2>1, <2>2, <2>3
<1>6. CopierInOrder(u)'
  BY <1>1, <1>2, <1>3, <1>5 DEF CopierInOrder, Busy, Letters
<1>7. ASSUME NEW v \in Users \ {u} PROVE CopierInOrder(v)'
  <2>1. CopierInOrder(v) /\ user[v].p \in Printer /\ Doc(v)' = Doc(v)
    BY <1>2, AlwaysFitting DEF Core, Fitting, UserState, Doc
  <2>2. user[v].pc = "copy" /\ user[v].p \notin overtaken => user[v].p # q
    BY <1>1, <2>1 DEF CopierInOrder
  <2> QED
    BY <1>1, <1>2, <1>4, <2>1, <2>2 DEF CopierInOrder, Busy
<1>8. Copying(q)' /\ \A p \in Printer \ {q} : Copying(p)' <=> Copying(p)
  BY <1>1, <1>2 DEF Copying
<1>9. \A p \in Printer : BufferInOrder(p)' /\ PaperInOrder(p)'
  BY <1>1, <1>3, <1>4, <1>5, <1>8 DEF Core, BufferInOrder, PaperInOrder, Busy
<1> QED
  BY <1>1, <1>6, <1>7, <1>9, <1>10 DEF Core

(* The next letter goes into the copier's own buffer; with the last letter
   the document is there whole. *)
LEMMA CopyKeepsCore ==
    ASSUME Always, Core, NEW u \in Users, Copy(u)
    PROVE  Core'
<1>place. user[u].p \in Printer /\ user[u].copied + 1 \in Letters
  BY AlwaysFitting, ParametersAssumption DEF Copy, Fitting, UserState, Letters
<1> PICK q \in Printer, k \in Letters : q = user[u].p /\ k = user[u].copied + 1
  BY <1>place
<1>1. /\ user[u].pc = "copy" /\ q \in Printer /\ k \in Letters /\ Doc(u) \in Docs
      /\ user[u].copied \in Nat
  BY AlwaysFitting, ParametersAssumption DEF Copy, Fitting, UserState, Doc, Docs, Letters
<1>0. UNCHANGED <<sem, printer, holder, taken, overtaken, interrupted>>
  BY DEF Copy, history
<1>2. user' = [user EXCEPT ![u].copied = k, ![u].pc = IF k = DocLen THEN "top" ELSE "copy"]
  BY DEF Copy
<1>3. /\ user'[u].copied = k /\ user'[u].p = q /\ Doc(u)' = Doc(u)
      /\ user'[u].pc = IF k = DocLen THEN "top" ELSE "copy"
      /\ \A v \in Users \ {u} : user'[v] = user[v] /\ Doc(v)' = Doc(v)
  BY <1>2 DEF Always, TypeOK, Doc
<1>4. q \notin overtaken =>
         holder[q] = Doc(u) /\ sem[q] = 0 /\ ~Busy(q) /\ \A l \in Letters : l < k => buffer[q][l] = Doc(u)
  BY <1>1 DEF Core, CopierInOrder, Letters
<1>5. \A p \in Printer \ {q} : buffer'[p] = buffer[p]
  BY DEF Copy, Always, TypeOK
<1>16. /\ buffer'[q][k] = Doc(u) /\ \A l \in Letters \ {k} : buffer'[q][l] = buffer[q][l]
  <2>1. buffer'[q] = [buffer[q] EXCEPT ![k] = Doc(u)] /\ buffer[q] \in [Letters -> Docs \cup {Blank}]
    BY <1>1 DEF Copy, Always, TypeOK
  <2> QED
    BY <1>1, <2>1
<1>6. q \notin overtaken => \A l \in Letters : l <= k => buffer'[q][l] = Doc(u)
  <2>1. \A l \in Letters : l <= k => l = k \/ l < k
    BY <1>1 DEF Letters
  <2> QED
    BY <1>4, <1>16, <2>1
<1>7. CopierInOrder(u)'
  BY <1>0, <1>3, <1>4, <1>6 DEF CopierInOrder, Busy
<1>8. ASSUME NEW v \in Users \ {u} PROVE CopierInOrder(v)'
  <2>1. CopierInOrder(v) /\ user[v].p \in Printer
    BY AlwaysFitting DEF Core, Fitting, UserState
  <2>2. user[v].pc = "copy" /\ user[v].p \notin overtaken => user[v].p # q
    BY <1>4, <2>1 DEF CopierInOrder, Doc
  <2> QED
    BY <1>0, <1>3, <1>5, <2>1, <2>2 DEF CopierInOrder, Busy
<1>17. \A v \in Users : CopierTook(v)'
  BY <1>0, <1>3, <1>1 DEF Core, CopierTook
<1>18. \A p \in Printer : LettersTaken(p)'
  <2>1. Doc(u) \in taken[q]
    BY <1>1 DEF Core, CopierTook
  <2>2. \A l \in Letters : buffer'[q][l] \in taken[q] \cup {Blank}
    BY <1>1, <1>16, <2>1 DEF Core, LettersTaken
  <2>3. LettersTaken(q)'
    BY <1>0, <1>1, <2>2 DEF Core, LettersTaken
  <2>4. \A p \in Printer \ {q} : LettersTaken(p)'
    BY <1>0, <1>5 DEF Core, LettersTaken
  <2> QED
    BY <2>3, <2>4
<1>9. \A p \in Printer \ {q} : Copying(p)' <=> Copying(p)
  BY <1>3 DEF Copying
<1>10. BufferInOrder(q)'
  <2> SUFFICES ASSUME q \notin overtaken PROVE BufferInOrder(q)'
    BY <1>0 DEF BufferInOrder
  <2>0. holder'[q] = Doc(u)
    BY <1>0, <1>4
  <2>1. CASE k = DocLen
    <3>1. \A l \in Letters : l <= k
      BY <2>1 DEF Letters
    <3>2. \A l \in Letters : buffer'[q][l] = Doc(u)
      BY <1>6, <3>1
    <3> QED
      BY <1>1, <2>0, <3>2 DEF BufferInOrder
  <2>2. CASE k # DocLen
    <3>1. Copying(q)'
      BY <1>3, <2>2 DEF Copying
    <3> QED
      BY <1>1, <2>0, <3>1 DEF BufferInOrder
  <2> QED
    BY <2>1, <2>2
<1>11. \A p \in Printer \ {q} : BufferInOrder(p)'
  BY <1>0, <1>5, <1>9 DEF Core, BufferInOrder
<1>12. \A p \in Printer : PaperInOrder(p)'
  BY <1>0 DEF Core, PaperInOrder, Busy
<1>13. \A v \in Users : CopierInOrder(v)'
  BY <1>7, <1>8
<1>14. \A p \in Printer : BufferInOrder(p)'
  BY <1>10, <1>11
<1>15. interrupted' = {}
  BY <1>0 DEF Core
<1> QED
  BY <1>12, <1>13, <1>14, <1>15, <1>17, <1>18 DEF Core

(* A printer starts when the copy is complete, prints the buffer, which
   nobody changes, and gives the semaphore back. *)
LEMMA PrinterKeepsCore ==
    ASSUME Always, Core, NEW p \in Printer, PrinterStep(p)
    PROVE  Core'
<1>1. UNCHANGED <<buffer, user, interrupted, holder, taken>>
  BY DEF PrinterStep, Test, Poll, PrintLetter, PrintEnd, SemPost, PrinterExit, shared, history
<1>2. /\ \A q \in Printer \ {p} : sem'[q] = sem[q] /\ printer'[q] = printer[q]
      /\ sem'[p] = 0 => sem[p] = 0
      /\ overtaken \subseteq overtaken'
  <2>1. CASE Poll(p)
    BY <2>1 DEF Poll, Overtake, shared, Always, TypeOK
  <2>2. CASE SemPost(p)
    BY <2>2 DEF SemPost, history, Always, TypeOK
  <2>3. CASE Test(p) \/ PrintLetter(p) \/ PrintEnd(p) \/ PrinterExit(p)
    BY <2>3 DEF Test, PrintLetter, PrintEnd, PrinterExit, shared, history, Always, TypeOK
  <2> QED
    BY <2>1, <2>2, <2>3 DEF PrinterStep
<1>3. \A q \in Printer : Copying(q)' <=> Copying(q)
  BY <1>1 DEF Copying
<1>4. \A q \in Printer : BufferInOrder(q)'
  BY <1>1, <1>2, <1>3 DEF Core, BufferInOrder
<1>5. p \notin overtaken' =>
         /\ ~Copying(p) \/ ~Busy(p)
         /\ Copying(p) => sem'[p] = sem[p] /\ ~Busy(p)'
  <2> SUFFICES ASSUME p \notin overtaken'
               PROVE  /\ ~Copying(p) \/ ~Busy(p)
                      /\ Copying(p) => sem'[p] = sem[p] /\ ~Busy(p)'
    OBVIOUS
  <2>1. ~Copying(p) \/ ~Busy(p)
    BY <1>2 DEF Core, CopierInOrder, Copying
  <2>2. CASE Poll(p)
    <3>1. sem' = sem /\ ~Busy(p)
      BY <2>2 DEF Poll, shared, Busy
    <3>2. CASE sem[p] = 0
      BY <2>2, <3>1, <3>2 DEF Poll, Overtake
    <3>3. CASE sem[p] # 0
      BY <2>2, <3>1, <3>3 DEF Poll, Busy, Always, TypeOK
    <3> QED
      BY <3>2, <3>3
  <2>3. CASE PrintLetter(p) \/ PrintEnd(p) \/ SemPost(p)
    BY <2>1, <2>3 DEF PrintLetter, PrintEnd, SemPost, Busy
  <2>4. CASE Test(p) \/ PrinterExit(p)
    BY <2>4 DEF Test, PrinterExit, Busy, shared, Always, TypeOK
  <2> QED
    BY <2>1, <2>2, <2>3, <2>4 DEF PrinterStep
<1>6. ASSUME NEW u \in Users PROVE CopierInOrder(u)'
  <2>1. CopierInOrder(u) /\ user[u].p \in Printer /\ Doc(u)' = Doc(u)
    BY <1>1, AlwaysFitting DEF Core, Fitting, UserState, Doc
  <2>2. user[u].pc = "copy" /\ user[u].p \notin overtaken' =>
           sem'[user[u].p] = sem[user[u].p] /\ (~Busy(user[u].p) => ~Busy(user[u].p)')
    <3>1. CASE user[u].p = p
      BY <1>1, <1>5, <3>1 DEF Copying
    <3>2. CASE user[u].p # p
      BY <1>1, <1>2, <2>1, <3>2 DEF Busy
    <3> QED
      BY <3>1, <3>2
  <2> QED
    BY <1>1, <1>2, <2>1, <2>2 DEF CopierInOrder
<1>9. \A u \in Users : CopierTook(u)'
  BY <1>1 DEF Core, CopierTook, Doc
<1>10. \A q \in Printer \ {p} : LettersTaken(q)'
  BY <1>1, <1>2 DEF Core, LettersTaken
<1>11. LettersTaken(p)'
  <2>1. LettersTaken(p) /\ printer[p].out \in Seq(Docs \cup {Blank})
    BY DEF Core, Always, TypeOK
  <2>2. CASE Test(p) \/ Poll(p) \/ PrintEnd(p) \/ PrinterExit(p)
    <3>1. /\ printer'[p].out = printer[p].out
          /\ printer'[p].pc \in {"test", "poll"} => printer[p].pc \in {"test", "poll"}
      BY <2>2 DEF Test, Poll, PrintEnd, PrinterExit, Always, TypeOK
    <3> QED
      BY <1>1, <2>1, <3>1 DEF LettersTaken
  <2>3. CASE SemPost(p)
    <3>1. printer'[p].out = <<>>
      BY <2>3 DEF SemPost, Always, TypeOK
    <3> QED
      BY <1>1, <2>1, <3>1 DEF LettersTaken
  <2>4. CASE PrintLetter(p)
    <3> DEFINE k == Len(printer[p].out)
    <3>1. k \in Nat /\ k < StrLen(p)
      BY <2>1, <2>4 DEF PrintLetter
    <3>2. k + 1 \in Letters /\ buffer[p][k + 1] # Blank
      BY <3>1, StrLenLetter
    <3>3. buffer[p][k + 1] \in taken[p]
      BY <2>1, <3>2 DEF LettersTaken
    <3>4. buffer[p][k + 1] \in Docs \cup {Blank}
      BY <3>2 DEF Always, TypeOK
    <3>5. printer'[p].out = Append(printer[p].out, buffer[p][k + 1]) /\ printer'[p].pc = "print"
      BY <2>4 DEF PrintLetter, Always, TypeOK
    <3>6. \A j \in 1 .. Len(printer'[p].out) : printer'[p].out[j] \in taken[p]
      BY <2>1, <3>3, <3>4, <3>5 DEF LettersTaken
    <3> QED
      BY <1>1, <2>1, <3>5, <3>6 DEF LettersTaken
  <2> QED
    BY <2>2, <2>3, <2>4 DEF PrinterStep
<1>7. \A q \in Printer \ {p} : PaperInOrder(q)'
  BY <1>1, <1>2 DEF Core, PaperInOrder, Busy
<1>8. PaperInOrder(p)'
  <2> SUFFICES ASSUME Busy(p)', p \notin overtaken' PROVE PaperInOrder(p)'
    BY DEF PaperInOrder
  <2>9. p \notin overtaken
    BY <1>2
  <2>0. PaperInOrder(p) /\ BufferInOrder(p) /\ printer[p].out \in Seq(Docs \cup {Blank})
    BY DEF Core, Always, TypeOK
  <2>1. CASE Poll(p)
    <3>1. printer'[p].out = <<>> /\ printer'[p].pc # "post"
      BY <2>1 DEF Poll, Core, LettersTaken, Always, TypeOK
    <3> QED
      BY <3>1, ParametersAssumption DEF PaperInOrder
  <2>2. ASSUME Busy(p)
        PROVE  (\A l \in Letters : buffer[p][l] = holder[p]) /\ holder[p] \in Docs /\ StrLen(p) = DocLen
    <3>1. sem[p] = 0 /\ ~Copying(p)
      BY <1>5, <2>2 DEF Always, BusyPrinterIsTaken, Busy
    <3>2. (\A l \in Letters : buffer[p][l] = holder[p]) /\ holder[p] \in Docs
      BY <2>0, <2>9, <3>1 DEF BufferInOrder
    <3> QED
      BY <3>2, DocIsNotBlank, StrLenWhole
  <2>3. CASE PrintLetter(p)
    <3>1. Busy(p) /\ printer[p].pc = "print" /\ Len(printer[p].out) < StrLen(p)
      BY <2>3 DEF PrintLetter, Busy
    <3>2. Len(printer[p].out) + 1 \in Letters
      BY <2>0, <2>2, <3>1, ParametersAssumption DEF Letters
    <3>3. printer'[p].pc = "print" /\ printer'[p].out = Append(printer[p].out, holder[p])
      BY <2>2, <2>3, <3>1, <3>2 DEF PrintLetter, Always, TypeOK
    <3>4. holder[p] \in Docs \cup {Blank}
      BY <2>2, <3>1
    <3>5. Len(printer'[p].out) = Len(printer[p].out) + 1
      BY <2>0, <3>3, <3>4
    <3>6. \A k \in 1 .. Len(printer'[p].out) : printer'[p].out[k] = holder[p]
      BY <2>0, <2>9, <3>1, <3>3, <3>4, <3>5 DEF PaperInOrder
    <3> QED
      BY <1>1, <2>0, <2>2, <3>1, <3>3, <3>5, <3>6, ParametersAssumption DEF PaperInOrder
  <2>4. CASE PrintEnd(p)
    <3>1. Busy(p) /\ printer'[p].out = printer[p].out /\ Len(printer[p].out) >= StrLen(p)
      BY <2>4 DEF PrintEnd, Busy, Always, TypeOK
    <3>2. Len(printer[p].out) = DocLen
      BY <2>0, <2>2, <2>9, <3>1, ParametersAssumption DEF PaperInOrder
    <3> QED
      BY <1>1, <2>0, <2>9, <3>1, <3>2, ParametersAssumption DEF PaperInOrder
  <2>5. CASE Test(p) \/ SemPost(p) \/ PrinterExit(p)
    BY <2>5 DEF Test, SemPost, PrinterExit, Busy, Always, TypeOK
  <2> QED
    BY <2>1, <2>3, <2>4, <2>5 DEF PrinterStep
<1> QED
  BY <1>1, <1>4, <1>6, <1>7, <1>8, <1>9, <1>10, <1>11 DEF Core

(* Every step while no user is interrupted keeps documents in order. *)
LEMMA NextIInv == IInv /\ [Next]_vars => IInv'
<1> SUFFICES ASSUME IInv, [Next]_vars, running'["users"] PROVE Core'
  BY NextAlways DEF IInv
<1>1. Always /\ Core /\ ~SignalUsers
  BY StillRunning DEF IInv, Always
<1>2. ASSUME NEW u \in Users, UserStep(u) PROVE Core'
  <2>1. ~SemWaitFails(u)
    BY <1>1 DEF SemWaitFails, Core
  <2> QED
    BY <1>1, <1>2, <2>1, QuietUserKeepsCore, SemWaitKeepsCore, CopyKeepsCore DEF UserStep
<1>3. ASSUME NEW p \in Printer, PrinterStep(p) PROVE Core'
  BY <1>1, <1>3, PrinterKeepsCore
<1>4. CASE WaitLoopEnds \/ Destroy \/ SignalPrinters \/ UNCHANGED vars
  <2>1. UNCHANGED <<sem, buffer, user, printer, interrupted, holder, taken, overtaken>>
    BY <1>4 DEF WaitLoopEnds, Destroy, SignalPrinters, vars, shared, history
  <2>2. \A u \in Users : CopierTook(u)' /\ CopierInOrder(u)'
    BY <1>1, <2>1 DEF Core, CopierTook, CopierInOrder, Busy, Doc
  <2>3. \A p \in Printer : LettersTaken(p)' /\ BufferInOrder(p)' /\ PaperInOrder(p)'
    BY <1>1, <2>1 DEF Core, LettersTaken, BufferInOrder, PaperInOrder, Busy, Copying
  <2> QED
    BY <1>1, <2>1, <2>2, <2>3 DEF Core
<1> QED
  BY <1>1, <1>2, <1>3, <1>4 DEF Next

(* The strengthened invariant holds in every reachable state. *)
THEOREM Invariance == Spec => []IInv
<1>1. Init => IInv
  BY InitAlways, InitCore DEF IInv
<1> QED
  BY <1>1, NextIInv, PTL DEF Spec

-----------------------------------------------------------------------------
(* The semaphores stay binary although sem_post() only ever adds, whatever
   signals arrive (printers.c:73). *)
THEOREM TypeCorrect == Spec => []TypeOK
<1>1. IInv => TypeOK
  BY DEF IInv, Always
<1> QED
  BY <1>1, Invariance, PTL

(* A printer that prints has been taken and stays taken until its post,
   whatever signals arrive (printers.c:55-73). *)
THEOREM TakenSafety == Spec => []BusyPrinterIsTaken
<1>1. IInv => BusyPrinterIsTaken
  BY DEF IInv, Always
<1> QED
  BY <1>1, Invariance, PTL

(* Who copies has the printer for himself, as long as that printer has never
   started too early, whatever the others have done (users.c:96-101). *)
THEOREM CopySafety == Spec => []ExclusiveCopy
<1>1. IInv => ExclusiveCopy
  <2> SUFFICES ASSUME IInv, running["users"], NEW u \in Users,
                      user[u].pc = "copy", user[u].p \notin overtaken
               PROVE  /\ holder[user[u].p] = Doc(u) /\ sem[user[u].p] = 0
                      /\ printer[user[u].p].pc \notin {"print", "post"}
                      /\ \A v \in Users \ {u} : user[v].pc = "copy" => user[v].p # user[u].p
    BY DEF ExclusiveCopy
  <2>1. \A v \in Users : CopierInOrder(v)
    BY DEF IInv, Core
  <2>2. \A v \in Users \ {u} : Doc(v) # Doc(u)
    BY DEF Doc
  <2> QED
    BY <2>1, <2>2 DEF CopierInOrder, Busy
<1> QED
  BY <1>1, Invariance, PTL

(* Whatever printers start too early, every letter that comes out of one is
   of a document whose user has taken that very printer; and if it has never
   started too early itself, the document of the user who took it comes out
   whole (printers.c:52-66, users.c:96-101). *)
THEOREM PrintSafety == Spec => []PrintsItsDocument
<1>1. IInv => PrintsItsDocument
  <2> SUFFICES ASSUME IInv, running["users"], NEW p \in Printer
               PROVE  /\ \A k \in 1 .. Len(printer[p].out) : printer[p].out[k] \in taken[p]
                      /\ printer[p].pc = "post" /\ p \notin overtaken => printer[p].out = Whole(holder[p])
    BY DEF PrintsItsDocument
  <2>1. LettersTaken(p) /\ PaperInOrder(p) /\ printer[p].out \in Seq(Docs \cup {Blank})
    BY DEF IInv, Core, Always, TypeOK
  <2>2. ASSUME printer[p].pc = "post", p \notin overtaken PROVE printer[p].out = Whole(holder[p])
    <3>1. Len(printer[p].out) = DocLen /\ \A k \in Letters : printer[p].out[k] = holder[p]
      BY <2>1, <2>2 DEF PaperInOrder, Busy, Letters
    <3>2. printer[p].out = [k \in Letters |-> printer[p].out[k]]
      BY <2>1, <3>1 DEF Letters
    <3> QED
      BY <3>1, <3>2 DEF Whole
  <2> QED
    BY <2>1, <2>2 DEF LettersTaken
<1> QED
  BY <1>1, Invariance, PTL
=============================================================================
