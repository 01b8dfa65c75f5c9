------------------------------ MODULE SignalsProof ------------------------------
(***************************************************************************)
(* Theorems about Signals, for any number of senders and any modes.        *)
(***************************************************************************)
EXTENDS Signals, FiniteSetTheorems, TLAPS

(* A signal is handled once: the one that is pending is of a sender that has
   sent it and was not handled before. *)
HandledOnce ==
    /\ pending # None => sender[pending] # "start" /\ pending \notin caught
    /\ \A s \in caught : sender[s] # "start"
    /\ status_changes = Cardinality(caught)

Types ==
    /\ sender \in [Senders -> {"start", "sent", "suspended", "done"}]
    /\ mode \in [Senders -> Modes] /\ pending \in Senders \cup {None}
    /\ catcher \in {"start", "poll", "serve", "reset", "exited", "killed"}
    /\ status \in {Idle, 1, 2, 3} /\ serving \in {Idle, 1, 2, 3}
    /\ caught \subseteq Senders /\ served \subseteq 1 .. 3
    /\ dropped \subseteq Senders /\ early \subseteq Senders
    /\ last \in Senders \cup {None} /\ lost \subseteq Senders
    /\ status # Idle => last # None
    /\ catcher = "serve" => serving # Idle

IInv == Types /\ HandledOnce /\ ConfirmedWasCaught

(* The counter counts senders, so there are at least as many of them. *)
LEMMA CaughtBound ==
    ASSUME NEW S, S \subseteq Senders
    PROVE  IsFiniteSet(S) /\ Cardinality(S) \in 0 .. Cardinality(Senders)
<1>1. IsFiniteSet(S) /\ Cardinality(S) <= Cardinality(Senders)
  BY ParametersAssumption, FS_Subset
<1>2. Cardinality(S) \in Nat /\ Cardinality(Senders) \in Nat
  BY <1>1, ParametersAssumption, FS_CardinalityType
<1> QED
  BY <1>1, <1>2

(* Nothing is sent at first. *)
LEMMA InitIInv == Init => IInv
  BY ParametersAssumption, FS_EmptySet DEF Init, IInv, Types, HandledOnce, ConfirmedWasCaught, Idle

(* A process that sends or waits handles nothing. *)
LEMMA SenderKeepsIInv == ASSUME IInv, NEW s \in Senders, Sender(s) PROVE IInv'
<1> USE ParametersAssumption DEF IInv
<1>1. CASE Send(s)
  <2>1. /\ sender[s] = "start" /\ sender' = [sender EXCEPT ![s] = "sent"] /\ s \notin caught
        /\ pending' = s \/ pending' = pending
        /\ dropped' = dropped \cup {s} \/ dropped' = dropped
        /\ UNCHANGED <<mode, catcher, status, status_changes, serving, caught, served, early, last, lost>>
    BY <1>1 DEF Send, HandledOnce
  <2>2. Types'
    BY <2>1 DEF Types
  <2>3. HandledOnce'
    BY <2>1 DEF HandledOnce, Types
  <2>4. ConfirmedWasCaught'
    BY <2>1 DEF ConfirmedWasCaught, Types
  <2> QED
    BY <2>2, <2>3, <2>4
<1>2. CASE Suspend(s)
  <2>1. /\ sender[s] = "sent" /\ sender' = [sender EXCEPT ![s] = "suspended"]
        /\ UNCHANGED <<mode, pending, catcher, status, status_changes, serving, caught, served, history>>
    BY <1>2 DEF Suspend
  <2>2. Types'
    BY <2>1 DEF Types, history
  <2>3. HandledOnce'
    BY <2>1 DEF HandledOnce, Types
  <2>4. ConfirmedWasCaught'
    BY <2>1 DEF ConfirmedWasCaught, Types
  <2> QED
    BY <2>2, <2>3, <2>4
<1> QED
  BY <1>1, <1>2 DEF Sender

(* The handler counts the signal, and only then confirms it. *)
LEMMA HandlerKeepsIInv == ASSUME IInv, Handler PROVE IInv'
<1> USE DEF IInv
<1>1. PICK s \in Senders : s = pending
  BY DEF Handler, Types
<1>2. /\ s # None /\ status_changes' = status_changes + 1 /\ status' = Valid(mode[s])
      /\ sender' = [sender EXCEPT ![s] = IF @ = "suspended" THEN "done" ELSE @]
      /\ caught' = caught \cup {s} /\ pending' = None
      /\ UNCHANGED <<mode, catcher, serving, served, dropped>>
  BY <1>1 DEF Handler
<1>3. /\ early' = early \/ early' = early \cup {s}
      /\ last' = s /\ lost' \subseteq Senders
  BY <1>1 DEF Handler, Note, Types
<1>4. status' \in {Idle, 1, 2, 3}
  BY <1>2 DEF Valid
<1>5. Types'
  BY <1>2, <1>3, <1>4 DEF Types
<1>6. HandledOnce'
  <2>1. s \notin caught /\ sender[s] # "start" /\ sender'[s] # "start"
    BY <1>1, <1>2 DEF HandledOnce, Types
  <2>2. Cardinality(caught') = Cardinality(caught) + 1
    BY <1>2, <2>1, CaughtBound, FS_AddElement DEF Types
  <2> QED
    BY <1>2, <2>1, <2>2 DEF HandledOnce, Types
<1>7. ConfirmedWasCaught'
  BY <1>2 DEF ConfirmedWasCaught, Types
<1> QED
  BY <1>5, <1>6, <1>7

(* main and the default action touch none of it. *)
LEMMA MainKeepsIInv == ASSUME IInv, Main \/ DefaultAction \/ UNCHANGED vars PROVE IInv'
<1> USE DEF IInv
<1>1. /\ UNCHANGED <<sender, caught, status_changes>>
      /\ pending' = pending \/ pending' = None
  BY DEF Main, SetAction, Poll, Serve, Reset, DefaultAction, Discard, vars
<1>2. HandledOnce' /\ ConfirmedWasCaught'
  BY <1>1 DEF HandledOnce, ConfirmedWasCaught
<1>3. /\ UNCHANGED <<sender, mode, caught, early, last, lost>>
      /\ dropped' = dropped \/ dropped' = dropped \cup ({pending} \ {None})
  BY DEF Discard, Main, SetAction, Poll, Serve, Reset, DefaultAction, vars, history
<1>4. /\ catcher' \in {"start", "poll", "serve", "reset", "exited", "killed"}
      /\ status' \in {Idle, 1, 2, 3} /\ serving' \in {Idle, 1, 2, 3} /\ served' \subseteq 1 .. 3
      /\ catcher' = "serve" => serving' # Idle
  <2> USE DEF Types, Idle
  <2>1. CASE Poll \/ SetAction \/ Reset
    BY <2>1 DEF Poll, SetAction, Reset
  <2>2. CASE Serve
    BY <2>2 DEF Serve
  <2>3. CASE DefaultAction \/ UNCHANGED vars
    BY <2>3 DEF DefaultAction, vars
  <2> QED
    BY <2>1, <2>2, <2>3 DEF Main
<1>5. dropped' \subseteq Senders /\ (status' # Idle => status # Idle)
  BY <1>3 DEF Types, Main, SetAction, Poll, Serve, Reset, DefaultAction, vars
<1>6. Types'
  BY <1>1, <1>3, <1>4, <1>5 DEF Types
<1> QED
  BY <1>2, <1>6

(* Every step keeps it. *)
LEMMA StepIInv == IInv /\ [Next]_vars => IInv'
  BY SenderKeepsIInv, HandlerKeepsIInv, MainKeepsIInv DEF Next

(* All variables have their types: the catcher never counts more signals than
   there were senders, and serves no other modes than 1, 2 and 3
   (catcher.c:18-39, 60-75). *)
THEOREM TypeCorrect == Spec => []TypeOK
<1>1. IInv => TypeOK
  BY CaughtBound DEF IInv, Types, HandledOnce, TypeOK
<1> QED
  BY InitIInv, StepIInv, <1>1, PTL DEF Spec

(* A sender ends only after the handler has run for its own signal: the
   confirmation is never one for another sender, however many signals were
   dropped (catcher.c:33-39, sender.c:54). *)
THEOREM ConfirmationSafety == Spec => []ConfirmedWasCaught
<1>1. IInv => ConfirmedWasCaught
  BY DEF IInv
<1> QED
  BY InitIInv, StepIInv, <1>1, PTL DEF Spec
=============================================================================
