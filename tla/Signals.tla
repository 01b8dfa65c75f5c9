---------------------------------- MODULE Signals ----------------------------------
(***************************************************************************)
(* lab05/zad2: sender processes send a mode to the catcher with            *)
(* sigqueue(SIGUSR1) and wait in sigsuspend() for a SIGUSR1 in return,     *)
(* which the catcher's handler sends.  The catcher's main polls the status *)
(* the handler sets, does what it says and resets it.                      *)
(*                                                                         *)
(* SIGUSR1 is not queued: one that is sent while another is pending for    *)
(* the same process is dropped (which the README calls natural).  It is    *)
(* never blocked in a sender, so a confirmation acts at once.              *)
(***************************************************************************)
EXTENDS Integers, FiniteSets

CONSTANTS
    Senders,            \* invocations of the sender
    Modes,              \* the modes they may be called with
    None

ASSUME ParametersAssumption ==
    /\ Modes \subseteq Int /\ IsFiniteSet(Senders) /\ None \notin Senders

Idle == -1

VARIABLES
    sender,             \* per sender: "start", "sent", "suspended", "done"
    mode,               \* the argument each was called with
    pending,            \* the sender whose signal is pending at the catcher, or None
    catcher,            \* "start", "poll", "serve", "reset", "exited", "killed"
    status, status_changes,
    serving,            \* the mode main has read from status
    caught, served,     \* history: senders whose signal was handled, modes served
    dropped, early,     \* history: senders whose signal was dropped, or confirmed
                        \* before their sigsuspend()
    last, lost          \* history: the sender handled last, and those whose mode
                        \* was overwritten before main had read it, or came
                        \* before main's reset

history == <<dropped, early, last, lost>>
vars == <<sender, mode, pending, catcher, status, status_changes, serving, caught, served,
          dropped, early, last, lost>>

Init ==
    /\ sender = [s \in Senders |-> "start"]
    /\ mode \in [Senders -> Modes]
    /\ pending = None
    /\ catcher = "start" /\ status = Idle /\ status_changes = 0 /\ serving = Idle
    /\ caught = {} /\ served = {}
    /\ dropped = {} /\ early = {} /\ last = None /\ lost = {}
-----------------------------------------------------------------------------
Alive == catcher \notin {"exited", "killed"}

(* sigqueue(); to a process that is gone it fails, which is not noticed. *)
Send(s) ==
    /\ sender[s] = "start"
    /\ sender' = [sender EXCEPT ![s] = "sent"]
    /\ IF Alive /\ pending = None
         THEN pending' = s /\ UNCHANGED dropped
         ELSE dropped' = dropped \cup {s} /\ UNCHANGED pending
    /\ UNCHANGED <<mode, catcher, status, status_changes, serving, caught, served, early, last, lost>>

Suspend_Polls(s) ==
    /\ sender[s] = "sent"
    /\ sender' = [sender EXCEPT ![s] = "done"]
    /\ UNCHANGED <<mode, pending, catcher, status, status_changes, serving, caught, served, history>>
Suspend(s) ==
    /\ sender[s] = "sent"
    /\ sender' = [sender EXCEPT ![s] = "suspended"]
    /\ UNCHANGED <<mode, pending, catcher, status, status_changes, serving, caught, served, history>>

(* sigaction() in the catcher, whose PID is known already. *)
SetAction ==
    /\ catcher = "start"
    /\ catcher' = "poll"
    /\ UNCHANGED <<sender, mode, pending, status, status_changes, serving, caught, served, history>>

(* What is pending for a process that ends is dropped. *)
Discard ==
    /\ dropped' = dropped \cup ({pending} \ {None})
    /\ pending' = None

(* The default action of SIGUSR1. *)
DefaultAction ==
    /\ catcher = "start" /\ pending # None
    /\ catcher' = "killed"
    /\ Discard
    /\ UNCHANGED <<sender, mode, status, status_changes, serving, caught, served, early, last, lost>>

(* signal_handler; kill() runs the handler of the sender, and ends a
   sigsuspend() if the sender is in one. *)
Note ==
    /\ early' = IF sender[pending] = "sent" THEN early \cup {pending} ELSE early
    /\ last' = pending
    /\ lost' = lost \cup (IF catcher # "poll" THEN {pending} ELSE IF status # Idle THEN {last} ELSE {})
Valid(m) == IF m \in 1 .. 3 THEN m ELSE Idle
Handler_NoConfirmation ==
    /\ pending # None /\ catcher \in {"poll", "serve", "reset"}
    /\ status_changes' = status_changes + 1
    /\ status' = Valid(mode[pending])
    /\ caught' = caught \cup {pending}
    /\ pending' = None
    /\ Note
    /\ UNCHANGED <<sender, mode, catcher, serving, served, dropped>>
Handler ==
    /\ pending # None /\ catcher \in {"poll", "serve", "reset"}
    /\ status_changes' = status_changes + 1
    /\ status' = Valid(mode[pending])
    /\ sender' = [sender EXCEPT ![pending] = IF @ = "suspended" THEN "done" ELSE @]
    /\ caught' = caught \cup {pending}
    /\ pending' = None
    /\ Note
    /\ UNCHANGED <<mode, catcher, serving, served, dropped>>
-----------------------------------------------------------------------------
(* main of the catcher: switch (status). *)
Poll_Once ==
    /\ catcher = "poll" /\ status \in 1 .. 2
    /\ serving' = status
    /\ catcher' = "serve"
    /\ UNCHANGED <<sender, mode, pending, status, status_changes, caught, served, history>>
Poll ==
    /\ catcher = "poll" /\ status # Idle
    /\ serving' = status
    /\ catcher' = "serve"
    /\ UNCHANGED <<sender, mode, pending, status, status_changes, caught, served, history>>

Serve ==
    /\ catcher = "serve"
    /\ served' = served \cup {serving}
    /\ IF serving = 3
         THEN catcher' = "exited" /\ Discard
         ELSE catcher' = "reset" /\ UNCHANGED <<pending, dropped>>
    /\ UNCHANGED <<sender, mode, status, status_changes, serving, caught, early, last, lost>>

(* status = -1 *)
Reset ==
    /\ catcher = "reset"
    /\ status' = Idle
    /\ catcher' = "poll"
    /\ UNCHANGED <<sender, mode, pending, status_changes, serving, caught, served, history>>

Sender(s) == Send(s) \/ Suspend(s)
Main == SetAction \/ Poll \/ Serve \/ Reset
Next == (\E s \in Senders : Sender(s)) \/ Main \/ DefaultAction \/ Handler

Spec == Init /\ [][Next]_vars

(* The processes are scheduled and pending signals delivered; a sender need
   never be started. *)
FairSpec == Spec /\ WF_vars(Main) /\ WF_vars(DefaultAction \/ Handler) /\ \A s \in Senders : WF_vars(Suspend(s))
-----------------------------------------------------------------------------
TypeOK ==
    /\ sender \in [Senders -> {"start", "sent", "suspended", "done"}]
    /\ mode \in [Senders -> Modes] /\ pending \in Senders \cup {None}
    /\ catcher \in {"start", "poll", "serve", "reset", "exited", "killed"}
    /\ status \in {Idle, 1, 2, 3} /\ serving \in {Idle, 1, 2, 3}
    /\ status_changes \in 0 .. Cardinality(Senders)
    /\ caught \subseteq Senders /\ served \subseteq 1 .. 3
    /\ dropped \subseteq Senders /\ early \subseteq Senders
    /\ last \in Senders \cup {None} /\ lost \subseteq Senders

(* A sender ends only if the catcher has handled its own signal, even if
   others were dropped (catcher.c:33-39, sender.c:54). *)
ConfirmedWasCaught == \A s \in Senders : sender[s] = "done" => s \in caught

(* Nothing in the code keeps a mode from being overwritten by the next one
   before main has read it, nor from being reset with the one main is busy
   with.  Only a sender this happens to loses anything: every other valid
   mode the catcher has confirmed is served in the end (catcher.c:60-75). *)
ConfirmedIsServed == \A s \in Senders :
    (s \in caught /\ mode[s] \in 1 .. 3) ~> (mode[s] \in served \/ s \in lost)

(* The sender works until it gets the confirmation: it ends, unless its own
   signal was dropped (by another one pending, or by a catcher that has ended
   or not begun) or confirmed before the sigsuspend() (sender.c:50-57,
   catcher.c:29-40, 58). *)
SenderEnds == \A s \in Senders :
    (sender[s] = "suspended") ~> (sender[s] = "done" \/ s \in dropped \cup early)
=============================================================================
