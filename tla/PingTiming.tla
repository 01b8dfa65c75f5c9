-------------------------------- MODULE PingTiming --------------------------------
(***************************************************************************)
(* lab11 with a clock: the ping thread of serwer.c and one client.  Time   *)
(* is counted in ticks, SECOND of them to a second; time(NULL) only knows  *)
(* whole seconds.  The ping thread sleeps PING_INTERVAL seconds between    *)
(* its rounds and wakes up a little late; the client answers every ALIVE   *)
(* within Delay ticks until it falls silent.                               *)
(***************************************************************************)
EXTENDS Integers

CONSTANTS
    PING_INTERVAL,      \* seconds
    SECOND,             \* ticks of a second
    Latency,            \* bound on the ticks by which a sleep() is exceeded
    Delay,              \* bound on the ticks an answer takes
    MaxTime             \* bound on the ticks of a behaviour

ASSUME TimingAssumption ==
    /\ PING_INTERVAL \in Nat \ {0} /\ SECOND \in Nat \ {0}
    /\ Latency \in Nat /\ Delay \in Nat
    /\ MaxTime \in Nat /\ MaxTime >= PING_INTERVAL * SECOND

VARIABLES
    now,                    \* ticks
    wakeAt,                 \* end of the ping thread's sleep
    active,
    last_response_time,     \* seconds
    heardAt,                \* history: when the client was last heard, in ticks
    pingedAt,               \* when the ALIVE it has to answer was sent, or Never
    silent                  \* the client has stopped to answer

vars == <<now, wakeAt, active, last_response_time, heardAt, pingedAt, silent>>

Never == -1
time(ticks) == ticks \div SECOND

(* The ping thread runs from the start; the client registers some time later. *)
Init ==
    /\ now \in 0 .. PING_INTERVAL * SECOND
    /\ wakeAt = PING_INTERVAL * SECOND
    /\ active = TRUE
    /\ last_response_time = time(now) /\ heardAt = now
    /\ pingedAt = Never /\ silent = FALSE

Tick ==
    /\ now < MaxTime
    /\ now < wakeAt + Latency
    /\ pingedAt # Never => silent \/ now < pingedAt + Delay
    /\ now' = now + 1
    /\ UNCHANGED <<wakeAt, active, last_response_time, heardAt, pingedAt, silent>>

(* difftime(now, last_response_time) > PING_INTERVAL *)
Overdue_AtLeast == time(now) - last_response_time >= PING_INTERVAL
Overdue_Twice == time(now) - last_response_time > 2 * PING_INTERVAL
Overdue == time(now) - last_response_time > PING_INTERVAL

(* A round of the ping thread, and its next sleep(). *)
PingRound ==
    /\ now >= wakeAt
    /\ wakeAt' = now + PING_INTERVAL * SECOND
    /\ \/ active /\ Overdue /\ active' = FALSE /\ UNCHANGED pingedAt
       \/ active /\ ~Overdue /\ pingedAt' = now /\ UNCHANGED active
       \/ ~active /\ UNCHANGED <<active, pingedAt>>
    /\ UNCHANGED <<now, last_response_time, heardAt, silent>>

(* The handler thread logs an answer, or any other command. *)
Respond ==
    /\ active /\ ~silent
    /\ last_response_time' = time(now) /\ heardAt' = now
    /\ pingedAt' = Never
    /\ UNCHANGED <<now, wakeAt, active, silent>>

FallSilent ==
    /\ active /\ ~silent
    /\ silent' = TRUE
    /\ UNCHANGED <<now, wakeAt, active, last_response_time, heardAt, pingedAt>>

Next == Tick \/ PingRound \/ Respond \/ FallSilent
Spec == Init /\ [][Next]_vars
-----------------------------------------------------------------------------
TypeOK ==
    /\ now \in 0 .. MaxTime /\ wakeAt \in 0 .. MaxTime + PING_INTERVAL * SECOND
    /\ active \in BOOLEAN /\ silent \in BOOLEAN
    /\ last_response_time \in 0 .. time(now) /\ heardAt \in 0 .. now
    /\ pingedAt \in 0 .. now \cup {Never}

Interval == PING_INTERVAL * SECOND      \* in ticks
lastRound == wakeAt - Interval          \* when the current sleep() began

(* The rounds come late, by little or by much, and answers are stamped in whole
   seconds.  Still a client is removed only when nothing has been heard of it
   for more than the interval; one that answers every ALIVE within less than
   an interval is removed only by a round that comes later, after the end of
   the sleep, than the client's last sign of life after the round before
   (serwer.c:168-176).  So no round on time ever removes such a client, and a
   single late tick may. *)
OnlyUnheardRemoved ==
    [][active /\ ~active' =>
         /\ now - heardAt > Interval
         /\ silent \/ Delay >= Interval \/ heardAt - lastRound \in 0 .. now - wakeAt - 1]_vars

(* A client that has gone silent is off the list two intervals after its last
   sign of life, the second that time() cuts off and one late wake-up added
   (serwer.c:168-178). *)
SilentRemovedInTime ==
    active => now - heardAt < 2 * Interval + SECOND + Latency
=============================================================================
