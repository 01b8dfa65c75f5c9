---------------------------------- MODULE MqChat ----------------------------------
(***************************************************************************)
(* lab07: a chat over POSIX message queues.  Every client creates a queue  *)
(* of its own and sends its name to the server's queue (INIT); the server  *)
(* opens it, notes it in the table client_queues and answers with the      *)
(* index as identifier.  A text is relayed to all other entries of the     *)
(* table.  A client is two processes: the parent writes to the server, the *)
(* child reads the client's queue and hands the identifier to the parent   *)
(* through a pipe.                                                         *)
(*                                                                         *)
(* mq_send() blocks while a queue is full.  Ctrl+C reaches both processes  *)
(* of a client; signal() has System V semantics here (_XOPEN_SOURCE        *)
(* alone), so that a call blocked at that moment fails with EINTR.  A      *)
(* process that is about to block is in the same state as a blocked one:   *)
(* the signal may or may not interrupt it.                                 *)
(***************************************************************************)
EXTENDS Integers, Sequences, FiniteSets

CONSTANTS
    Users,              \* the clients, each started once
    MAX_CLIENTS_NO, QueueSize,  \* 10 and 10 in the code
    MaxTexts,           \* bound on the texts typed
    MaxRestarts,        \* bound on the restarts of the server
    Interrupts,         \* whether Ctrl+C is pressed, once, at each client
    None

ASSUME BoundsAssumption ==
    /\ MAX_CLIENTS_NO \in Nat \ {0} /\ QueueSize \in Nat \ {0}
    /\ MaxTexts \in Nat /\ MaxRestarts \in Nat
    /\ Interrupts \in BOOLEAN
    /\ None \notin Users /\ IsFiniteSet(Users)

Ids == 0 .. MAX_CLIENTS_NO - 1
NoId == -1

VARIABLES
    serverQueue,        \* outlives the server
    client_queues,      \* the server's table: whose queue each entry is, or None
    out, todo,          \* the message the server is sending and the entries it still goes to
    clientQueue,
    parent, child,      \* the two processes of each client
    is_running,
    received,           \* receive_message of each child
    pipe,               \* the first identifier written to the pipe, or NoId
    id,                 \* the identifier as the parent knows it
    typed,              \* texts typed so far, which also numbers them
    shown,              \* history: the texts each client has displayed
    restarts

server == <<client_queues, out, todo, restarts>>
reader == <<child, received, pipe, shown>>
writer == <<parent, id, typed>>
vars == <<serverQueue, client_queues, out, todo, restarts, clientQueue, child, received, pipe, shown,
          parent, id, typed, is_running>>

Types == {"INIT", "IDENTIFIER", "MESSAGE_TEXT", "CLIENT_CLOSE", "unknown"}
(* from and n tell texts apart; an INIT carries the queue's name in from. *)
Message(type, i, from, n) == [type |-> type, identifier |-> i, from |-> from, n |-> n]
Garbage == Message("unknown", NoId, None, 0)

Init ==
    /\ serverQueue = <<>>
    /\ client_queues = [i \in Ids |-> None]
    /\ out = Garbage /\ todo = {} /\ restarts = 0
    /\ clientQueue = [u \in Users |-> <<>>]
    /\ parent = [u \in Users |-> "init"] /\ child = [u \in Users |-> "none"]
    /\ is_running = [u \in Users |-> TRUE]
    /\ received = [u \in Users |-> Garbage]
    /\ pipe = [u \in Users |-> NoId] /\ id = [u \in Users |-> NoId]
    /\ typed = 0
    /\ shown = [u \in Users |-> <<>>]

Room_Always(q) == TRUE
Room(q) == Len(q) < QueueSize

(* All messages have priority 1: a queue is first in, first out. *)
Put_Priority(q, m) == IF m.identifier = 0 THEN <<m>> \o q ELSE Append(q, m)
Put(q, m) == Append(q, m)

GotoP(u, label) == parent' = [parent EXCEPT ![u] = label]
GotoC(u, label) == child' = [child EXCEPT ![u] = label]

(* What follows the test of is_running in the loops of the two processes. *)
Leaving(i) == IF i # NoId THEN "close" ELSE "left"
ParentLoop(u, i) == IF is_running[u] THEN "fgets" ELSE Leaving(i)
ChildLoop(u) == IF is_running[u] THEN "receive" ELSE "exited"
-----------------------------------------------------------------------------
(* The parent process. *)

ToServer(m) == Room(serverQueue) /\ serverQueue' = Put(serverQueue, m)

SendInit(u) ==
    /\ parent[u] = "init"
    /\ ToServer(Message("INIT", NoId, u, 0))
    /\ GotoP(u, "setup")
    /\ UNCHANGED <<server, clientQueue, reader, id, typed, is_running>>

(* signal(SIGINT, ...) and fork(). *)
Fork(u) ==
    /\ parent[u] = "setup"
    /\ GotoP(u, "read") /\ GotoC(u, ChildLoop(u))
    /\ UNCHANGED <<serverQueue, server, clientQueue, received, pipe, shown, id, typed, is_running>>

(* read() from the pipe; at its end, when the child is gone, id stays -1. *)
ReadId(u) ==
    /\ parent[u] = "read" /\ (pipe[u] # NoId \/ child[u] = "exited")
    /\ id' = [id EXCEPT ![u] = pipe[u]]
    /\ GotoP(u, ParentLoop(u, pipe[u]))
    /\ UNCHANGED <<serverQueue, server, clientQueue, reader, typed, is_running>>

Text(u) ==
    /\ parent[u] = "fgets" /\ typed < MaxTexts
    /\ typed' = typed + 1
    /\ ToServer(Message("MESSAGE_TEXT", id[u], u, typed + 1))
    /\ GotoP(u, ParentLoop(u, id[u]))
    /\ UNCHANGED <<server, clientQueue, reader, id, is_running>>

(* CLIENT_CLOSE, then the queues are closed and the client's is unlinked. *)
SendClose(u) ==
    /\ parent[u] = "close"
    /\ ToServer(Message("CLIENT_CLOSE", id[u], u, 0))
    /\ GotoP(u, "left")
    /\ UNCHANGED <<server, clientQueue, reader, id, typed, is_running>>
-----------------------------------------------------------------------------
(* The child process. *)

Handle(u, m) ==
    /\ shown' = IF m.type = "MESSAGE_TEXT" THEN [shown EXCEPT ![u] = Append(@, m)] ELSE shown
    /\ pipe' = IF m.type = "IDENTIFIER" /\ pipe[u] = NoId THEN [pipe EXCEPT ![u] = m.identifier] ELSE pipe

Receive(u) ==
    /\ child[u] = "receive" /\ clientQueue[u] # <<>>
    /\ received' = [received EXCEPT ![u] = Head(clientQueue[u])]
    /\ clientQueue' = [clientQueue EXCEPT ![u] = Tail(@)]
    /\ Handle(u, Head(clientQueue[u]))
    /\ GotoC(u, ChildLoop(u))
    /\ UNCHANGED <<serverQueue, server, writer, is_running>>

(* mq_receive() failed: the message received before is handled again, or, if
   there was none, whatever the uninitialised variable holds: an identifier, or
   something without effect here (an unknown type, an identifier -1, or a text,
   which is nobody's and not noted in shown).  An identifier outside of the
   table, which the server would use as an index, is left out. *)
HandleStale(u) ==
    /\ child[u] = "failed"
    /\ \/ received[u] # Garbage /\ Handle(u, received[u])
       \/ /\ received[u] = Garbage
          /\ \E m \in {Garbage} \cup {Message("IDENTIFIER", i, None, 0) : i \in Ids} : Handle(u, m)
    /\ GotoC(u, ChildLoop(u))
    /\ UNCHANGED <<serverQueue, server, clientQueue, received, writer, is_running>>
-----------------------------------------------------------------------------
(* Ctrl+C.  Before signal() it kills; read() and mq_receive() fail if they
   were blocked, as does fgets(), after which the loop goes on. *)
CtrlC(u) ==
    /\ Interrupts /\ is_running[u] /\ parent[u] \notin {"left", "dead"}
    /\ is_running' = [is_running EXCEPT ![u] = FALSE]
    /\ \/ parent[u] \in {"init", "setup", "read"} /\ GotoP(u, "dead")
       \/ parent[u] = "fgets" /\ GotoP(u, Leaving(id[u]))
       \/ parent[u] # "init" /\ UNCHANGED parent
    /\ \/ child[u] = "receive" /\ GotoC(u, "failed")
       \/ UNCHANGED child
    /\ UNCHANGED <<serverQueue, server, clientQueue, received, pipe, shown, id, typed>>
-----------------------------------------------------------------------------
(* The server. *)

(* The first empty entry; entry 0 when there is none. *)
NewId_Zero == 0
NewId ==
    LET Empty == {i \in Ids : client_queues[i] = None}
    IN  IF Empty = {} THEN 0 ELSE CHOOSE i \in Empty : \A j \in Empty : i <= j

(* INIT: mq_open() fails once the client has unlinked its queue. *)
Register(m) ==
    LET u == IF parent[m.from] = "left" THEN None ELSE m.from IN
    /\ client_queues' = [client_queues EXCEPT ![NewId] = u]
    /\ out' = Message("IDENTIFIER", NewId, None, 0)
    /\ todo' = IF u = None THEN {} ELSE {NewId}

(* MESSAGE_TEXT: mq_send() to an empty entry fails, without effect. *)
Others_All(m) == {i \in Ids : client_queues[i] # None}
Others_Lower(m) == {i \in Ids : i < m.identifier /\ client_queues[i] # None}
Others(m) == {i \in Ids : i # m.identifier /\ client_queues[i] # None}
Relay(m) ==
    /\ out' = m
    /\ todo' = Others(m)
    /\ UNCHANGED client_queues

(* CLIENT_CLOSE *)
Unregister(m) ==
    /\ client_queues' = [client_queues EXCEPT ![m.identifier] = None]
    /\ UNCHANGED <<out, todo>>

ServerReceive ==
    /\ todo = {} /\ serverQueue # <<>>
    /\ serverQueue' = Tail(serverQueue)
    /\ LET m == Head(serverQueue) IN
         \/ m.type = "INIT" /\ Register(m)
         \/ m.type = "MESSAGE_TEXT" /\ Relay(m)
         \/ m.type = "CLIENT_CLOSE" /\ Unregister(m)
    /\ UNCHANGED <<clientQueue, reader, writer, is_running, restarts>>

(* One mq_send(), in the order of the table. *)
Turn(i) == i \in todo /\ \A j \in todo : i <= j
ServerSend == \E i \in Ids :
    LET u == client_queues[i] IN
    /\ Turn(i) /\ Room(clientQueue[u])
    /\ clientQueue' = [clientQueue EXCEPT ![u] = Put(@, out)]
    /\ todo' = todo \ {i}
    /\ UNCHANGED <<serverQueue, client_queues, out, reader, writer, is_running, restarts>>

(* The server is stopped and started again: an empty table, the old queue. *)
Restart ==
    /\ restarts < MaxRestarts
    /\ restarts' = restarts + 1
    /\ client_queues' = [i \in Ids |-> None]
    /\ out' = Garbage /\ todo' = {}
    /\ UNCHANGED <<serverQueue, clientQueue, reader, writer, is_running>>
-----------------------------------------------------------------------------
Parent(u) == SendInit(u) \/ Fork(u) \/ ReadId(u) \/ SendClose(u)
Child(u) == Receive(u) \/ HandleStale(u)
Server == ServerReceive \/ ServerSend

Next ==
    \/ \E u \in Users : Parent(u) \/ Text(u) \/ Child(u) \/ CtrlC(u)
    \/ Server \/ Restart

Spec == Init /\ [][Next]_vars

(* Processes are scheduled; nobody has to type or press Ctrl+C.  A sender
   blocked on the server's queue gets its turn: it is often not full. *)
FairSpec == Spec /\ WF_vars(Server) /\ \A u \in Users :
                WF_vars(Parent(u)) /\ SF_vars(SendInit(u) \/ SendClose(u)) /\ WF_vars(Child(u))
-----------------------------------------------------------------------------
Queued == [type : Types, identifier : Ids \cup {NoId}, from : Users \cup {None}, n : 0 .. MaxTexts]

(* No queue ever holds more than mq_maxmsg messages (client.c:31, serwer.c:15). *)
TypeOK ==
    /\ serverQueue \in Seq(Queued) /\ Len(serverQueue) <= QueueSize
    /\ client_queues \in [Ids -> Users \cup {None}]
    /\ out \in Queued /\ todo \subseteq Ids /\ restarts \in 0 .. MaxRestarts
    /\ clientQueue \in [Users -> Seq(Queued)] /\ \A u \in Users : Len(clientQueue[u]) <= QueueSize
    /\ parent \in [Users -> {"init", "setup", "read", "fgets", "close", "left", "dead"}]
    /\ child \in [Users -> {"none", "receive", "failed", "exited"}]
    /\ is_running \in [Users -> BOOLEAN]
    /\ received \in [Users -> Queued] /\ shown \in [Users -> Seq(Queued)]
    /\ pipe \in [Users -> Ids \cup {NoId}] /\ id \in [Users -> Ids \cup {NoId}]
    /\ typed \in 0 .. MaxTexts

(* The server does not notice a full table, a restart leaves its queue behind,
   and Ctrl+C makes a client handle messages it did not receive.  As long as
   nothing of this has happened: *)
Undisturbed == restarts = 0 /\ Cardinality(Users) <= MAX_CLIENTS_NO /\ \A u \in Users : is_running[u]

(* ... the identifier a client works with is the index of its own queue in the
   server's table, so identifiers are unique (serwer.c:32-56, 71-72;
   client.c:94, 108). *)
Registered == Undisturbed => \A u \in Users : parent[u] \in {"fgets", "close"} /\ id[u] # NoId => client_queues[id[u]] = u

(* Nobody is shown his own text, whatever happened to the table (serwer.c:62). *)
NoOwnText == \A u \in Users : \A k \in 1 .. Len(shown[u]) : shown[u][k].from # u

ShownBefore(u, a, b) == \E j, k \in 1 .. Len(shown[u]) : j < k /\ shown[u][j] = a /\ shown[u][k] = b

(* Two clients that both display two texts display them in the same order,
   although the server serves their queues one after the other and each is
   emptied at its own pace (serwer.c:61-65, client.c:83). *)
SameOrder ==
    \A u, v \in Users : \A j, k \in 1 .. Len(shown[u]) :
        j < k /\ shown[u][j] # shown[u][k] => ~ShownBefore(v, shown[u][k], shown[u][j])

Displays(v, n) == \E k \in 1 .. Len(shown[v]) : shown[v][k].n = n

(* ... a text is displayed by every other client that had its identifier when
   the text was sent, however full the queues are (serwer.c:60-65). *)
EveryTextShown == \A u, v \in Users : \A n \in 1 .. MaxTexts :
    (u # v /\ id[v] # NoId /\ \E k \in 1 .. Len(serverQueue) : serverQueue[k].n = n /\ serverQueue[k].from = u)
        ~> (Displays(v, n) \/ ~Undisturbed)

(* The server, which must serve many clients at once, never waits for room
   in a queue that nobody reads any more (serwer.c:56, 63). *)
NeverStuck == \A i \in Ids :
    Turn(i) /\ ~Room(clientQueue[client_queues[i]]) => child[client_queues[i]] # "exited"
=============================================================================
