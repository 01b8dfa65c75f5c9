------------------------------ MODULE ChatServer ------------------------------
(***************************************************************************)
(* lab11: the chat server.  main accepts connections and starts one        *)
(* detached thread per connection, passing it the address of main's own    *)
(* local variable; the threads share the table `clients` under             *)
(* clients_mutex with the thread that pings.                               *)
(*                                                                         *)
(* A critical section of clients_mutex is one action; so is every system   *)
(* call outside one.  File descriptors are modelled: a descriptor names a  *)
(* connection, close() frees its number, accept() takes the lowest free    *)
(* number, and a thread blocked in recv() stays on the connection its      *)
(* descriptor named when the call began.  A connection is named after the  *)
(* user who opened it, a handler thread after the connection whose accept  *)
(* started it.                                                             *)
(*                                                                         *)
(* Streams are sequences of messages: recv() takes any non-empty prefix    *)
(* and the code looks at its first message only.  What a message says is   *)
(* abstracted to the command, its addressee and the name the server wrote  *)
(* in front; last_response_time to whether it is older than PING_INTERVAL. *)
(***************************************************************************)
EXTENDS Integers, Sequences, FiniteSets

CONSTANTS
    Users,          \* who may connect, each once, under a name of their own
    MAX_CLIENTS,    \* slots of the table clients
    MaxFd,          \* bound on the descriptors open at a time
    LineOps,        \* the commands users type
    MaxLines,       \* bound on the lines users type
    MaxPings,       \* bound on the rounds of the ping thread
    None            \* no user, no connection

ASSUME BoundsAssumption ==
    /\ MAX_CLIENTS \in Nat \ {0} /\ MaxFd \in Nat \ {0}
    /\ LineOps \subseteq {"LIST", "2ALL", "2ONE", "STOP"}
    /\ MaxLines \in Nat /\ MaxPings \in Nat
    /\ None \notin Users

Slots == 1 .. MAX_CLIENTS
Fds == 1 .. MaxFd
Names == Users \cup {None}      \* None: bytes that are nobody's name

VARIABLES
    fdTable,        \* the connection each descriptor names, or None
    client_socket,  \* main's local variable, the argument of every thread
    accepted,       \* the connection main has accepted and starts a thread for
    backlog,        \* connections waiting in the listen queue
    clients,        \* the table: socket, name, active, late
    threads,        \* the handler threads
    peer,           \* the user's end of each connection
    inbox, outbox,  \* bytes under way to the server and to the user
    serverUp,       \* the server process has not been killed
    lines, pings,   \* lines typed and ping rounds so far
    lapses          \* history: "overrun" once accept() has overwritten an argument
                    \* not yet copied, "dropped" once a ping round has dropped a client

server == <<fdTable, client_socket, accepted, clients, threads>>
streams == <<peer, inbox, outbox, serverUp>>
counters == <<lines, pings, lapses>>
vars == <<fdTable, client_socket, accepted, backlog, clients, threads, peer, inbox, outbox,
          serverUp, lines, pings, lapses>>

Ops == {"NAME", "LIST", "2ALL", "2ONE", "STOP", "ALIVE"}
Commands == [op : Ops, to : Names]
Cmd(op, to) == [op |-> op, to |-> to]
(* op is the command answered; origin the connection the command came on. *)
Messages == [op : Ops, to : Names, from : Names, origin : Names]
Ping == [op |-> "ALIVE", to |-> None, from |-> None, origin |-> None]

Unborn == [pc |-> "none", fd |-> 0, idx |-> 0, held |-> None, cmd |-> Cmd("ALIVE", None),
           name_buffer |-> None, from |-> None]

Init ==
    /\ fdTable = [f \in Fds |-> None]
    /\ client_socket = 0 /\ accepted = None /\ backlog = {}
    /\ clients = [s \in Slots |-> [socket |-> 0, name |-> None, active |-> FALSE, late |-> FALSE]]
    /\ threads = [t \in Users |-> Unborn]
    /\ peer = [u \in Users |-> "off"]
    /\ inbox = [u \in Users |-> <<>>] /\ outbox = [u \in Users |-> <<>>]
    /\ serverUp = TRUE
    /\ lines = 0 /\ pings = 0 /\ lapses = {}
-----------------------------------------------------------------------------
(* The user's side: client.c. *)

Connected(u) == peer[u] \in {"connected", "chatting"}

Connect(u) ==
    /\ peer[u] = "off"
    /\ peer' = [peer EXCEPT ![u] = "connected"]
    /\ backlog' = backlog \cup {u}
    /\ UNCHANGED <<server, inbox, outbox, serverUp, counters>>

Type(u, cmd) == inbox' = [inbox EXCEPT ![u] = Append(@, cmd)]

SendName(u) ==
    /\ peer[u] = "connected"
    /\ peer' = [peer EXCEPT ![u] = "chatting"]
    /\ Type(u, Cmd("NAME", u))
    /\ UNCHANGED <<server, backlog, outbox, serverUp, counters>>

(* A line from the keyboard, sent as it is. *)
Line(u) ==
    /\ peer[u] = "chatting" /\ lines < MaxLines
    /\ lines' = lines + 1
    /\ \E op \in LineOps : \E to \in IF op = "2ONE" THEN Users ELSE {None} : Type(u, Cmd(op, to))
    /\ UNCHANGED <<server, backlog, peer, outbox, serverUp, pings, lapses>>

(* thread_main: one recv() may return several messages glued together; an
   ALIVE is answered if it comes first, anything else is printed. *)
Receive(u) ==
    /\ peer[u] = "chatting" /\ outbox[u] # <<>>
    /\ \E n \in 1 .. Len(outbox[u]) : outbox' = [outbox EXCEPT ![u] = SubSeq(@, n + 1, Len(@))]
    /\ IF Head(outbox[u]) = Ping THEN Type(u, Cmd("ALIVE", None)) ELSE UNCHANGED inbox
    /\ UNCHANGED <<server, backlog, peer, serverUp, counters>>

Hangup(u) ==
    /\ peer' = [peer EXCEPT ![u] = "closed"]
    /\ outbox' = [outbox EXCEPT ![u] = <<>>]

(* handle_exit: Ctrl+C sends STOP and closes. *)
CtrlC(u) ==
    /\ peer[u] = "chatting"
    /\ Type(u, Cmd("STOP", None))
    /\ Hangup(u)
    /\ UNCHANGED <<server, backlog, serverUp, counters>>

(* exit(1) when recv() fails, or the process is killed: closes without STOP. *)
Die(u) ==
    /\ Connected(u)
    /\ Hangup(u)
    /\ UNCHANGED <<server, backlog, inbox, serverUp, counters>>

(* Data sent to a closed peer is answered by a reset. *)
Reset(u) ==
    /\ peer[u] = "probed"
    /\ peer' = [peer EXCEPT ![u] = "reset"]
    /\ UNCHANGED <<server, backlog, inbox, outbox, serverUp, counters>>
-----------------------------------------------------------------------------
(* send() to each of the given connections; to a connection that has been
   reset it raises SIGPIPE, which nothing in the server handles. *)
Send(dests, m) ==
    /\ outbox' = [u \in Users |-> IF u \in dests /\ Connected(u) THEN Append(outbox[u], m) ELSE outbox[u]]
    /\ peer' = [u \in Users |-> IF u \in dests /\ peer[u] = "closed" THEN "probed" ELSE peer[u]]
    /\ serverUp' = \A u \in dests : peer[u] # "reset"
    /\ UNCHANGED inbox

(* The connection a descriptor names; 0 stands for the -1 of a failed
   accept(), which names nothing and cannot be closed. *)
Conn(fd) == IF fd \in Fds THEN fdTable[fd] ELSE None

(* The connections the given slots' sockets name at the moment. *)
Reached(S) == {Conn(clients[s].socket) : s \in S} \ {None}

Close(fd) == fdTable' = [f \in Fds |-> IF f = fd THEN None ELSE fdTable[f]]

(* What main's variable holds is lost to a thread that has not copied it. *)
Overwritten == IF \E t \in Users : threads[t].pc = "new" THEN lapses \cup {"overrun"} ELSE lapses

(* accept(): the lowest free descriptor. *)
Free == {f \in Fds : fdTable[f] = None}
Accept(u) ==
    /\ accepted = None /\ u \in backlog /\ Free # {}
    /\ \E f \in Free :
         /\ \A g \in Free : f <= g
         /\ fdTable' = [fdTable EXCEPT ![f] = u]
         /\ client_socket' = f
    /\ accepted' = u
    /\ backlog' = backlog \ {u}
    /\ lapses' = Overwritten
    /\ UNCHANGED <<clients, threads, streams, lines, pings>>

(* accept() finds no descriptor free: its -1 is stored like any other and
   the loop goes on. *)
AcceptFails ==
    /\ accepted = None /\ Free = {}
    /\ client_socket' = 0
    /\ lapses' = Overwritten
    /\ UNCHANGED <<fdTable, accepted, backlog, clients, threads, streams, lines, pings>>

Spawn ==
    /\ accepted # None
    /\ threads' = [threads EXCEPT ![accepted].pc = "new"]
    /\ accepted' = None
    /\ UNCHANGED <<fdTable, client_socket, backlog, clients, streams, counters>>
-----------------------------------------------------------------------------
(* A handler thread. *)

(* int client_socket = *((int * )arg): whatever main's variable holds now. *)
CopyArg(t) ==
    /\ threads[t].pc = "new"
    /\ threads' = [threads EXCEPT ![t].pc = "hello", ![t].fd = client_socket]
    /\ UNCHANGED <<fdTable, client_socket, accepted, backlog, clients, streams, counters>>

(* name_buffer is never initialised and a name comes without its NUL: the
   bytes behind it are whatever the frame of an earlier thread left there. *)
Leftovers == {None} \cup {threads[w].name_buffer : w \in {v \in Users : threads[v].pc = "ended"}}

(* recv() has failed.  The result of the first one is not looked at: the
   thread goes on with the name_buffer it found. *)
RecvError(t, next) ==
    IF threads[t].pc = "hello"
      THEN \E name \in Leftovers :
             threads' = [threads EXCEPT ![t].held = None, ![t].pc = "register", ![t].name_buffer = name]
      ELSE threads' = [threads EXCEPT ![t].held = None, ![t].pc = next]

(* recv() looks its descriptor up once; a closed one is an error at once. *)
RecvEnter(t) ==
    /\ threads[t].pc \in {"hello", "recv"} /\ threads[t].held = None
    /\ LET conn == Conn(threads[t].fd) IN
       \/ conn # None /\ threads' = [threads EXCEPT ![t].held = conn]
       \/ conn = None /\ RecvError(t, "close")
    /\ UNCHANGED <<fdTable, client_socket, accepted, backlog, clients, streams, counters>>

(* recv() returns the first n messages.  As the name they are kept whole,
   with what follows them in the buffer: glued messages are nobody's name, a
   name may be the beginning of a longer one left there.  As a command, only
   the first message counts. *)
NameBytes(u, n) ==
    IF n = 1 /\ Head(inbox[u]).op = "NAME" THEN {Head(inbox[u]).to} \cup Leftovers ELSE {None}
RecvData(t) ==
    LET u == threads[t].held IN
    /\ u # None /\ threads[t].pc \in {"hello", "recv"} /\ inbox[u] # <<>>
    /\ \E n \in 1 .. Len(inbox[u]) :
         /\ inbox' = [inbox EXCEPT ![u] = SubSeq(@, n + 1, Len(@))]
         /\ IF threads[t].pc = "hello"
              THEN \E name \in NameBytes(u, n) :
                     threads' = [threads EXCEPT ![t].held = None, ![t].pc = "register", ![t].name_buffer = name]
              ELSE threads' = [threads EXCEPT ![t].pc = "log", ![t].cmd = Head(inbox[u])]
    /\ UNCHANGED <<fdTable, client_socket, accepted, backlog, clients, peer, outbox, serverUp, counters>>

(* End of stream or a reset. *)
RecvFail_Retry(t) ==
    LET u == threads[t].held IN
    /\ u # None /\ threads[t].pc \in {"hello", "recv"} /\ inbox[u] = <<>> /\ ~Connected(u)
    /\ RecvError(t, "check")
    /\ UNCHANGED <<fdTable, client_socket, accepted, backlog, clients, streams, counters>>
RecvFail(t) ==
    LET u == threads[t].held IN
    /\ u # None /\ threads[t].pc \in {"hello", "recv"} /\ inbox[u] = <<>> /\ ~Connected(u)
    /\ RecvError(t, "close")
    /\ UNCHANGED <<fdTable, client_socket, accepted, backlog, clients, streams, counters>>

(* The first inactive slot, or the server is full. *)
Vacant_Ignored == Slots
Vacant == {s \in Slots : ~clients[s].active}
Register(t) ==
    /\ threads[t].pc = "register"
    /\ IF Vacant = {}
         THEN /\ threads' = [threads EXCEPT ![t].pc = "full"]
              /\ UNCHANGED clients
         ELSE \E s \in Vacant :
              /\ \A r \in Vacant : s <= r
              /\ clients' = [clients EXCEPT ![s] =
                    [socket |-> threads[t].fd, name |-> threads[t].name_buffer, active |-> TRUE, late |-> FALSE]]
              /\ threads' = [threads EXCEPT ![t].pc = "check", ![t].idx = s]
    /\ UNCHANGED <<fdTable, client_socket, accepted, backlog, streams, counters>>

CloseFull_NoClose(t) ==
    /\ threads[t].pc = "full"
    /\ threads' = [threads EXCEPT ![t].pc = "ended"]
    /\ UNCHANGED <<fdTable, client_socket, accepted, backlog, clients, streams, counters>>
CloseFull(t) ==
    /\ threads[t].pc = "full"
    /\ Close(threads[t].fd)
    /\ threads' = [threads EXCEPT ![t].pc = "ended"]
    /\ UNCHANGED <<client_socket, accepted, backlog, clients, streams, counters>>

(* is_client_active. *)
Check(t) ==
    /\ threads[t].pc = "check"
    /\ threads' = [threads EXCEPT ![t].pc = IF clients[threads[t].idx].active THEN "recv" ELSE "ended"]
    /\ UNCHANGED <<fdTable, client_socket, accepted, backlog, clients, streams, counters>>

Again(t) == threads' = [threads EXCEPT ![t] =
    [@ EXCEPT !.pc = "check", !.held = None, !.cmd = Unborn.cmd, !.from = None]]

(* last_response_time = now, then the command is told apart. *)
Log(t) ==
    /\ threads[t].pc = "log"
    /\ clients' = [clients EXCEPT ![threads[t].idx].late = FALSE]
    /\ LET op == threads[t].cmd.op IN
         \/ op = "LIST" /\ threads' = [threads EXCEPT ![t].pc = "list"]
         \/ op \in {"2ALL", "2ONE"} /\ threads' = [threads EXCEPT ![t].pc = "format"]
         \/ op = "STOP" /\ threads' = [threads EXCEPT ![t].pc = "close", ![t].held = None]
         \/ op \in {"NAME", "ALIVE"} /\ Again(t)
    /\ UNCHANGED <<fdTable, client_socket, accepted, backlog, streams, counters>>

Reply(t) == [op |-> threads[t].cmd.op, to |-> threads[t].cmd.to,
             from |-> threads[t].from, origin |-> threads[t].held]

(* LIST: the answer goes to the thread's own descriptor, after the unlock. *)
List(t) ==
    /\ threads[t].pc = "list"
    /\ Send({Conn(threads[t].fd)} \ {None}, Reply(t))
    /\ Again(t)
    /\ UNCHANGED <<fdTable, client_socket, accepted, backlog, clients, counters>>

(* The message is composed before the mutex is taken, with whatever name
   the slot has at that moment. *)
Format(t) ==
    /\ threads[t].pc = "format"
    /\ threads' = [threads EXCEPT ![t].pc = "send", ![t].from = clients[threads[t].idx].name]
    /\ UNCHANGED <<fdTable, client_socket, accepted, backlog, clients, streams, counters>>

(* broadcast_message: every active slot whose socket is not the sender's. *)
BroadcastSlots_All(t) == {s \in Slots : clients[s].active}
BroadcastSlots(t) == {s \in Slots : clients[s].active /\ clients[s].socket # threads[t].fd}

(* 2ONE: the first active slot with the addressee's name. *)
Matching(t) == {s \in Slots : clients[s].active /\ clients[s].name = threads[t].cmd.to}
Addressee(t) == {s \in Matching(t) : \A r \in Matching(t) : s <= r}

Deliver(t) ==
    /\ threads[t].pc = "send"
    /\ Send(Reached(IF threads[t].cmd.op = "2ALL" THEN BroadcastSlots(t) ELSE Addressee(t)), Reply(t))
    /\ Again(t)
    /\ UNCHANGED <<fdTable, client_socket, accepted, backlog, clients, counters>>

(* After STOP or a failed recv(): close(), and only then the lock. *)
CloseSocket_NoUnregister(t) ==
    /\ threads[t].pc = "close"
    /\ Close(threads[t].fd)
    /\ threads' = [threads EXCEPT ![t].pc = "ended"]
    /\ UNCHANGED <<client_socket, accepted, backlog, clients, streams, counters>>
CloseSocket(t) ==
    /\ threads[t].pc = "close"
    /\ Close(threads[t].fd)
    /\ threads' = [threads EXCEPT ![t].pc = "deact"]
    /\ UNCHANGED <<client_socket, accepted, backlog, clients, streams, counters>>

Deact_ClosesAgain(t) ==
    /\ threads[t].pc = "deact"
    /\ Close(threads[t].fd)
    /\ clients' = [clients EXCEPT ![threads[t].idx].active = FALSE]
    /\ threads' = [threads EXCEPT ![t].pc = "ended"]
    /\ UNCHANGED <<client_socket, accepted, backlog, streams, counters>>
Deact(t) ==
    /\ threads[t].pc = "deact"
    /\ clients' = [clients EXCEPT ![threads[t].idx].active = FALSE]
    /\ threads' = [threads EXCEPT ![t].pc = "ended"]
    /\ UNCHANGED <<fdTable, client_socket, accepted, backlog, streams, counters>>
-----------------------------------------------------------------------------
(* PING_INTERVAL seconds have passed since the last sign of life. *)
Expire(s) ==
    /\ pings < MaxPings /\ clients[s].active /\ ~clients[s].late
    /\ clients' = [clients EXCEPT ![s].late = TRUE]
    /\ UNCHANGED <<fdTable, client_socket, accepted, backlog, threads, streams, counters>>

(* One round of ping_clients_main under the mutex: late clients are dropped
   and their sockets closed, the others are sent ALIVE (in slot order: a
   descriptor closed earlier in the round reaches nobody). *)
PingRound ==
    LET Late == {s \in Slots : clients[s].active /\ clients[s].late}
        Live == {s \in Slots : clients[s].active /\ ~clients[s].late}
    IN
    /\ pings < MaxPings
    /\ pings' = pings + 1
    /\ clients' = [s \in Slots |-> [clients[s] EXCEPT !.active = @ /\ s \notin Late]]
    /\ fdTable' = [f \in Fds |-> IF \E s \in Late : clients[s].socket = f THEN None ELSE fdTable[f]]
    /\ Send(Reached({s \in Live : \A r \in Late : r < s => clients[r].socket # clients[s].socket}), Ping)
    /\ lapses' = IF Late = {} THEN lapses ELSE lapses \cup {"dropped"}
    /\ UNCHANGED <<client_socket, accepted, backlog, threads, lines>>
-----------------------------------------------------------------------------
Client(u) == Connect(u) \/ SendName(u) \/ Line(u) \/ Receive(u) \/ CtrlC(u) \/ Die(u) \/ Reset(u)
Handler(t) ==
    \/ CopyArg(t) \/ RecvEnter(t) \/ RecvData(t) \/ RecvFail(t) \/ Register(t) \/ CloseFull(t)
    \/ Check(t) \/ Log(t) \/ List(t) \/ Format(t) \/ Deliver(t) \/ CloseSocket(t) \/ Deact(t)
AcceptLoop == Spawn \/ AcceptFails \/ \E u \in Users : Accept(u)

Next ==
    \/ \E u \in Users : Client(u)
    \/ serverUp /\ \E t \in Users : Handler(t)
    \/ serverUp /\ AcceptLoop
    \/ serverUp /\ PingRound
    \/ serverUp /\ \E s \in Slots : Expire(s)

Spec == Init /\ [][Next]_vars

(* Threads are scheduled and main keeps accepting; users and pings may stop. *)
Fairness == /\ \A t \in Users : WF_vars(serverUp /\ Handler(t))
            /\ WF_vars(serverUp /\ AcceptLoop)
FairSpec == Spec /\ Fairness
-----------------------------------------------------------------------------
Pcs == {"none", "new", "hello", "register", "full", "check", "recv", "log", "list",
        "format", "send", "close", "deact", "ended"}
InLoop == {"check", "recv", "log", "list", "format", "send", "close", "deact"}

TypeOK ==
    /\ fdTable \in [Fds -> Names]
    /\ client_socket \in Fds \cup {0} /\ accepted \in Names /\ backlog \subseteq Users
    /\ clients \in [Slots -> [socket : Fds \cup {0}, name : Names, active : BOOLEAN, late : BOOLEAN]]
    /\ threads \in [Users -> [pc : Pcs, fd : Fds \cup {0}, idx : Slots \cup {0}, held : Names,
                              cmd : Commands, name_buffer : Names, from : Names]]
    /\ peer \in [Users -> {"off", "connected", "chatting", "closed", "probed", "reset"}]
    /\ inbox \in [Users -> Seq(Commands)] /\ outbox \in [Users -> Seq(Messages)]
    /\ serverUp \in BOOLEAN
    /\ lines \in 0 .. MaxLines /\ pings \in 0 .. MaxPings /\ lapses \subseteq {"overrun", "dropped"}
    /\ \A t \in Users : threads[t].pc \in InLoop => threads[t].idx \in Slots

(* Whatever threads, pings and descriptors do to each other, an entry of the
   list is never orphaned: some running handler works with it and will take
   it off when it ends (serwer.c:57-64, 86, 157, 177). *)
ActiveSlotHasThread ==
    \A s \in Slots : clients[s].active =>
        \E t \in Users : threads[t].idx = s /\ threads[t].pc \in InLoop

(* A 2ALL is for "all the others": it never comes back on the connection it
   was typed on, although broadcast_message compares descriptor numbers,
   which are reused, and not connections (serwer.c:29). *)
NoEcho == \A u \in Users : \A k \in 1 .. Len(outbox[u]) :
              outbox[u][k].op = "2ALL" => outbox[u][k].origin # u

(* Nothing in the code keeps main's next accept() from overwriting the
   argument of a new thread, nor a descriptor closed by a ping round from
   being given out again.  As long as neither has happened: *)
Undisturbed == lapses = {}

(* ... each thread serves the connection it was started for, although all
   of them are passed the same address (serwer.c:46, 247-249); *)
OwnConnection ==
    Undisturbed => \A t \in Users : threads[t].pc = "hello" => fdTable[threads[t].fd] = t

(* ... a thread that has ended has closed its connection (serwer.c:70, 84, 155); *)
NoLeakedDescriptor ==
    Undisturbed => \A t \in Users : threads[t].pc = "ended" => \A f \in Fds : fdTable[f] # t

(* As long as no ping round has dropped a client, whichever argument the
   threads have read: a message is signed with the name its author's thread
   has registered, though it is read from the table without the mutex
   (serwer.c:121, 139); *)
Undropped == "dropped" \notin lapses
Attribution == Undropped =>
    \A t \in Users : threads[t].pc = "send" => threads[t].from = threads[t].name_buffer

(* ... and a thread about to clear its slot clears its own registration, not
   that of a thread that was given the slot later (serwer.c:86, 157). *)
OnlyOwnEntry == Undropped =>
    \A t, w \in Users : threads[t].pc = "deact" /\ threads[w].pc \in InLoop /\ threads[t].idx = threads[w].idx => t = w

(* A 2ONE reaches the user named in it and nobody else (serwer.c:141-148). *)
ToAddressee == \A u \in Users : \A k \in 1 .. Len(outbox[u]) :
                   outbox[u][k].op = "2ONE" => outbox[u][k].to = u

(* The entry of a user's thread is still on the list; not so if another
   thread has taken the slot since. *)
Listed(u) ==
    /\ threads[u].idx # 0 /\ clients[threads[u].idx].active
    /\ \A w \in Users \ {u} : threads[w].pc \in InLoop => threads[w].idx # threads[u].idx

(* A user who has left does not stay on the list, whether or not his name
   ever arrived, and a ping round drops him or not (serwer.c:51-64, 82-89,
   153-160).  Only a thread whose argument was overwritten may serve a
   connection that lives on. *)
DepartureUnregisters ==
    \A u \in Users : peer[u] \in {"closed", "probed", "reset"} ~>
                          (~serverUp \/ "overrun" \in lapses \/ ~Listed(u))
=============================================================================
