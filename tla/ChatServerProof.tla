------------------------------ MODULE ChatServerProof ------------------------------
(***************************************************************************)
(* Theorems about ChatServer, for any set of users, any size of the table  *)
(* and of the descriptor table, and any number of lines and pings.         *)
(***************************************************************************)
EXTENDS ChatServer, SequenceTheorems, TLAPS

(* A connection whose accept() has not come yet is unknown to the server. *)
Unknown(u) ==
    /\ accepted # u /\ threads[u].pc = "none"
    /\ \A f \in Fds : fdTable[f] # u
    /\ \A t \in Users : threads[t].held # u
AcceptedOnce == \A u \in Users :
    /\ u \in backlog => peer[u] # "off"
    /\ u \in backlog \/ peer[u] = "off" => Unknown(u)
    /\ accepted = u => threads[u].pc = "none"

(* No connection has two descriptors; the one a thread is in recv() on, or
   has got its command from, has no other descriptor than the thread's. *)
OneDescriptor == \A f, g \in Fds : fdTable[f] = fdTable[g] /\ fdTable[f] # None => f = g
HeldByOwnDescriptor == \A t \in Users : \A f \in Fds :
    threads[t].held # None /\ fdTable[f] = threads[t].held => f = threads[t].fd

(* A thread that has not copied its argument is in no call, and main's
   variable holds what accept() has just returned. *)
Assigned ==
    /\ accepted # None => client_socket \in Fds
    /\ \A t \in Users :
         /\ threads[t].pc \in {"none", "new"} => threads[t].held = None
         /\ threads[t].pc = "list" => threads[t].cmd.op = "LIST"

(* Holds whatever happens. *)
Always == TypeOK /\ AcceptedOnce /\ OneDescriptor /\ HeldByOwnDescriptor /\ Assigned
          /\ ActiveSlotHasThread /\ NoEcho

(* As long as no client is dropped, a thread in its loop has a slot of its
   own, with the name it has registered, and signs with that name. *)
SlotInOrder(t) == threads[t].pc \in InLoop =>
    /\ clients[threads[t].idx].active /\ clients[threads[t].idx].name = threads[t].name_buffer
    /\ \A u \in Users : threads[u].pc \in InLoop /\ threads[u].idx = threads[t].idx => u = t
Signed(t) == threads[t].pc = "send" => threads[t].from = threads[t].name_buffer
Owned == \A t \in Users : SlotInOrder(t) /\ Signed(t)

(* Between accept() and close() a thread has its connection's descriptor, or
   main's variable holds it for the thread. *)
Serving == {"hello", "register", "full", "check", "recv", "log", "list", "format", "send", "close"}
Commanded == {"log", "list", "format", "send"}
ThreadInOrder(t) ==
    /\ threads[t].pc = "new" => accepted = None /\ Conn(client_socket) = t
    /\ threads[t].pc \in Serving => Conn(threads[t].fd) = t
    /\ threads[t].pc \in {"deact", "ended"} => \A f \in Fds : fdTable[f] # t
    /\ threads[t].held \in {t, None}
    /\ threads[t].pc \in Commanded => threads[t].held = t
Core ==
    /\ accepted # None => Conn(client_socket) = accepted
    /\ \A t \in Users : ThreadInOrder(t)

IInv == Always /\ (Undropped => Owned) /\ (Undisturbed => Core)

-----------------------------------------------------------------------------
(* Types. *)

ThreadStates == [pc : Pcs, fd : Fds \cup {0}, idx : Slots \cup {0}, held : Names, cmd : Commands,
                 name_buffer : Names, from : Names]
Entries == [socket : Fds \cup {0}, name : Names, active : BOOLEAN, late : BOOLEAN]
Placed(th) == th.pc \in InLoop => th.idx \in Slots
PeerStates == {"off", "connected", "chatting", "closed", "probed", "reset"}

(* Zero names neither a slot nor a descriptor, and None no user. *)
LEMMA Zero == 0 \notin Slots /\ 0 \notin Fds /\ Slots \subseteq Int /\ Fds \subseteq Int /\ None \notin Users
  BY BoundsAssumption DEF Slots, Fds

(* Everything starts empty. *)
LEMMA InitType == Init => TypeOK
<1> SUFFICES ASSUME Init PROVE TypeOK
  OBVIOUS
<1> USE DEF Init
<1>1. Unborn \in ThreadStates /\ Unborn.pc \notin InLoop
  BY DEF Unborn, ThreadStates, Pcs, Names, Commands, Ops, Cmd, InLoop
<1>2. threads \in [Users -> ThreadStates] /\ \A t \in Users : threads[t].pc \notin InLoop
  BY <1>1
<1>3. clients \in [Slots -> Entries]
  BY DEF Entries, Names
<1>4. inbox \in [Users -> Seq(Commands)] /\ outbox \in [Users -> Seq(Messages)]
  OBVIOUS
<1>5. fdTable \in [Fds -> Names] /\ accepted \in Names
  BY DEF Names
<1> QED
  BY <1>2, <1>3, <1>4, <1>5, BoundsAssumption DEF TypeOK, ThreadStates, Entries

(* The rest of a stream is a stream. *)
LEMMA RestOfStream ==
    ASSUME NEW S, NEW q \in Seq(S), NEW n \in 1 .. Len(q)
    PROVE  /\ SubSeq(q, n + 1, Len(q)) \in Seq(S)
           /\ Len(SubSeq(q, n + 1, Len(q))) = Len(q) - n
           /\ \A k \in 1 .. Len(q) - n : SubSeq(q, n + 1, Len(q))[k] = q[n + k]
<1>1. Len(q) \in Nat /\ n \in Nat /\ n + 1 \in 1 .. Len(q) + 1
  BY LenProperties
<1>2. CASE n = Len(q)
  <2>1. SubSeq(q, n + 1, Len(q)) = << >>
    BY <1>1, <1>2, SMT
  <2> QED
    BY <1>1, <1>2, <2>1
<1>3. CASE n # Len(q)
  <2>1. n + 1 \in 1 .. Len(q) /\ Len(q) \in n + 1 .. Len(q)
    BY <1>1, <1>3
  <2> QED
    BY <1>1, <2>1, SMT
<1> QED
  BY <1>2, <1>3

(* A client touches nothing of the server's. *)
LEMMA ClientKeepsType ==
    ASSUME TypeOK, NEW u \in Users, Client(u) PROVE TypeOK'
<1>1. UNCHANGED <<fdTable, client_socket, accepted, clients, threads, serverUp, pings, lapses>>
  BY DEF Client, Connect, SendName, Line, Receive, CtrlC, Die, Reset, server, counters, Hangup
<1>2. backlog' \subseteq Users
  BY DEF TypeOK, Client, Connect, SendName, Line, Receive, CtrlC, Die, Reset, server, counters
<1>3. lines' \in 0 .. MaxLines
  BY BoundsAssumption DEF TypeOK, Client, Connect, SendName, Line, Receive, CtrlC, Die, Reset, server, counters
<1>4. peer' \in [Users -> PeerStates]
  BY DEF TypeOK, PeerStates, Client, Connect, SendName, Line, Receive, CtrlC, Die, Reset, Hangup
<1>5. inbox' \in [Users -> Seq(Commands)]
  <2>1. ASSUME NEW cmd \in Commands, Type(u, cmd) PROVE inbox' \in [Users -> Seq(Commands)]
    BY <2>1 DEF TypeOK, Type
  <2>2. \A op \in Ops, to \in Names : Cmd(op, to) \in Commands
    BY DEF Cmd, Commands
  <2>3. LineOps \subseteq Ops /\ Users \subseteq Names /\ None \in Names
    BY BoundsAssumption DEF Ops, Names
  <2>4. CASE SendName(u)
    BY <2>1, <2>2, <2>3, <2>4 DEF SendName, Ops
  <2>5. CASE Line(u)
    BY <2>1, <2>2, <2>3, <2>5 DEF Line
  <2>6. CASE Receive(u)
    BY <2>1, <2>2, <2>3, <2>6 DEF Receive, Ops, TypeOK
  <2>7. CASE CtrlC(u)
    BY <2>1, <2>2, <2>3, <2>7 DEF CtrlC, Ops
  <2>8. CASE Connect(u) \/ Die(u) \/ Reset(u)
    BY <2>8 DEF Connect, Die, Reset, TypeOK
  <2> QED
    BY <2>4, <2>5, <2>6, <2>7, <2>8 DEF Client
<1>6. outbox' \in [Users -> Seq(Messages)]
  <2>1. CASE Receive(u)
    <3>1. PICK n \in 1 .. Len(outbox[u]) : outbox' = [outbox EXCEPT ![u] = SubSeq(@, n + 1, Len(@))]
      BY <2>1 DEF Receive
    <3>2. outbox[u] \in Seq(Messages)
      BY DEF TypeOK
    <3>3. SubSeq(outbox[u], n + 1, Len(outbox[u])) \in Seq(Messages)
      BY <3>2, RestOfStream
    <3> QED
      BY <3>1, <3>3 DEF TypeOK
  <2>2. CASE CtrlC(u) \/ Die(u)
    <3>1. << >> \in Seq(Messages)
      OBVIOUS
    <3> QED
      BY <2>2, <3>1 DEF CtrlC, Die, Hangup, TypeOK
  <2>3. CASE Connect(u) \/ SendName(u) \/ Line(u) \/ Reset(u)
    BY <2>3 DEF Connect, SendName, Line, Reset, TypeOK
  <2> QED
    BY <2>1, <2>2, <2>3 DEF Client
<1> QED
  BY <1>1, <1>2, <1>3, <1>4, <1>5, <1>6 DEF TypeOK, PeerStates

(* What a step of thread t may do to the threads. *)
Moves(t) ==
    LET th == threads[t]  new == threads'[t] IN
    /\ threads' = [threads EXCEPT ![t] = new]
    /\ new \in ThreadStates /\ Placed(new)
    /\ th.pc \notin {"none", "ended"} /\ new.pc \notin {"none", "new"}
    /\ IF th.pc = "new" THEN new.fd = client_socket /\ new.pc = "hello" ELSE new.fd = th.fd
    /\ \/ new.held \in {th.held, None}
       \/ th.pc \in {"hello", "recv"} /\ new.held = Conn(th.fd)
    /\ new.pc = "list" => new.cmd.op = "LIST"

(* Every name in a buffer is a name. *)
LEMMA NamesInBuffers ==
    ASSUME TypeOK
    PROVE  /\ Leftovers \subseteq Names /\ \A fd : Conn(fd) \in Names
           /\ \A u \in Users : inbox[u] # << >> => \A n : NameBytes(u, n) \subseteq Names
<1>1. threads \in [Users -> ThreadStates] /\ fdTable \in [Fds -> Names] /\ inbox \in [Users -> Seq(Commands)]
  BY DEF TypeOK, ThreadStates
<1>2. None \in Names
  BY DEF Names
<1>3. Leftovers \subseteq Names
  BY <1>1, <1>2 DEF Leftovers, ThreadStates
<1>4. \A u \in Users : inbox[u] # << >> => Head(inbox[u]).to \in Names
  <2> SUFFICES ASSUME NEW u \in Users, inbox[u] # << >> PROVE Head(inbox[u]).to \in Names
    OBVIOUS
  <2>1. Head(inbox[u]) \in Commands
    BY <1>1
  <2> QED
    BY <2>1 DEF Commands
<1> QED
  BY <1>1, <1>2, <1>3, <1>4 DEF Conn, NameBytes

(* What a failed recv() does to the threads. *)
LEMMA RecvErrorForms ==
    ASSUME TypeOK, NEW t \in Users, threads[t].pc \in {"hello", "recv"}, RecvError(t, "close")
    PROVE  \/ /\ threads[t].pc = "hello"
              /\ \E name \in Names : threads' = [threads EXCEPT ![t] =
                    [threads[t] EXCEPT !.held = None, !.pc = "register", !.name_buffer = name]]
           \/ /\ threads[t].pc = "recv"
              /\ threads' = [threads EXCEPT ![t] = [threads[t] EXCEPT !.held = None, !.pc = "close"]]
<1>1. threads \in [Users -> ThreadStates] /\ Leftovers \subseteq Names
  BY NamesInBuffers DEF TypeOK, ThreadStates
<1>2. CASE threads[t].pc = "hello"
  <2>1. PICK name \in Leftovers :
           threads' = [threads EXCEPT ![t].held = None, ![t].pc = "register", ![t].name_buffer = name]
    BY <1>2 DEF RecvError
  <2>2. threads' = [threads EXCEPT ![t] = [threads[t] EXCEPT !.held = None, !.pc = "register", !.name_buffer = name]]
    BY <1>1, <2>1
  <2> QED
    BY <1>1, <1>2, <2>2
<1>3. CASE threads[t].pc = "recv"
  BY <1>1, <1>3 DEF RecvError
<1> QED
  BY <1>2, <1>3

(* A handler changes its own record only, and keeps its descriptor. *)
LEMMA HandlerMoves ==
    ASSUME TypeOK, Assigned, NEW t \in Users, Handler(t) PROVE Moves(t)
<1> DEFINE th == threads[t]
<1>1. /\ threads \in [Users -> ThreadStates] /\ th \in ThreadStates /\ Placed(th)
      /\ fdTable \in [Fds -> Names] /\ client_socket \in Fds \cup {0}
  BY DEF TypeOK, ThreadStates, Placed
<1>2. Conn(th.fd) \in Names /\ Leftovers \subseteq Names
  BY NamesInBuffers
<1>3. \A pc \in Pcs : [th EXCEPT !.pc = pc] \in ThreadStates
  BY <1>1 DEF ThreadStates
<1>4. None \in Names /\ Users \subseteq Names
  BY DEF Names
<1> USE DEF Moves
<1>5. CASE CopyArg(t)
  BY <1>1, <1>5 DEF CopyArg, ThreadStates, Placed, InLoop, Pcs
<1>6. ASSUME th.pc \in {"hello", "recv"}, RecvError(t, "close") PROVE Moves(t)
  <2>1. CASE th.pc = "hello"
    <3>1. PICK name \in Names : threads' = [threads EXCEPT ![t] =
             [th EXCEPT !.held = None, !.pc = "register", !.name_buffer = name]]
      BY <1>6, <2>1, RecvErrorForms
    <3> QED
      BY <1>1, <1>4, <2>1, <3>1 DEF ThreadStates, Placed, InLoop, Pcs
  <2>2. CASE th.pc = "recv"
    <3>1. threads' = [threads EXCEPT ![t] = [th EXCEPT !.held = None, !.pc = "close"]]
      BY <1>6, <2>2, RecvErrorForms
    <3> QED
      BY <1>1, <1>4, <2>2, <3>1 DEF ThreadStates, Placed, InLoop, Pcs
  <2> QED
    BY <1>6, <2>1, <2>2
<1>17. CASE RecvEnter(t)
  <2>1. CASE threads' = [threads EXCEPT ![t].held = Conn(th.fd)]
    BY <1>1, <1>2, <1>17, <2>1 DEF RecvEnter, ThreadStates, Placed, InLoop, Pcs
  <2> QED
    BY <1>6, <1>17, <2>1 DEF RecvEnter
<1>7. CASE RecvData(t)
  <2>1. th.held \in Users /\ inbox[th.held] \in Seq(Commands) /\ inbox[th.held] # << >>
    BY <1>1, <1>7 DEF RecvData, ThreadStates, Names, TypeOK
  <2>2. Head(inbox[th.held]) \in Commands
    BY <2>1
  <2>4. CASE th.pc = "hello"
    <3>1. PICK n \in 1 .. Len(inbox[th.held]) : \E name \in NameBytes(th.held, n) :
             threads' = [threads EXCEPT ![t].held = None, ![t].pc = "register", ![t].name_buffer = name]
      BY <1>7, <2>4 DEF RecvData
    <3>2. PICK name \in Names :
             threads' = [threads EXCEPT ![t].held = None, ![t].pc = "register", ![t].name_buffer = name]
      BY <2>1, <3>1, NamesInBuffers
    <3>3. threads' = [threads EXCEPT ![t] = [th EXCEPT !.held = None, !.pc = "register", !.name_buffer = name]]
      BY <1>1, <3>2
    <3> QED
      BY <1>1, <1>4, <2>4, <3>3 DEF ThreadStates, Placed, InLoop, Pcs
  <2>5. CASE th.pc # "hello"
    BY <1>1, <1>7, <2>2, <2>5 DEF RecvData, ThreadStates, Placed, InLoop, Pcs
  <2> QED
    BY <2>4, <2>5
<1>8. CASE RecvFail(t)
  BY <1>6, <1>8 DEF RecvFail
<1>9. CASE Register(t)
  <2>1. CASE Vacant = {}
    BY <1>1, <1>9, <2>1 DEF Register, ThreadStates, Placed, InLoop, Pcs
  <2>2. CASE Vacant # {}
    <3>1. PICK s \in Slots : threads' = [threads EXCEPT ![t].pc = "check", ![t].idx = s]
      BY <1>9, <2>2 DEF Register, Vacant
    <3> QED
      BY <1>1, <1>4, <1>9, <3>1 DEF Register, ThreadStates, Placed, InLoop, Pcs
  <2> QED
    BY <2>1, <2>2
<1>10. CASE CloseFull(t)
  BY <1>1, <1>4, <1>10 DEF CloseFull, ThreadStates, Placed, InLoop, Pcs
<1>11. CASE Check(t)
  BY <1>1, <1>11 DEF Check, ThreadStates, Placed, InLoop, Pcs
<1>12. ASSUME Again(t), th.pc \in InLoop PROVE Moves(t)
  <2>1. Cmd("ALIVE", None) \in Commands
    BY <1>4 DEF Cmd, Commands, Ops
  <2> QED
    BY <1>1, <1>4, <1>12, <2>1 DEF Again, Unborn, ThreadStates, Placed, InLoop, Pcs
<1>13. CASE Log(t)
  <2>1. CASE Again(t)
    BY <1>12, <1>13, <2>1 DEF Log, InLoop
  <2>2. CASE ~Again(t)
    BY <1>1, <1>4, <1>13, <2>2 DEF Log, ThreadStates, Placed, InLoop, Pcs
  <2> QED
    BY <2>1, <2>2
<1>14. CASE List(t) \/ Deliver(t)
  BY <1>12, <1>14 DEF List, Deliver, InLoop
<1>15. CASE Format(t)
  <2>1. clients[th.idx].name \in Names
    BY <1>1, <1>15 DEF Format, Placed, InLoop, TypeOK
  <2> QED
    BY <1>1, <1>15, <2>1 DEF Format, ThreadStates, Placed, InLoop, Pcs
<1>16. CASE CloseSocket(t) \/ Deact(t)
  BY <1>1, <1>16 DEF CloseSocket, Deact, ThreadStates, Placed, InLoop, Pcs
<1> QED
  BY <1>5, <1>17, <1>7, <1>8, <1>9, <1>10, <1>11, <1>13, <1>14, <1>15, <1>16 DEF Handler

(* The replies of a handler are messages. *)
LEMMA ReplyType ==
    ASSUME TypeOK, NEW t \in Users PROVE Reply(t) \in Messages
<1>1. threads[t] \in ThreadStates
  BY DEF TypeOK, ThreadStates
<1> QED
  BY <1>1 DEF Reply, Messages, ThreadStates, Commands

(* What send() does to the streams. *)
LEMMA SendType ==
    ASSUME TypeOK, NEW D, NEW m \in Messages, Send(D, m)
    PROVE  /\ inbox' = inbox /\ outbox' \in [Users -> Seq(Messages)]
           /\ peer' \in [Users -> PeerStates] /\ serverUp' \in BOOLEAN
           /\ \A u \in Users : peer'[u] = "off" <=> peer[u] = "off"
<1>1. outbox \in [Users -> Seq(Messages)] /\ peer \in [Users -> PeerStates]
  BY DEF TypeOK, PeerStates
<1>2. \A u \in Users : Append(outbox[u], m) \in Seq(Messages)
  BY <1>1
<1> QED
  BY <1>1, <1>2 DEF Send, PeerStates

(* A handler opens no descriptor, keeps the streams well formed, and the
   table. *)
LEMMA HandlerKeepsType ==
    ASSUME TypeOK, Assigned, NEW t \in Users, Handler(t) PROVE TypeOK'
<1>1. Moves(t)
  BY HandlerMoves
<1>2. UNCHANGED <<client_socket, accepted, backlog, lines, pings, lapses>>
  BY DEF Handler, CopyArg, RecvEnter, RecvData, RecvFail, Register, CloseFull, Check, Log, List, Format,
         Deliver, CloseSocket, Deact, streams, counters
<1>3. threads' \in [Users -> ThreadStates] /\ \A u \in Users : Placed(threads'[u])
  <2>1. threads \in [Users -> ThreadStates] /\ \A u \in Users : Placed(threads[u])
    BY DEF TypeOK, ThreadStates, Placed
  <2> QED
    BY <1>1, <2>1 DEF Moves
<1>4. fdTable' \in [Fds -> Names]
  BY DEF TypeOK, Names, Close, Handler, CopyArg, RecvEnter, RecvData, RecvFail, Register, CloseFull, Check,
         Log, List, Format, Deliver, CloseSocket, Deact
<1>5. clients' \in [Slots -> Entries]
  <2>1. clients \in [Slots -> Entries] /\ threads[t] \in ThreadStates
    BY DEF TypeOK, Entries, ThreadStates
  <2>2. CASE Register(t)
    <3>1. CASE Vacant = {}
      BY <2>1, <2>2, <3>1 DEF Register
    <3>2. CASE Vacant # {}
      <4> DEFINE entry == [socket |-> threads[t].fd, name |-> threads[t].name_buffer, active |-> TRUE, late |-> FALSE]
      <4>1. entry \in Entries
        BY <2>1 DEF Entries, ThreadStates
      <4>2. PICK s \in Slots : clients' = [clients EXCEPT ![s] = entry]
        BY <2>2, <3>2 DEF Register, Vacant
      <4> QED
        BY <2>1, <4>1, <4>2
    <3> QED
      BY <3>1, <3>2
  <2>3. CASE Log(t) \/ Deact(t)
    <3>1. threads[t].idx \in Slots
      BY <2>3 DEF Log, Deact, TypeOK, InLoop
    <3>2. CASE Log(t)
      <4>1. clients' = [clients EXCEPT ![threads[t].idx].late = FALSE]
        BY <3>2 DEF Log
      <4> QED
        BY <2>1, <3>1, <4>1 DEF Entries
    <3>3. CASE Deact(t)
      <4>1. clients' = [clients EXCEPT ![threads[t].idx].active = FALSE]
        BY <3>3 DEF Deact
      <4> QED
        BY <2>1, <3>1, <4>1 DEF Entries
    <3> QED
      BY <2>3, <3>2, <3>3
  <2>4. CASE ~Register(t) /\ ~Log(t) /\ ~Deact(t)
    BY <2>1, <2>4 DEF Handler, CopyArg, RecvEnter, RecvData, RecvFail, CloseFull, Check, List, Format,
         Deliver, CloseSocket
  <2> QED
    BY <2>2, <2>3, <2>4
<1>6. /\ inbox' \in [Users -> Seq(Commands)] /\ outbox' \in [Users -> Seq(Messages)]
      /\ peer' \in [Users -> PeerStates] /\ serverUp' \in BOOLEAN
  <2>1. CASE List(t) \/ Deliver(t)
    <3>1. PICK D : Send(D, Reply(t))
      BY <2>1 DEF List, Deliver
    <3> QED
      BY <3>1, ReplyType, SendType DEF TypeOK
  <2>2. CASE RecvData(t)
    <3>1. threads[t].held \in Users
      BY <2>2 DEF RecvData, TypeOK, Names
    <3>2. PICK n \in 1 .. Len(inbox[threads[t].held]) :
             inbox' = [inbox EXCEPT ![threads[t].held] = SubSeq(@, n + 1, Len(@))]
      BY <2>2 DEF RecvData
    <3>3. SubSeq(inbox[threads[t].held], n + 1, Len(inbox[threads[t].held])) \in Seq(Commands)
      BY <3>1, RestOfStream DEF TypeOK
    <3> QED
      BY <2>2, <3>2, <3>3 DEF RecvData, TypeOK, PeerStates
  <2>3. CASE UNCHANGED streams
    BY <2>3 DEF streams, TypeOK, PeerStates
  <2> QED
    BY <2>1, <2>2, <2>3 DEF Handler, CopyArg, RecvEnter, RecvFail, Register, CloseFull, Check, Log, Format,
         CloseSocket, Deact
<1> QED
  BY <1>2, <1>3, <1>4, <1>5, <1>6 DEF TypeOK, ThreadStates, Entries, PeerStates, Placed

(* main and the pings keep the types. *)
LEMMA OthersKeepType ==
    ASSUME TypeOK, AcceptLoop \/ PingRound \/ (\E s \in Slots : Expire(s)) PROVE TypeOK'
<1> USE DEF TypeOK
<1>1. ASSUME NEW u \in Users, Accept(u) PROVE TypeOK'
  <2>1. PICK f \in Fds : fdTable' = [fdTable EXCEPT ![f] = u] /\ client_socket' = f
    BY <1>1 DEF Accept, Free
  <2>2. fdTable' \in [Fds -> Names] /\ client_socket' \in Fds \cup {0} /\ accepted' \in Names
    BY <1>1, <2>1 DEF Accept, Names
  <2>3. lapses' \subseteq {"overrun", "dropped"} /\ backlog' \subseteq Users
    BY <1>1 DEF Accept, Overwritten
  <2> QED
    BY <1>1, <2>2, <2>3 DEF Accept, streams
<1>5. CASE AcceptFails
  <2>1. lapses' \subseteq {"overrun", "dropped"} /\ client_socket' = 0
    BY <1>5 DEF AcceptFails, Overwritten
  <2> QED
    BY <1>5, <2>1 DEF AcceptFails, streams
<1>2. CASE Spawn
  <2>1. accepted \in Users /\ accepted' \in Names
    BY <1>2 DEF Spawn, Names
  <2>2. threads \in [Users -> ThreadStates] /\ \A u \in Users : Placed(threads[u])
    BY DEF ThreadStates, Placed
  <2>3. threads' \in [Users -> ThreadStates] /\ \A u \in Users : Placed(threads'[u])
    <3>1. threads' = [threads EXCEPT ![accepted].pc = "new"]
      BY <1>2 DEF Spawn
    <3>2. [threads[accepted] EXCEPT !.pc = "new"] \in ThreadStates
      <4>1. threads[accepted] \in ThreadStates /\ "new" \in Pcs
        BY <2>1, <2>2 DEF Pcs
      <4> HIDE DEF Pcs
      <4> QED
        BY <4>1 DEF ThreadStates
    <3>3. Placed([threads[accepted] EXCEPT !.pc = "new"])
      BY <2>1, <2>2 DEF ThreadStates, Placed, InLoop
    <3> QED
      BY <2>1, <2>2, <3>1, <3>2, <3>3
  <2> QED
    BY <1>2, <2>1, <2>3 DEF Spawn, streams, counters, ThreadStates, Placed
<1>3. CASE PingRound
  <2>1. fdTable' \in [Fds -> Names]
    BY <1>3 DEF PingRound, Names
  <2>2. clients \in [Slots -> Entries]
    BY DEF Entries
  <2>3. clients' \in [Slots -> Entries]
    <3>1. clients' = [s \in Slots |-> [clients[s] EXCEPT !.active = @ /\ s \notin {r \in Slots : clients[r].active /\ clients[r].late}]]
      BY <1>3 DEF PingRound
    <3>2. \A s \in Slots : \A b \in BOOLEAN : [clients[s] EXCEPT !.active = b] \in Entries
      BY <2>2 DEF Entries
    <3>3. \A s \in Slots : (clients[s].active /\ s \notin {r \in Slots : clients[r].active /\ clients[r].late}) \in BOOLEAN
      OBVIOUS
    <3> QED
      BY <3>1, <3>2, <3>3
  <2>4. PICK D : Send(D, Ping)
    BY <1>3 DEF PingRound
  <2>5. Ping \in Messages
    BY DEF Ping, Messages, Ops, Names
  <2>6. /\ inbox' = inbox /\ outbox' \in [Users -> Seq(Messages)] /\ peer' \in [Users -> PeerStates]
        /\ serverUp' \in BOOLEAN
    BY <2>4, <2>5, SendType
  <2>7. pings' \in 0 .. MaxPings /\ lapses' \subseteq {"overrun", "dropped"}
    BY <1>3, BoundsAssumption DEF PingRound
  <2> QED
    BY <1>3, <2>1, <2>3, <2>6, <2>7 DEF PingRound, Entries, PeerStates
<1>4. ASSUME NEW s \in Slots, Expire(s) PROVE TypeOK'
  <2>1. clients \in [Slots -> Entries]
    BY DEF Entries
  <2>2. [clients[s] EXCEPT !.late = TRUE] \in Entries
    BY <2>1 DEF Entries
  <2>3. clients' \in [Slots -> Entries]
    BY <1>4, <2>1, <2>2 DEF Expire
  <2> QED
    BY <1>4, <2>3 DEF Expire, streams, counters, Entries
<1> QED
  BY <1>1, <1>2, <1>3, <1>4, <1>5 DEF AcceptLoop

-----------------------------------------------------------------------------
(* Descriptors and connections. *)

Base == TypeOK /\ AcceptedOnce /\ OneDescriptor /\ HeldByOwnDescriptor /\ Assigned

(* Descriptors are at most closed. *)
LEMMA HandlerOnlyCloses ==
    ASSUME TypeOK, NEW t \in Users, Handler(t)
    PROVE  /\ UNCHANGED <<client_socket, accepted, backlog, lapses>>
           /\ \/ UNCHANGED fdTable /\ threads[t].pc \notin {"full", "close"}
              \/ Close(threads[t].fd) /\ threads[t].pc \in {"full", "close"}
           /\ \A u \in Users : peer'[u] = "off" <=> peer[u] = "off"
<1>1. ASSUME NEW D, Send(D, Reply(t)) PROVE \A u \in Users : peer'[u] = "off" <=> peer[u] = "off"
  BY <1>1, ReplyType, SendType
<1>2. CASE List(t) \/ Deliver(t)
  BY <1>1, <1>2 DEF List, Deliver, counters
<1> QED
  BY <1>2 DEF Handler, CopyArg, RecvEnter, RecvData, RecvFail, Register, CloseFull, Check, Log, Format,
              CloseSocket, Deact, streams, counters

(* A handler keeps connections and descriptors together. *)
LEMMA HandlerKeepsBase ==
    ASSUME Base, NEW t \in Users, Handler(t) PROVE Base'
<1>1. TypeOK' /\ Moves(t)
  BY HandlerKeepsType, HandlerMoves DEF Base
<1>2. threads \in [Users -> ThreadStates] /\ fdTable \in [Fds -> Names]
  BY DEF Base, TypeOK, ThreadStates
<1>3. \A u \in Users \ {t} : threads'[u] = threads[u]
  BY <1>1, <1>2 DEF Moves
<1>4. \A f \in Fds : fdTable'[f] \in {fdTable[f], None}
  BY <1>2, HandlerOnlyCloses DEF Base, Close
<1>5. /\ UNCHANGED <<client_socket, accepted, backlog>>
      /\ \A u \in Users : peer'[u] = "off" <=> peer[u] = "off"
  BY HandlerOnlyCloses DEF Base
<1>6. /\ threads'[t].pc \notin {"none", "new"}
      /\ threads[t].pc = "new" => threads'[t].held = None
      /\ threads[t].pc # "new" => threads'[t].fd = threads[t].fd
  <2>1. threads[t].pc = "new" => threads'[t].held \in {threads[t].held, None}
    BY <1>1 DEF Moves
  <2> QED
    BY <1>1, <2>1 DEF Moves, Base, Assigned
<1>7. \/ threads'[t].held \in {threads[t].held, None}
      \/ threads[t].fd \in Fds /\ threads'[t].held = fdTable[threads[t].fd]
  BY <1>1 DEF Moves, Conn
<1>8. AcceptedOnce'
  <2>1. \A u \in Users : Unknown(u) => Unknown(u)'
    <3> SUFFICES ASSUME NEW u \in Users, Unknown(u) PROVE Unknown(u)'
      OBVIOUS
    <3>1. u # t /\ threads'[u].pc = "none" /\ accepted' # u
      BY <1>1, <1>3, <1>5 DEF Unknown, Moves
    <3>2. \A f \in Fds : fdTable'[f] # u
      BY <1>4, Zero DEF Unknown
    <3>3. \A v \in Users : threads'[v].held # u
      BY <1>3, <1>6, <1>7, Zero DEF Unknown
    <3> QED
      BY <3>1, <3>2, <3>3 DEF Unknown
  <2>2. accepted # t
    BY <1>1 DEF Moves, Base, AcceptedOnce
  <2> QED
    BY <1>3, <1>5, <2>1, <2>2 DEF Base, AcceptedOnce
<1>9. OneDescriptor'
  BY <1>4 DEF Base, OneDescriptor
<1>10. HeldByOwnDescriptor'
  <2> SUFFICES ASSUME NEW u \in Users, NEW f \in Fds, threads'[u].held # None, fdTable'[f] = threads'[u].held
               PROVE  f = threads'[u].fd
    BY DEF HeldByOwnDescriptor
  <2>1. fdTable[f] = threads'[u].held
    BY <1>4
  <2>2. CASE u # t
    BY <1>3, <2>1, <2>2 DEF Base, HeldByOwnDescriptor
  <2>3. CASE u = t
    BY <1>6, <1>7, <2>1, <2>3 DEF Base, HeldByOwnDescriptor, OneDescriptor
  <2> QED
    BY <2>2, <2>3
<1>11. Assigned'
  <2>2. threads'[t].pc = "list" => threads'[t].cmd.op = "LIST"
    BY <1>1 DEF Moves
  <2>3. threads[t].pc # "none"
    BY <1>1 DEF Moves
  <2> QED
    BY <1>3, <1>5, <1>6, <2>2, <2>3 DEF Base, Assigned
<1> QED
  BY <1>1, <1>8, <1>9, <1>10, <1>11 DEF Base

(* accept() gives the connection the one descriptor it will ever have. *)
LEMMA AcceptKeepsBase ==
    ASSUME Base, NEW u \in Users, Accept(u) PROVE Base'
<1>1. TypeOK'
  BY OthersKeepType DEF Base, AcceptLoop
<1>2. PICK f \in Fds : fdTable[f] = None /\ fdTable' = [fdTable EXCEPT ![f] = u] /\ client_socket' = f
  BY DEF Accept, Free
<1>3. /\ accepted = None /\ accepted' = u /\ u \in backlog /\ backlog' = backlog \ {u} /\ Unknown(u) /\ peer[u] # "off"
      /\ UNCHANGED <<clients, threads, peer>>
  BY DEF Accept, streams, Base, AcceptedOnce
<1>4. fdTable \in [Fds -> Names] /\ u # None
  BY Zero DEF Base, TypeOK
<1>5. \A g \in Fds : fdTable'[g] = IF g = f THEN u ELSE fdTable[g]
  BY <1>2, <1>4
<1>6. AcceptedOnce'
  <2>1. \A v \in Users \ {u} : Unknown(v) => Unknown(v)'
    BY <1>3, <1>5 DEF Unknown
  <2> QED
    BY <1>3, <2>1 DEF Base, AcceptedOnce, Unknown
<1>7. OneDescriptor'
  BY <1>3, <1>5 DEF Base, OneDescriptor, Unknown
<1>8. HeldByOwnDescriptor'
  BY <1>3, <1>5 DEF Base, HeldByOwnDescriptor, Unknown
<1>9. Assigned'
  BY <1>2, <1>3 DEF Base, Assigned
<1> QED
  BY <1>1, <1>6, <1>7, <1>8, <1>9 DEF Base

(* A failed accept() touches main's variable only. *)
LEMMA FailKeepsBase ==
    ASSUME Base, AcceptFails PROVE Base'
<1>1. TypeOK'
  BY OthersKeepType DEF Base, AcceptLoop
<1>2. accepted' = None /\ UNCHANGED <<fdTable, accepted, backlog, clients, threads, peer>>
  BY DEF AcceptFails, streams
<1> QED
  BY <1>1, <1>2 DEF Base, AcceptedOnce, Unknown, OneDescriptor, HeldByOwnDescriptor, Assigned

(* A thread is started once for each connection. *)
LEMMA SpawnKeepsBase == Base /\ Spawn => Base'
<1> SUFFICES ASSUME Base, Spawn PROVE Base'
  OBVIOUS
<1>1. TypeOK'
  BY OthersKeepType DEF Base, AcceptLoop
<1>2. /\ accepted \in Users /\ accepted' = None /\ threads[accepted].pc = "none"
      /\ UNCHANGED <<fdTable, client_socket, clients, backlog, peer>>
  BY DEF Spawn, streams, Base, TypeOK, Names, AcceptedOnce
<1>3. threads \in [Users -> ThreadStates]
  BY DEF Base, TypeOK, ThreadStates
<1>4. /\ \A t \in Users \ {accepted} : threads'[t] = threads[t]
      /\ threads'[accepted] = [threads[accepted] EXCEPT !.pc = "new"]
  BY <1>2, <1>3 DEF Spawn
<1>5. /\ \A t \in Users : threads'[t].held = threads[t].held /\ threads'[t].fd = threads[t].fd
      /\ \A t \in Users \ {accepted} : threads'[t].pc = threads[t].pc /\ threads'[t].cmd = threads[t].cmd
      /\ threads'[accepted].pc = "new"
  BY <1>2, <1>3, <1>4 DEF ThreadStates
<1>6. AcceptedOnce'
  <2>1. \A u \in Users : Unknown(u) => Unknown(u)'
    BY <1>2, <1>5, Zero DEF Unknown
  <2> QED
    BY <1>2, <2>1, Zero DEF Base, AcceptedOnce
<1>7. HeldByOwnDescriptor'
  BY <1>2, <1>5 DEF Base, HeldByOwnDescriptor
<1>8. Assigned'
  BY <1>2, <1>5, Zero DEF Base, Assigned
<1> QED
  BY <1>1, <1>2, <1>6, <1>7, <1>8 DEF Base, OneDescriptor

(* A ping round closes descriptors and empties slots. *)
LEMMA PingKeepsBase ==
    ASSUME Base, PingRound \/ \E s \in Slots : Expire(s) PROVE Base'
<1>1. TypeOK'
  BY OthersKeepType DEF Base
<1>2. UNCHANGED <<threads, accepted, backlog, client_socket>>
  BY DEF PingRound, Expire
<1>3. \A f \in Fds : fdTable'[f] \in {fdTable[f], None}
  BY DEF PingRound, Expire, Base, TypeOK
<1>5. \A u \in Users : peer'[u] = "off" <=> peer[u] = "off"
  <2>1. Ping \in Messages
    BY DEF Ping, Messages, Ops, Names
  <2>2. CASE PingRound
    BY <2>1, <2>2, SendType DEF PingRound, Base
  <2>3. CASE ~PingRound
    BY <2>3 DEF Expire, streams
  <2> QED
    BY <2>2, <2>3
<1>6. AcceptedOnce'
  <2>1. \A u \in Users : Unknown(u) => Unknown(u)'
    BY <1>2, <1>3, Zero DEF Unknown
  <2> QED
    BY <1>2, <1>5, <2>1 DEF Base, AcceptedOnce
<1> QED
  BY <1>1, <1>2, <1>3, <1>6 DEF Base, OneDescriptor, HeldByOwnDescriptor, Assigned

(* A user connects once. *)
LEMMA ClientKeepsBase ==
    ASSUME Base, NEW u \in Users, Client(u) PROVE Base'
<1>1. TypeOK'
  BY ClientKeepsType DEF Base
<1>2. UNCHANGED <<fdTable, client_socket, accepted, clients, threads>>
  BY DEF Client, Connect, SendName, Line, Receive, CtrlC, Die, Reset, server
<1>3. /\ \/ backlog' = backlog
         \/ backlog' = backlog \cup {u} /\ peer[u] = "off" /\ peer'[u] # "off"
      /\ \A v \in Users : peer'[v] = "off" => peer[v] = "off"
  <2>1. peer \in [Users -> PeerStates]
    BY DEF Base, TypeOK, PeerStates
  <2>2. CASE Connect(u)
    BY <2>1, <2>2 DEF Connect
  <2>3. CASE SendName(u) \/ CtrlC(u) \/ Die(u) \/ Reset(u)
    <3>1. UNCHANGED backlog
      BY <2>3 DEF SendName, CtrlC, Die, Reset
    <3>2. \E p \in PeerStates \ {"off"} : peer' = [peer EXCEPT ![u] = p]
      BY <2>3 DEF SendName, CtrlC, Die, Reset, Hangup, PeerStates
    <3> QED
      BY <2>1, <3>1, <3>2
  <2>4. CASE Line(u) \/ Receive(u)
    <3>1. UNCHANGED <<backlog, peer>>
      BY <2>4 DEF Line, Receive
    <3> QED
      BY <3>1
  <2> QED
    BY <2>2, <2>3, <2>4 DEF Client
<1>4. AcceptedOnce'
  BY <1>2, <1>3 DEF Base, AcceptedOnce, Unknown
<1> QED
  BY <1>1, <1>2, <1>4 DEF Base, OneDescriptor, HeldByOwnDescriptor, Assigned

(* Every step keeps connections and descriptors together. *)
LEMMA NextBase == Base /\ [Next]_vars => Base'
<1> SUFFICES ASSUME Base, [Next]_vars PROVE Base'
  OBVIOUS
<1>1. CASE UNCHANGED vars
  BY <1>1 DEF vars, Base, TypeOK, AcceptedOnce, Unknown, OneDescriptor, HeldByOwnDescriptor, Assigned
<1> QED
  BY <1>1, ClientKeepsBase, HandlerKeepsBase, AcceptKeepsBase, FailKeepsBase, SpawnKeepsBase, PingKeepsBase DEF Next, AcceptLoop

-----------------------------------------------------------------------------
(* Slots and threads. *)

(* How a handler's step changes the table. *)
Fills(t, s) ==
    /\ threads[t].pc = "register" /\ s \in Slots /\ ~clients[s].active
    /\ threads'[t].pc = "check" /\ threads'[t].idx = s
    /\ clients'[s].active /\ clients'[s].name = threads[t].name_buffer
    /\ \A r \in Slots \ {s} : clients'[r] = clients[r]
SameEntries == \A s \in Slots : clients'[s].active = clients[s].active /\ clients'[s].name = clients[s].name
Clears(t) ==
    /\ threads[t].pc = "deact" /\ ~clients'[threads[t].idx].active
    /\ \A s \in Slots \ {threads[t].idx} : clients'[s] = clients[s]

(* A handler fills the first vacant slot, clears its own at the end, and is
   in its loop in between. *)
LEMMA HandlerSlots ==
    ASSUME TypeOK, Assigned, NEW t \in Users, Handler(t)
    PROVE  /\ \/ SameEntries /\ (threads'[t].pc \in InLoop => threads[t].pc \in InLoop)
              \/ \E s \in Slots : Fills(t, s)
              \/ Clears(t) /\ threads'[t].pc = "ended"
           /\ threads[t].pc \in InLoop =>
                 /\ threads'[t].idx = threads[t].idx
                 /\ threads'[t].pc \in InLoop \/ ~clients'[threads[t].idx].active
<1>1. clients \in [Slots -> Entries] /\ threads \in [Users -> ThreadStates] /\ threads[t] \in ThreadStates
  BY DEF TypeOK, Entries, ThreadStates
<1>2. CASE CopyArg(t) \/ CloseFull(t) \/ Check(t) \/ Format(t) \/ CloseSocket(t)
  <2>1. SameEntries
    BY <1>2 DEF CopyArg, CloseFull, Check, Format, CloseSocket, SameEntries
  <2>2. threads'[t].pc \in InLoop => threads[t].pc \in InLoop
    BY <1>1, <1>2 DEF CopyArg, CloseFull, Check, Format, CloseSocket, InLoop, ThreadStates
  <2>3. threads[t].pc \in InLoop => threads'[t].idx = threads[t].idx
    BY <1>1, <1>2 DEF CopyArg, CloseFull, Check, Format, CloseSocket, ThreadStates
  <2>4. threads[t].pc \in InLoop => threads'[t].pc \in InLoop \/ ~clients'[threads[t].idx].active
    BY <1>1, <1>2 DEF CopyArg, CloseFull, Check, Format, CloseSocket, InLoop, ThreadStates
  <2> QED
    BY <2>1, <2>2, <2>3, <2>4
<1>9. ASSUME threads[t].pc \in {"hello", "recv"}, RecvError(t, "close")
      PROVE  /\ threads'[t].idx = threads[t].idx
             /\ (threads'[t].pc \in InLoop <=> threads[t].pc \in InLoop)
  <2>1. CASE threads[t].pc = "hello"
    <3>1. PICK name \in Names : threads' = [threads EXCEPT ![t] =
             [threads[t] EXCEPT !.held = None, !.pc = "register", !.name_buffer = name]]
      BY <1>9, <2>1, RecvErrorForms
    <3> QED
      BY <1>1, <2>1, <3>1 DEF InLoop, ThreadStates
  <2>2. CASE threads[t].pc = "recv"
    <3>1. threads' = [threads EXCEPT ![t] = [threads[t] EXCEPT !.held = None, !.pc = "close"]]
      BY <1>9, <2>2, RecvErrorForms
    <3> QED
      BY <1>1, <2>2, <3>1 DEF InLoop, ThreadStates
  <2> QED
    BY <1>9, <2>1, <2>2
<1>10. CASE RecvEnter(t) \/ RecvFail(t)
  <2>1. SameEntries /\ threads[t].pc \in {"hello", "recv"}
    BY <1>10 DEF RecvEnter, RecvFail, SameEntries
  <2>2. CASE threads' = [threads EXCEPT ![t].held = Conn(threads[t].fd)]
    BY <1>1, <2>1, <2>2 DEF ThreadStates
  <2> QED
    BY <1>9, <1>10, <2>1, <2>2 DEF RecvEnter, RecvFail
<1>3. CASE RecvData(t)
  <2>1. SameEntries
    BY <1>3 DEF RecvData, SameEntries
  <2>2. CASE threads[t].pc = "hello"
    BY <1>1, <1>3, <2>1, <2>2 DEF RecvData, InLoop, ThreadStates
  <2>3. CASE threads[t].pc # "hello"
    BY <1>1, <1>3, <2>1, <2>3 DEF RecvData, InLoop, ThreadStates
  <2> QED
    BY <2>2, <2>3
<1>4. CASE Register(t)
  <2>1. threads[t].pc = "register" /\ threads[t].pc \notin InLoop
    BY <1>4 DEF Register, InLoop
  <2>2. CASE Vacant = {}
    BY <1>1, <1>4, <2>1, <2>2 DEF Register, InLoop, SameEntries, ThreadStates
  <2>3. CASE Vacant # {}
    <3>1. PICK s \in Vacant :
             /\ clients' = [clients EXCEPT ![s] =
                   [socket |-> threads[t].fd, name |-> threads[t].name_buffer, active |-> TRUE, late |-> FALSE]]
             /\ threads' = [threads EXCEPT ![t].pc = "check", ![t].idx = s]
      BY <1>4, <2>3 DEF Register
    <3>2. Fills(t, s)
      BY <1>1, <2>1, <3>1 DEF Fills, Vacant, ThreadStates
    <3> QED
      BY <2>1, <3>1, <3>2 DEF Vacant
  <2> QED
    BY <2>2, <2>3
<1>5. ASSUME Again(t) PROVE threads'[t].pc = "check" /\ threads'[t].idx = threads[t].idx
  BY <1>1, <1>5 DEF Again, Unborn
<1>6. CASE Log(t)
  <2>1. threads[t].idx \in Slots /\ threads[t].pc \in InLoop
    BY <1>6 DEF Log, TypeOK, InLoop
  <2>2. clients' = [clients EXCEPT ![threads[t].idx].late = FALSE]
    BY <1>6 DEF Log
  <2>3. SameEntries
    BY <1>1, <2>1, <2>2 DEF SameEntries, Entries
  <2>4. threads'[t].pc \in InLoop /\ threads'[t].idx = threads[t].idx
    <3>1. CASE Again(t)
      BY <1>5, <3>1 DEF InLoop
    <3>2. CASE ~Again(t)
      BY <1>1, <1>6, <3>2 DEF Log, InLoop, ThreadStates
    <3> QED
      BY <3>1, <3>2
  <2> QED
    BY <2>1, <2>3, <2>4
<1>7. CASE List(t) \/ Deliver(t)
  BY <1>5, <1>7 DEF List, Deliver, InLoop, SameEntries
<1>8. CASE Deact(t)
  <2>1. threads[t].idx \in Slots /\ threads[t].pc = "deact"
    BY <1>8 DEF Deact, TypeOK, InLoop
  <2>2. clients' = [clients EXCEPT ![threads[t].idx].active = FALSE]
    BY <1>8 DEF Deact
  <2>3. Clears(t)
    BY <1>1, <2>1, <2>2 DEF Clears, Entries
  <2>4. threads'[t].pc = "ended" /\ threads'[t].idx = threads[t].idx
    BY <1>1, <1>8 DEF Deact, ThreadStates
  <2> QED
    BY <2>1, <2>3, <2>4 DEF Clears
<1> QED
  BY <1>2, <1>3, <1>4, <1>6, <1>7, <1>8, <1>10 DEF Handler

(* Rounds of pings fill no slot and move no thread. *)
LEMMA PingSlots ==
    ASSUME TypeOK, PingRound \/ \E s \in Slots : Expire(s)
    PROVE  /\ threads' = threads
           /\ \A s \in Slots : clients'[s].active => clients[s].active
           /\ Undropped' => SameEntries /\ fdTable' = fdTable /\ lapses' = lapses
<1>1. clients \in [Slots -> Entries] /\ fdTable \in [Fds -> Names]
  BY DEF TypeOK, Entries
<1>2. ASSUME NEW r \in Slots, Expire(r)
      PROVE  /\ threads' = threads
             /\ \A s \in Slots : clients'[s].active => clients[s].active
             /\ Undropped' => SameEntries /\ fdTable' = fdTable /\ lapses' = lapses
  <2>1. clients' = [clients EXCEPT ![r].late = TRUE]
    BY <1>2 DEF Expire
  <2>2. SameEntries
    BY <1>1, <2>1 DEF SameEntries, Entries
  <2> QED
    BY <1>2, <2>2 DEF Expire, SameEntries, counters
<1>3. CASE PingRound
  <2> DEFINE Late == {s \in Slots : clients[s].active /\ clients[s].late}
  <2>1. /\ threads' = threads
        /\ clients' = [s \in Slots |-> [clients[s] EXCEPT !.active = @ /\ s \notin Late]]
        /\ fdTable' = [f \in Fds |-> IF \E s \in Late : clients[s].socket = f THEN None ELSE fdTable[f]]
        /\ lapses' = IF Late = {} THEN lapses ELSE lapses \cup {"dropped"}
    BY <1>3 DEF PingRound
  <2>2. \A s \in Slots : /\ clients'[s].name = clients[s].name
                         /\ clients'[s].active = (clients[s].active /\ s \notin Late)
    <3> HIDE DEF Late
    <3> QED
      BY <1>1, <2>1 DEF Entries
  <2>3. ASSUME Undropped' PROVE SameEntries /\ fdTable' = fdTable /\ lapses' = lapses
    <3>1. Late = {} /\ lapses' = lapses
      BY <2>1, <2>3 DEF Undropped
    <3> HIDE DEF Late
    <3>2. fdTable' = fdTable
      BY <1>1, <2>1, <3>1
    <3>3. \A s \in Slots : clients[s].active \in BOOLEAN
      BY <1>1 DEF Entries
    <3> QED
      BY <2>2, <3>1, <3>2, <3>3 DEF SameEntries
  <2> QED
    BY <2>1, <2>2, <2>3
<1> QED
  BY <1>2, <1>3

(* No step leaves a slot active without a thread in its loop. *)
LEMMA NextActiveSlot ==
    ASSUME Base, ActiveSlotHasThread, [Next]_vars PROVE ActiveSlotHasThread'
<1>1. ASSUME NEW t \in Users, Handler(t) PROVE ActiveSlotHasThread'
  <2> SUFFICES ASSUME NEW s \in Slots, clients'[s].active
               PROVE  \E u \in Users : threads'[u].idx = s /\ threads'[u].pc \in InLoop
    BY DEF ActiveSlotHasThread
  <2>1. \A u \in Users \ {t} : threads'[u] = threads[u]
    BY <1>1, HandlerMoves DEF Base, Moves, TypeOK
  <2>2. CASE \E r \in Slots : Fills(t, r) /\ r = s
    BY <2>2 DEF Fills, InLoop
  <2>3. CASE ~\E r \in Slots : Fills(t, r) /\ r = s
    <3>1. clients[s].active
      BY <1>1, <2>3, HandlerSlots DEF Base, SameEntries, Fills, Clears
    <3>2. PICK u \in Users : threads[u].idx = s /\ threads[u].pc \in InLoop
      BY <3>1 DEF ActiveSlotHasThread
    <3> QED
      BY <1>1, <2>1, <3>2, HandlerSlots DEF Base
  <2> QED
    BY <2>2, <2>3
<1>2. CASE PingRound \/ \E s \in Slots : Expire(s)
  BY <1>2, PingSlots DEF Base, ActiveSlotHasThread
<1>3. CASE Spawn
  <2>1. clients' = clients /\ accepted \in Users /\ threads[accepted].pc = "none"
    BY <1>3 DEF Spawn, Base, AcceptedOnce, TypeOK, Names
  <2>2. \A u \in Users \ {accepted} : threads'[u] = threads[u]
    BY <1>3 DEF Spawn, Base, TypeOK
  <2>3. threads[accepted].pc \notin InLoop
    BY <2>1 DEF InLoop
  <2> QED
    BY <2>1, <2>2, <2>3 DEF ActiveSlotHasThread
<1>4. CASE UNCHANGED <<clients, threads>>
  BY <1>4 DEF ActiveSlotHasThread
<1>5. CASE (\E u \in Users : Client(u) \/ Accept(u)) \/ AcceptFails \/ UNCHANGED vars
  BY <1>4, <1>5 DEF Client, Connect, SendName, Line, Receive, CtrlC, Die, Reset, server, Accept, AcceptFails, vars
<1> QED
  BY <1>1, <1>2, <1>3, <1>5 DEF Next, AcceptLoop

-----------------------------------------------------------------------------
(* Streams. *)

(* What a handler sends, and to whom. *)
SendsTo(t, u) ==
    \/ List(t) /\ u = Conn(threads[t].fd)
    \/ Deliver(t) /\ (threads[t].cmd.op = "2ALL" => u \in Reached(BroadcastSlots(t)))

(* send() appends to streams. *)
LEMMA SendAppends ==
    ASSUME TypeOK, NEW D, NEW m \in Messages, Send(D, m), NEW u \in Users, NEW k \in 1 .. Len(outbox'[u])
    PROVE  \/ k \in 1 .. Len(outbox[u]) /\ outbox'[u][k] = outbox[u][k]
           \/ u \in D /\ outbox'[u][k] = m
<1>1. outbox[u] \in Seq(Messages) /\ Len(outbox[u]) \in Nat
  BY DEF TypeOK
<1>2. outbox'[u] = IF u \in D /\ Connected(u) THEN Append(outbox[u], m) ELSE outbox[u]
  BY DEF Send
<1>3. CASE u \in D /\ Connected(u)
  <2>1. Len(outbox'[u]) = Len(outbox[u]) + 1
    BY <1>1, <1>2, <1>3
  <2>2. k \in 1 .. Len(outbox[u]) \/ k = Len(outbox[u]) + 1
    BY <1>1, <2>1
  <2> QED
    BY <1>1, <1>2, <1>3, <2>2
<1>4. CASE ~(u \in D /\ Connected(u))
  BY <1>2, <1>4
<1> QED
  BY <1>3, <1>4

(* Whatever is under way to a user was under way before, is a ping, or has
   just been sent by a handler. *)
LEMMA OutboxStep ==
    ASSUME Base, [Next]_vars, NEW u \in Users, NEW k \in 1 .. Len(outbox'[u])
    PROVE  \/ \E j \in 1 .. Len(outbox[u]) : outbox'[u][k] = outbox[u][j]
           \/ outbox'[u][k] = Ping
           \/ \E t \in Users : SendsTo(t, u) /\ outbox'[u][k] = Reply(t)
<1>1. outbox \in [Users -> Seq(Messages)] /\ Ping \in Messages
  BY DEF Base, TypeOK, Ping, Messages, Ops, Names
<1>2. CASE PingRound
  <2>1. PICK D : Send(D, Ping)
    BY <1>2 DEF PingRound
  <2> QED
    BY <1>1, <2>1, SendAppends DEF Base
<1>3. ASSUME NEW t \in Users, List(t)
      PROVE  \/ \E j \in 1 .. Len(outbox[u]) : outbox'[u][k] = outbox[u][j]
             \/ SendsTo(t, u) /\ outbox'[u][k] = Reply(t)
  <2>1. Send({Conn(threads[t].fd)} \ {None}, Reply(t))
    BY <1>3 DEF List
  <2> QED
    BY <1>3, <2>1, SendAppends, ReplyType DEF Base, SendsTo
<1>4. ASSUME NEW t \in Users, Deliver(t)
      PROVE  \/ \E j \in 1 .. Len(outbox[u]) : outbox'[u][k] = outbox[u][j]
             \/ SendsTo(t, u) /\ outbox'[u][k] = Reply(t)
  <2>1. PICK D : Send(D, Reply(t)) /\ (threads[t].cmd.op = "2ALL" => D = Reached(BroadcastSlots(t)))
    BY <1>4 DEF Deliver
  <2> QED
    BY <1>4, <2>1, SendAppends, ReplyType DEF Base, SendsTo
<1>5. ASSUME NEW v \in Users, Client(v) PROVE \E j \in 1 .. Len(outbox[u]) : outbox'[u][k] = outbox[u][j]
  <2>1. CASE Receive(v)
    <3>1. PICK n \in 1 .. Len(outbox[v]) : outbox' = [outbox EXCEPT ![v] = SubSeq(@, n + 1, Len(@))]
      BY <2>1 DEF Receive
    <3>2. outbox[v] \in Seq(Messages) /\ Len(outbox[v]) \in Nat
      BY <1>1
    <3>3. CASE u = v
      <4>1. Len(outbox'[u]) = Len(outbox[u]) - n /\ outbox'[u][k] = outbox[u][n + k]
        BY <1>1, <3>1, <3>2, <3>3, RestOfStream
      <4> QED
        BY <3>2, <3>3, <4>1
    <3> QED
      BY <1>1, <3>1, <3>3
  <2>2. CASE CtrlC(v) \/ Die(v)
    BY <1>1, <2>2 DEF CtrlC, Die, Hangup
  <2> QED
    BY <1>5, <2>1, <2>2 DEF Client, Connect, SendName, Line, Reset
<1>6. CASE UNCHANGED outbox
  BY <1>6
<1>7. CASE (\E t \in Users : Handler(t) /\ ~List(t) /\ ~Deliver(t)) \/ AcceptLoop \/ (\E s \in Slots : Expire(s))
           \/ UNCHANGED vars
  BY <1>6, <1>7 DEF Handler, CopyArg, RecvEnter, RecvData, RecvFail, Register, CloseFull, Check, Log, Format,
        CloseSocket, Deact, AcceptLoop, Accept, AcceptFails, Spawn, Expire, streams, vars
<1> QED
  BY <1>2, <1>3, <1>4, <1>5, <1>7 DEF Next

(* A broadcast does not reach the connection its command has come on: no
   other descriptor than the thread's names it. *)
LEMMA BroadcastSpares ==
    ASSUME Base, NEW t \in Users, threads[t].held # None PROVE threads[t].held \notin Reached(BroadcastSlots(t))
<1> SUFFICES ASSUME NEW s \in BroadcastSlots(t), Conn(clients[s].socket) = threads[t].held PROVE FALSE
  BY DEF Reached
<1>1. clients[s].socket \in Fds /\ fdTable[clients[s].socket] = threads[t].held /\ clients[s].socket # threads[t].fd
  BY DEF BroadcastSlots, Conn
<1> QED
  BY <1>1 DEF Base, HeldByOwnDescriptor

(* No step sends a 2ALL back. *)
LEMMA NextNoEcho ==
    ASSUME Base, NoEcho, [Next]_vars PROVE NoEcho'
<1> SUFFICES ASSUME NEW u \in Users, NEW k \in 1 .. Len(outbox'[u]), outbox'[u][k].op = "2ALL"
             PROVE  outbox'[u][k].origin # u
  BY DEF NoEcho
<1>1. ASSUME NEW t \in Users, SendsTo(t, u), outbox'[u][k] = Reply(t) PROVE outbox'[u][k].origin # u
  <2>1. threads[t].cmd.op = "2ALL" /\ outbox'[u][k].origin = threads[t].held
    BY <1>1 DEF Reply
  <2>2. ~List(t)
    BY <2>1 DEF List, Base, Assigned
  <2>3. u \in Reached(BroadcastSlots(t))
    BY <1>1, <2>1, <2>2 DEF SendsTo
  <2> QED
    BY <2>1, <2>3, BroadcastSpares, Zero
<1>2. Ping.op # "2ALL"
  BY DEF Ping
<1> QED
  BY <1>1, <1>2, OutboxStep DEF NoEcho

(* Nothing is connected, started or sent at first. *)
LEMMA InitAlways == Init => Always
<1> SUFFICES ASSUME Init PROVE Always
  OBVIOUS
<1>1. /\ \A t \in Users : threads[t].pc = "none" /\ threads[t].held = None
      /\ \A f \in Fds : fdTable[f] = None
      /\ \A s \in Slots : ~clients[s].active
      /\ accepted = None /\ backlog = {}
  BY DEF Init, Unborn
<1>2. AcceptedOnce
  BY <1>1, Zero DEF AcceptedOnce, Unknown
<1>3. OneDescriptor /\ HeldByOwnDescriptor /\ Assigned /\ ActiveSlotHasThread
  BY <1>1 DEF OneDescriptor, HeldByOwnDescriptor, Assigned, ActiveSlotHasThread
<1>4. \A u \in Users : Len(outbox[u]) = 0
  BY DEF Init
<1>5. NoEcho
  BY <1>4 DEF NoEcho
<1> QED
  BY <1>2, <1>3, <1>5, InitType DEF Always

(* What holds whatever happens is kept by every step. *)
LEMMA NextAlways == Always /\ [Next]_vars => Always'
  BY NextBase, NextActiveSlot, NextNoEcho DEF Always, Base

-----------------------------------------------------------------------------
(* While no client is dropped. *)

(* A name, once received, stays in its buffer, and the name a thread signs
   with is the one its slot has. *)
NamesKept(t) ==
    LET th == threads[t]  new == threads'[t] IN
    /\ th.pc # "hello" => new.name_buffer = th.name_buffer
    /\ new.pc = "send" => th.pc = "format" /\ new.from = clients[th.idx].name

(* Every step of a handler keeps the names like that. *)
LEMMA HandlerNames ==
    ASSUME TypeOK, NEW t \in Users, Handler(t) PROVE NamesKept(t)
<1> DEFINE th == threads[t]
<1>1. threads \in [Users -> ThreadStates] /\ th \in ThreadStates
  BY DEF TypeOK, ThreadStates
<1> USE DEF NamesKept
<1>2. CASE CopyArg(t) \/ CloseFull(t) \/ Check(t) \/ Format(t) \/ CloseSocket(t) \/ Deact(t)
  BY <1>1, <1>2 DEF CopyArg, CloseFull, Check, Format, CloseSocket, Deact, ThreadStates
<1>3. CASE RecvEnter(t) \/ RecvFail(t)
  <2>1. CASE threads' = [threads EXCEPT ![t].held = Conn(th.fd)]
    BY <1>1, <1>3, <2>1 DEF RecvEnter, RecvFail, ThreadStates
  <2>2. CASE RecvError(t, "close")
    <3>1. th.pc \in {"hello", "recv"}
      BY <1>3 DEF RecvEnter, RecvFail
    <3>2. CASE th.pc = "hello"
      <4>1. PICK name \in Names : threads' = [threads EXCEPT ![t] =
               [th EXCEPT !.held = None, !.pc = "register", !.name_buffer = name]]
        BY <2>2, <3>2, RecvErrorForms
      <4> QED
        BY <1>1, <3>2, <4>1 DEF ThreadStates
    <3>3. CASE th.pc = "recv"
      <4>1. threads' = [threads EXCEPT ![t] = [th EXCEPT !.held = None, !.pc = "close"]]
        BY <2>2, <3>3, RecvErrorForms
      <4> QED
        BY <1>1, <3>3, <4>1 DEF ThreadStates
    <3> QED
      BY <3>1, <3>2, <3>3
  <2> QED
    BY <1>3, <2>1, <2>2 DEF RecvEnter, RecvFail
<1>4. CASE RecvData(t)
  <2>1. CASE th.pc = "hello"
    <3>1. threads'[t].pc = "register"
      BY <1>1, <1>4, <2>1 DEF RecvData, ThreadStates
    <3> QED
      BY <2>1, <3>1
  <2>2. CASE th.pc # "hello"
    BY <1>1, <1>4, <2>2 DEF RecvData, ThreadStates
  <2> QED
    BY <2>1, <2>2
<1>5. CASE Register(t)
  <2>1. CASE Vacant = {}
    BY <1>1, <1>5, <2>1 DEF Register, ThreadStates
  <2>2. CASE Vacant # {}
    <3>1. PICK s \in Vacant : threads' = [threads EXCEPT ![t].pc = "check", ![t].idx = s]
      BY <1>5, <2>2 DEF Register
    <3> QED
      BY <1>1, <1>5, <3>1 DEF Register, ThreadStates
  <2> QED
    BY <2>1, <2>2
<1>6. ASSUME Again(t) PROVE NamesKept(t)
  BY <1>1, <1>6 DEF Again, ThreadStates
<1>7. CASE List(t) \/ Deliver(t)
  BY <1>6, <1>7 DEF List, Deliver
<1>8. CASE Log(t)
  <2>1. CASE ~Again(t)
    BY <1>1, <1>8, <2>1 DEF Log, ThreadStates
  <2> QED
    BY <1>6, <2>1
<1> QED
  BY <1>2, <1>3, <1>4, <1>5, <1>7, <1>8 DEF Handler

(* A handler touches no other thread's slot. *)
LEMMA HandlerKeepsSlots ==
    ASSUME Base, Owned, NEW t \in Users, Handler(t) PROVE \A u \in Users : SlotInOrder(u)'
<1>1. Moves(t) /\ NamesKept(t) /\ \A u \in Users : SlotInOrder(u)
  BY HandlerMoves, HandlerNames DEF Base, Owned
<1>2. \A u \in Users \ {t} : threads'[u] = threads[u]
  BY <1>1 DEF Base, TypeOK, Moves
<1>3. \A u \in Users : threads[u].pc \in InLoop => threads[u].idx \in Slots
  BY DEF Base, TypeOK
<1>4. threads[t].pc \in InLoop =>
                 /\ threads'[t].idx = threads[t].idx
                 /\ threads'[t].pc \in InLoop \/ ~clients'[threads[t].idx].active
  BY HandlerSlots DEF Base
<1>8. threads[t].pc # "hello" => threads'[t].name_buffer = threads[t].name_buffer
  BY <1>1 DEF NamesKept
<1>9. threads[t].pc \in InLoop => threads'[t].name_buffer = threads[t].name_buffer
  BY <1>8 DEF InLoop
<1>5. CASE SameEntries /\ (threads'[t].pc \in InLoop => threads[t].pc \in InLoop)
  <2>1. \A u \in Users : threads'[u].pc \in InLoop => threads[u].pc \in InLoop /\ threads'[u].idx = threads[u].idx
                        /\ threads'[u].name_buffer = threads[u].name_buffer
    BY <1>2, <1>4, <1>5, <1>9
  <2> QED
    BY <1>1, <1>3, <1>5, <2>1 DEF SlotInOrder, SameEntries
<1>6. ASSUME NEW s \in Slots, Fills(t, s) PROVE \A u \in Users : SlotInOrder(u)'
  <2>1. \A u \in Users \ {t} : threads[u].pc \in InLoop => threads[u].idx # s
    BY <1>1, <1>6 DEF SlotInOrder, Fills
  <2>2. SlotInOrder(t)'
    BY <1>1, <1>2, <1>6, <1>8, <2>1 DEF SlotInOrder, Fills
  <2>3. ASSUME NEW u \in Users \ {t} PROVE SlotInOrder(u)'
    BY <1>1, <1>2, <1>3, <1>6, <2>1 DEF SlotInOrder, Fills
  <2> QED
    BY <2>2, <2>3
<1>7. CASE Clears(t) /\ threads'[t].pc = "ended"
  <2>1. threads'[t].pc \notin InLoop /\ threads[t].pc \in InLoop
    BY <1>7 DEF Clears, InLoop
  <2>2. \A u \in Users \ {t} : threads[u].pc \in InLoop => threads[u].idx # threads[t].idx
    BY <1>1, <2>1 DEF SlotInOrder
  <2> QED
    BY <1>1, <1>2, <1>3, <1>7, <2>1, <2>2 DEF SlotInOrder, Clears
<1> QED
  BY <1>5, <1>6, <1>7, HandlerSlots DEF Base

(* No step that drops no client gives a slot away. *)
LEMMA NextOwned ==
    ASSUME Base, Owned, [Next]_vars, Undropped' PROVE Owned'
<1>1. ASSUME NEW t \in Users, Handler(t) PROVE Owned'
  <2>1. Moves(t) /\ NamesKept(t)
    BY <1>1, HandlerMoves, HandlerNames DEF Base
  <2>2. \A u \in Users \ {t} : threads'[u] = threads[u]
    BY <2>1 DEF Base, TypeOK, Moves
  <2>3. Signed(t)'
    BY <2>1 DEF NamesKept, Owned, SlotInOrder, InLoop, Signed
  <2>4. \A u \in Users \ {t} : Signed(u)'
    BY <2>2 DEF Owned, Signed
  <2> QED
    BY <1>1, <2>3, <2>4, HandlerKeepsSlots DEF Owned
<1>2. CASE UNCHANGED threads /\ SameEntries
  <2>1. \A t \in Users : SlotInOrder(t)'
    BY <1>2 DEF Owned, SlotInOrder, SameEntries, Base, TypeOK
  <2> QED
    BY <1>2, <2>1 DEF Owned, Signed
<1>3. CASE PingRound \/ \E s \in Slots : Expire(s)
  BY <1>2, <1>3, PingSlots DEF Base
<1>4. CASE Spawn
  <2>1. /\ clients' = clients /\ accepted \in Users
        /\ \A t \in Users \ {accepted} : threads'[t] = threads[t]
        /\ threads'[accepted] = [threads[accepted] EXCEPT !.pc = "new"]
    BY <1>4 DEF Spawn, Base, TypeOK, Names
  <2>2. threads'[accepted].pc = "new"
    <3>1. threads[accepted] \in ThreadStates
      BY <2>1 DEF Base, TypeOK, ThreadStates
    <3> QED
      BY <2>1, <3>1 DEF ThreadStates
  <2>3. \A t \in Users : threads'[t].pc \in InLoop => t # accepted
    BY <2>2 DEF InLoop
  <2>4. \A t \in Users : SlotInOrder(t)'
    BY <2>1, <2>3 DEF Owned, SlotInOrder
  <2>5. \A t \in Users : Signed(t)'
    BY <2>1, <2>2 DEF Owned, Signed
  <2> QED
    BY <2>4, <2>5 DEF Owned
<1>5. CASE (\E u \in Users : Client(u) \/ Accept(u)) \/ AcceptFails \/ UNCHANGED vars
  BY <1>2, <1>5 DEF Client, Connect, SendName, Line, Receive, CtrlC, Die, Reset, server, Accept, AcceptFails, vars,
        SameEntries
<1> QED
  BY <1>1, <1>3, <1>4, <1>5 DEF Next, AcceptLoop

-----------------------------------------------------------------------------
(* While no argument is overwritten and no client dropped. *)

(* What a step of thread t makes of it: how it gets to its next place. *)
Goes(t) ==
    LET th == threads[t]  new == threads'[t] IN
    /\ new.pc \in Serving => th.pc \in (Serving \ {"full", "close"}) \cup {"new"}
    /\ new.pc \in {"deact", "ended"} => \/ th.pc \in {"full", "close", "deact"}
                                        \/ th.pc = "check" /\ ~clients[th.idx].active
    /\ new.pc \in Commanded => th.pc \in Commanded \cup {"recv"} /\ new.held = th.held /\ th.held # None

(* Every step of a handler goes like that. *)
LEMMA HandlerGoes ==
    ASSUME TypeOK, NEW t \in Users, threads[t].pc \in Commanded => threads[t].held # None, Handler(t)
    PROVE  Goes(t)
<1> DEFINE th == threads[t]
<1>1. threads \in [Users -> ThreadStates] /\ th \in ThreadStates
  BY DEF TypeOK, ThreadStates
<1> USE DEF Goes, Serving, Commanded
<1>2. CASE CopyArg(t) \/ CloseFull(t) \/ Check(t) \/ Format(t) \/ CloseSocket(t) \/ Deact(t)
  BY <1>1, <1>2 DEF CopyArg, CloseFull, Check, Format, CloseSocket, Deact, ThreadStates
<1>3. CASE RecvEnter(t) \/ RecvFail(t)
  <2>1. CASE threads' = [threads EXCEPT ![t].held = Conn(th.fd)]
    BY <1>1, <1>3, <2>1 DEF RecvEnter, RecvFail, ThreadStates
  <2>2. CASE RecvError(t, "close")
    <3>1. th.pc \in {"hello", "recv"}
      BY <1>3 DEF RecvEnter, RecvFail
    <3>2. CASE th.pc = "hello"
      <4>1. PICK name \in Names : threads' = [threads EXCEPT ![t] =
               [th EXCEPT !.held = None, !.pc = "register", !.name_buffer = name]]
        BY <2>2, <3>2, RecvErrorForms
      <4> QED
        BY <1>1, <3>2, <4>1 DEF ThreadStates
    <3>3. CASE th.pc = "recv"
      <4>1. threads' = [threads EXCEPT ![t] = [th EXCEPT !.held = None, !.pc = "close"]]
        BY <2>2, <3>3, RecvErrorForms
      <4> QED
        BY <1>1, <3>3, <4>1 DEF ThreadStates
    <3> QED
      BY <3>1, <3>2, <3>3
  <2> QED
    BY <1>3, <2>1, <2>2 DEF RecvEnter, RecvFail
<1>4. CASE RecvData(t)
  <2>1. th.held \in Users /\ inbox[th.held] # << >> /\ th.held # None
    BY <1>1, <1>4 DEF RecvData, ThreadStates, Names
  <2>2. CASE th.pc = "hello"
    BY <1>1, <1>4, <2>1, <2>2 DEF RecvData, ThreadStates
  <2>3. CASE th.pc # "hello"
    BY <1>1, <1>4, <2>1, <2>3 DEF RecvData, ThreadStates
  <2> QED
    BY <2>2, <2>3
<1>5. CASE Register(t)
  <2>1. CASE Vacant = {}
    BY <1>1, <1>5, <2>1 DEF Register, ThreadStates
  <2>2. CASE Vacant # {}
    <3>1. PICK s \in Vacant : threads' = [threads EXCEPT ![t].pc = "check", ![t].idx = s]
      BY <1>5, <2>2 DEF Register
    <3> QED
      BY <1>1, <1>5, <3>1 DEF Register, ThreadStates
  <2> QED
    BY <2>1, <2>2
<1>6. ASSUME Again(t), th.pc \in Commanded PROVE Goes(t)
  <2>1. threads'[t].pc = "check"
    BY <1>1, <1>6 DEF Again
  <2> QED
    BY <1>6, <2>1
<1>7. CASE List(t) \/ Deliver(t)
  BY <1>6, <1>7 DEF List, Deliver
<1>8. CASE Log(t)
  <2>1. CASE Again(t)
    BY <1>6, <1>8, <2>1 DEF Log
  <2>2. CASE ~Again(t)
    BY <1>1, <1>8, <2>2 DEF Log, ThreadStates
  <2> QED
    BY <2>1, <2>2
<1> QED
  BY <1>2, <1>3, <1>4, <1>5, <1>7, <1>8 DEF Handler

(* A handler closes its own connection's descriptor and no other. *)
LEMMA HandlerDescriptors ==
    ASSUME Base, Core, NEW t \in Users, Handler(t)
    PROVE  /\ \A u \in Users \ {t} : \A f \in Fds : fdTable'[f] = u <=> fdTable[f] = u
           /\ threads[t].pc \in {"full", "close"} => \A f \in Fds : fdTable'[f] # t
           /\ threads[t].pc \notin {"full", "close"} => fdTable' = fdTable
<1>1. fdTable \in [Fds -> Names]
  BY DEF Base, TypeOK
<1>2. CASE threads[t].pc \in {"full", "close"}
  <2>1. fdTable' = [f \in Fds |-> IF f = threads[t].fd THEN None ELSE fdTable[f]]
    BY <1>2, HandlerOnlyCloses DEF Base, Close
  <2>2. fdTable[threads[t].fd] = t /\ threads[t].fd \in Fds
    BY <1>2, Zero DEF Core, ThreadInOrder, Serving, Conn
  <2> QED
    BY <1>1, <1>2, <2>1, <2>2, Zero DEF Base, OneDescriptor
<1>3. CASE threads[t].pc \notin {"full", "close"}
  BY <1>3, HandlerOnlyCloses DEF Base
<1> QED
  BY <1>2, <1>3

(* A handler's step leaves all threads in order. *)
LEMMA HandlerKeepsThreads ==
    ASSUME Base, Owned, Core, NEW t \in Users, Handler(t) PROVE \A u \in Users : ThreadInOrder(u)'
<1>1. Moves(t) /\ Goes(t) /\ ThreadInOrder(t) /\ SlotInOrder(t)
  <2>1. threads[t].pc \in Commanded => threads[t].held # None
    BY Zero DEF Core, ThreadInOrder
  <2> QED
    BY <2>1, HandlerMoves, HandlerGoes DEF Base, Owned, Core
<1>2. UNCHANGED <<client_socket, accepted>> /\ \A u \in Users \ {t} : threads'[u] = threads[u]
  BY <1>1, HandlerOnlyCloses DEF Base, TypeOK, Moves
<1>3. ASSUME NEW u \in Users \ {t} PROVE ThreadInOrder(u)'
  <2>1. ThreadInOrder(u) /\ threads'[u] = threads[u]
    BY <1>2 DEF Core
  <2>2. \A fd : Conn(fd)' = u <=> Conn(fd) = u
    BY HandlerDescriptors, Zero DEF Conn
  <2>3. \A f \in Fds : fdTable'[f] = u <=> fdTable[f] = u
    BY HandlerDescriptors
  <2> QED
    BY <1>2, <2>1, <2>2, <2>3 DEF ThreadInOrder
<1>4. ThreadInOrder(t)'
  <2>1. threads'[t].pc \notin {"none", "new"}
    BY <1>1 DEF Moves
  <2>2. threads'[t].pc \in Serving => Conn(threads[t].fd)' = t
    <3> SUFFICES ASSUME threads'[t].pc \in Serving PROVE Conn(threads[t].fd)' = t
      OBVIOUS
    <3>1. threads[t].pc \in (Serving \ {"full", "close"}) \cup {"new"}
      BY <1>1 DEF Goes
    <3>2. fdTable' = fdTable
      BY <3>1, HandlerDescriptors
    <3> QED
      BY <1>1, <3>1, <3>2 DEF Moves, ThreadInOrder, Serving, Conn
  <2>3. threads'[t].pc \in {"deact", "ended"} => \A f \in Fds : fdTable'[f] # t
    <3>1. ~(threads[t].pc = "check" /\ ~clients[threads[t].idx].active)
      BY <1>1 DEF SlotInOrder, InLoop
    <3> QED
      BY <1>1, <3>1, HandlerDescriptors DEF Goes, ThreadInOrder
  <2>4. threads'[t].held \in {t, None}
    BY <1>1 DEF Moves, ThreadInOrder, Serving
  <2>6. threads'[t].pc \in Commanded => threads'[t].held = t
    BY <1>1 DEF Goes, ThreadInOrder
  <2> QED
    BY <2>1, <2>2, <2>3, <2>4, <2>6 DEF ThreadInOrder
<1> QED
  BY <1>3, <1>4

(* main accepts only when all threads have copied their argument; the
   descriptor was nobody's. *)
LEMMA AcceptKeepsCore ==
    ASSUME Base, Core, NEW u \in Users, Accept(u), lapses' = {} PROVE Core'
<1>1. PICK f \in Fds : fdTable[f] = None /\ fdTable' = [fdTable EXCEPT ![f] = u] /\ client_socket' = f
  BY DEF Accept, Free
<1>2. accepted' = u /\ Unknown(u) /\ UNCHANGED <<clients, threads>> /\ \A t \in Users : threads[t].pc # "new"
  BY DEF Accept, Overwritten, Base, AcceptedOnce
<1>3. \A g \in Fds : fdTable'[g] = IF g = f THEN u ELSE fdTable[g]
  BY <1>1 DEF Base, TypeOK
<1>4. \A fd : \A t \in Users : Conn(fd) = t => Conn(fd)' = t
  BY <1>1, <1>3, Zero DEF Conn
<1>5. ASSUME NEW t \in Users PROVE ThreadInOrder(t)'
  <2>1. threads[t].pc \in {"deact", "ended"} => t # u
    BY <1>2 DEF Unknown
  <2> QED
    BY <1>2, <1>3, <1>4, <2>1 DEF Core, ThreadInOrder
<1>6. Conn(client_socket)' = u
  BY <1>1, <1>3 DEF Conn
<1> QED
  BY <1>2, <1>5, <1>6 DEF Core

(* accept() fails only when all threads have copied their argument. *)
LEMMA FailKeepsCore ==
    ASSUME Base, Core, AcceptFails, lapses' = {} PROVE Core'
<1>1. /\ accepted' = None /\ UNCHANGED <<fdTable, accepted, threads>>
      /\ \A t \in Users : threads[t].pc # "new"
  BY DEF AcceptFails, Overwritten
<1> QED
  BY <1>1 DEF Core, ThreadInOrder, Conn

(* The new thread finds its connection in main's variable. *)
LEMMA SpawnKeepsCore ==
    ASSUME Base, Core, Spawn
    PROVE  Core'
<1>1. /\ accepted \in Users /\ accepted' = None /\ Conn(client_socket) = accepted
      /\ threads[accepted].pc = "none" /\ UNCHANGED <<fdTable, client_socket, clients>>
  BY DEF Spawn, Base, TypeOK, Names, AcceptedOnce, Core
<1>2. threads \in [Users -> ThreadStates]
  BY DEF Base, TypeOK, ThreadStates
<1>3. /\ \A t \in Users \ {accepted} : threads'[t] = threads[t]
      /\ threads'[accepted] = [threads[accepted] EXCEPT !.pc = "new"]
  BY <1>1, <1>2 DEF Spawn
<1>4. threads'[accepted].pc = "new" /\ threads'[accepted].held = threads[accepted].held
  BY <1>1, <1>2, <1>3 DEF ThreadStates
<1>5. ASSUME NEW t \in Users PROVE ThreadInOrder(t)'
  <2>1. CASE t = accepted
    BY <1>1, <1>4, <2>1 DEF Core, ThreadInOrder, Serving, Commanded, Conn
  <2>2. CASE t # accepted
    BY <1>1, <1>3, <2>2 DEF Core, ThreadInOrder, Conn
  <2> QED
    BY <2>1, <2>2
<1> QED
  BY <1>1, <1>5 DEF Core

(* Nothing is in order or out of order at first. *)
LEMMA InitCore == Init => Owned /\ Core
<1> SUFFICES ASSUME Init PROVE Owned /\ Core
  OBVIOUS
<1>1. \A t \in Users : threads[t] = Unborn
  BY DEF Init
<1>2. \A t \in Users : ThreadInOrder(t) /\ SlotInOrder(t) /\ Signed(t)
  BY <1>1 DEF Unborn, ThreadInOrder, SlotInOrder, Signed, Serving, Commanded, InLoop
<1> QED
  BY <1>2 DEF Init, Core, Owned

(* Every step that overwrites no argument and drops no client keeps order. *)
LEMMA NextCore ==
    ASSUME Base, Owned, Core, [Next]_vars, lapses' = {} PROVE Core'
<1>1. ASSUME NEW t \in Users, Handler(t) PROVE Core'
  <2>1. accepted' = accepted /\ client_socket' = client_socket
    BY <1>1, HandlerOnlyCloses DEF Base
  <2>2. accepted # None => Conn(client_socket)' = accepted
    <3> SUFFICES ASSUME accepted # None PROVE Conn(client_socket)' = accepted
      OBVIOUS
    <3>1. accepted \in Users /\ threads[accepted].pc = "none" /\ client_socket \in Fds /\ fdTable[client_socket] = accepted
      BY DEF Base, TypeOK, Names, AcceptedOnce, Assigned, Core, Conn
    <3>2. accepted # t
      BY <1>1, <3>1, HandlerMoves DEF Base, Moves
    <3>3. fdTable'[client_socket] = accepted
      BY <1>1, <3>1, <3>2, HandlerDescriptors
    <3> QED
      BY <2>1, <3>1, <3>3 DEF Conn
  <2> QED
    BY <1>1, <2>1, <2>2, HandlerKeepsThreads DEF Core
<1>2. ASSUME NEW u \in Users, Accept(u) PROVE Core'
  BY <1>2, AcceptKeepsCore
<1>3. CASE AcceptFails
  BY <1>3, FailKeepsCore
<1>4. CASE Spawn
  BY <1>4, SpawnKeepsCore
<1>5. CASE UNCHANGED <<fdTable, client_socket, accepted, threads>>
  BY <1>5 DEF Core, ThreadInOrder, Conn
<1>6. CASE PingRound \/ \E s \in Slots : Expire(s)
  <2>1. UNCHANGED <<client_socket, accepted>> /\ Undropped'
    BY <1>6 DEF PingRound, Expire, Undropped
  <2> QED
    BY <1>5, <1>6, <2>1, PingSlots DEF Base
<1>7. CASE (\E u \in Users : Client(u)) \/ UNCHANGED vars
  BY <1>5, <1>7 DEF Client, Connect, SendName, Line, Receive, CtrlC, Die, Reset, server, vars
<1> QED
  BY <1>1, <1>2, <1>3, <1>4, <1>6, <1>7 DEF Next, AcceptLoop

(* A lapse is never taken back. *)
LEMMA NextLapses == TypeOK /\ [Next]_vars => lapses \subseteq lapses'
<1> SUFFICES ASSUME TypeOK, [Next]_vars PROVE lapses \subseteq lapses'
  OBVIOUS
<1>1. \A u \in Users : Accept(u) => lapses \subseteq lapses'
  BY DEF Accept, Overwritten
<1>2. AcceptFails => lapses \subseteq lapses'
  BY DEF AcceptFails, Overwritten
<1>3. PingRound \/ (\E s \in Slots : Expire(s)) => lapses \subseteq lapses'
  BY DEF PingRound, Expire, counters
<1>4. \A t \in Users : Handler(t) => lapses \subseteq lapses'
  BY HandlerOnlyCloses
<1>5. \A u \in Users : Client(u) => lapses \subseteq lapses'
  BY DEF Client, Connect, SendName, Line, Receive, CtrlC, Die, Reset, counters
<1>6. Spawn \/ UNCHANGED vars => lapses \subseteq lapses'
  BY DEF Spawn, counters, vars
<1> QED
  BY <1>1, <1>2, <1>3, <1>4, <1>5, <1>6 DEF Next, AcceptLoop

(* All three layers of the invariant are kept by every step. *)
LEMMA NextIInv == IInv /\ [Next]_vars => IInv'
<1> SUFFICES ASSUME IInv, [Next]_vars PROVE IInv'
  OBVIOUS
<1>1. Always /\ Base /\ lapses \subseteq lapses'
  BY NextLapses DEF IInv, Always, Base
<1>2. Undropped' => Owned'
  BY <1>1, NextOwned DEF IInv, Undropped
<1>3. Undisturbed' => Core'
  <2> SUFFICES ASSUME Undisturbed' PROVE Core'
    OBVIOUS
  <2>1. lapses' = {} /\ lapses = {}
    BY <1>1 DEF Undisturbed
  <2>2. Owned /\ Core
    BY <2>1 DEF IInv, Undropped, Undisturbed
  <2> QED
    BY <1>1, <2>1, <2>2, NextCore
<1> QED
  BY <1>1, <1>2, <1>3, NextAlways DEF IInv

(* The strengthened invariant holds in every reachable state. *)
THEOREM Invariance == Spec => []IInv
<1>1. Init => IInv
  BY InitAlways, InitCore DEF IInv
<1> QED
  BY <1>1, NextIInv, PTL DEF Spec

-----------------------------------------------------------------------------
(* The state stays well formed, whatever threads and pings do. *)
THEOREM TypeCorrect == Spec => []TypeOK
<1>1. IInv => TypeOK
  BY DEF IInv, Always
<1> QED
  BY <1>1, Invariance, PTL

(* An entry of the list is never orphaned, even if descriptors are mixed up
   or pings drop clients (serwer.c:57-64, 86, 157, 177). *)
THEOREM SlotSafety == Spec => []ActiveSlotHasThread
<1>1. IInv => ActiveSlotHasThread
  BY DEF IInv, Always
<1> QED
  BY <1>1, Invariance, PTL

(* A 2ALL never comes back on the connection it was typed on, even if
   descriptors are mixed up or pings drop clients (serwer.c:29). *)
THEOREM EchoSafety == Spec => []NoEcho
<1>1. IInv => NoEcho
  BY DEF IInv, Always
<1> QED
  BY <1>1, Invariance, PTL

(* Each thread gets the connection it was started for, if no accept()
   overwrites an argument and no client is dropped (serwer.c:46, 247-249). *)
THEOREM ArgumentSafety == Spec => []OwnConnection
<1>1. IInv => OwnConnection
  BY Zero DEF IInv, Core, ThreadInOrder, Serving, OwnConnection, Conn
<1> QED
  BY <1>1, Invariance, PTL

(* A thread that has ended has closed its connection, under the same
   two conditions (serwer.c:70, 84, 155). *)
THEOREM DescriptorSafety == Spec => []NoLeakedDescriptor
<1>1. IInv => NoLeakedDescriptor
  BY DEF IInv, Core, ThreadInOrder, NoLeakedDescriptor
<1> QED
  BY <1>1, Invariance, PTL

(* As long as no client is dropped, even if descriptors are mixed up, a
   message is signed with the name its author's thread has registered
   (serwer.c:121, 139). *)
THEOREM AttributionSafety == Spec => []Attribution
<1>1. IInv => Attribution
  BY DEF IInv, Owned, Signed, Attribution
<1> QED
  BY <1>1, Invariance, PTL

(* A thread clears its own registration only, under the same condition
   (serwer.c:86, 157). *)
THEOREM EntrySafety == Spec => []OnlyOwnEntry
<1>1. IInv => OnlyOwnEntry
  BY DEF IInv, Owned, SlotInOrder, InLoop, OnlyOwnEntry
<1> QED
  BY <1>1, Invariance, PTL
=============================================================================
