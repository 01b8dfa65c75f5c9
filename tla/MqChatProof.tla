------------------------------ MODULE MqChatProof ------------------------------
(***************************************************************************)
(* Theorems about MqChat, for any finite set of users, any size of the     *)
(* table and of the queues, and any number of texts and restarts, with and *)
(* without Ctrl+C.                                                         *)
(***************************************************************************)
EXTENDS MqChat, FiniteSetTheorems, WellFoundedInduction, TLAPS

-----------------------------------------------------------------------------
(* Who is where in the server's table. *)

Registers(u, k) == serverQueue[k].type = "INIT" /\ serverQueue[k].from = u
(* u's INIT has not been served. *)
Unserved(u) == parent[u] = "init" \/ \E k \in 1 .. Len(serverQueue) : Registers(u, k)

(* i is u's entry, if u has one, and will stay so. *)
KnownAs(u, i) == ~Unserved(u) /\ \A j \in Ids : client_queues[j] = u => j = i

TableInOrder ==
    /\ \A i, j \in Ids : client_queues[i] = client_queues[j] /\ client_queues[i] # None => i = j
    /\ \A i \in Ids : client_queues[i] # None => ~Unserved(client_queues[i])
    /\ \A u \in Users : \A j, k \in 1 .. Len(serverQueue) :
           Registers(u, k) => parent[u] # "init" /\ (Registers(u, j) => j = k)

(* What the server may find in its queue, and what it sends. *)
RequestInOrder(m) ==
    /\ m.type \in {"INIT", "MESSAGE_TEXT", "CLIENT_CLOSE"} /\ m.from \in Users
    /\ m.type = "MESSAGE_TEXT" => KnownAs(m.from, m.identifier)
    /\ m.type = "CLIENT_CLOSE" => m.identifier \in Ids
SendingInOrder == \A i \in todo :
    /\ client_queues[i] # None /\ out.type \in {"IDENTIFIER", "MESSAGE_TEXT"}
    /\ out.type = "IDENTIFIER" => i = out.identifier /\ out.from = None
    /\ out.type = "MESSAGE_TEXT" => client_queues[i] # out.from

(* What a client may find in its queue. *)
AnswerInOrder(u, m) ==
    /\ m.type \in {"IDENTIFIER", "MESSAGE_TEXT"} /\ m.from # u
    /\ m.type = "IDENTIFIER" => m.identifier \in Ids /\ KnownAs(u, m.identifier)
InboxInOrder(u) ==
    /\ \A k \in 1 .. Len(clientQueue[u]) : AnswerInOrder(u, clientQueue[u][k])
    /\ received[u] # Garbage => AnswerInOrder(u, received[u])
    /\ \A k \in 1 .. Len(shown[u]) : shown[u][k].from # u
(* What it takes for its identifier. *)
IdInOrder(u) ==
    /\ child[u] \in {"failed", "exited"} => ~is_running[u]
    /\ is_running[u] /\ pipe[u] # NoId => KnownAs(u, pipe[u])
    /\ parent[u] \in {"fgets", "close"} => id[u] # NoId
    /\ parent[u] = "fgets" => KnownAs(u, id[u])

Home ==
    /\ TableInOrder /\ SendingInOrder
    /\ \A k \in 1 .. Len(serverQueue) : RequestInOrder(serverQueue[k])
    /\ \A u \in Users : InboxInOrder(u) /\ IdInOrder(u)

-----------------------------------------------------------------------------
(* Texts are relayed in the order of their numbers, and the number tells
   which text it is. *)

IsText(m) == m.type = "MESSAGE_TEXT"

(* The texts the server has relayed, or is relaying. *)
Held(u) ==
    {clientQueue[u][k] : k \in 1 .. Len(clientQueue[u])} \cup {shown[u][k] : k \in 1 .. Len(shown[u])} \cup {received[u]}
Relayed == {m \in {out} \cup UNION {Held(u) : u \in Users} : IsText(m)}

RelayInOrder ==
    /\ \A k \in 1 .. Len(serverQueue) : IsText(serverQueue[k]) =>
           /\ serverQueue[k].n <= typed
           /\ \A j \in 1 .. k - 1 : IsText(serverQueue[j]) => serverQueue[j].n < serverQueue[k].n
           /\ \A m \in Relayed : m.n < serverQueue[k].n
    /\ \A m \in Relayed :
           /\ m.n <= typed
           /\ IsText(out) => m.n <= out.n
           /\ \A other \in Relayed : m.n = other.n => m = other

(* A text waits behind those shown already. *)
ReaderInOrder(u) ==
    /\ \A k \in 1 .. Len(clientQueue[u]) : IsText(clientQueue[u][k]) =>
           /\ \A j \in 1 .. k - 1 : IsText(clientQueue[u][j]) => clientQueue[u][j].n <= clientQueue[u][k].n
           /\ \A j \in 1 .. Len(shown[u]) : shown[u][j].n <= clientQueue[u][k].n
           /\ IsText(received[u]) => received[u].n <= clientQueue[u][k].n
    /\ \A k \in 1 .. Len(shown[u]) :
           /\ IsText(shown[u][k])
           /\ \A j \in 1 .. k : shown[u][j].n <= shown[u][k].n
           /\ IsText(received[u]) => shown[u][k].n <= received[u].n

InOrder == RelayInOrder /\ \A u \in Users : ReaderInOrder(u)

(* Holds whatever happens. *)
Always == TypeOK /\ Home /\ InOrder

-----------------------------------------------------------------------------
(* As long as the server runs on, the table has room and nobody leaves. *)
Core ==
    /\ \A k \in 1 .. Len(serverQueue) : serverQueue[k].type # "CLIENT_CLOSE"
    /\ \A u \in Users :
         /\ parent[u] \notin {"close", "left", "dead"}
         /\ \A k \in 1 .. Len(clientQueue[u]) :
                clientQueue[u][k].type = "IDENTIFIER" => client_queues[clientQueue[u][k].identifier] = u
         /\ pipe[u] # NoId => client_queues[pipe[u]] = u
         /\ id[u] # NoId => client_queues[id[u]] = u

IInv == Always /\ (Undisturbed => Core)

-----------------------------------------------------------------------------
(* Queues. *)

Appended(q, r, m) ==
    /\ Len(q) \in Nat /\ Len(r) = Len(q) + 1 /\ r[Len(q) + 1] = m
    /\ \A k \in 1 .. Len(q) : r[k] = q[k]
Advanced(q, r) ==
    /\ Len(q) \in Nat /\ Len(q) = Len(r) + 1 /\ Len(r) \in Nat
    /\ \A k \in 1 .. Len(r) : r[k] = q[k + 1]

(* mq_send() puts a message at the end. *)
LEMMA PutAppends ==
    ASSUME NEW S, NEW q \in Seq(S), NEW m \in S
    PROVE  Put(q, m) \in Seq(S) /\ Appended(q, Put(q, m), m)
  BY DEF Put, Appended

(* mq_receive() takes the first. *)
LEMMA TailAdvances ==
    ASSUME NEW S, NEW q \in Seq(S), q # << >>
    PROVE  Tail(q) \in Seq(S) /\ Advanced(q, Tail(q)) /\ Head(q) = q[1] /\ Head(q) \in S /\ 1 \in 1 .. Len(q)
  BY DEF Advanced

(* What is then at each place, and before it. *)
LEMMA AppendedAt ==
    ASSUME NEW q, NEW r, NEW m, Appended(q, r, m), NEW k \in 1 .. Len(r)
    PROVE  \/ k \in 1 .. Len(q) /\ r[k] = q[k] /\ \A j \in 1 .. k : j \in 1 .. Len(q) /\ r[j] = q[j]
           \/ k = Len(q) + 1 /\ r[k] = m /\ \A j \in 1 .. k - 1 : j \in 1 .. Len(q) /\ r[j] = q[j]
  BY DEF Appended

(* The same for the queue without its first message. *)
LEMMA AdvancedAt ==
    ASSUME NEW q, NEW r, Advanced(q, r), NEW k \in 1 .. Len(r)
    PROVE  /\ k + 1 \in 1 .. Len(q) /\ r[k] = q[k + 1] /\ 1 \in 1 .. k
           /\ \A j \in 1 .. k - 1 : j + 1 \in 1 .. k /\ r[j] = q[j + 1]
<1>1. k \in Nat /\ k >= 1 /\ k <= Len(r) /\ Len(r) \in Nat /\ Len(q) = Len(r) + 1
  BY DEF Advanced
<1>2. \A j \in 1 .. k - 1 : j \in 1 .. Len(r) /\ j + 1 \in 1 .. k
  BY <1>1
<1> QED
  BY <1>1, <1>2 DEF Advanced

-----------------------------------------------------------------------------
(* Types. *)

ParentStates == {"init", "setup", "read", "fgets", "close", "left", "dead"}
ChildStates == {"none", "receive", "failed", "exited"}

(* NoId is no index of the table. *)
LEMMA IdsAreIndices == Ids \subseteq Nat /\ NoId \notin Ids /\ 0 \in Ids /\ None \notin Users
  BY BoundsAssumption DEF Ids, NoId

(* A set of indices has a first. *)
LEMMA FirstIndex ==
    ASSUME NEW S, S \subseteq Ids, S # {} PROVE \E i \in S : \A j \in S : i <= j
<1>1. S \subseteq Nat
  BY IdsAreIndices
<1>2. PICK i \in S : \A j \in S : ~(<<j, i>> \in OpToRel(<, Nat))
  BY <1>1, NatLessThanWellFounded, WFMin
<1>3. \A j \in S : ~(j < i)
  BY <1>1, <1>2 DEF OpToRel
<1> QED
  BY <1>1, <1>3

(* A new client gets an entry of the table, an empty one if there is any. *)
LEMMA NewIdIsIndex ==
    /\ NewId \in Ids
    /\ (\E i \in Ids : client_queues[i] = None) => client_queues[NewId] = None
<1> DEFINE Empty == {i \in Ids : client_queues[i] = None}
<1>1. CASE Empty = {}
  BY <1>1, IdsAreIndices DEF NewId
<1>2. CASE Empty # {}
  <2>1. \E i \in Empty : \A j \in Empty : i <= j
    BY <1>2, FirstIndex
  <2>2. NewId = CHOOSE i \in Empty : \A j \in Empty : i <= j
    BY <1>2 DEF NewId
  <2>3. NewId \in Empty
    BY <2>1, <2>2
  <2> QED
    BY <2>3
<1> QED
  BY <1>1, <1>2

(* All queues are empty at first. *)
LEMMA InitType == Init => TypeOK
<1> SUFFICES ASSUME Init PROVE TypeOK
  OBVIOUS
<1> USE BoundsAssumption, IdsAreIndices DEF Init
<1>1. Garbage \in Queued
  BY DEF Garbage, Message, Queued, Types, NoId
<1>2. serverQueue \in Seq(Queued) /\ Len(serverQueue) <= QueueSize
  OBVIOUS
<1>3. clientQueue \in [Users -> Seq(Queued)] /\ \A u \in Users : Len(clientQueue[u]) <= QueueSize
  OBVIOUS
<1>4. shown \in [Users -> Seq(Queued)]
  OBVIOUS
<1> QED
  BY <1>1, <1>2, <1>3, <1>4 DEF TypeOK

(* What a process puts into the server's queue fits there. *)
LEMMA ToServerType ==
    ASSUME TypeOK, NEW m \in Queued, ToServer(m)
    PROVE  /\ serverQueue' \in Seq(Queued) /\ Len(serverQueue') <= QueueSize
           /\ Appended(serverQueue, serverQueue', m)
<1>1. serverQueue \in Seq(Queued) /\ serverQueue' = Put(serverQueue, m) /\ Len(serverQueue) < QueueSize
  BY DEF TypeOK, ToServer, Room
<1>2. Put(serverQueue, m) \in Seq(Queued) /\ Appended(serverQueue, Put(serverQueue, m), m)
  BY <1>1, PutAppends
<1> QED
  BY <1>1, <1>2, BoundsAssumption DEF Appended

(* The parent's steps. *)
LEMMA ParentKeepsType ==
    ASSUME TypeOK, NEW u \in Users, Parent(u) \/ Text(u) PROVE TypeOK'
<1> USE DEF TypeOK
<1>1. \A label \in ParentStates : [parent EXCEPT ![u] = label] \in [Users -> ParentStates]
  BY DEF ParentStates
<1>2. \A i : ParentLoop(u, i) \in ParentStates
  BY DEF ParentLoop, Leaving, ParentStates
<1>3. CASE SendInit(u)
  <2>1. Message("INIT", NoId, u, 0) \in Queued
    BY BoundsAssumption DEF Message, Queued, Types
  <2> QED
    BY <1>1, <1>3, <2>1, ToServerType DEF SendInit, GotoP, server, reader, ParentStates
<1>4. CASE Fork(u)
  BY <1>1, <1>4 DEF Fork, GotoP, GotoC, ChildLoop, server, ParentStates
<1>5. CASE ReadId(u)
  BY <1>1, <1>2, <1>5 DEF ReadId, GotoP, server, reader, ParentStates
<1>6. CASE Text(u)
  <2>1. typed + 1 \in 0 .. MaxTexts /\ id[u] \in Ids \cup {NoId}
    BY <1>6, BoundsAssumption DEF Text
  <2>2. Message("MESSAGE_TEXT", id[u], u, typed + 1) \in Queued
    BY <2>1 DEF Message, Queued, Types
  <2> QED
    BY <1>1, <1>2, <1>6, <2>1, <2>2, ToServerType DEF Text, GotoP, server, reader, ParentStates
<1>7. CASE SendClose(u)
  <2>1. Message("CLIENT_CLOSE", id[u], u, 0) \in Queued
    BY BoundsAssumption DEF Message, Queued, Types
  <2> QED
    BY <1>1, <1>7, <2>1, ToServerType DEF SendClose, GotoP, server, reader, ParentStates
<1> QED
  BY <1>3, <1>4, <1>5, <1>6, <1>7 DEF Parent

(* What handling a message does. *)
LEMMA HandleType ==
    ASSUME TypeOK, NEW u \in Users, NEW m \in Queued, Handle(u, m)
    PROVE  /\ shown' \in [Users -> Seq(Queued)] /\ pipe' \in [Users -> Ids \cup {NoId}]
           /\ \A v \in Users \ {u} : shown'[v] = shown[v] /\ pipe'[v] = pipe[v]
           /\ IF m.type = "MESSAGE_TEXT" THEN Appended(shown[u], shown'[u], m) ELSE shown'[u] = shown[u]
           /\ pipe'[u] = IF m.type = "IDENTIFIER" /\ pipe[u] = NoId THEN m.identifier ELSE pipe[u]
<1>1. shown \in [Users -> Seq(Queued)] /\ pipe \in [Users -> Ids \cup {NoId}] /\ m.identifier \in Ids \cup {NoId}
  BY DEF TypeOK, Queued
<1>2. Append(shown[u], m) \in Seq(Queued) /\ Appended(shown[u], Append(shown[u], m), m)
  BY <1>1, PutAppends DEF Put
<1> QED
  BY <1>1, <1>2 DEF Handle

(* The child's steps. *)
LEMMA ChildKeepsType ==
    ASSUME TypeOK, NEW u \in Users, Child(u) PROVE TypeOK'
<1>1. child' \in [Users -> ChildStates]
  BY DEF TypeOK, Child, Receive, HandleStale, GotoC, ChildLoop, ChildStates
<1>2. CASE Receive(u)
  <2>1. clientQueue[u] \in Seq(Queued) /\ clientQueue[u] # << >> /\ Len(clientQueue[u]) <= QueueSize
    BY <1>2 DEF Receive, TypeOK
  <2>2. Tail(clientQueue[u]) \in Seq(Queued) /\ Len(Tail(clientQueue[u])) <= QueueSize /\ Head(clientQueue[u]) \in Queued
    BY <2>1, TailAdvances, BoundsAssumption DEF Advanced
  <2>3. /\ clientQueue' = [clientQueue EXCEPT ![u] = Tail(@)] /\ received' = [received EXCEPT ![u] = Head(clientQueue[u])]
        /\ UNCHANGED <<serverQueue, server, writer, is_running>>
    BY <1>2 DEF Receive
  <2>4. clientQueue' \in [Users -> Seq(Queued)] /\ \A v \in Users : Len(clientQueue'[v]) <= QueueSize
    BY <2>2, <2>3 DEF TypeOK
  <2>5. received' \in [Users -> Queued]
    BY <2>2, <2>3 DEF TypeOK
  <2>6. shown' \in [Users -> Seq(Queued)] /\ pipe' \in [Users -> Ids \cup {NoId}]
    BY <1>2, <2>2, HandleType DEF Receive
  <2> QED
    BY <1>1, <2>3, <2>4, <2>5, <2>6 DEF TypeOK, server, writer, ChildStates
<1>3. CASE HandleStale(u)
  <2>1. PICK m \in Queued : Handle(u, m)
    <3>1. received[u] \in Queued
      BY DEF TypeOK
    <3>2. \A i \in Ids : Message("IDENTIFIER", i, None, 0) \in Queued
      BY BoundsAssumption DEF Message, Queued, Types
    <3>3. Garbage \in Queued
      BY BoundsAssumption DEF Garbage, Message, Queued, Types
    <3> QED
      BY <1>3, <3>1, <3>2, <3>3 DEF HandleStale
  <2>2. shown' \in [Users -> Seq(Queued)] /\ pipe' \in [Users -> Ids \cup {NoId}]
    BY <2>1, HandleType
  <2> QED
    BY <1>1, <1>3, <2>2 DEF HandleStale, TypeOK, server, writer, ChildStates
<1> QED
  BY <1>2, <1>3 DEF Child

(* The server's steps. *)
LEMMA ServerKeepsType ==
    ASSUME TypeOK, Server \/ Restart PROVE TypeOK'
<1> USE DEF TypeOK
<1>1. CASE ServerReceive
  <2> DEFINE m == Head(serverQueue)
  <2>1. serverQueue # << >> /\ serverQueue' = Tail(serverQueue)
        /\ UNCHANGED <<clientQueue, reader, writer, is_running, restarts>>
    BY <1>1 DEF ServerReceive
  <2>2. m \in Queued /\ serverQueue' \in Seq(Queued) /\ Len(serverQueue') <= QueueSize
    BY <2>1, TailAdvances, BoundsAssumption DEF Advanced
  <2> HIDE DEF m
  <2>3. CASE Register(m)
    <3>1. Message("IDENTIFIER", NewId, None, 0) \in Queued
      BY NewIdIsIndex, BoundsAssumption DEF Message, Queued, Types
    <3>2. todo' \subseteq Ids
      BY <2>3, NewIdIsIndex DEF Register
    <3>3. client_queues' \in [Ids -> Users \cup {None}]
      BY <2>2, <2>3 DEF Register, Queued
    <3> QED
      BY <2>1, <2>2, <2>3, <3>1, <3>2, <3>3 DEF Register, reader, writer
  <2>4. CASE Relay(m)
    BY <2>1, <2>2, <2>4 DEF Relay, Others, reader, writer
  <2>5. CASE Unregister(m)
    BY <2>1, <2>2, <2>5 DEF Unregister, reader, writer
  <2> QED
    BY <1>1, <2>3, <2>4, <2>5 DEF ServerReceive, m
<1>2. CASE ServerSend
  <2>1. PICK i \in Ids :
           /\ Room(clientQueue[client_queues[i]])
           /\ clientQueue' = [clientQueue EXCEPT ![client_queues[i]] = Put(@, out)]
           /\ todo' = todo \ {i}
           /\ UNCHANGED <<serverQueue, client_queues, out, reader, writer, is_running, restarts>>
    BY <1>2 DEF ServerSend
  <2>2. clientQueue' \in [Users -> Seq(Queued)] /\ \A u \in Users : Len(clientQueue'[u]) <= QueueSize
    <3>1. CASE client_queues[i] \in Users
      <4>1. Put(clientQueue[client_queues[i]], out) \in Seq(Queued) /\ Len(Put(clientQueue[client_queues[i]], out)) <= QueueSize
        BY <2>1, <3>1, PutAppends, BoundsAssumption DEF Room, Appended
      <4> QED
        BY <2>1, <3>1, <4>1
    <3>2. CASE client_queues[i] \notin Users
      BY <2>1, <3>2
    <3> QED
      BY <3>1, <3>2
  <2> QED
    BY <2>1, <2>2 DEF reader, writer
<1>3. CASE Restart
  <2>1. Garbage \in Queued
    BY BoundsAssumption DEF Garbage, Message, Queued, Types
  <2>2. restarts' \in 0 .. MaxRestarts
    BY <1>3, BoundsAssumption DEF Restart
  <2> QED
    BY <1>3, <2>1, <2>2 DEF Restart, reader, writer
<1> QED
  BY <1>1, <1>2, <1>3 DEF Server

(* Every step keeps the types. *)
LEMMA NextType == TypeOK /\ [Next]_vars => TypeOK'
<1> SUFFICES ASSUME TypeOK, [Next]_vars PROVE TypeOK'
  OBVIOUS
<1>1. ASSUME NEW u \in Users, CtrlC(u) PROVE TypeOK'
  BY <1>1 DEF CtrlC, TypeOK, GotoP, GotoC, Leaving, server
<1>2. CASE UNCHANGED vars
  BY <1>2 DEF vars, TypeOK
<1> QED
  BY <1>1, <1>2, ParentKeepsType, ChildKeepsType, ServerKeepsType DEF Next

-----------------------------------------------------------------------------
(* The table. *)

(* What a step may do to the table: entries are cleared, or given to a client
   whose INIT has been waiting; no client waits anew. *)
Settles ==
    /\ \A u \in Users : Unserved(u)' => Unserved(u)
    /\ \A j \in Ids : \/ client_queues'[j] \in {client_queues[j], None}
                      \/ client_queues'[j] \in Users /\ Unserved(client_queues'[j])

(* An identifier once right stays right. *)
LEMMA KnownStays ==
    ASSUME Settles, NEW u \in Users, NEW i, KnownAs(u, i) PROVE KnownAs(u, i)'
  BY IdsAreIndices DEF Settles, KnownAs

(* So does a message with such an identifier, in the server's queue ... *)
LEMMA RequestStays ==
    ASSUME Settles, NEW m, RequestInOrder(m) PROVE RequestInOrder(m)'
<1>1. m.type = "MESSAGE_TEXT" => KnownAs(m.from, m.identifier)'
  BY KnownStays DEF RequestInOrder
<1> QED
  BY <1>1 DEF RequestInOrder

(* ... and in a client's. *)
LEMMA AnswerStays ==
    ASSUME Settles, NEW u \in Users, NEW m, AnswerInOrder(u, m) PROVE AnswerInOrder(u, m)'
<1>1. m.type = "IDENTIFIER" => KnownAs(u, m.identifier)'
  BY KnownStays DEF AnswerInOrder
<1> QED
  BY <1>1 DEF AnswerInOrder

(* The first message of the server's queue, and the rest of the queue. *)
LEMMA ServerTakes ==
    ASSUME TypeOK, Home, ServerReceive
    PROVE  \E m \in Queued :
             /\ m = serverQueue[1] /\ 1 \in 1 .. Len(serverQueue) /\ RequestInOrder(m)
             /\ Advanced(serverQueue, serverQueue') /\ todo = {}
             /\ \/ m.type = "INIT" /\ Register(m)
                \/ m.type = "MESSAGE_TEXT" /\ Relay(m)
                \/ m.type = "CLIENT_CLOSE" /\ Unregister(m)
             /\ UNCHANGED <<clientQueue, reader, writer, is_running, restarts>>
<1>1. serverQueue \in Seq(Queued) /\ serverQueue # << >> /\ serverQueue' = Tail(serverQueue)
  BY DEF TypeOK, ServerReceive
<1>2. /\ Advanced(serverQueue, serverQueue') /\ Head(serverQueue) = serverQueue[1]
      /\ Head(serverQueue) \in Queued /\ 1 \in 1 .. Len(serverQueue)
  BY <1>1, TailAdvances
<1>3. RequestInOrder(serverQueue[1])
  BY <1>2 DEF Home
<1> QED
  BY <1>2, <1>3 DEF ServerReceive

(* Every step treats the table so. *)
LEMMA StepSettles ==
    ASSUME TypeOK, Home, [Next]_vars PROVE Settles
<1>1. ASSUME UNCHANGED <<client_queues, serverQueue>>, \A u \in Users : parent'[u] = "init" => parent[u] = "init"
      PROVE  Settles
  BY <1>1 DEF Settles, Unserved, Registers
<1>2. ASSUME NEW u \in Users, SendInit(u) PROVE Settles
  <2>1. Message("INIT", NoId, u, 0) \in Queued
    BY BoundsAssumption DEF Message, Queued, Types
  <2>2. Appended(serverQueue, serverQueue', Message("INIT", NoId, u, 0))
    BY <1>2, <2>1, ToServerType DEF SendInit
  <2>3. UNCHANGED client_queues /\ parent[u] = "init" /\ \A v \in Users : parent'[v] = "init" => parent[v] = "init"
    BY <1>2 DEF SendInit, GotoP, server, TypeOK
  <2>4. ASSUME NEW v \in Users, Unserved(v)' PROVE Unserved(v)
    BY <2>2, <2>3, <2>4 DEF Unserved, Registers, Appended, Message
  <2> QED
    BY <2>3, <2>4 DEF Settles
<1>3. ASSUME NEW u \in Users, NEW m \in Queued, m.type # "INIT", ToServer(m), UNCHANGED client_queues,
             \A v \in Users : parent'[v] = "init" => parent[v] = "init"
      PROVE  Settles
  <2>1. Appended(serverQueue, serverQueue', m)
    BY <1>3, ToServerType
  <2> QED
    BY <1>3, <2>1 DEF Settles, Unserved, Registers, Appended
<1>4. ASSUME NEW u \in Users, Fork(u) \/ ReadId(u) PROVE Settles
  BY <1>1, <1>4 DEF Fork, ReadId, GotoP, server, TypeOK, ParentLoop, Leaving
<1>5. ASSUME NEW u \in Users, Text(u) PROVE Settles
  <2>1. typed + 1 \in 0 .. MaxTexts
    BY <1>5, BoundsAssumption DEF Text, TypeOK
  <2>2. Message("MESSAGE_TEXT", id[u], u, typed + 1) \in Queued
    BY <2>1 DEF Message, Queued, Types, TypeOK
  <2>3. \A v \in Users : parent'[v] = "init" => parent[v] = "init"
    BY <1>5 DEF Text, GotoP, TypeOK, ParentLoop, Leaving
  <2>4. Message("MESSAGE_TEXT", id[u], u, typed + 1).type # "INIT"
    BY DEF Message
  <2> QED
    BY <1>3, <1>5, <2>2, <2>3, <2>4 DEF Text, server
<1>6. ASSUME NEW u \in Users, SendClose(u) PROVE Settles
  <2>1. Message("CLIENT_CLOSE", id[u], u, 0) \in Queued
    BY BoundsAssumption DEF Message, Queued, Types, TypeOK
  <2>2. \A v \in Users : parent'[v] = "init" => parent[v] = "init"
    BY <1>6 DEF SendClose, GotoP, TypeOK
  <2>3. Message("CLIENT_CLOSE", id[u], u, 0).type # "INIT"
    BY DEF Message
  <2> QED
    BY <1>3, <1>6, <2>1, <2>2, <2>3 DEF SendClose, server
<1>7. ASSUME NEW u \in Users, Child(u) PROVE Settles
  BY <1>1, <1>7 DEF Child, Receive, HandleStale, server, writer
<1>8. ASSUME NEW u \in Users, CtrlC(u) PROVE Settles
  BY <1>1, <1>8 DEF CtrlC, GotoP, Leaving, server, TypeOK
<1>9. CASE ServerReceive
  <2>1. PICK m \in Queued :
          /\ m = serverQueue[1] /\ 1 \in 1 .. Len(serverQueue) /\ RequestInOrder(m)
          /\ Advanced(serverQueue, serverQueue')
          /\ \/ m.type = "INIT" /\ Register(m)
             \/ Relay(m) \/ Unregister(m)
          /\ UNCHANGED writer
    BY <1>9, ServerTakes
  <2>2. \A v \in Users : Unserved(v)' => Unserved(v)
    BY <2>1 DEF Unserved, Registers, Advanced, writer
  <2>3. m.type = "INIT" => Unserved(m.from) /\ m.from \in Users
    BY <2>1 DEF Unserved, Registers, RequestInOrder
  <2>4. ASSUME NEW j \in Ids
        PROVE  \/ client_queues'[j] \in {client_queues[j], None}
               \/ client_queues'[j] \in Users /\ Unserved(client_queues'[j])
    <3>1. CASE m.type = "INIT" /\ Register(m)
      <4>1. client_queues'[j] \in {client_queues[j], None, m.from}
        BY <3>1 DEF Register, TypeOK
      <4> QED
        BY <2>3, <3>1, <4>1
    <3>2. CASE Relay(m) \/ Unregister(m)
      BY <3>2 DEF Relay, Unregister, TypeOK
    <3> QED
      BY <2>1, <3>1, <3>2
  <2> QED
    BY <2>2, <2>4 DEF Settles
<1>10. CASE ServerSend
  BY <1>1, <1>10 DEF ServerSend, writer
<1>11. CASE Restart
  BY <1>11 DEF Restart, Settles, Unserved, Registers, writer
<1>12. CASE UNCHANGED vars
  BY <1>1, <1>12 DEF vars
<1> QED
  BY <1>2, <1>4, <1>5, <1>6, <1>7, <1>8, <1>9, <1>10, <1>11, <1>12 DEF Next, Parent, Server

(* Which steps touch the queues, and how. *)
LEMMA ParentSends ==
    ASSUME TypeOK, Home, NEW u \in Users, SendInit(u) \/ Text(u) \/ SendClose(u)
    PROVE  \E m \in Queued :
             /\ m.from = u /\ Appended(serverQueue, serverQueue', m)
             /\ \/ SendInit(u) /\ m.type = "INIT"
                \/ Text(u) /\ m.type = "MESSAGE_TEXT" /\ m.identifier = id[u] /\ m.n = typed + 1
                \/ SendClose(u) /\ m.type = "CLIENT_CLOSE" /\ m.identifier \in Ids
<1>1. CASE SendInit(u)
  <2> DEFINE m == Message("INIT", NoId, u, 0)
  <2>1. m \in Queued /\ m.from = u /\ m.type = "INIT"
    BY BoundsAssumption DEF Message, Queued, Types
  <2>2. ToServer(m)
    BY <1>1 DEF SendInit
  <2> HIDE DEF m
  <2> QED
    BY <1>1, <2>1, <2>2, ToServerType
<1>2. CASE Text(u)
  <2> DEFINE m == Message("MESSAGE_TEXT", id[u], u, typed + 1)
  <2>1. typed + 1 \in 0 .. MaxTexts
    BY <1>2, BoundsAssumption DEF Text, TypeOK
  <2>2. m \in Queued /\ m.from = u /\ m.type = "MESSAGE_TEXT" /\ m.identifier = id[u] /\ m.n = typed + 1
    BY <2>1 DEF Message, Queued, Types, TypeOK
  <2>3. ToServer(m)
    BY <1>2 DEF Text
  <2> HIDE DEF m
  <2> QED
    BY <1>2, <2>2, <2>3, ToServerType
<1>3. CASE SendClose(u)
  <2> DEFINE m == Message("CLIENT_CLOSE", id[u], u, 0)
  <2>1. id[u] \in Ids
    BY <1>3 DEF SendClose, Home, IdInOrder, TypeOK
  <2>2. m \in Queued /\ m.from = u /\ m.type = "CLIENT_CLOSE" /\ m.identifier \in Ids
    BY <2>1, BoundsAssumption DEF Message, Queued, Types
  <2>3. ToServer(m)
    BY <1>3 DEF SendClose
  <2> HIDE DEF m
  <2> QED
    BY <1>3, <2>2, <2>3, ToServerType
<1> QED
  BY <1>1, <1>2, <1>3

(* Nobody else touches the server's queue. *)
LEMMA ServerQueueStep ==
    ASSUME TypeOK, Home, [Next]_vars
    PROVE  \/ UNCHANGED serverQueue
           \/ \E u \in Users : SendInit(u) \/ Text(u) \/ SendClose(u)
           \/ ServerReceive
  BY DEF Next, vars, Parent, Child, Server, Fork, ReadId, Receive, HandleStale, CtrlC, ServerSend, Restart

(* What is in the server's queue stays in order. *)
LEMMA RequestStep ==
    ASSUME TypeOK, Home, [Next]_vars
    PROVE  \A k \in 1 .. Len(serverQueue') : RequestInOrder(serverQueue[k])'
<1>1. Settles
  BY StepSettles
<1> SUFFICES ASSUME NEW k \in 1 .. Len(serverQueue'), NEW r, r = serverQueue'[k] PROVE RequestInOrder(r)'
  BY DEF RequestInOrder, KnownAs, Unserved, Registers
<1>2. ASSUME RequestInOrder(r) PROVE RequestInOrder(r)'
  BY <1>1, <1>2, RequestStays
<1>3. \A j \in 1 .. Len(serverQueue) : RequestInOrder(serverQueue[j])
  BY DEF Home
<1>4. CASE UNCHANGED serverQueue
  BY <1>2, <1>3, <1>4
<1>5. ASSUME NEW u \in Users, SendInit(u) \/ Text(u) \/ SendClose(u) PROVE RequestInOrder(r)'
  <2>1. PICK m \in Queued :
             /\ m.from = u /\ Appended(serverQueue, serverQueue', m)
             /\ \/ m.type = "INIT"
                \/ Text(u) /\ m.type = "MESSAGE_TEXT" /\ m.identifier = id[u]
                \/ m.type = "CLIENT_CLOSE" /\ m.identifier \in Ids
    BY <1>5, ParentSends
  <2>2. CASE k \in 1 .. Len(serverQueue)
    BY <1>2, <1>3, <2>1, <2>2 DEF Appended
  <2>3. CASE r = m
    <3>1. m.type = "MESSAGE_TEXT" => KnownAs(m.from, m.identifier)
      BY <2>1 DEF Text, Home, IdInOrder
    <3>2. RequestInOrder(m)
      BY <2>1, <3>1 DEF RequestInOrder
    <3> QED
      BY <1>2, <2>3, <3>2
  <2> QED
    BY <2>1, <2>2, <2>3 DEF Appended
<1>6. CASE ServerReceive
  <2>1. Advanced(serverQueue, serverQueue')
    BY <1>6, ServerTakes
  <2>2. k + 1 \in 1 .. Len(serverQueue) /\ r = serverQueue[k + 1]
    BY <2>1 DEF Advanced
  <2> QED
    BY <1>2, <1>3, <2>2
<1> QED
  BY <1>4, <1>5, <1>6, ServerQueueStep

(* Nobody is twice in the table or twice on his way there. *)
LEMMA TableStep ==
    ASSUME TypeOK, Home, [Next]_vars PROVE TableInOrder'
<1>1. Settles
  BY StepSettles
<1> USE DEF Home
<1>2. \A u \in Users : \A j, k \in 1 .. Len(serverQueue) :
         Registers(u, k) => parent[u] # "init" /\ (Registers(u, j) => j = k)
  BY DEF TableInOrder
<1>3. \A u \in Users : parent[u] # "init" => parent'[u] # "init"
  BY DEF Next, vars, Parent, Child, Server, SendInit, Fork, ReadId, Text, SendClose, Receive, HandleStale, CtrlC,
         ServerSend, Restart, ServerReceive, GotoP, ParentLoop, Leaving, writer, TypeOK
<1>4. ASSUME NEW u \in Users, SendInit(u) \/ Text(u) \/ SendClose(u) PROVE TableInOrder'
  <2>1. PICK m \in Queued :
             /\ m.from = u /\ Appended(serverQueue, serverQueue', m)
             /\ SendInit(u) \/ m.type # "INIT"
    BY <1>4, ParentSends
  <2>2. UNCHANGED client_queues
    BY <1>4 DEF SendInit, Text, SendClose, server
  <2> QED
    <3>1. SendInit(u) => parent[u] = "init" /\ parent'[u] # "init"
      BY DEF SendInit, GotoP, TypeOK
    <3>2. ASSUME NEW v \in Users, NEW j \in 1 .. Len(serverQueue'), NEW k \in 1 .. Len(serverQueue'),
                 Registers(v, k)', NEW i \in 1 .. Len(serverQueue'), Registers(v, i)'
          PROVE  parent'[v] # "init" /\ i = k
      BY <1>2, <1>3, <2>1, <3>1, <3>2 DEF Registers, Appended
    <3>3. \A i \in Ids : client_queues'[i] # None => ~Unserved(client_queues'[i])
      BY <2>2 DEF TableInOrder
    <3>4. \A i \in Ids : client_queues'[i] # None => client_queues'[i] \in Users
      BY <2>2 DEF TypeOK
    <3>5. \A i \in Ids : client_queues'[i] # None => ~Unserved(client_queues[i])'
      BY <1>1, <2>2, <3>3, <3>4 DEF Settles, Unserved, Registers
    <3> QED
      BY <2>2, <3>2, <3>5 DEF TableInOrder
<1>5. CASE ServerReceive
  <2>1. PICK m \in Queued :
             /\ m = serverQueue[1] /\ 1 \in 1 .. Len(serverQueue) /\ RequestInOrder(m)
             /\ Advanced(serverQueue, serverQueue')
             /\ \/ m.type = "INIT" /\ Register(m)
                \/ Relay(m) \/ Unregister(m)
             /\ UNCHANGED writer
    BY <1>5, ServerTakes
  <2>2. \A v \in Users : \A j, k \in 1 .. Len(serverQueue') :
           Registers(v, k)' => parent'[v] # "init" /\ (Registers(v, j)' => j = k)
    BY <1>2, <1>3, <2>1 DEF Registers, Advanced
  <2>3. CASE Relay(m) \/ Unregister(m)
    <3>1. \A i \in Ids : client_queues'[i] \in {client_queues[i], None}
      BY <2>3 DEF Relay, Unregister, TypeOK
    <3>2. ASSUME NEW i \in Ids, NEW w, w = client_queues'[i], w # None PROVE ~Unserved(w)'
      BY <1>1, <3>1, <3>2 DEF Settles, TableInOrder, TypeOK
    <3>3. \A i \in Ids : client_queues'[i] # None => ~Unserved(client_queues[i])'
      BY <3>2 DEF Unserved, Registers
    <3> QED
      BY <2>2, <3>1, <3>3 DEF TableInOrder
  <2>4. CASE m.type = "INIT" /\ Register(m)
    <3>1. Registers(m.from, 1) /\ m.from \in Users
      BY <2>1, <2>4 DEF Registers, RequestInOrder
    <3>2. \A i \in Ids : client_queues[i] # m.from
      BY <2>1, <3>1, IdsAreIndices DEF TableInOrder, Unserved
    <3>3. \A k \in 1 .. Len(serverQueue') : ~Registers(m.from, k)'
      BY <1>2, <2>1, <3>1 DEF Registers, Advanced
    <3>4. parent'[m.from] # "init"
      BY <1>2, <1>3, <2>1, <3>1
    <3>5. \A i \in Ids : IF i = NewId THEN client_queues'[i] \in {None, m.from} ELSE client_queues'[i] = client_queues[i]
      <4>1. client_queues' = [client_queues EXCEPT ![NewId] = IF parent[m.from] = "left" THEN None ELSE m.from]
        BY <2>4 DEF Register
      <4> QED
        BY <4>1 DEF TypeOK
    <3>6. ASSUME NEW i \in Ids, NEW w, w = client_queues'[i], w # None PROVE ~Unserved(w)'
      <4>1. CASE w = m.from
        BY <3>3, <3>4, <4>1 DEF Unserved
      <4>2. CASE w = client_queues[i]
        <5>1. w \in Users /\ ~Unserved(w)
          BY <3>6, <4>2 DEF TableInOrder, TypeOK
        <5> QED
          BY <1>1, <5>1 DEF Settles
      <4> QED
        BY <3>5, <3>6, <4>1, <4>2
    <3>7. \A i \in Ids : client_queues'[i] # None => ~Unserved(client_queues[i])'
      BY <3>6 DEF Unserved, Registers
    <3>8. \A i, j \in Ids : client_queues'[i] = client_queues'[j] /\ client_queues'[i] # None => i = j
      BY <3>2, <3>5 DEF TableInOrder
    <3> QED
      BY <2>2, <3>7, <3>8 DEF TableInOrder
  <2> QED
    BY <2>1, <2>3, <2>4
<1>6. CASE UNCHANGED serverQueue
  <2>1. ServerReceive => serverQueue' # serverQueue
    <3>1. ServerReceive => Advanced(serverQueue, serverQueue')
      BY ServerTakes
    <3> QED
      BY <3>1 DEF Advanced
  <2>2. client_queues' = client_queues \/ client_queues' = [i \in Ids |-> None]
    BY <1>6, <2>1 DEF Next, vars, Parent, Child, Server, SendInit, Fork, ReadId, Text, SendClose, Receive, HandleStale,
                      CtrlC, ServerSend, Restart, server
  <2>3. ASSUME NEW i \in Ids, NEW w, w = client_queues'[i], w # None PROVE ~Unserved(w)'
    BY <1>1, <2>2, <2>3 DEF Settles, TableInOrder, TypeOK
  <2>4. \A i \in Ids : client_queues'[i] # None => ~Unserved(client_queues[i])'
    BY <2>3 DEF Unserved, Registers
  <2>5. \A i, j \in Ids : client_queues'[i] = client_queues'[j] /\ client_queues'[i] # None => i = j
    BY <2>2 DEF TableInOrder
  <2> QED
    BY <1>2, <1>3, <1>6, <2>4, <2>5 DEF TableInOrder, Registers
<1> QED
  BY <1>4, <1>5, <1>6, ServerQueueStep

(* The server sends to the entries of its table only, and a text to others. *)
LEMMA SendingStep ==
    ASSUME TypeOK, Home, [Next]_vars PROVE SendingInOrder'
<1>1. SendingInOrder /\ todo \subseteq Ids
  BY DEF Home, TypeOK
<1>2. CASE ServerReceive
  <2>1. PICK m \in Queued :
             /\ RequestInOrder(m) /\ todo = {}
             /\ \/ m.type = "INIT" /\ Register(m)
                \/ m.type = "MESSAGE_TEXT" /\ Relay(m)
                \/ Unregister(m)
    BY <1>2, ServerTakes
  <2>2. CASE Register(m) /\ m.type = "INIT"
    <3>1. CASE parent[m.from] = "left"
      <4>1. todo' = {}
        BY <2>2, <3>1 DEF Register
      <4> QED
        BY <4>1 DEF SendingInOrder
    <3>2. CASE parent[m.from] # "left"
      <4>1. m.from \in Users /\ m.from # None
        BY <2>1, IdsAreIndices DEF RequestInOrder
      <4>2. /\ client_queues' = [client_queues EXCEPT ![NewId] = m.from]
            /\ todo' = {NewId} /\ out' = Message("IDENTIFIER", NewId, None, 0)
        BY <2>2, <3>2, <4>1 DEF Register
      <4>3. client_queues'[NewId] = m.from
        BY <4>2, NewIdIsIndex DEF TypeOK
      <4> QED
        BY <4>1, <4>2, <4>3 DEF SendingInOrder, Message
    <3> QED
      BY <3>1, <3>2
  <2>3. CASE Relay(m) /\ m.type = "MESSAGE_TEXT"
    <3>1. out' = m /\ todo' = Others(m) /\ UNCHANGED client_queues /\ KnownAs(m.from, m.identifier)
      BY <2>1, <2>3 DEF Relay, RequestInOrder
    <3>2. \A i \in todo' : i \in Ids /\ i # m.identifier /\ client_queues[i] # None
      BY <3>1 DEF Others
    <3>3. \A i \in todo' : client_queues[i] # m.from
      BY <3>1, <3>2 DEF KnownAs
    <3> QED
      BY <2>3, <3>1, <3>2, <3>3 DEF SendingInOrder
  <2>4. CASE Unregister(m)
    BY <2>1, <2>4 DEF Unregister, SendingInOrder
  <2> QED
    BY <2>1, <2>2, <2>3, <2>4
<1>3. CASE Restart
  BY <1>3 DEF Restart, SendingInOrder
<1>4. CASE ServerSend
  BY <1>1, <1>4 DEF ServerSend, SendingInOrder
<1>5. CASE UNCHANGED <<out, todo, client_queues>>
  BY <1>1, <1>5 DEF SendingInOrder
<1> QED
  BY <1>2, <1>3, <1>4, <1>5 DEF Next, vars, Parent, Child, Server, SendInit, Fork, ReadId, Text, SendClose, Receive,
     HandleStale, CtrlC, server

(* What the server puts into a client's queue. *)
LEMMA ServerPuts ==
    ASSUME TypeOK, Home, ServerSend
    PROVE  \E u \in Users :
             /\ AnswerInOrder(u, out) /\ out \in Queued
             /\ Appended(clientQueue[u], clientQueue'[u], out)
             /\ \A v \in Users \ {u} : clientQueue'[v] = clientQueue[v]
             /\ \E i \in todo : out.type = "IDENTIFIER" => out.identifier = i /\ client_queues[i] = u
             /\ UNCHANGED <<serverQueue, client_queues, out, reader, writer, is_running, restarts>>
<1>1. PICK i \in Ids :
         /\ i \in todo
         /\ clientQueue' = [clientQueue EXCEPT ![client_queues[i]] = Put(@, out)]
         /\ UNCHANGED <<serverQueue, client_queues, out, reader, writer, is_running, restarts>>
  BY DEF ServerSend, Turn
<1>2. PICK u \in Users : u = client_queues[i]
  BY <1>1 DEF Home, SendingInOrder, TypeOK
<1>3. out \in Queued /\ clientQueue[u] \in Seq(Queued) /\ u # None
  BY <1>2, IdsAreIndices DEF TypeOK
<1>4. Appended(clientQueue[u], clientQueue'[u], out) /\ \A v \in Users \ {u} : clientQueue'[v] = clientQueue[v]
  <2>1. Appended(clientQueue[u], Put(clientQueue[u], out), out)
    BY <1>3, PutAppends
  <2> QED
    BY <1>1, <1>2, <2>1 DEF TypeOK
<1>5. /\ out.type \in {"IDENTIFIER", "MESSAGE_TEXT"} /\ out.from # u
      /\ out.type = "IDENTIFIER" => i = out.identifier
  BY <1>1, <1>2, <1>3 DEF Home, SendingInOrder
<1>6. KnownAs(u, i)
  BY <1>2, <1>3 DEF Home, TableInOrder, KnownAs
<1> QED
  BY <1>1, <1>2, <1>3, <1>4, <1>5, <1>6 DEF AnswerInOrder

(* What a client takes from its queue. *)
LEMMA ClientTakes ==
    ASSUME TypeOK, Home, NEW u \in Users, Receive(u)
    PROVE  \E m \in Queued :
             /\ m = clientQueue[u][1] /\ 1 \in 1 .. Len(clientQueue[u]) /\ AnswerInOrder(u, m)
             /\ Advanced(clientQueue[u], clientQueue'[u]) /\ received'[u] = m /\ Handle(u, m)
             /\ \A v \in Users \ {u} : clientQueue'[v] = clientQueue[v] /\ received'[v] = received[v]
             /\ child'[u] = ChildLoop(u) /\ child[u] = "receive"
             /\ \A v \in Users \ {u} : child'[v] = child[v]
             /\ UNCHANGED <<serverQueue, server, writer, is_running>>
<1>1. clientQueue[u] \in Seq(Queued) /\ clientQueue[u] # << >>
  BY DEF TypeOK, Receive
<1> DEFINE m == Head(clientQueue[u])
<1>2. /\ Advanced(clientQueue[u], Tail(clientQueue[u])) /\ m = clientQueue[u][1]
      /\ m \in Queued /\ 1 \in 1 .. Len(clientQueue[u])
  BY <1>1, TailAdvances
<1>3. AnswerInOrder(u, clientQueue[u][1])
  BY <1>2 DEF Home, InboxInOrder
<1>4. /\ received' = [received EXCEPT ![u] = m] /\ clientQueue' = [clientQueue EXCEPT ![u] = Tail(@)]
      /\ Handle(u, m) /\ child' = [child EXCEPT ![u] = ChildLoop(u)] /\ child[u] = "receive"
      /\ UNCHANGED <<serverQueue, server, writer, is_running>>
  BY DEF Receive, GotoC
<1> HIDE DEF m
<1> QED
  BY <1>2, <1>3, <1>4 DEF TypeOK

(* What a client handles when it was interrupted. *)
LEMMA ClientRepeats ==
    ASSUME TypeOK, Home, NEW u \in Users, HandleStale(u)
    PROVE  \E m \in Queued :
             /\ Handle(u, m) /\ ((m = received[u] /\ AnswerInOrder(u, m)) \/ m.type # "MESSAGE_TEXT")
             /\ child'[u] = ChildLoop(u) /\ child[u] = "failed" /\ ~is_running[u]
             /\ \A v \in Users \ {u} : child'[v] = child[v]
             /\ UNCHANGED <<serverQueue, server, clientQueue, received, writer, is_running>>
<1>1. /\ child' = [child EXCEPT ![u] = ChildLoop(u)] /\ child[u] = "failed" /\ ~is_running[u]
      /\ UNCHANGED <<serverQueue, server, clientQueue, received, writer, is_running>>
  BY DEF HandleStale, GotoC, Home, IdInOrder
<1>2. \E m \in Queued : /\ Handle(u, m)
                        /\ (m = received[u] /\ AnswerInOrder(u, m)) \/ m.type # "MESSAGE_TEXT"
  <2>1. CASE received[u] # Garbage
    BY <2>1 DEF HandleStale, Home, InboxInOrder, TypeOK
  <2>2. CASE received[u] = Garbage
    <3>1. PICK m \in {Garbage} \cup {Message("IDENTIFIER", i, None, 0) : i \in Ids} : Handle(u, m)
      BY <2>2 DEF HandleStale
    <3>2. m \in Queued /\ m.type # "MESSAGE_TEXT"
      BY BoundsAssumption DEF Garbage, Message, Queued, Types
    <3> QED
      BY <3>1, <3>2
  <2> QED
    BY <2>1, <2>2
<1> QED
  BY <1>1, <1>2 DEF TypeOK

(* What the clients have received stays in order. *)
LEMMA InboxStep ==
    ASSUME TypeOK, Home, [Next]_vars, NEW u \in Users PROVE InboxInOrder(u)'
<1>1. Settles
  BY StepSettles
<1>2. InboxInOrder(u)
  BY DEF Home
<1> SUFFICES /\ \A k \in 1 .. Len(clientQueue'[u]) : AnswerInOrder(u, clientQueue'[u][k])
             /\ received'[u] # Garbage => AnswerInOrder(u, received'[u])
             /\ \A k \in 1 .. Len(shown'[u]) : shown'[u][k].from # u
  <2>1. ASSUME NEW m, AnswerInOrder(u, m) PROVE AnswerInOrder(u, m)'
    BY <1>1, <2>1, AnswerStays
  <2>2. \A k \in 1 .. Len(clientQueue'[u]) : AnswerInOrder(u, clientQueue[u][k])'
    <3> SUFFICES ASSUME NEW k \in 1 .. Len(clientQueue'[u]), NEW m, m = clientQueue'[u][k]
                 PROVE  AnswerInOrder(u, m)'
      BY DEF AnswerInOrder, KnownAs, Unserved, Registers
    <3> QED
      BY <2>1
  <2>3. received'[u] # Garbage => AnswerInOrder(u, received[u])'
    <3> SUFFICES ASSUME NEW m, m = received'[u], m # Garbage
                 PROVE  AnswerInOrder(u, m)'
      BY DEF AnswerInOrder, KnownAs, Unserved, Registers, Garbage, Message
    <3> QED
      BY <2>1
  <2> QED
    BY <2>2, <2>3 DEF InboxInOrder, Garbage, Message
<1>3. CASE UNCHANGED <<clientQueue[u], received[u], shown[u]>>
  BY <1>2, <1>3 DEF InboxInOrder
<1>4. CASE ServerSend
  <2>1. PICK v \in Users :
             /\ AnswerInOrder(v, out)
             /\ Appended(clientQueue[v], clientQueue'[v], out)
             /\ \A w \in Users \ {v} : clientQueue'[w] = clientQueue[w]
             /\ UNCHANGED reader
    BY <1>4, ServerPuts
  <2>2. UNCHANGED <<received[u], shown[u]>>
    BY <2>1 DEF reader
  <2>3. CASE v = u
    <3>1. \A k \in 1 .. Len(clientQueue'[u]) : AnswerInOrder(u, clientQueue'[u][k])
      BY <1>2, <2>1, <2>3 DEF InboxInOrder, Appended
    <3> QED
      BY <1>2, <2>2, <3>1 DEF InboxInOrder
  <2> QED
    BY <1>3, <2>1, <2>2, <2>3
<1>5. ASSUME NEW v \in Users, Receive(v)
      PROVE  /\ \A k \in 1 .. Len(clientQueue'[u]) : AnswerInOrder(u, clientQueue'[u][k])
             /\ received'[u] # Garbage => AnswerInOrder(u, received'[u])
             /\ \A k \in 1 .. Len(shown'[u]) : shown'[u][k].from # u
  <2>1. PICK m \in Queued :
             /\ AnswerInOrder(v, m) /\ Advanced(clientQueue[v], clientQueue'[v]) /\ received'[v] = m /\ Handle(v, m)
             /\ \A w \in Users \ {v} : clientQueue'[w] = clientQueue[w] /\ received'[w] = received[w]
    BY <1>5, ClientTakes
  <2>2. /\ \A w \in Users \ {v} : shown'[w] = shown[w]
        /\ Appended(shown[v], shown'[v], m) \/ shown'[v] = shown[v]
    BY <2>1, HandleType
  <2>3. CASE u = v
    <3>1. \A k \in 1 .. Len(clientQueue'[u]) : AnswerInOrder(u, clientQueue'[u][k])
      BY <1>2, <2>1, <2>3 DEF InboxInOrder, Advanced
    <3>2. m.from # u /\ \A k \in 1 .. Len(shown[u]) : shown[u][k].from # u
      BY <1>2, <2>1, <2>3 DEF InboxInOrder, AnswerInOrder
    <3>3. \A k \in 1 .. Len(shown'[u]) : shown'[u][k].from # u
      BY <2>2, <2>3, <3>2 DEF Appended
    <3> QED
      BY <2>1, <2>3, <3>1, <3>3
  <2> QED
    BY <1>3, <2>1, <2>2, <2>3
<1>6. ASSUME NEW v \in Users, HandleStale(v)
      PROVE  /\ \A k \in 1 .. Len(clientQueue'[u]) : AnswerInOrder(u, clientQueue'[u][k])
             /\ received'[u] # Garbage => AnswerInOrder(u, received'[u])
             /\ \A k \in 1 .. Len(shown'[u]) : shown'[u][k].from # u
  <2>1. PICK m \in Queued :
             /\ Handle(v, m)
             /\ AnswerInOrder(v, m) \/ m.type # "MESSAGE_TEXT"
             /\ UNCHANGED <<clientQueue, received>>
    BY <1>6, ClientRepeats
  <2>2. /\ \A w \in Users \ {v} : shown'[w] = shown[w]
        /\ IF m.type = "MESSAGE_TEXT" THEN Appended(shown[v], shown'[v], m) ELSE shown'[v] = shown[v]
    BY <2>1, HandleType
  <2>3. CASE u = v
    <3>1. \A k \in 1 .. Len(shown'[u]) : shown'[u][k].from # u
      BY <1>2, <2>1, <2>2, <2>3 DEF InboxInOrder, Appended, AnswerInOrder
    <3> QED
      BY <1>2, <2>1, <3>1 DEF InboxInOrder
  <2> QED
    BY <1>3, <2>1, <2>2, <2>3
<1> QED
  BY <1>3, <1>4, <1>5, <1>6 DEF Next, vars, Parent, Child, Server, SendInit, Fork, ReadId, Text, SendClose, Restart,
     CtrlC, ServerReceive, server, reader

(* A client that runs takes for its identifier what the server told it. *)
LEMMA IdStep ==
    ASSUME TypeOK, Home, [Next]_vars, NEW u \in Users PROVE IdInOrder(u)'
<1>1. Settles
  BY StepSettles
<1>2. IdInOrder(u)
  BY DEF Home
<1>3. is_running'[u] => is_running[u]
  BY DEF Next, vars, Parent, Child, Server, SendInit, Fork, ReadId, Text, SendClose, Receive, HandleStale, CtrlC,
         ServerReceive, ServerSend, Restart, TypeOK
<1>4. ASSUME NEW i, KnownAs(u, i) PROVE KnownAs(u, i)'
  BY <1>1, <1>4, KnownStays
<1> SUFFICES /\ child'[u] \in {"failed", "exited"} => ~is_running'[u]
             /\ is_running'[u] /\ pipe'[u] # NoId => KnownAs(u, pipe'[u])
             /\ parent'[u] \in {"fgets", "close"} => id'[u] # NoId
             /\ parent'[u] = "fgets" => KnownAs(u, id'[u])
  <2>1. is_running'[u] /\ pipe'[u] # NoId => KnownAs(u, pipe[u])'
    BY <1>4 DEF KnownAs, Unserved, Registers
  <2>2. parent'[u] = "fgets" => KnownAs(u, id[u])'
    BY <1>4 DEF KnownAs, Unserved, Registers
  <2> QED
    BY <2>1, <2>2 DEF IdInOrder, NoId
<1>5. CASE UNCHANGED <<parent[u], child[u], pipe[u], id[u]>>
  BY <1>2, <1>3, <1>5 DEF IdInOrder
<1>6. ASSUME NEW v \in Users, v # u, Parent(v) \/ Text(v) \/ Child(v) \/ CtrlC(v)
      PROVE  UNCHANGED <<parent[u], child[u], pipe[u], id[u]>>
  BY <1>6 DEF Parent, Child, SendInit, Fork, ReadId, Text, SendClose, Receive, HandleStale, Handle, CtrlC,
         GotoP, GotoC, reader, writer, TypeOK
<1>7. CASE SendInit(u) \/ SendClose(u)
  BY <1>2, <1>3, <1>7 DEF SendInit, SendClose, GotoP, reader, IdInOrder, TypeOK
<1>8. CASE Fork(u)
  BY <1>2, <1>3, <1>8 DEF Fork, GotoP, GotoC, ChildLoop, IdInOrder, TypeOK
<1>9. CASE ReadId(u)
  BY <1>2, <1>9 DEF ReadId, GotoP, ParentLoop, Leaving, reader, IdInOrder, TypeOK
<1>10. CASE Text(u)
  BY <1>2, <1>10 DEF Text, GotoP, ParentLoop, Leaving, reader, IdInOrder, TypeOK
<1>11. CASE Receive(u)
  <2>1. PICK m \in Queued :
             /\ AnswerInOrder(u, m) /\ Handle(u, m) /\ child'[u] = ChildLoop(u)
             /\ UNCHANGED <<writer, is_running>>
    BY <1>11, ClientTakes
  <2>2. pipe'[u] = IF m.type = "IDENTIFIER" /\ pipe[u] = NoId THEN m.identifier ELSE pipe[u]
    BY <2>1, HandleType
  <2> QED
    BY <1>2, <2>1, <2>2 DEF IdInOrder, AnswerInOrder, ChildLoop, writer
<1>12. CASE HandleStale(u)
  <2>1. child'[u] = ChildLoop(u) /\ ~is_running[u] /\ UNCHANGED <<writer, is_running>>
    BY <1>12, ClientRepeats
  <2> QED
    BY <1>2, <2>1 DEF IdInOrder, ChildLoop, writer
<1>13. CASE CtrlC(u)
  BY <1>2, <1>13 DEF CtrlC, GotoP, GotoC, Leaving, IdInOrder, TypeOK
<1>14. CASE Server \/ Restart \/ UNCHANGED vars
  BY <1>5, <1>14 DEF Server, ServerReceive, ServerSend, Restart, vars, reader, writer
<1> QED
  BY <1>5, <1>6, <1>7, <1>8, <1>9, <1>10, <1>11, <1>12, <1>13, <1>14 DEF Next, Parent, Child

(* Every step keeps it. *)
LEMMA HomeStep == TypeOK /\ Home /\ [Next]_vars => Home'
  BY RequestStep, TableStep, SendingStep, InboxStep, IdStep DEF Home

-----------------------------------------------------------------------------
(* The order of the texts. *)

IsRelayed(m) ==
    /\ IsText(m)
    /\ \/ m = out
       \/ \E u \in Users : \/ m = received[u]
                           \/ \E k \in 1 .. Len(clientQueue[u]) : m = clientQueue[u][k]
                           \/ \E k \in 1 .. Len(shown[u]) : m = shown[u][k]

(* The texts relayed, now and after a step. *)
LEMMA RelayedMember == \A m : (m \in Relayed <=> IsRelayed(m)) /\ (m \in Relayed' <=> IsRelayed(m)')
<1> TAKE m
<1>1. m \in Relayed <=> IsRelayed(m)
  BY DEF Relayed, Held, IsRelayed
<1>2. m \in Relayed' <=> IsRelayed(m)'
  BY DEF Relayed, Held, IsRelayed, IsText
<1> QED
  BY <1>1, <1>2

(* A relayed text has a number. *)
LEMMA RelayedType == TypeOK => Relayed \subseteq Queued /\ \A m \in Relayed : m.n \in Nat
<1> SUFFICES ASSUME TypeOK, NEW m \in Relayed PROVE m \in Queued /\ m.n \in Nat
  OBVIOUS
<1>1. IsRelayed(m)
  BY RelayedMember
<1>2. m \in Queued
  BY <1>1 DEF IsRelayed, TypeOK
<1>3. 0 .. MaxTexts \subseteq Nat
  BY BoundsAssumption
<1> QED
  BY <1>2, <1>3 DEF Queued

(* Only the server relays texts. *)
LEMMA RelayedStep ==
    ASSUME TypeOK, Home, [Next]_vars
    PROVE  \/ Relayed' \subseteq Relayed /\ (out' = out \/ ~IsText(out'))
           \/ ServerReceive /\ IsText(serverQueue[1]) /\ out' = serverQueue[1] /\ Relayed' \subseteq Relayed \cup {out'}
<1>1. CASE UNCHANGED <<out, received, clientQueue, shown>>
  BY <1>1 DEF Relayed, Held, IsText
<1>2. CASE UNCHANGED <<received, clientQueue, shown>> /\ ~IsText(out')
  <2>1. ASSUME NEW m, IsRelayed(m)' PROVE IsRelayed(m)
    BY <1>2, <2>1 DEF IsRelayed, IsText
  <2> QED
    BY <1>2, <2>1, RelayedMember
<1>3. CASE ServerReceive
  <2>1. PICK m \in Queued :
             /\ m = serverQueue[1]
             /\ \/ Register(m)
                \/ m.type = "MESSAGE_TEXT" /\ Relay(m)
                \/ Unregister(m)
             /\ UNCHANGED <<clientQueue, reader>>
    BY <1>3, ServerTakes
  <2>2. CASE Register(m)
    BY <1>2, <2>1, <2>2 DEF Register, Message, IsText, reader
  <2>3. CASE Unregister(m)
    BY <1>1, <2>1, <2>3 DEF Unregister, reader
  <2>4. CASE m.type = "MESSAGE_TEXT" /\ Relay(m)
    <3>1. out' = m
      BY <2>4 DEF Relay
    <3>2. ASSUME NEW t, IsRelayed(t)' PROVE IsRelayed(t) \/ t = out'
      BY <2>1, <3>2 DEF IsRelayed, IsText, reader
    <3> QED
      BY <1>3, <2>1, <2>4, <3>1, <3>2, RelayedMember DEF IsText
  <2> QED
    BY <2>1, <2>2, <2>3, <2>4
<1>4. CASE ServerSend
  <2>1. PICK u \in Users :
             /\ Appended(clientQueue[u], clientQueue'[u], out)
             /\ \A v \in Users \ {u} : clientQueue'[v] = clientQueue[v]
             /\ UNCHANGED <<out, reader>>
    BY <1>4, ServerPuts
  <2>2. ASSUME NEW t, IsRelayed(t)' PROVE IsRelayed(t)
    BY <2>1, <2>2 DEF IsRelayed, IsText, reader, Appended
  <2> QED
    BY <2>1, <2>2, RelayedMember
<1>5. ASSUME NEW u \in Users, Receive(u) PROVE Relayed' \subseteq Relayed /\ out' = out
  <2>1. PICK m \in Queued :
             /\ m = clientQueue[u][1] /\ 1 \in 1 .. Len(clientQueue[u])
             /\ Advanced(clientQueue[u], clientQueue'[u]) /\ received'[u] = m /\ Handle(u, m)
             /\ \A v \in Users \ {u} : clientQueue'[v] = clientQueue[v] /\ received'[v] = received[v]
             /\ UNCHANGED server
    BY <1>5, ClientTakes
  <2>2. /\ \A w \in Users \ {u} : shown'[w] = shown[w]
        /\ Appended(shown[u], shown'[u], m) \/ shown'[u] = shown[u]
    BY <2>1, HandleType
  <2>3. ASSUME NEW t, IsRelayed(t)' PROVE IsRelayed(t)
    <3>1. PICK v \in Users : \/ t = out \/ t = received'[v]
                             \/ \E k \in 1 .. Len(clientQueue'[v]) : t = clientQueue'[v][k]
                             \/ \E k \in 1 .. Len(shown'[v]) : t = shown'[v][k]
      BY <1>5, <2>1, <2>3 DEF IsRelayed, server
    <3>2. \/ t = out \/ t = received[v]
          \/ \E k \in 1 .. Len(clientQueue[v]) : t = clientQueue[v][k]
          \/ \E k \in 1 .. Len(shown[v]) : t = shown[v][k]
      <4>1. CASE v # u
        BY <2>1, <2>2, <3>1, <4>1
      <4>2. CASE v = u
        <5>1. ASSUME NEW k \in 1 .. Len(clientQueue'[u]), t = clientQueue'[u][k]
              PROVE  \E j \in 1 .. Len(clientQueue[u]) : t = clientQueue[u][j]
          <6>1. k + 1 \in 1 .. Len(clientQueue[u]) /\ t = clientQueue[u][k + 1]
            BY <2>1, <5>1 DEF Advanced
          <6> QED
            BY <6>1
        <5>2. ASSUME NEW k \in 1 .. Len(shown'[u]), t = shown'[u][k]
              PROVE  t = m \/ \E j \in 1 .. Len(shown[u]) : t = shown[u][j]
          BY <2>2, <5>2 DEF Appended
        <5> QED
          BY <2>1, <3>1, <4>2, <5>1, <5>2
      <4> QED
        BY <4>1, <4>2
    <3> QED
      BY <2>3, <3>2 DEF IsRelayed, IsText
  <2> QED
    BY <2>1, <2>3, RelayedMember DEF server
<1>6. ASSUME NEW u \in Users, HandleStale(u) PROVE Relayed' \subseteq Relayed /\ out' = out
  <2>1. PICK m \in Queued :
             /\ Handle(u, m) /\ (m = received[u] \/ m.type # "MESSAGE_TEXT")
             /\ UNCHANGED <<server, clientQueue, received>>
    BY <1>6, ClientRepeats
  <2>2. /\ \A w \in Users \ {u} : shown'[w] = shown[w]
        /\ IF m.type = "MESSAGE_TEXT" THEN Appended(shown[u], shown'[u], m) ELSE shown'[u] = shown[u]
    BY <2>1, HandleType
  <2>3. ASSUME NEW t, IsRelayed(t)' PROVE IsRelayed(t)
    <3>1. PICK v \in Users : \/ t = out \/ t = received[v]
                             \/ \E k \in 1 .. Len(clientQueue[v]) : t = clientQueue[v][k]
                             \/ \E k \in 1 .. Len(shown'[v]) : t = shown'[v][k]
      BY <1>6, <2>1, <2>3 DEF IsRelayed, server
    <3>2. \/ t = out \/ t = received[v]
          \/ \E k \in 1 .. Len(clientQueue[v]) : t = clientQueue[v][k]
          \/ \E k \in 1 .. Len(shown[v]) : t = shown[v][k]
      BY <2>1, <2>2, <3>1 DEF Appended
    <3> QED
      BY <2>3, <3>2 DEF IsRelayed, IsText
  <2> QED
    BY <2>1, <2>3, RelayedMember DEF server
<1>7. CASE Restart
  BY <1>2, <1>7 DEF Restart, reader, Garbage, Message, IsText
<1> QED
  BY <1>1, <1>3, <1>4, <1>5, <1>6, <1>7 DEF Next, vars, Parent, Child, Server, SendInit, Fork, ReadId, Text, SendClose,
     CtrlC, server, reader

(* The texts in the server's queue are younger than all that were relayed. *)
LEMMA RelayOrderStep ==
    ASSUME TypeOK, Home, RelayInOrder, [Next]_vars PROVE RelayInOrder'
<1>1. /\ \A k \in 1 .. Len(serverQueue) : IsText(serverQueue[k]) =>
           /\ serverQueue[k].n <= typed
           /\ \A j \in 1 .. k - 1 : IsText(serverQueue[j]) => serverQueue[j].n < serverQueue[k].n
           /\ \A m \in Relayed : m.n < serverQueue[k].n
      /\ \A m \in Relayed :
           /\ m.n <= typed
           /\ IsText(out) => m.n <= out.n
           /\ \A other \in Relayed : m.n = other.n => m = other
  BY DEF RelayInOrder
<1>2. /\ typed \in Nat /\ \A m \in Queued : m.n \in Nat
      /\ serverQueue \in Seq(Queued)
  <2>1. 0 .. MaxTexts \subseteq Nat
    BY BoundsAssumption
  <2> QED
    BY <2>1 DEF TypeOK, Queued
<1>3. Relayed \subseteq Queued
  BY RelayedType
<1>4. typed' = typed \/ \E u \in Users : Text(u) /\ typed' = typed + 1
  BY DEF Next, vars, Parent, Child, Server, SendInit, Fork, ReadId, Text, SendClose, Receive, HandleStale, CtrlC,
         ServerReceive, ServerSend, Restart, writer
<1>5. ASSUME Relayed' \subseteq Relayed, out' = out \/ ~IsText(out')
      PROVE  \A m \in Relayed' : /\ m.n <= typed'
                                 /\ IsText(out') => m.n <= out'.n
                                 /\ \A other \in Relayed' : m.n = other.n => m = other
  BY <1>1, <1>2, <1>3, <1>4, <1>5
<1>6. ASSUME ServerReceive, IsText(serverQueue[1]), out' = serverQueue[1], Relayed' \subseteq Relayed \cup {out'}
      PROVE  RelayInOrder'
  <2>1. 1 \in 1 .. Len(serverQueue) /\ Advanced(serverQueue, serverQueue') /\ typed' = typed
    BY <1>6, ServerTakes DEF writer
  <2>2. out' \in Queued /\ out'.n <= typed /\ \A m \in Relayed : m.n < out'.n
    BY <1>1, <1>2, <1>6, <2>1
  <2>3. \A m \in Relayed' : /\ m.n <= typed'
                            /\ IsText(out') => m.n <= out'.n
                            /\ \A other \in Relayed' : m.n = other.n => m = other
    BY <1>1, <1>2, <1>3, <1>6, <2>1, <2>2
  <2>4. ASSUME NEW k \in 1 .. Len(serverQueue'), IsText(serverQueue'[k])
        PROVE  /\ serverQueue'[k].n <= typed'
               /\ \A j \in 1 .. k - 1 : IsText(serverQueue'[j]) => serverQueue'[j].n < serverQueue'[k].n
               /\ \A m \in Relayed' : m.n < serverQueue'[k].n
    <3>1. /\ k + 1 \in 1 .. Len(serverQueue) /\ serverQueue'[k] = serverQueue[k + 1] /\ IsText(serverQueue[k + 1])
          /\ \A j \in 1 .. k - 1 : j + 1 \in 1 .. k /\ serverQueue'[j] = serverQueue[j + 1]
      BY <2>1, <2>4 DEF Advanced
    <3>2. \A j \in 1 .. k : IsText(serverQueue[j]) => serverQueue[j].n < serverQueue[k + 1].n
      BY <1>1, <3>1
    <3>3. \A m \in Relayed : m.n < serverQueue[k + 1].n
      BY <1>1, <3>1
    <3>4. serverQueue[1].n < serverQueue[k + 1].n
      BY <1>6, <3>2
    <3>5. serverQueue[k + 1].n <= typed
      BY <1>1, <3>1
    <3> QED
      BY <1>6, <2>1, <3>1, <3>2, <3>3, <3>4, <3>5
  <2> QED
    BY <2>3, <2>4 DEF RelayInOrder, IsText
<1>7. ASSUME Relayed' \subseteq Relayed, out' = out \/ ~IsText(out')
      PROVE  \A k \in 1 .. Len(serverQueue') : IsText(serverQueue'[k]) =>
                /\ serverQueue'[k].n <= typed'
                /\ \A j \in 1 .. k - 1 : IsText(serverQueue'[j]) => serverQueue'[j].n < serverQueue'[k].n
                /\ \A m \in Relayed' : m.n < serverQueue'[k].n
  <2>1. CASE UNCHANGED serverQueue
    BY <1>1, <1>2, <1>4, <1>7, <2>1
  <2>2. ASSUME NEW u \in Users, SendInit(u) \/ Text(u) \/ SendClose(u),
               NEW k \in 1 .. Len(serverQueue'), IsText(serverQueue'[k])
        PROVE  /\ serverQueue'[k].n <= typed'
               /\ \A j \in 1 .. k - 1 : IsText(serverQueue'[j]) => serverQueue'[j].n < serverQueue'[k].n
               /\ \A m \in Relayed' : m.n < serverQueue'[k].n
    <3>1. PICK m \in Queued :
             /\ Appended(serverQueue, serverQueue', m)
             /\ m.type # "MESSAGE_TEXT" \/ (Text(u) /\ m.n = typed + 1)
      BY <2>2, ParentSends
    <3>2. CASE k \in 1 .. Len(serverQueue)
      <4>1. serverQueue'[k] = serverQueue[k] /\ \A j \in 1 .. k - 1 : serverQueue'[j] = serverQueue[j]
        BY <3>1, <3>2 DEF Appended
      <4>2. typed <= typed' /\ serverQueue[k].n \in Nat
        BY <1>2, <1>4, <3>2
      <4>3. /\ serverQueue[k].n <= typed /\ \A t \in Relayed : t.n < serverQueue[k].n
            /\ \A j \in 1 .. k - 1 : IsText(serverQueue[j]) => serverQueue[j].n < serverQueue[k].n
        BY <1>1, <2>2, <3>2, <4>1
      <4>4. typed' \in Nat
        BY <1>2, <1>4
      <4> QED
        BY <1>2, <1>7, <4>1, <4>2, <4>3, <4>4
    <3>3. CASE k = Len(serverQueue) + 1
      <4>1. serverQueue'[k] = m /\ \A j \in 1 .. k - 1 : j \in 1 .. Len(serverQueue) /\ serverQueue'[j] = serverQueue[j]
        BY <3>1, <3>3 DEF Appended
      <4>2. m.n = typed + 1 /\ typed' = typed + 1
        BY <2>2, <3>1, <4>1 DEF IsText, Text
      <4>3. \A j \in 1 .. Len(serverQueue) : serverQueue[j].n \in Nat
        BY <1>2
      <4> QED
        BY <1>1, <1>2, <1>3, <1>7, <4>1, <4>2, <4>3
    <3> QED
      BY <3>1, <3>2, <3>3 DEF Appended
  <2>3. CASE ServerReceive
    <3>1. Advanced(serverQueue, serverQueue') /\ typed' = typed
      BY <2>3, ServerTakes DEF writer
    <3> SUFFICES ASSUME NEW k \in 1 .. Len(serverQueue'), IsText(serverQueue'[k])
                 PROVE  /\ serverQueue'[k].n <= typed'
                        /\ \A j \in 1 .. k - 1 : IsText(serverQueue'[j]) => serverQueue'[j].n < serverQueue'[k].n
                        /\ \A m \in Relayed' : m.n < serverQueue'[k].n
      OBVIOUS
    <3>2. /\ k + 1 \in 1 .. Len(serverQueue) /\ serverQueue'[k] = serverQueue[k + 1]
          /\ \A j \in 1 .. k - 1 : j + 1 \in 1 .. k /\ serverQueue'[j] = serverQueue[j + 1]
      BY <3>1 DEF Advanced
    <3>3. \A j \in 1 .. k : IsText(serverQueue[j]) => serverQueue[j].n < serverQueue[k + 1].n
      BY <1>1, <3>2
    <3>4. serverQueue[k + 1].n <= typed /\ \A m \in Relayed : m.n < serverQueue[k + 1].n
      BY <1>1, <3>2
    <3> QED
      BY <1>7, <3>1, <3>2, <3>3, <3>4
  <2> QED
    BY <2>1, <2>2, <2>3, ServerQueueStep
<1> QED
  BY <1>5, <1>6, <1>7, RelayedStep DEF RelayInOrder, IsText

(* A display in order stays so with a text that is not older than its texts. *)
LEMMA DisplayAppends ==
    ASSUME NEW q, NEW r, NEW m, Appended(q, r, m), IsText(m), m.n \in Nat,
           \A k \in 1 .. Len(q) : IsText(q[k]) /\ q[k].n <= m.n /\ \A j \in 1 .. k : q[j].n <= q[k].n
    PROVE  \A k \in 1 .. Len(r) : IsText(r[k]) /\ r[k].n <= m.n /\ \A j \in 1 .. k : r[j].n <= r[k].n
<1> SUFFICES ASSUME NEW k \in 1 .. Len(r)
             PROVE  IsText(r[k]) /\ r[k].n <= m.n /\ \A j \in 1 .. k : r[j].n <= r[k].n
  OBVIOUS
<1>1. CASE /\ k \in 1 .. Len(q) /\ r[k] = q[k] /\ \A j \in 1 .. k : j \in 1 .. Len(q) /\ r[j] = q[j]
  BY <1>1
<1>2. CASE r[k] = m /\ k = Len(q) + 1 /\ \A j \in 1 .. k - 1 : j \in 1 .. Len(q) /\ r[j] = q[j]
  BY <1>2
<1> QED
  BY <1>1, <1>2, AppendedAt

(* Each client receives and displays the texts in their order. *)
LEMMA ReaderOrderStep ==
    ASSUME Always, [Next]_vars, NEW u \in Users PROVE ReaderInOrder(u)'
<1> USE DEF Always
<1>1. /\ \A k \in 1 .. Len(clientQueue[u]) : IsText(clientQueue[u][k]) =>
           /\ \A j \in 1 .. k - 1 : IsText(clientQueue[u][j]) => clientQueue[u][j].n <= clientQueue[u][k].n
           /\ \A j \in 1 .. Len(shown[u]) : shown[u][j].n <= clientQueue[u][k].n
           /\ IsText(received[u]) => received[u].n <= clientQueue[u][k].n
      /\ \A k \in 1 .. Len(shown[u]) :
           /\ IsText(shown[u][k])
           /\ \A j \in 1 .. k : shown[u][j].n <= shown[u][k].n
           /\ IsText(received[u]) => shown[u][k].n <= received[u].n
  BY DEF InOrder, ReaderInOrder
<1>2. CASE UNCHANGED <<clientQueue[u], shown[u], received[u]>>
  BY <1>1, <1>2 DEF ReaderInOrder, IsText
<1>3. CASE ServerSend
  <2>1. PICK v \in Users :
             /\ Appended(clientQueue[v], clientQueue'[v], out)
             /\ \A w \in Users \ {v} : clientQueue'[w] = clientQueue[w]
             /\ UNCHANGED <<out, reader>>
    BY <1>3, ServerPuts
  <2>2. CASE v = u
    <3>1. \A m \in Relayed : IsText(out) => m.n <= out.n
      BY DEF InOrder, RelayInOrder
    <3>2. ASSUME NEW m, IsText(m), \/ m = received[u]
                                   \/ \E k \in 1 .. Len(clientQueue[u]) : m = clientQueue[u][k]
                                   \/ \E k \in 1 .. Len(shown[u]) : m = shown[u][k]
          PROVE  IsText(out) => m.n <= out.n
      BY <3>1, <3>2, RelayedMember DEF IsRelayed
    <3>3. UNCHANGED <<shown[u], received[u]>>
      BY <2>1 DEF reader
    <3>4. ASSUME NEW k \in 1 .. Len(clientQueue'[u]), IsText(clientQueue'[u][k])
          PROVE  /\ \A j \in 1 .. k - 1 : IsText(clientQueue'[u][j]) => clientQueue'[u][j].n <= clientQueue'[u][k].n
                 /\ \A j \in 1 .. Len(shown[u]) : shown[u][j].n <= clientQueue'[u][k].n
                 /\ IsText(received[u]) => received[u].n <= clientQueue'[u][k].n
      <4>1. CASE /\ k \in 1 .. Len(clientQueue[u]) /\ clientQueue'[u][k] = clientQueue[u][k]
                 /\ \A j \in 1 .. k : clientQueue'[u][j] = clientQueue[u][j]
        <5>1. \A j \in 1 .. k - 1 : clientQueue'[u][j] = clientQueue[u][j]
          BY <4>1
        <5> QED
          BY <1>1, <3>4, <4>1, <5>1
      <4>2. CASE /\ clientQueue'[u][k] = out
                 /\ \A j \in 1 .. k - 1 : j \in 1 .. Len(clientQueue[u]) /\ clientQueue'[u][j] = clientQueue[u][j]
        BY <1>1, <3>2, <3>4, <4>2
      <4> QED
        BY <2>1, <2>2, <4>1, <4>2, AppendedAt
    <3> QED
      BY <1>1, <3>3, <3>4 DEF ReaderInOrder, IsText
  <2> QED
    BY <1>2, <2>1, <2>2 DEF reader
<1>4. ASSUME NEW m \in Queued, UNCHANGED clientQueue[u], UNCHANGED received[u],
             IF IsText(m) THEN Appended(shown[u], shown'[u], m) ELSE shown'[u] = shown[u],
             m = received[u] \/ ~IsText(m)
      PROVE  ReaderInOrder(u)'
  <2>1. CASE ~IsText(m)
    BY <1>2, <1>4, <2>1
  <2>2. CASE IsText(m) /\ m = received[u]
    <3>1. m.n \in Nat /\ \A k \in 1 .. Len(shown[u]) : shown[u][k].n <= m.n
      BY <1>1, <2>2, BoundsAssumption DEF Queued
    <3>2. \A k \in 1 .. Len(shown'[u]) : /\ IsText(shown'[u][k])
                                         /\ \A j \in 1 .. k : shown'[u][j].n <= shown'[u][k].n
                                         /\ shown'[u][k].n <= m.n
      BY <1>1, <1>4, <2>2, <3>1, DisplayAppends
    <3>3. \A k \in 1 .. Len(clientQueue[u]) : IsText(clientQueue[u][k]) =>
             \A j \in 1 .. Len(shown'[u]) : shown'[u][j].n <= clientQueue[u][k].n
      BY <1>1, <1>4, <2>2, AppendedAt
    <3> QED
      BY <1>1, <1>4, <2>2, <3>2, <3>3 DEF ReaderInOrder, IsText
  <2> QED
    BY <1>4, <2>1, <2>2
<1>5. ASSUME NEW v \in Users, Receive(v) PROVE ReaderInOrder(u)'
  <2>1. PICK m \in Queued :
             /\ m = clientQueue[v][1] /\ 1 \in 1 .. Len(clientQueue[v])
             /\ Advanced(clientQueue[v], clientQueue'[v]) /\ received'[v] = m /\ Handle(v, m)
             /\ \A w \in Users \ {v} : clientQueue'[w] = clientQueue[w] /\ received'[w] = received[w]
    BY <1>5, ClientTakes
  <2>2. /\ \A w \in Users \ {v} : shown'[w] = shown[w]
        /\ IF IsText(m) THEN Appended(shown[v], shown'[v], m) ELSE shown'[v] = shown[v]
    BY <2>1, HandleType DEF IsText
  <2>3. CASE v = u
    <3>1. ASSUME NEW k \in 1 .. Len(clientQueue'[u]), IsText(clientQueue'[u][k])
          PROVE  /\ \A j \in 1 .. k - 1 : IsText(clientQueue'[u][j]) => clientQueue'[u][j].n <= clientQueue'[u][k].n
                 /\ \A j \in 1 .. Len(shown[u]) : shown[u][j].n <= clientQueue'[u][k].n
                 /\ IsText(m) => m.n <= clientQueue'[u][k].n
      <4>1. /\ k + 1 \in 1 .. Len(clientQueue[u]) /\ clientQueue'[u][k] = clientQueue[u][k + 1]
            /\ \A j \in 1 .. k - 1 : j + 1 \in 1 .. k /\ clientQueue'[u][j] = clientQueue[u][j + 1]
            /\ 1 \in 1 .. k
        BY <2>1, <2>3, AdvancedAt
      <4>2. /\ \A j \in 1 .. k : IsText(clientQueue[u][j]) => clientQueue[u][j].n <= clientQueue[u][k + 1].n
            /\ \A j \in 1 .. Len(shown[u]) : shown[u][j].n <= clientQueue[u][k + 1].n
        BY <1>1, <3>1, <4>1
      <4> QED
        BY <2>1, <2>3, <4>1, <4>2
    <3>2. m.n \in Nat /\ \A j \in 1 .. Len(shown[u]) : IsText(m) => shown[u][j].n <= m.n
      BY <1>1, <2>1, <2>3, BoundsAssumption DEF Queued
    <3>3. \A k \in 1 .. Len(shown'[u]) : /\ IsText(shown'[u][k])
                                         /\ \A j \in 1 .. k : shown'[u][j].n <= shown'[u][k].n
                                         /\ IsText(m) => shown'[u][k].n <= m.n
      <4>1. CASE IsText(m)
        BY <1>1, <2>2, <2>3, <3>2, <4>1, DisplayAppends
      <4>2. CASE ~IsText(m)
        BY <1>1, <2>2, <2>3, <4>2
      <4> QED
        BY <4>1, <4>2
    <3>4. \A k \in 1 .. Len(clientQueue'[u]) : IsText(clientQueue'[u][k]) =>
             \A j \in 1 .. Len(shown'[u]) : shown'[u][j].n <= clientQueue'[u][k].n
      <4>1. CASE IsText(m)
        BY <2>2, <2>3, <3>1, <4>1, AppendedAt
      <4>2. CASE ~IsText(m)
        BY <2>2, <2>3, <3>1, <4>2
      <4> QED
        BY <4>1, <4>2
    <3> QED
      BY <2>1, <2>3, <3>1, <3>3, <3>4 DEF ReaderInOrder, IsText
  <2> QED
    BY <1>2, <2>1, <2>2, <2>3
<1>6. ASSUME NEW v \in Users, HandleStale(v) PROVE ReaderInOrder(u)'
  <2>1. PICK m \in Queued :
             /\ Handle(v, m) /\ (m = received[v] \/ m.type # "MESSAGE_TEXT")
             /\ UNCHANGED <<clientQueue, received>>
    BY <1>6, ClientRepeats
  <2>2. /\ \A w \in Users \ {v} : shown'[w] = shown[w]
        /\ IF IsText(m) THEN Appended(shown[v], shown'[v], m) ELSE shown'[v] = shown[v]
    BY <2>1, HandleType DEF IsText
  <2> QED
    BY <1>2, <1>4, <2>1, <2>2 DEF IsText
<1> QED
  BY <1>2, <1>3, <1>5, <1>6 DEF Next, vars, Parent, Child, Server, SendInit, Fork, ReadId, Text, SendClose, Restart,
     CtrlC, ServerReceive, server, reader

(* Every step keeps what always holds. *)
LEMMA AlwaysStep == Always /\ [Next]_vars => Always'
<1> SUFFICES ASSUME Always, [Next]_vars PROVE Always'
  OBVIOUS
<1>1. TypeOK /\ Home /\ RelayInOrder
  BY DEF Always, InOrder
<1>2. TypeOK' /\ Home' /\ RelayInOrder'
  BY <1>1, NextType, HomeStep, RelayOrderStep
<1>3. \A u \in Users : ReaderInOrder(u)'
  BY ReaderOrderStep
<1> QED
  BY <1>2, <1>3 DEF Always, InOrder

-----------------------------------------------------------------------------
(* Undisturbed. *)

(* As long as a user is not in the table, there is an entry for him. *)
LEMMA TableHasRoom ==
    ASSUME Always, Undisturbed, NEW u \in Users, Unserved(u)
    PROVE  \E i \in Ids : client_queues[i] = None
<1> SUFFICES ASSUME \A i \in Ids : client_queues[i] # None PROVE FALSE
  OBVIOUS
<1>1. TableInOrder /\ client_queues \in [Ids -> Users \cup {None}]
  BY DEF Always, Home, TypeOK
<1>2. client_queues \in [Ids -> Users \ {u}]
  BY <1>1 DEF TableInOrder
<1>3. IsFiniteSet(Ids) /\ Cardinality(Ids) = MAX_CLIENTS_NO
  BY BoundsAssumption, FS_Interval DEF Ids
<1>4. IsFiniteSet(Users \ {u}) /\ Cardinality(Users \ {u}) = Cardinality(Users) - 1
  BY BoundsAssumption, FS_RemoveElement
<1>5. Cardinality(Users) \in Nat
  BY BoundsAssumption, FS_CardinalityType
<1>6. Cardinality(Users \ {u}) < Cardinality(Ids)
  BY <1>3, <1>4, <1>5, BoundsAssumption DEF Undisturbed
<1>7. \E i, j \in Ids : i # j /\ client_queues[i] = client_queues[j]
  BY <1>2, <1>3, <1>4, <1>6, FS_PigeonHole
<1> QED
  BY <1>1, <1>7 DEF TableInOrder

(* What has disturbed the system cannot be undone. *)
LEMMA StaysDisturbed ==
    ASSUME TypeOK, [Next]_vars, Undisturbed' PROVE Undisturbed /\ ~Restart /\ \A u \in Users : ~CtrlC(u)
<1>1. restarts \in Nat /\ restarts' = 0 /\ Cardinality(Users) <= MAX_CLIENTS_NO /\ \A u \in Users : is_running'[u]
  BY BoundsAssumption DEF TypeOK, Undisturbed
<1>2. ~Restart /\ \A u \in Users : ~CtrlC(u)
  BY <1>1 DEF Restart, CtrlC, TypeOK
<1>3. UNCHANGED <<restarts, is_running>>
  BY <1>2 DEF Next, vars, Parent, Child, Server, SendInit, Fork, ReadId, Text, SendClose, Receive, HandleStale,
              ServerReceive, ServerSend, server
<1> QED
  BY <1>1, <1>2, <1>3 DEF Undisturbed

(* Nobody loses his entry. *)
LEMMA EntriesStay ==
    ASSUME Always, Core, [Next]_vars, Undisturbed'
    PROVE  \A i \in Ids : client_queues[i] # None => client_queues'[i] = client_queues[i]
<1>1. TypeOK /\ Home /\ Undisturbed /\ ~Restart
  BY StaysDisturbed DEF Always
<1>2. CASE ServerReceive
  <2>1. PICK m \in Queued :
             /\ m = serverQueue[1] /\ 1 \in 1 .. Len(serverQueue) /\ RequestInOrder(m)
             /\ \/ m.type = "INIT" /\ Register(m)
                \/ Relay(m)
                \/ m.type = "CLIENT_CLOSE"
    BY <1>1, <1>2, ServerTakes
  <2>2. CASE m.type = "INIT" /\ Register(m)
    <3>1. m.from \in Users /\ Unserved(m.from)
      BY <2>1, <2>2 DEF RequestInOrder, Unserved, Registers
    <3>2. client_queues[NewId] = None
      BY <1>1, <3>1, TableHasRoom, NewIdIsIndex
    <3>3. \A i \in Ids : i # NewId => client_queues'[i] = client_queues[i]
      BY <1>1, <2>2 DEF Register, TypeOK
    <3> QED
      BY <3>2, <3>3
  <2>3. CASE Relay(m)
    BY <2>3 DEF Relay
  <2>4. m.type # "CLIENT_CLOSE"
    BY <2>1 DEF Core
  <2> QED
    BY <2>1, <2>2, <2>3, <2>4
<1> QED
  BY <1>1, <1>2 DEF Next, vars, Parent, Child, Server, SendInit, Fork, ReadId, Text, SendClose, Receive, HandleStale,
                    CtrlC, ServerSend, server

(* Every step keeps the rest. *)
LEMMA CoreStep ==
    ASSUME Always, Core, [Next]_vars, Undisturbed' PROVE Core'
<1>1. TypeOK /\ Home /\ Undisturbed /\ ~Restart /\ \A u \in Users : ~CtrlC(u) /\ is_running[u]
  BY StaysDisturbed DEF Always, Undisturbed
<1>2. \A i \in Ids : client_queues[i] # None => client_queues'[i] = client_queues[i]
  BY EntriesStay
<1>3. \A u \in Users : ~SendClose(u) /\ ~HandleStale(u) /\ child[u] \notin {"failed", "exited"}
  BY <1>1 DEF Core, SendClose, HandleStale, Home, IdInOrder
<1>4. \A k \in 1 .. Len(serverQueue') : serverQueue'[k].type # "CLIENT_CLOSE"
  <2>1. CASE UNCHANGED serverQueue
    BY <2>1 DEF Core
  <2>2. ASSUME NEW u \in Users, SendInit(u) \/ Text(u)
        PROVE  \A k \in 1 .. Len(serverQueue') : serverQueue'[k].type # "CLIENT_CLOSE"
    <3>1. PICK m \in Queued : Appended(serverQueue, serverQueue', m) /\ m.type # "CLIENT_CLOSE"
      BY <1>1, <1>3, <2>2, ParentSends
    <3> QED
      BY <3>1 DEF Core, Appended
  <2>3. CASE ServerReceive
    <3>1. Advanced(serverQueue, serverQueue')
      BY <1>1, <2>3, ServerTakes
    <3> QED
      BY <3>1 DEF Core, Advanced
  <2> QED
    BY <1>1, <1>3, <2>1, <2>2, <2>3, ServerQueueStep
<1>5. ASSUME NEW u \in Users PROVE parent'[u] \notin {"close", "left", "dead"}
  <2>1. parent[u] \notin {"close", "left", "dead"} /\ is_running[u]
    BY <1>1 DEF Core
  <2> QED
    BY <1>1, <1>3, <2>1 DEF Next, vars, Parent, Child, Server, SendInit, Fork, ReadId, Text, Receive,
       ServerReceive, ServerSend, GotoP, ParentLoop, writer, TypeOK
<1>6. ASSUME NEW u \in Users, NEW i \in Ids, client_queues[i] = u PROVE client_queues'[i] = u
  BY <1>2, <1>6, IdsAreIndices
<1>7. ASSUME NEW u \in Users, NEW k \in 1 .. Len(clientQueue'[u]), clientQueue'[u][k].type = "IDENTIFIER"
      PROVE  client_queues'[clientQueue'[u][k].identifier] = u
  <2>1. \A j \in 1 .. Len(clientQueue[u]) : clientQueue[u][j].type = "IDENTIFIER" =>
           clientQueue[u][j].identifier \in Ids /\ client_queues[clientQueue[u][j].identifier] = u
    BY <1>1 DEF Core, Home, InboxInOrder, AnswerInOrder
  <2>2. CASE UNCHANGED clientQueue[u]
    BY <1>6, <1>7, <2>1, <2>2
  <2>3. CASE ServerSend
    <3>1. PICK v \in Users :
             /\ AnswerInOrder(v, out)
             /\ Appended(clientQueue[v], clientQueue'[v], out)
             /\ \A w \in Users \ {v} : clientQueue'[w] = clientQueue[w]
             /\ \E i \in todo : out.type = "IDENTIFIER" => out.identifier = i /\ client_queues[i] = v
      BY <1>1, <2>3, ServerPuts
    <3>2. out.type = "IDENTIFIER" => out.identifier \in Ids /\ client_queues[out.identifier] = v
      BY <3>1 DEF AnswerInOrder
    <3>3. CASE v = u
      BY <1>6, <1>7, <2>1, <3>1, <3>2, <3>3, AppendedAt
    <3> QED
      BY <2>2, <3>1, <3>3
  <2>4. ASSUME NEW v \in Users, Receive(v) PROVE client_queues'[clientQueue'[u][k].identifier] = u
    <3>1. /\ Advanced(clientQueue[v], clientQueue'[v])
          /\ \A w \in Users \ {v} : clientQueue'[w] = clientQueue[w]
      BY <1>1, <2>4, ClientTakes
    <3>2. CASE v = u
      <4>1. k + 1 \in 1 .. Len(clientQueue[u]) /\ clientQueue'[u][k] = clientQueue[u][k + 1]
        BY <3>1, <3>2, AdvancedAt
      <4> QED
        BY <1>6, <1>7, <2>1, <4>1
    <3> QED
      BY <2>2, <3>1, <3>2
  <2> QED
    BY <1>1, <1>3, <2>2, <2>3, <2>4 DEF Next, vars, Parent, Child, Server, SendInit, Fork, ReadId, Text, ServerReceive
<1>8. ASSUME NEW u \in Users, pipe'[u] # NoId PROVE client_queues'[pipe'[u]] = u
  <2>1. pipe[u] # NoId => pipe[u] \in Ids /\ client_queues[pipe[u]] = u
    BY <1>1 DEF Core, TypeOK
  <2>2. CASE UNCHANGED pipe[u]
    BY <1>6, <1>8, <2>1, <2>2
  <2>3. ASSUME NEW v \in Users, Receive(v) PROVE client_queues'[pipe'[u]] = u
    <3>1. PICK m \in Queued :
             m = clientQueue[v][1] /\ 1 \in 1 .. Len(clientQueue[v]) /\ AnswerInOrder(v, m) /\ Handle(v, m)
      BY <1>1, <2>3, ClientTakes
    <3>2. /\ \A w \in Users \ {v} : pipe'[w] = pipe[w]
          /\ pipe'[v] = IF m.type = "IDENTIFIER" /\ pipe[v] = NoId THEN m.identifier ELSE pipe[v]
      BY <1>1, <3>1, HandleType
    <3>3. m.type = "IDENTIFIER" => m.identifier \in Ids /\ client_queues[m.identifier] = v
      BY <3>1 DEF Core, AnswerInOrder
    <3> QED
      BY <1>6, <2>2, <3>2, <3>3
  <2> QED
    BY <1>1, <1>3, <2>2, <2>3 DEF Next, vars, Parent, Child, Server, SendInit, Fork, ReadId, Text, ServerReceive,
       ServerSend, reader
<1>9. ASSUME NEW u \in Users, id'[u] # NoId PROVE client_queues'[id'[u]] = u
  <2>1. /\ id[u] # NoId => id[u] \in Ids /\ client_queues[id[u]] = u
        /\ pipe[u] # NoId => pipe[u] \in Ids /\ client_queues[pipe[u]] = u
    BY <1>1 DEF Core, TypeOK
  <2>2. id'[u] \in {id[u], pipe[u]}
    BY <1>1, <1>3 DEF Next, vars, Parent, Child, Server, SendInit, Fork, ReadId, Text, Receive, ServerReceive,
       ServerSend, writer, TypeOK
  <2> QED
    BY <1>6, <1>9, <2>1, <2>2
<1> QED
  BY <1>4, <1>5, <1>7, <1>8, <1>9 DEF Core, NoId

-----------------------------------------------------------------------------
(* Theorems. *)

(* It holds at first ... *)
LEMMA InitInvariant == Init => IInv
<1> SUFFICES ASSUME Init PROVE IInv
  OBVIOUS
<1> USE DEF Init
<1>1. TypeOK
  BY InitType
<1>2. Home
  BY IdsAreIndices DEF Home, TableInOrder, SendingInOrder, InboxInOrder, IdInOrder, Registers
<1>3. InOrder
  BY DEF InOrder, RelayInOrder, ReaderInOrder, Relayed, Held, IsText, Garbage, Message
<1>4. Core
  BY DEF Core
<1> QED
  BY <1>1, <1>2, <1>3, <1>4 DEF IInv, Always

(* ... and every step keeps it. *)
LEMMA StepInvariant == IInv /\ [Next]_vars => IInv'
<1> SUFFICES ASSUME IInv, [Next]_vars PROVE IInv'
  OBVIOUS
<1>1. Always /\ Always'
  BY AlwaysStep DEF IInv
<1>2. ASSUME Undisturbed' PROVE Core'
  <2>1. Core
    BY <1>1, <1>2, StaysDisturbed DEF IInv, Always
  <2> QED
    BY <1>1, <1>2, <2>1, CoreStep
<1> QED
  BY <1>1, <1>2 DEF IInv

(* What the steps of the server and of both processes of the clients keep:
   entries and identifiers belong together, and so do the order in which texts
   are sent, relayed, received and displayed (serwer.c, client.c). *)
THEOREM Invariance == Spec => []IInv
  BY InitInvariant, StepInvariant, PTL DEF Spec

(* All variables have their types, and no queue ever holds more messages than
   its mq_maxmsg, whoever blocks, leaves or is interrupted (client.c:31,
   serwer.c:15). *)
THEOREM TypeCorrect == Spec => []TypeOK
<1>1. IInv => TypeOK
  BY DEF IInv, Always
<1> QED
  BY <1>1, Invariance, PTL

(* Nobody is ever shown his own text, however often the server is restarted
   or overfilled and whatever Ctrl+C makes the clients repeat (serwer.c:62). *)
THEOREM OwnTextSafety == Spec => []NoOwnText
<1>1. IInv => NoOwnText
  BY DEF IInv, Always, Home, InboxInOrder, NoOwnText
<1> QED
  BY <1>1, Invariance, PTL

(* Undisturbed, a client writes under the index of its own queue in the table,
   for any number of users the table has room for (serwer.c:32-56;
   client.c:94, 108). *)
THEOREM RegistrationSafety == Spec => []Registered
<1>1. IInv => Registered
  BY DEF IInv, Core, Registered
<1> QED
  BY <1>1, Invariance, PTL

(* Two clients never display two texts in opposite orders (serwer.c:61-65,
   client.c:83). *)
THEOREM OrderSafety == Spec => []SameOrder
<1>1. ASSUME IInv PROVE SameOrder
  <2>1. /\ \A u \in Users : ReaderInOrder(u)
        /\ \A m, other \in Relayed : m.n = other.n => m = other
    BY <1>1 DEF IInv, Always, InOrder, RelayInOrder
  <2>2. ASSUME NEW u \in Users, NEW k \in 1 .. Len(shown[u]) PROVE shown[u][k] \in Relayed /\ shown[u][k].n \in Nat
    <3>1. IsText(shown[u][k])
      BY <2>1 DEF ReaderInOrder
    <3>2. shown[u][k] \in Relayed
      BY <3>1, RelayedMember DEF IsRelayed
    <3> QED
      BY <1>1, <3>2, RelayedType DEF IInv, Always
  <2>3. ASSUME NEW u \in Users, NEW j \in 1 .. Len(shown[u]), NEW k \in 1 .. Len(shown[u]), j < k
        PROVE  shown[u][j].n <= shown[u][k].n
    BY <2>1, <2>3 DEF ReaderInOrder
  <2>4. ASSUME NEW u \in Users, NEW v \in Users, NEW j \in 1 .. Len(shown[u]), NEW k \in 1 .. Len(shown[u]), j < k,
               shown[u][j] # shown[u][k], ShownBefore(v, shown[u][k], shown[u][j])
        PROVE  FALSE
    <3>1. PICK h, i \in 1 .. Len(shown[v]) : h < i /\ shown[v][h] = shown[u][k] /\ shown[v][i] = shown[u][j]
      BY <2>4 DEF ShownBefore
    <3>2. shown[u][j].n <= shown[u][k].n
      BY <2>3, <2>4
    <3>3. shown[u][k].n <= shown[u][j].n
      <4>1. shown[v][h].n <= shown[v][i].n
        BY <2>3, <3>1
      <4> QED
        BY <3>1, <4>1
    <3>4. shown[u][j].n = shown[u][k].n
      BY <2>2, <3>2, <3>3
    <3> QED
      BY <2>1, <2>2, <2>4, <3>4
  <2> QED
    BY <2>4 DEF SameOrder
<1> QED
  BY <1>1, Invariance, PTL
=============================================================================
