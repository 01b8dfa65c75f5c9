# SysOpy laboratories: a verification project

TLA+ models of the programs in this repository (the exercises of an operating
systems course, C on Linux), TLC configurations that check them on small
instances, and TLAPS proofs. `PROJECT.json` is the machine-readable index: runs,
the source lines every definition translates, the faults every property was
tried against, findings, hazards, theorems.

Run `tlc -workers 2 -config <run>.cfg <module>.tla` and `tlapm <module>.tla`.

## 1. The system

The repository is a set of independent programs. Those with processes, threads,
messages or signals that meet are the core of this project.

| part | state | operations | how its parts meet |
|---|---|---|---|
| `kolokwium2/test_2` producer/consumer | stack `buffer`, `count`, counters and pointers of `checks.h` | produce, consume, the checks | one mutex, two condition variables, two joins |
| `lab11` chat over TCP | table `clients`, descriptors, streams | connect, name, LIST, 2ALL, 2ONE, STOP, ALIVE; ping rounds | a thread per client, the ping thread and the accept loop share table and descriptors |
| `lab08` printers | a semaphore and a buffer per printer, in shared memory | choose a printer, wait, copy; poll, print, post; Ctrl+C | user and printer processes, System V `signal()` |
| `lab10` Santa | a mutex per reindeer, counter, condition variable | leave, come back, count; wait, deliver, unlock | nine threads and Santa |
| `lab07` chat over message queues | the server's table, bounded queues, a pipe per client | INIT, IDENTIFIER, MESSAGE_TEXT, CLIENT_CLOSE; Ctrl+C, restart | server, and two processes per client |
| `lab09` game of life | two grids, two pointers | draw, signal, compute a share, swap | main wakes threads by signals, no other synchronisation |
| `lab05/zad2` catcher and sender | `status`, `status_changes`, pending signals | send a mode, confirm, serve, reset | signals both ways between processes |
| `lab06` integral | zad1: a pipe per child; zad2: two FIFOs in the current directory | fork, send arguments or areas, add them up, return a result | parent and children; all instances of zad2 started in one directory |
| `kolokwium1` test | zad2: signal dispositions, stdio buffers; zad3: a pipe, a file | mask, fork, exec, kill, wait; write and read in blocks | parent and child |
| `lab03/zad1` reverse | file position, a buffer, two indices | read a block, exchange, write | one process |
| `lab02` Collatz | the arguments and two `int` variables | call, iterate | a client and a library |
| `lab03/zad2` file sizes, `lab04` fork/exec, `lab05/zad1`, `lab01` | local variables | straight-line or loop programs | hardly any |
| `templatki`, `materialy_do_nauki` | | snippets and notes | |

What is hard: waits that miss their signal (`pause`, `sigsuspend`,
`pthread_cond_wait` without a predicate, a flag tested before a blocking call);
values that are stale when used (a descriptor number, a table index, a chosen
printer, the address of another thread's variable); calls that fail because of
a signal and are not checked; a bounded queue with a dead reader; leaving in the
middle of a protocol. `hazards` in `PROJECT.json` lists them line by line with
the properties that watch them.

## 2. Modules

| module | models | state and actions |
|---|---|---|
| `ProducerConsumer` | `kolokwium2/test_2/main.c`, `checks.h` | one action per pthread call or critical statement, a program counter per thread, `Join` and `RunChecks` for `main` |
| `Handoff` | what it promises | `Put`, `Take` on a bounded set |
| `ChatServer`, `MCChatServer` | `lab11/serwer.c`, `client.c` | a critical section of `clients_mutex`, or a system call, is one action of the handler thread `t`; `AcceptLoop`, `PingRound`; the user's side (`Connect` to `Die`) |
| `PingTiming` | the ping thread of `lab11/serwer.c` and one client, with a clock | `Tick`, `PingRound`, `Respond`, `FallSilent`; ticks of a fraction of a second, `time()` in whole seconds |
| `Printers` | `lab08/zad1` | `Scan`, `SemWait`, `Copy` (letter by letter) of a user; `Test`, `Poll`, `PrintLetter`, `SemPost` of a printer; the parent; the two Ctrl+C |
| `Santa` | `lab10/main.c` | `Leave`, `Return`, `CountIn` of a reindeer; Santa's loop from `FallAsleep` to `EndRelease` |
| `MqChat`, `MCMqChat` | `lab07/zad1` | parent and child of each client, `ServerReceive`, one `ServerSend` per `mq_send`, `CtrlC`, `Restart` |
| `Grid`, `Life` | `lab09/zad/grid.c` | the rules; the sequential program as specification |
| `LifeThreads`, `MCLifeThreads` | `lab09/zad/life.c`, `update_part_grid` | `ReadPointer`, `ComputeCell` of a thread; `Draw`, `Kill`, `Wake`, the swap in two steps |
| `Signals` | `lab05/zad2` | `Send`, `Suspend`; `Handler`, `Poll`, `Serve`, `Reset` |
| `Fifo` | `lab06/zad2/main.c` | `Start` of an instance; `Open`, `Write`, `Read`, `Close` of each of its two processes, on its first and its second FIFO; `CtrlC`, `Die` |
| `Integral` | `lab06/zad1/main.c` | `Fork`, `CloseWrite`, `Read` of the parent; `Write`, `End` of the child of the moment |
| `CheckFork` | `kolokwium1/test_1/zad2.c`, `zad2.h`, `check_fork.c` | `Mask`, `check_mask`, `Fork`, `Kill`, `Wait` of the parent; `Exec`, `Register`, `Suspend` of the child; what stdio keeps, copies and drops |
| `CheckPipe` | `kolokwium1/test_1/zad3.c`, `zad3.h` | `ReadBlock`, `WriteBlock` of the parent, `ReadPipe` of the child, who has which end open |
| `Reverse` | `lab03/zad1/reverse.c` | `ReadBlock`, `Swap` (an iteration of `reverseArray`), `WriteBlock` |
| `Collatz` | `lab02/zad1/collatz.c`, `zad3/client.c` | `Call`, `Iterate`, `GiveUp`, `Return` |
| `MCSmall` | | runs `PingTiming` and the six modules above, one in each behaviour |
| `ProducerConsumerProof`, `ChatServerProof`, `PrintersProof`, `SantaProof`, `MqChatProof`, `LifeThreadsProof`, `SignalsProof` | | theorems about the module of that name |
| `SmallProof` | | theorems about `Collatz`, `Integral`, `Reverse`, `PingTiming`, `Fifo`, `CheckFork` and `CheckPipe` |

Conventions. A definition `X_Fault` before a definition `X` is a plausible
mistake in the code; it is not part of any specification and only serves to see
that a property notices it. Data are abstracted to what the properties tell
apart: a chat message is its command, addressee, signature and the connection
it came on; a letter of a document is the document it belongs to; a text is its
author and number.

The code often works only because something it does not ensure is usually
fast enough. Such a hope is never a guard: the model takes the late step, and a
history variable remembers that it was taken, and to whom. What depends on the
hope is stated up to it: the property says that the lapse is the only way
things go wrong, and for whom they do, never that it does not happen. The rest
holds unconditionally. The history variables are

- `ChatServer`: `lapses`, an argument overwritten before the thread has copied
  it (`"overrun"`) or a client dropped by the ping thread (`"dropped"`);
  `Undisturbed` means neither, `Undropped` that there was no drop;
- `Printers`: `overtaken`, the printers that have started during a copy, and
  `taken`, the documents whose users have got each printer;
- `Santa`: `lost`, a signal of a last reindeer that found Santa not waiting, and
  `spurious`, his wake-ups without a signal;
- `LifeThreads`: `missed`, the threads whose signal of this iteration did not
  find them in `pause()`;
- `Signals`: `dropped` (the signal was), `early` (confirmed before the
  `sigsuspend()`) and `lost` (the mode was overwritten or reset), all of them
  sets of senders;
- `Fifo`: `overlapped`, `interrupted` and `alone`, the instances that met another
  one alive, a Ctrl+C, a failed `fork`;
- `CheckFork`: `late` and `failed`, a second was not enough for the child, a call
  failed; `CheckPipe`: `failed`; `Reverse`: `short`, a `fread` returned less than it
  was asked for; `Collatz`: `overflowed`;
- in `MqChat` the restarts and interrupts themselves.

The one assumption left as a constant is
`Punctual` in `LifeThreads`: the README of `lab09` says that computations which
take longer than half a second are to be ignored.

Four library facts the models rest on, none of them visible in the sources:
`accept` returns the lowest free descriptor; a thread blocked in `recv` keeps
its connection when another thread closes the descriptor; `signal()` under
`_XOPEN_SOURCE` without `_DEFAULT_SOURCE` does not restart interrupted calls
(glibc), while `life.c` uses `sigaction` for an empty handler; SIGUSR1, not
being a real-time signal, is pending at most once. For the small programs:
what is in a FIFO is gone when its last end is closed; a `write` to a pipe of no
more than `PIPE_BUF` bytes is all or nothing; `fork` copies what stdio has not
written and `exec` drops it; `exec` keeps ignored signals and resets handled
ones.

## 3. Runs

**producer_consumer** (buffer of 2, 5 values, 2 spurious wake-ups). The buffer
fills, empties and is half full in both directions, each thread waits several
times. All safety properties, termination, refinement of `Handoff` with its
liveness.

**chat** (2 users, 2 slots, 2 descriptors, one line of any command, one ping
round, threads that start at any moment): no entry of the table is orphaned and
a 2ALL is not echoed, whatever happens. Until an argument is overwritten or a
client dropped every connection has a thread of its own; until a client is
dropped, also with mixed-up arguments, no thread clears another's registration
and signatures are those registered. Two users are enough for a slot, a
descriptor and an argument to be reused, for `accept` to fail and for a name
to complete itself with the rest of another's in an uninitialised buffer.
**chat_departure** (2 users for a table of one entry, STOP as the only command,
fair): the table is full and entries are reused. Whoever leaves disappears from
the table, under whatever name his thread has registered him: the property
follows the index the handler remembers. A connection turned away is closed. **chat_misdelivery** shows that a 2ONE may
reach someone else even without a lapse: the socket is closed before the entry
is deactivated.

**printers** (2 users, 2 printers, documents of 3 letters, Ctrl+C in both
programs at any moment, fair): both users may choose the same printer, so there
is contention, and a buffer can be half filled in two ways. A printer that
starts before the copy is complete prints a torn document. What is checked is
that it spoils nothing but its own work: even its letters are of documents whose
users took this very printer, and the other printer prints its documents whole.

**santa** (4 reindeer, two spurious wake-ups, reindeer that return at any moment,
also while Santa still unlocks mutexes, fair). The nine of the code behave no
differently: they are interchangeable and only the last one acts otherwise. The
run shows that a signal sent while Santa is not in his wait is the only way he
and all the reindeer come to wait for each other, spurious wake-ups or not. Such
a signal is possible in the code, if the holidays of all are over before Santa
is back in his wait, and then all sleep for ever, which is why deadlock is not
checked in this run. The counter is right and Santa wakes with all reindeer
back until a spurious wake-up.

**mq** (3 clients, a table of 2 entries, queues of 1, Ctrl+C at every point, a
restart): everybody blocks, the table is full, identifiers are given twice.
**mq_delivery** (3 clients and entries, 2 texts, queues of 2, fair): delivery
and its order. **mq_stuck**: a client leaves with its queue full and the server
blocks in `mq_send` for ever.

**life** (2 by 3 cells on 4 threads, so that one has nothing to do; threads that
start at any moment): in every iteration in which no signal is lost the picture
drawn is the next generation of the one before. A lost signal costs its thread
its share of that iteration and nothing else.

**signals** (3 concurrent senders, four modes, one of them invalid): signals are
dropped, modes overwritten and reset, confirmations too early, and the catcher
ends or is killed with signals pending. Only the sender this happens to pays:
every other one ends, and every other mode is served.

**small** runs one of seven small models in each behaviour. They share nothing,
so the states are those of each by itself; what one of them needs:

- `PingTiming` (intervals of 10 s, three ticks a second, answers within two
  ticks, rounds up to two ticks late, five intervals): a client is dropped only
  after more than an interval without a sign of life, although times are cut to
  seconds; one that answers only by a round that is late by more than the
  client's answer to the round before. A round that is one tick late may drop it.
  A silent client is always dropped after two intervals, a second and one late
  wake-up.
- `Fifo` (two instances started at any time, interrupted at any moment): who
  runs alone gets the result of his own arguments, also after an instance that
  was killed half-way. Two are enough for arguments and results to cross, for
  a reader to take the other's packet and for a child left behind to spoil the
  next run.
- `CheckFork` (terminal or pipe, every call failing or not): both lines exactly
  once, unless a second was not enough.
- `CheckPipe` (a pipe of 4 bytes, blocks of 1 to 4, files of 0 to 9 bytes or
  none): the pipe is full and empty, blocks divide it and the file, or do not.
- `Reverse` (files of 0 to 10 bytes, a buffer of 4, any short `fread`): no, one,
  two and three blocks, the last whole or not, odd and even ones.
- `Collatz` (`int` of 8 bits, all its positive values, up to 60 iterations):
  whatever does not overflow is right, and many inputs below 127 do.
- `Integral` (up to 5 rectangles, 3 processes allowed): below the limit, at it
  and beyond it.

Behaviour the models have and no run states as a property, because it is plainly
against what the program is for: `send` to a reset connection kills the chat
server (`serwer.c:144`); a user waits for a busy printer next to an idle one
(`users.c:94`); Ctrl+C makes the parent of the printers destroy semaphores in
use (`printers.c:80`); a message queue client that is interrupted before it
knows its identifier stays registered, one interrupted just before it blocks
stays (`client.c:81`, `138`), and a restarted server finds the old queue
(`serwer.c:22`); a signal before `sigaction` kills the catcher
(`catcher.c:50`). The shares of `update_part_grid` (`grid.c:106`) differ by
more than one cell when the number of threads does not divide the grid.
In the small programs: a parent of `lab06/zad2` does not wait for its child, and
a start while that child still has its end of `my_fifo1` open may read nothing
and print what was in its variable (`main.c:86`); `h` is the reciprocal of the
number of rectangles, whatever the length of the interval (`main.c:54`), which
is arithmetic and left out; in `zad3.h:39` any status but zero counts as passed,
also that of a child killed by SIGSEGV because `unix.txt` is missing; in
`zad2.c:35` a child that cannot `exec` returns to `main`, and in a pipe the
first line is printed twice; `reverse.c:56` has `read_bytes` "dla
bezpieczenstwa" (to be safe), but steps back by `bytes_to_read`, so a short
`fread` leaves bytes out or reads them twice, and one that returns nothing makes
the loop endless; beyond the limit on processes `lab06/zad1` adds a variable
nobody has written to.

Deadlock is checked wherever the program is meant to run on or to terminate
visibly; it is switched off where users may simply stop typing or where every
process has ended.

### Fairness

Weak fairness of each thread or process: the operating system schedules what
can run. No fairness for users, signals, spurious wake-ups or pings. Strong
fairness only for `sem_wait` in `Printers` and for senders blocked on the
server's queue in `MqChat`: a waiter that could go on again and again is woken
at last, as the kernel queues waiters. `Santa` and `LifeThreads` also assume
that a sleep ends. In `MCSmall` the two processes of a program share one weak
fairness condition: each of them makes finitely many steps, so if some process
always goes on while one can, every process that can run does so in the end.

## 4. Proofs

Every safety invariant a run checks is also a theorem, for every value of the
constants, and so are the step conditions of the two refinements. Nothing is
assumed but the named `ASSUME`s of the modules: bounds are positive numbers, the
marker `None` is nobody, and the sets that are counted (`Reindeer`, `Senders`,
`Users` of `MqChat`) are finite. TLC evaluates them in every run.

In each module `IInv` is the inductive invariant. Where the properties end with
a lapse, it has the form `Always /\ (NoLapse => Core)`: what holds whatever
happens, and what holds until one of the hopes of section 2 is disappointed.
A lapse is never undone, so a step that ends without one began without one, and
`Core` may be used. Conditions that concern one thread, printer or iteration are
inside `Core`.

**`ProducerConsumerProof`**: `TypeCorrect`, `MutexSafety`, `ExactlyOnceSafety`,
`WakeupSafety`, `CheckSafety`, and `HandoffSafety` (the program implements
`Handoff`, safety part), for every `BUFFER_SIZE`, `VALUE_COUNT` and bound on
spurious wake-ups. The invariants are not inductive one by one. That a consumer
does not pop an empty stack needs `count` to equal the number of values produced
and not yet consumed; that a wake-up is not lost needs mutual exclusion and that
the other thread passes through `signal` after it changed `count`. `IInv`
conjoins `TypeOK`, mutual exclusion, the counting equation, exactly-once and the
wake-up condition, with one lemma per action for the parts that action touches
and frame lemmas for the actions that only move a program counter. The check on
the sum of the values would need induction over the buffer; instead `SumsUp`
says that some function of partial sums of the buffer exists whose last value,
with what was processed, makes up the sum of 0 to `Produced - 1`. A `Produce`
extends the function and a `Consume` shortens it.

**`ChatServerProof`**, for any users, table and descriptor table. Whatever
happens: `TypeCorrect`; `SlotSafety`, because an entry is only activated by a
thread that goes on to its loop with it, and that leaves the loop by clearing
it; `EchoSafety`, which needs that no connection has two descriptors
(`OneDescriptor`) and that a thread in `recv` on a connection whose number was
closed by a ping round has no other descriptor for it (`HeldByOwnDescriptor`):
`broadcast_message` compares numbers. Until a client is dropped, whatever
arguments the threads have read: `AttributionSafety` and `EntrySafety`, because
an entry in use belongs to exactly one thread and has the name it registered
(`SlotInOrder` and `Signed`, together `Owned`). Until an argument is overwritten
or a client dropped: `ArgumentSafety` and `DescriptorSafety`, for which `Core`
follows a connection from `accept` through `client_socket` to its thread
(`ThreadInOrder`). So `IInv` has three layers.

**`PrintersProof`**, for any users, printers, letters and documents:
`TypeCorrect` and `TakenSafety` whatever signals arrive, and `CopySafety` and
`PrintSafety` as long as the users are not interrupted. `TypeOK` is not
inductive: that `sem_post()` leaves a semaphore at 1 needs `BusyPrinterIsTaken`.
That a printer prints only letters of its own users' documents holds with any
number of copies overtaken: whoever copies has taken the printer (`CopierTook`),
so everything in the buffer and on the paper is of users who have
(`LettersTaken`). For a printer that has never overtaken a copy the invariant
follows the semaphore through its holder: the copier's letters are in the buffer
so far (`CopierInOrder`), when nobody copies any more the buffer of a taken
printer holds the document whole (`BufferInOrder`), and the printout is the
beginning of it (`PaperInOrder`).

**`SantaProof`**, for any finite set of reindeer and any number of spurious
wake-ups: `TypeCorrect`, `CountSafety`, `WakingSafety` and `SleepSafety`. The
first and the last hold whatever happens. For `SleepSafety`, the counter is never
below the number of reindeer counted (`Counting`), and as long as no signal was
lost everybody who waits while Santa sleeps has been counted (`Heard`): if all
waited the counter would be full, but the last one resets it. The other two hold
until a spurious wake-up, however early reindeer return: until then Santa
unlocks only mutexes of reindeer that wait, so `Core` knows who waits while he
sleeps, delivers and unlocks.

**`MqChatProof`**, for any finite set of users, any table and queue sizes,
with Ctrl+C and restarts: `TypeCorrect`, `OwnTextSafety` and `OrderSafety`
whatever happens, `RegistrationSafety` undisturbed. The server leaves a client
out when it relays a text by the identifier in it, so `OwnTextSafety` needs that
this is the client's own place whenever it still has one in the table, for an
identifier that may be in the client's queue, its pipe or its variable while the
server was restarted (`KnownAs`, in `RequestInOrder`, `AnswerInOrder` and
`IdInOrder`). `OrderSafety` holds because texts are relayed in the order in which
they were sent (`RelayInOrder`) and read in that order (`ReaderInOrder`), and the
handling of an old message a second time, after an interrupted `mq_receive`, may
show a text twice but not out of order. `RegistrationSafety` needs a free entry
for every INIT: as many users as entries at most, each with one entry or one
INIT at most, is a pigeonhole argument (`TableHasRoom`).

**`LifeThreadsProof`**, for any grid, any number of threads and any contents of
the second grid. The lemmas `SharesAreDisjoint` and `SharesCover` say that the
division of `grid.c:106-112` is one, also when the last threads get nothing;
`TypeCorrect` and `CellSafety` follow from them. If half a second is enough,
`IterationSafety`, and `Refinement`: `ImplementsLife`, as the run states it.
`Core` says of each thread where it is before, during and after its share while
main sleeps, that one whose signal was lost stays where it was until the next
(`Heard`), and that what the others have computed is the next generation of what
main draws (`Computed`).

**`SignalsProof`**, for any finite set of senders and any modes: `TypeCorrect`
and `ConfirmationSafety`. A signal is handled once (`HandledOnce`), which bounds
the counter of the catcher by the number of senders.

**`SmallProof`**:

- `CollatzSafety`, for any inputs, limits and width of an `int`. `Orbit` is a
  recursive function, whose equation can be used once a function with that
  equation is known to exist; `OrbitExists` shows it by a least counterexample
  (the theorem of the library on well-founded orders, whose parameters are
  sets).
- `AreaSafety`, for any numbers of rectangles and processes.
- `ReversedSafety`: for any file and any size of the buffer but zero
  (`ReverseAssumption`), the output is the file backwards, or some `fread` has
  fallen short. The invariant says that the file from `bytes_left` on is written
  (`WrittenSoFar`), that the position of the file is `bytes_left`, and which part
  of the block is exchanged (`ExchangedSoFar`); that the two indices of
  `reverseArray` stay in the block and add up to its last index (`InBuffer`) is
  what makes an exchange put two bytes where they belong, and holds even after a
  short `fread`.
- `UnheardSafety`, `RemovalSafety` and `PingTypeCorrect`, for any interval, ticks
  per second, latencies and times an answer takes; nothing is assumed about how
  exact the sleeps are. The arithmetic is in one lemma, `SeenWithinInterval`:
  less than an interval never looks like more than `PING_INTERVAL` seconds, and
  what looks like no more than that is less than an interval and a second.

- `ShownSafety`, for any set of instances: what a parent of `Fifo` prints is its
  own integral, or it was not alone, was interrupted or had no child. The stages
  of an instance that is alone (`Stage`, from `Unsent` to `Shown`) say where its
  two processes are and what is in the FIFOs. That it begins with empty ones,
  also after an instance that was killed half-way, is `HeldFifos`: what is in a
  FIFO is held by somebody. That no other process is at an end of them is
  `OneAtATime` and the lemma `PairEnds`.
- `LineSafety`: at the end of `CheckFork` each line is there exactly once.
  `LinesInOrder` lists where parent and child can be together, and for each
  place which lines are printed, in a buffer of stdio or still to come.
- `PassSafety` and `WaitSafety`, for any pipe that holds a block, any blocks but
  empty ones and any file. Of `CheckPipe`, the first says that the verdict is
  `PASS` if no call failed: every byte is unread, in the block, in the pipe or
  counted (`BytesInOrder`). The second says that parent and child never wait for
  each other, and also holds if a call failed: an empty pipe has room for a
  block, and who waits for the other to end has closed his end (`EndsInOrder`).

`CollatzSafety`, `AreaSafety` and the last four are theorems about `MCSpec`. The
others are about `ReverseSpec` and the `Spec` of `PingTiming`, whose steps
`MCSmall` takes.

The type invariants of `ProducerConsumer`, `Santa`, `Printers`, `ChatServer`,
`Signals` and `PingTiming`, `MutualExclusion` of `ProducerConsumer`, and the safety
halves of three liveness properties, `ShownIsOwn` of `Fifo`, `OnceAtEnd` of
`CheckFork`, `EndsWithPass` and `NeverBothWait` of `CheckPipe`, are proved and not
in a run.

Only model-checked is liveness, which rests on fairness and is out of the
prover's reach: `Termination` and the fairness part of `ImplementsHandoff`,
`DepartureUnregisters`, `EveryJobPrinted`, `AlwaysDeliversAgain`,
`EveryTextShown`, `ConfirmedIsServed`, `SenderEnds`, `OwnResult`, `LinesOnce` and
`WritingPasses`; and of course the two properties that do not hold.
What `OwnResult`, `LinesOnce` and `WritingPasses` say beyond the safety halves is
that the end is reached.

## 5. Plan

Done: the modules and the theorems above. Next:

- A bound on the socket buffers of `ChatServer`, so that a `send` blocks with
  the mutex held.

## 6. Not modelled

`lab04` (children that print and end, and a parent that waits for them),
`lab05/zad1`, `lab01`, `lab03/zad2` and `zad1.c` of `kolokwium1`: one process at a
time, or processes that share nothing. Drawing, file and directory I/O,
floating-point sums, argument checks, Makefiles,
snippets and notes; of `lab11`, the bytes of a message (so the write behind the
buffer at `serwer.c:91`; a name without its end is modelled, by what may be
behind it in the buffer) and a `send` that blocks; of `lab07`, an identifier
outside the table in a message that was never received (after an interrupted
`mq_receive` a client handles what is in its variable: an old message or one
of no effect). The reasons are with the components in `PROJECT.json`.
