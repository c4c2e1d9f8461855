# TLA+ models of programming-with-c

The repository is a course: 56 weeks, one small C program or library a week.
Most of the early weeks show what the language does and have no state worth a
specification. The later ones are small systems: servers with signals, a
blocking queue with threads, interrupt-driven firmware, a FreeRTOS program,
data structures and parsers that must survive a failed allocation. This
directory specifies those systems, model-checks them with TLC, and proves with
TLAPS what matters most about them.

Files: `*.tla` are the specifications, `*.cfg` the model-checking runs,
`*_proofs.tla` the proofs, and `PROJECT.json` the index of components, runs,
hazards, theorems, and the lines of C that each definition stands for.

To check one run: `tlc -config EvLoop.cfg EvLoop`. To check the proofs of a
module: `tlapm BoundedQueue_proofs.tla`.


## 1. Inventory

### Modelled

| Component | Source | State it keeps | Operations | Module |
|---|---|---|---|---|
| Blocking queue and its threads | week 41, `concurrent.c` | ring, head, tail, count, closed; mutex, two condition variables; atomic totals | `queue_push`, `queue_pop`, `queue_close`, `queue_destroy`, producer, consumer, main's joins | `BoundedQueue` |
| Counters | week 41, `concurrent.c` | a plain, an atomic and a guarded counter | `bump_all` in several threads | `Counters` |
| Echo server, one child | week 40, `echoserver.c` | input buffer, line number, what is still to be sent | `serve_connection`, `send_all` | `EchoConnection` |
| Echo client | week 40, `echoclient.c` | how far the current line is sent | main's loop of `fgets`, `send_all`, `recv` | `EchoClient` |
| Echo server, the processes | week 40, `echoserver.c` | descriptors of parent and children, zombies, the flag `stop`, errno | the accept loop, `on_signal`, `on_child` | `ForkServer` |
| Process primitives | week 39, `minishell.c` | parent, two children, the ends of a pipe, what is in it | `run_command`, `run_redirected`, `run_pipeline`, `write_all`, the signal loop | `Minishell` |
| Event server, one connection | week 47, `evserver.c` | `in`, `out`, `out_sent`, `lines`, `closing`, epoll interest | `conn_readable`, `conn_process_input`, `conn_queue`, `conn_writable`, `conn_update_interest` | `EvConnection` |
| Event server, the loop | week 47, `evserver.c` | `conns[]`, descriptors, event batch, self-pipe, idle times, counters | `accept_new`, `conn_close`, `sweep_idle`, dispatch, shutdown, `on_signal` | `EvLoop` |
| Interrupt-driven receiver | week 51, `interrupts.c` | UART FIFO, pending interrupts, ring, tick count, 64-bit `micros` | `uart0_handler`, `systick_handler`, `rx_get`, the critical section, main | `Interrupts` |
| FreeRTOS program | week 54, `rtos.c` | two queues, a mutex, statistics, the tick | sensor, control, log and report task | `Rtos` |
| Superloop | week 54, `superloop.c` | the tick, the sensor's statistics | the jobs in turn | `Superloop` |
| Line protocol | week 55, `protocol.c` | line, tick of the last byte, last status; receive FIFO, ticks | `protocol_poll` | `Protocol` |
| Polled UART echo | week 50, `uart.c`, `main.c` | control registers, both FIFOs, shift register | `uart_init`, `uart_putc`, `uart_puts`, `uart_getc`, `uart_flush`, main's loop | `Uart` |
| Linked list, stack, queue | week 32, `lists.c` | heap nodes, `head`, `tail`, `count` | push, pop, enqueue, dequeue, remove, reverse, destroy | `LinkedList` |
| Hash map | week 33, `adt.c` | buckets of entries, `bucket_count`, `count` | `map_create`, `map_put`, `map_get`, `map_grow`, `map_remove`, `map_destroy` | `HashMap` |
| Map under unit test | week 35, `tests.c` | the same without growth | the same without `map_grow` | `FixedMap` |
| Search tree | week 33, `adt.c` | heap nodes, the root | `tree_insert`, `tree_inorder`, `tree_destroy` | `SearchTree` |
| Growable arrays | weeks 19, 28, 29, 30, 45 | block, count, capacity | create, push, pop, destroy in their variants | `GrowableArray` |
| Block pool and byte ring | week 53, `constrained.c` | free list through the blocks; ring, head, tail | `pool_init`, `pool_alloc`, `pool_free`, `ring_push`, `ring_pop` | `Constrained` |
| Configuration reload | week 44, `config.c` | the active configuration and one under construction | `config_reload`, `config_free` | `ConfigReload` |
| Record parser | week 56, `legacy.c`, `parser.c` | none | `parse_record`, twice | `RecordParser` |
| Programs that read lines | weeks 23, 26, 27, 31 | streams, buffers, what was taken and printed | the reading loops and their clean-up | `LinePrograms` |
| Functions | weeks 8, 10, 12, 14 to 16, 18, 21, 24 to 26, 30, 34, 36, 37, 46, 52, 53 | none | arithmetic on words, algorithms on arrays, input of numbers and records, the memory image | `Words`, `Algorithms`, `Inputs` |

`ClosableQueue` is the abstract specification that `BoundedQueue` and
`Interrupts` implement, `SequenceList` that of `LinkedList`, and `Dictionary`
that of `HashMap` and `FixedMap`. `LineFraming` says what both servers should
answer to a stream of bytes, and is the reference that `EchoConnection` and
`EvConnection` are compared with.

How they interact. The programs of different weeks are separate executables, so
the interactions are inside each of them: threads over a mutex; a parent, its
children and its signal handlers; an event loop, the kernel and the clients;
two interrupt handlers and main; four tasks over two queues and a mutex; a
polling program and the hardware. `EchoClient` is composed with the server's
child: its steps are `EchoConnection`'s, restricted to what that client does. In
the event server `EvLoop` calls into the connection (`Serve` stands for
`conn_readable` and `conn_writable`) and `EvConnection` is that connection with
all its detail.

Four modules only put programs side by side so that one run checks them:
`Structures` (the data structures), `Programs` (what runs from a beginning to an
end), `Processes` (processes and threads) and `Firmware`. Their parts share
nothing. The variable `which` (`structure` in `Structures`) says which of them a
behaviour is about, and the variables of the others keep their initial values.

### Not modelled

Each has an entry in `PROJECT.json` with its files and the reason.

* The text parser of week 48, whose defects are planted on purpose.
* Programs that only call the libraries above or show one feature or one
  mistake (20, 28, 29, 38, 45), and language demonstrations (1 to 7, 9, 11, 13,
  17, 42, 43): there is no state, or no behaviour that a model could tell from
  what is printed.
* Variants, and the callers of `mathlib` in other languages (22, 46).
* Board support, hooks, vector tables and start-up code (49 to 54), except the
  start-up of week 52, which is in `Words`; build scripts.
* Of the modelled programs: formatting, address resolution and socket setup,
  floating-point rounding.

### What is hard here, and which property is about it

`PROJECT.json` lists the hazards line by line. The main ones:

| Hazard | Property |
|---|---|
| a wakeup goes to nobody, or to one thread where two must go | `BoundedQueue!NoLostWakeup`, `Termination` |
| values lost or overtaken when the queue closes | `Conservation` |
| an increment interleaves with another | `OnlyTheRacyCounterLoses` |
| recv cuts a stream anywhere, send takes part of a reply | `UpToDate`, `WholeConversation`, `EvConnection!AnswersItsLines` |
| a full buffer makes `recv` return 0, which looks like the end | `UpToDate` |
| a client and a server that each wait for the other | `ConversationEnds` (with `EchoClient!NeverBothWait`) |
| merged SIGCHLDs leave zombies; a handler changes errno | `ChildrenAndConnectionsEnd`, `NoSpuriousFailure` |
| a signal between a test and a blocking call | `ForkServer!StopsWhenAsked` (violated), `EvLoop!ShutsDown` |
| the reader of a pipe that never sees its end; Ctrl-C during `waitpid` | `CallReturns`, `NothingLeftBehind` |
| an event for a descriptor that has been closed and reused | `EvLoop!EventsHitTheirConnection` |
| accept fails half-way | `EvLoop!TableConsistent` |
| an interrupt inside `rx_get`, or between two halves of a 64-bit read | `Interrupts!ImplementsQueue`, `SafeRead` |
| bytes that arrive while the handler acknowledges | `Interrupts!Served`, `QuitEnds` (violated) |
| bytes and ticks that come within a poll; a tick counter that wraps | `SerialLineIsRight` |
| pointers to freed nodes, lost nodes, a stale `tail` | `ChainsHold`, `TablesHold`, `ListIsSequence` |
| an allocation that fails half-way, an index computed before rehashing, a `realloc` that fails or moves | `MapIsDictionary`, `ArrayIsSequence` |
| a pool block given out twice | `ChainsHold` |
| a reload, or a program, that fails at any of its calls | `ReloadIsAtomic`, `NothingHeld`, `OutputIsRight` |
| a rewrite that changes behaviour | `RewriteAgrees` |
| priority inversion and missed periods | `EveryPeriodServed`, `LogNotStarved`, `GapsBounded` |

Two hazards have no property, because the code does go wrong there: see
evserver.c:78 and evserver.c:127 in section 5.


## 2. The modules

Conventions. A step of a model is what the code does between two points where
somebody else can interfere. `pc` names the place in the code. History
variables (`said`, `got`, `popped`, `received`, ...) record what has happened
and influence nothing. Bounds that exist only for model checking are constants
marked "bound". A definition whose name starts with `Bug` is a mistake that the
definition after it could have had. No action uses it: `PROJECT.json` pairs it
with the property that finds the mistake, so it documents that the property
would notice.

### BoundedQueue and ClosableQueue (week 41)

Threads are model values and `pc` says where each is in `queue_push`,
`queue_pop`, `queue_close` or in the loop around it. Taking the mutex,
evaluating the wait condition with what follows under the mutex, releasing the
mutex, and the atomic counters after it are separate steps.
`pthread_cond_wait` is two steps, release-and-block and re-acquire.
`pthread_cond_signal` may wake one or several blocked threads, as POSIX allows,
and a thread may wake for no reason (`SpuriousWakeup`, bounded by
`MaxSpurious`). Values are pairs of producer and iteration, the code's
`id * 1000000 + i`; `checksum` keeps them as a set instead of a sum of
remainders, so that a value lost cannot be hidden by another.

`ClosableQueue` is a bounded FIFO queue that can be closed: `Put` appends while
it is open and not full, `Take` removes the oldest, `Close` stops further
`Put`s. The refinement maps the ring to the sequence of its contents.

### LineFraming, EchoConnection (week 40) and EvConnection (week 47)

`LineFraming` defines `Replies(s)`, the replies due to a stream `s`, without a
buffer. A byte is a newline, the word `quit` counted as one byte, or any other
byte. Both servers keep a partial line in a buffer, and both modules state that
whenever they wait for input they have said `Replies` of what they received
(`UpToDate`, and the same part of `AnswersItsLines`).

A line is found by counting: `Ended(s, k)` is how many lines end within the first
`k` bytes, and `EndOf(s, n)` the place where the n-th does. `Framed(s, p, m)` says
that the first `m` lines of `s` end at `p` and none of them ends the conversation,
and `Told(s, m)` is what has been said then; the invariants of both servers are
stated with these two.

In `EchoConnection` the child is either inside `send_all` (cells left in
`sending`) or at its `recv` or in its framing loop. In `EvConnection` the
connection goes through `recv`, `lines`, `rest`, `send` and `finish` in the
order of the loop body in `main`. A reply is made of cells that `send` may
split anywhere. The client writes, reads, shuts down its side or resets the
connection at any time. Calls that end in EINTR are repeated and change
nothing, so they are no steps.

`EchoConnection` leaves the 30 seconds of the receive timeout nondeterministic:
`RecvTimeout` may happen whenever there is nothing to receive.

`EchoClient` extends it with `main` of `echoclient.c`: the client writes one
piece that `fgets` gave it, receives once, and goes on. Its 10 seconds are
nondeterministic too. It may wait in vain only after a piece that is not the end
of a line (`NeverBothWait`).

### ForkServer (week 40)

The parent's accept loop, one step per system call, with the test of `stop`
separate from the call of `accept`. A handler runs between any two steps of
main; SIGCHLD is a flag, because pending signals merge. `errno` and
`on_child`'s `saved` are variables, because the handler's `waitpid` runs
between the failure of `accept` and the test of `errno`. What a child says is
in `EchoConnection`; here it holds a descriptor until it exits.
SIGINT is delivered to the parent only: a child would take it as an EINTR.

### EvLoop (week 47)

`conns` is the table with the descriptor as index, `kernel` who is at the other
end of each open descriptor, `watched` what epoll knows. `accept` returns the
lowest free descriptor, so numbers are reused at once. An event in `batch`
remembers the client it was reported for, which the code cannot know. That is
what makes `EventsHitTheirConnection` say something. `set_nonblocking`,
`calloc` or `EPOLL_CTL_ADD` may fail after `accept` succeeded
(`AcceptAndGiveUp`). Handling a connection's event (`Serve`, `CloseOnEvent`)
leaves it closing or not and with output or not: every outcome `EvConnection`
can have. Time passes only while the loop sleeps. A signal writes to the
self-pipe and makes a sleeping `epoll_wait` return EINTR, after which the loop
starts a new wait without sweeping.

### Interrupts (week 51)

`isr` says where `uart0_handler` is, for bytes keep arriving while it runs.
`systick_handler` is one step: the two interrupts have the same priority, so
neither handler preempts the other. Each access of main to shared memory is a
step: the test, the copy and the new tail in `rx_get`; the two reads of
`tick_count` in the report condition; and the two loads of the 64-bit `micros`,
in either order, with interrupts enabled and then in the critical section.

Abstractions. The receive interrupt is what the comment "interrupt when a byte
arrives" takes it for: raised per arriving byte and pending until ICR is
written. A byte that finds the UART's own FIFO full is lost there without a
trace. `micros` counts units of 1000 and its words are modulo `WordSize`;
`tick_count` is modulo `TickWrap`. Both wrap early so that ticks can go on for
ever in a finite model. Transmission is left out.

### Rtos (week 54)

The kernel is external: one of the runnable tasks with the highest priority
runs, and a task that holds the mutex has at least the priority of those that
wait for it. Time is what the code takes it for: `busy_wait`, printing and
idling take ticks, the rest much less than one. A tick may still fall between
any two steps (`TickElapses` with `calm`), but after it the next tick finds a
task waiting in a loop, or none. `Superloop` is the other program of the week,
with the same notion of time: each `busy_wait` ends with the first look at the
tick that is late enough.

### Protocol (week 55) and Uart (week 50)

Both are programs that poll, with hardware that moves between any two accesses.
`Protocol` reads the tick once in each poll and then the bytes one by one, while
ticks pass and bytes arrive; ages of bytes (`age`, `kept`) are histories that
say how long ago the last byte really came, against what the code computes from a
tick counter that wraps. `Uart` has a receive FIFO that loses what finds it full,
a transmit FIFO that loses what is written when it is full, and a shift
register. `todo` is what the program still has to write, and `EchoIsComplete`
says that what was sent, what is on its way and what is still to be written are
together what it should say.

### Counters (week 41) and Minishell (week 39)

In `Counters` the increment of the plain counter is a load and a store. The race
is undefined behaviour in C; the module takes what a build produces that loads
and stores it once a round. `Minishell` has one call per behaviour (`call`), the
ends of the pipe each process holds, and Ctrl-C at any step: it goes to the
parent, which handles it, and to the children, which it kills once they have
exec'ed. Commands are external. fork, pipe, open and exec may fail.

### LinkedList, SearchTree, HashMap and FixedMap (weeks 32, 33 and 35)

The list and the tree are nodes in a heap whose `malloc` returns any free node
or fails. Freeing a node fills it with garbage, and a garbage pointer leads
nowhere, so that reading a freed node or freeing it twice shows. Operations
with a loop take a step per round; `link` of `list_remove` and `tree_insert` is
the address of a field, as in the code. `tree_destroy`'s recursion is a stack of
calls. `SequenceList` says what the list promises.

In `HashMap` a chain is a sequence and the walk along it one step. What matters
there is the order of the checks and allocations in `map_put`: the load factor,
`map_grow`, the new index, the entry, the key; each allocation may fail.
`blocks` counts the blocks that are allocated. `hash_string` is an arbitrary
function from keys to numbers, chosen initially and fixed. `Dictionary` says
what the map promises, return values included: a `map_put` that returned true
but stored its entry where `map_get` does not look would not implement it.
`FixedMap` is the map of week 35, which the same `Dictionary` describes.

The stack's and the queue's `pop` and `dequeue` have the same body and are one
action.

### GrowableArray and Constrained (weeks 19 to 45, and 53)

The course writes the growable array five times. `GrowableArray` is all of them:
`variant` says which constructor and destructor are used, and appending is the
same code in each. `realloc` may fail, extend the block in place or move it, and
`heap` has the contents of every allocated block, so that reading a moved or
freed one shows. `Constrained` is the pool and the ring: `next` is what each
block contains, and what a held block contains is its user's.

### LinePrograms, ConfigReload, RecordParser (weeks 23, 26, 27, 31; 44; 56)

A line of `LinePrograms` is its length, the class of its text, and whether a
newline ends it; four programs share the loop of `fgets` and differ in what they
take, accept and release. Each call that can fail may fail. `ConfigReload` is
called again and again over the same active configuration. `RecordParser` runs
both parsers of week 56 on the same line, character by character.

### Words, Algorithms, Inputs

Functions without state. A behaviour calls one of them with one argument of the
set in `Init`, and the property compares the result with a definition of what it
should be. Widths are constants: 5-bit words show the overflows of 32-bit ones.


## 3. The runs

| Run | Specification and bounds | Distinct states | What it shows |
|---|---|---|---|
| `queue` | 2 producers with 2 values each, 2 consumers, capacity 2, 1 spurious wakeup | 87 000 | the queue implements `ClosableQueue`; nothing is lost, duplicated or overtaken; no wakeup is lost; the program ends with everything consumed |
| `echo_conversation` | `Programs`: a buffer of 3, socket of 2, 5 bytes of input, pieces of 2; text of 2 lines a stream; files of the reload in lines; lines of 5 characters; words of 5 bits | 465 000 | the answer of the echo child does not depend on how recv and send cut, and it and its client end without waiting for each other; text programs, reload and parsers give the right output and release what they took, whatever fails; the functions agree with their definitions |
| `fork_server` | `Processes`: 3 clients; a pipe of 2 and output of 4; 3 threads counting twice | 93 000 | errno survives the handler, no zombie stays, every connection is closed by both processes; the shell's calls return with the right status and leave nothing behind; only the plain counter loses updates |
| `fork_stop` | 1 client | | violated: see section 5 |
| `ev_connection` | buffer of 4, socket of 2, 4 bytes of input | 335 000 | as for the child, within both buffers, plus delivery and closing |
| `conn_flush`, `conn_bye` | as above | | violated: see section 5 |
| `ev_loop` | 2 descriptors, 2 clients, 3 connects, batches of 2, 1 signal | 640 000 | events reach their connection, the tables agree, idle connections go in time, a signal ends the loop |
| `interrupts` | ring of 3 slots, FIFO of 2, 4 bytes, 2-valued words, ticks modulo 4 | 84 000 | the ring is a FIFO queue without a critical section; accounting, acknowledgement and the protected read are right; pending bytes are served |
| `quit_typed` | as above | | violated: see section 5 |
| `rtos` | `Firmware`: period 10, sensor 2, control 1, log 16, a report at 20 that prints for 5 ticks, 65 ticks; superloop of 30 ticks with a log of 5; lines of 3, timeout 3, ticks modulo 8; FIFOs of 2, 3 keys | 2 860 000 | every period is met, no take times out, no reading is dropped, the log task is delayed by a bounded time; the superloop's gap is a sum; a line is given up when it is silent; nothing said over the UART is lost |
| `structures` | 4 nodes, 2 values; 5 keys in the tree; 3 keys, 3 buckets and every hash function into {0, 1, 3, 6}; 3 addresses, capacities up to 4; pool and ring of 3 | 368 000 | the list is a sequence, the maps are dictionaries, the array keeps what it accepted, and none of them, nor the tree or the pool, loses memory or uses what was freed |

The theorems of section 4 have no bound. For what is only model-checked, and as a
first check of the rest, these bounds are enough because the interesting cases
happen:
*Queue*: two threads on each side make a signal ambiguous, and a capacity
below the number of values makes both conditions block.
*Connections*: the buffer holds more than one line and the input is longer than
the buffer, so a recv can return part of a line, a line and a half, two lines,
and a line that does not fit; a reply is longer than what the socket takes.
*Programs*: a line may be shorter than the text buffer, fill it, or exceed it, and
the limits of lines fall in the first operand, between two, and in the second.
Five bits hold every sign and carry case, and seven bits of a long hold every
product of two ints that is needed. A client's piece of 2 is shorter than a line
and two of them are longer than the server's buffer.
*Processes*: the command writes more than the pipe holds, so it blocks and needs
a reader. Three threads of two rounds lose an update across a whole round of the
others.
*ForkServer*: with three children, two can exit while a SIGCHLD is pending, and
a third while the handler runs.
*EvLoop*: with two clients, three connects and two descriptors, a descriptor is
closed and reused while another event is waiting in the batch.
*Interrupts*: the ring fills, wraps and overflows within four bytes, and a carry
between the two words of `micros` occurs at every second tick.
*Rtos*: the costs of sensor and control are the code's; the log's 50 ticks and
the report's 2000 are scaled down to 16 and 20, so that the report and the
sensor wake while the log task holds the mutex, and two log runs fit the
horizon; 65 ticks are six periods.
*Protocol*: the tick counter wraps twice within a timeout and a poll; a poll and
the time between two are shorter than the timeout and together longer.
*Uart*: two keys are pending while a reply is longer than the transmit FIFO.
*Structures*: a removal, a reversal and a destruction have a first, a middle and
a last node. Four nodes make every tree shape of height up to four, and five
keys leave one that finds no memory. The map starts with 3 buckets instead of 8
and doubles to 6 at its third key, when two keys may be in one chain that stays
together or is split. The map of week 35 is created with one bucket, where every
chain is long, and with the default. The array grows twice, and its third block
can only be the one that was just freed.

Deadlock is checked in `interrupts` and `structures`. In the other systems a program
may end or a client may stay silent for ever, and each configuration says so;
there liveness properties take the place of the deadlock check.

Fairness, and what in the code justifies it.
*Queue*: weak fairness for each thread. The scheduler runs every thread that
can run. Weak fairness on taking the mutex is enough, because each producer
does finitely many pushes and consumers sleep when there is nothing.
*EchoConnection, EvConnection*: the server's process is scheduled, and the
client reads what arrives. The client need not write, shut down or reset.
*EchoClient*: the client is scheduled, its stdin ends (`MaxInput`), recv's 10
seconds pass, and the kernel of a client that has closed answers with a reset.
*Minishell*: parent and children are scheduled, and a left command ends after
its output. A right command reads on but need not end before its input does, so
that a descriptor left open would show.
*ForkServer*: handlers and parent are scheduled, and children end (by
`EchoConnection!ChildEnds`). Nobody need connect or send a signal.
*EvLoop*: the loop runs, and the self-pipe is in some batch if it stays
readable. The kernel's ready list is served in turns, so with more ready
descriptors than `MAX_EVENTS` none waits for ever.
*Interrupts*: the timer never stops and pending interrupts are taken. main and
`uart0_handler` are repeatedly held up by other steps, so they are strongly
fair. So is the end of the report loop: main executes thousands of instructions
in a tick and cannot look at `tick_count` only when the report is due.
*Rtos*: none; its properties bound times instead.


## 4. The theorems

All are for arbitrary values of the constants, under the ASSUMEs of the module.
Each rests on an inductive invariant, which TLC checked before it was proved: it
is called `IInv`, or has the name of its part of a module that puts programs side
by side (`ListInv`, `ArrayInv`, ...). The steps are the same everywhere:
`Init => IInv`, `IInv /\ [Next]_vars => IInv'` with one step for each action, and
`IInv` implies the property. A module with several programs adds that a step of it
is a step of the one or leaves its variables alone.

`BoundedQueue_proofs`: any finite set of producers and of consumers (at least one
consumer), any capacity and any number of values and of spurious wakeups.

* `LocalInvariance`: `TypeOK` with `LockInv` (exactly the thread inside a critical
  section owns the mutex, and a thread blocked on a condition variable is not
  inside), `RingInv` (`tail` is where `head` and `count` say, without which a push
  could overwrite an item) and `LoopInv` (a producer that is not done has
  iterations left, so that what it pushes is a value). `MutualExclusion` and
  `RingConsistent` are parts of it.
* `Refinement`: `Spec => CQ!CQSpec`. Each step of the ring maps to a `Put`,
  `Take` or `Close`, or leaves the abstract queue alone.
* `NothingIsLost` (`Conservation`) and `WakeupsAreNotLost` (`NoLostWakeup`). IInv
  adds `PhasesInv` (main closes only after every producer is done, and a consumer
  leaves only a queue that is closed and empty), `InOrder` and `TotalsInv` (what was
  popped is in the totals or in a consumer's hands, once). `NoLostWakeup` must be
  carried in the invariant itself: whether a signal that wakes one thread is enough
  depends on how many were blocked before.

`ProcessesAndStructures_proofs`, first part: the processes of weeks 39 to 41; any
clients, threads, rounds, and sizes of the pipe and of what is written.

* `ServerInvariance`, with `NeverLeavesForASignal` (`NoSpuriousFailure`),
  `ZombiesAreAnnounced` and `DescriptorsFollowMain`. `ErrnoInv` says that after a
  failed `accept` the value that main will look at is EINTR unless the call really
  failed, wherever it is kept meanwhile: in `errno`, or in the handler's `saved`.
* `ShellInvariance`, with `CallsLeaveNothingBehind` (`NothingLeftBehind`).
  `ChildrenInv` relates the parent's place to which children exist and which were
  waited for, `EndsInv` says who holds which end of the pipe when.
* `CountInvariance`, with `CountersAreExact` (`OnlyTheRacyCounterLoses`): the atomic
  and the guarded counter are exact. The bound on the plain counter is shown
  from both sides; its lower bound, 2 for threads that count twice or more, rests on
  `RacyInv`: a thread past its first round never stores less than it loaded then.

Second part: the list, the growable array, the pool and the ring; any values,
capacities and sizes, and any finite set of nodes none of which is NULL or the
address of `l->head` (`NodesAssumption`).

* `ListImplementsSequence` (`ListIsSequence`) and `ListKeepsItsShape`, the list's part of
  `ChainsHold`. `ListInv` says that the allocated nodes can be numbered, each once,
  so that every link leads to the next, except that the first few (`turned`)
  point backwards: all of a reversal that is under way is in that number.
  `Chain`, defined by walking from the head, is that numbering (`ChainIs`, by
  induction over the walk), and each operation is an operation on it: one
  node less, one more at either end, or all backwards. `list_remove` has also
  to remember that the nodes before its link have other values.
* `ArrayKeepsItsElements` (`ArrayIsSequence`). `ArrayInv` relates the block to what was
  accepted in each variant, whatever `realloc` does.
* `PoolAndRingHold`. `PoolInv` numbers the blocks of the free list
  as `ListInv` does; `RingInv` is the queue between tail and head, modulo the size.
  `ChainsAlwaysHold` (`ChainsHold`) joins it to the list's shape.

`Programs_proofs` and `EvConnection_proofs`, over `LineFraming_proofs`: any buffer, any
socket and any stream.

* `AnswersEveryLine` (`UpToDate`) and `ConversationIsWhole` (`WholeConversation`) for
  week 40, and `OpenConnectionAnswers` (`AnswersItsLines`) for week 47. The code knows
  a buffer and a line number; `Replies` is defined by the whole stream. `SaidInv`
  bridges the two: the lines before `Place` are framed, and what was said is what
  is told of them. `BufferInv` says that the buffer is the end of what was received,
  and between events holds no whole line and has room. `WireInv` follows what was
  said through the out buffer, the socket and the client. In week 47 it needs two
  exceptions that are in the code: a connection that is closing may say only some
  of the replies, and one whose input has ended has given up what it had queued
  (`GivenUp`). `QuitNext` is a third: the quit line that stays in the buffer.
* `ClientConforms`: `ClientSpec => Spec`, each step of `echoclient.c` is one that
  the server's model allows its client.
* `LineFraming_proofs` has the lemmas both use: what one more byte, one more
  line, a final line and the end of the stream do to `Replies`, and what
  `FlattenSeq` gives for one sequence more. The last is an induction. It is stated
  about a set, not an operator (`NatSet`: a set with 0 and all successors has every
  natural number, for it would have a least exception), which the provers can use.

`Programs_proofs` goes on with the text programs, the reload and the parsers: any
lines, any number of them, any limits and any sizes of the buffers, with every
call that may fail failing or not.

* `RunsReleaseAll` (`NothingHeld`): `HeldInv` says what a run has at each place.
* `WritesWhatItShould` (`OutputIsRight`): `RunInv` has the types, `SingleInv` and
  `FilterInv` what was written when a line is reached. The filter's is the harder:
  the line limit falls in its first operand, between two or in the second, and
  standard input may be named twice and is at its end the second time, unless the
  limit was reached first (`Exhausted`).
* `ReloadReplacesOrKeeps` (`ReloadIsAtomic`): the configuration under construction is
  `Applied` to the lines looked at and is not the active one (`ReloadInv`).
* `RewriteIsFaithful` (`RewriteAgrees`): for a line of any length, numbers of any size
  and any widths with a long at least as wide as an int, the two parsers agree or
  the new one says 0 for a number no int holds. The two cut the line at different
  moments; the lemmas are about what is left of a line without its blanks.

`EvLoopAndTables_proofs`, first part: any descriptors, clients, batch size and limits.

* `TableStaysConsistent` (`TableConsistent`), `EventsReachTheirConnection`
  (`EventsHitTheirConnection`) and `IdleIsBounded` (`IdleBounded`). `BatchInv` says
  that a batch has each descriptor once, which is why one closed by its own event
  cannot have another event later in it; `SweepInv` bounds the time
  since the last sweep by the period and one sleep, although EINTR starts a sleep
  anew without a sweep.

Second part: the maps of weeks 33 and 35 and the search tree; any keys, values, hash
functions and numbers of buckets (`MapAssumption`), and a tree of any nodes
(`NodesAssumption`) and int keys (`TreeAssumption`). `TablesAlwaysHold` (`TablesHold`) joins the three shapes.

* `MapsImplementDictionary` (`MapIsDictionary`), `HashMapKeepsItsShape` and
  `FixedKeepsItsShape`. A `Hashed` table is an array of chains, each key once and in the chain
  its hash says; what it contains is a set of entries (`AllIn`) in which no key is
  twice, and each operation on a chain is one on that set: an entry more, one less, or
  another value. `Rehashed` moves the entries one after another and ends with a
  table of the same set, by induction over the list of entries, so growth does
  not show. `MapKnows` and `FixedKnows` say what each place of an operation
  remembers of the table: after the search the key is not in it, after the
  growth there is room, and how many blocks are held that no entry owns yet.
* `TreeKeepsItsShape`. "An in-order walk is sorted" is not inductive, and says
  nothing of a tree half destroyed. `TreeKnows` gives each node the range of keys that
  belong into its subtree: a child's range is its parent's on that side of the
  parent's key, and two ranges are nested or disjoint (`Sorted`). The link an insertion
  is following leads to the only range its key belongs to (`LinkIn`). During
  `tree_destroy` a call on the stack is inside one side of the call below it
  (`Nested`), and every node left is owed by one of them (`Covered`). That the walk
  visits each node of a range once, by increasing key, is an induction over the size
  of the range's part of the tree.

`Firmware_proofs`: any periods, costs, waits and sizes.

* `RtosInvariance`, with `EveryPeriodIsServed` (`EveryPeriodServed`) and `LogIsServed`
  (`LogNotStarved`). The assumptions are that the sensor's and control's work with
  three ticks for the switches fits a period (`Work < Period`), and that a take
  waits more than one tick. `PlaceInv` says where each task can be while the
  sensor task starts a period, `TimeInv` how long each may have been at it, and
  `LogInv` what has preempted the log task since its wait was due.
* `LoopInvariance` and `GapsAreBounded` (`GapsBounded`): the superloop's gap is the sum
  of its jobs, the kernel's is the period, each within a tick.
* `ProtoInvariance`, `SerialInvariance` and `SerialLineHolds` (`SerialLineIsRight`). The
  protocol's part needs that the timeout, a poll and the time between two polls are
  together less than the counter's range (`ProtocolAssumption`); then the
  difference of two ticks tells how long the line was silent wherever it wraps.
  The UART's part needs `MainInv`: nothing was written before the UART was enabled.

`Interrupts_proofs`: any ring size from 2 to 256, any FIFO size, any characters,
any word size.

* `Invariance`: IInv is `TypeOK` with `Filled` (the slots between tail and head
  have been written), `GetInv` (what `rx_get` saw when it tested and copied is
  still true when it advances, whatever the handler did in between) and
  `LoadInv` (in the critical section no handler runs and what has been loaded
  of `micros` is current).
* `ProtectedRead`, `Acknowledgement`, `Accounting`: the properties `SafeRead`,
  `NoReentry` and `EveryByteCounted`.
* `Refinement`: the ring implements a FIFO queue of `RX_SIZE - 1` bytes with a
  single producer that interrupts a single consumer anywhere.

What proving changed in the models. An invariant that was not inductive, or a step
that could not be proved, was looked at as a question about the model:

* Two arms of a CASE could both apply: a failing `fork` in `Minishell`, and a failing
  acquisition in `LinePrograms`. TLC took the first; they are disjoint now.
* `LogNotStarved` allowed one period of preemption. The log task may be held up by
  the rest of one period's work and all of the next's, so the bound is two.
* `GapBounded` says also that the wake-up times stay multiples of the period, so a
  drift of a tick a period would be seen; the bound of `TimeoutIsSilence` is exact.
* The ends of the lines of a stream were a sorted set; they are counted now, which
  says the same and can be reasoned about. For the same reason what a text program
  should write (`Wanted`), what a configuration says (`Applied`) and the algorithms
  are recursive functions instead of recursive operators, and what a run still
  needs is a set (`Missing`).
* The entries of a map and the table it moves them to were recursive operators and are
  recursive functions; what `Dictionary` stores is written out, for a library
  operator reached through two instances has no definition the provers see.
* `FilterInv` was not inductive at first: it has to say that standard input has not
  been touched before an operand names it.

Only model-checked, and why.

* The liveness properties and the end of every program: TLAPS does not reason about
  fairness or ENABLED.
* `WordsAreRight` and `AlgorithmsAreRight`: what a function computes by recursion over
  bits, an array or a graph, compared with its definition for every argument up to
  a bound. A proof would be an induction for each, over data.


## 5. Where the code and its comments disagree

Each of the first four has a run that finds a counterexample.

* `fork_stop`, echoserver.c:160. The loop tests `stop` and then calls `accept`.
  A SIGINT between the two sets the flag and interrupts nothing, so the server
  stays until another client connects. Line 158 says "Ctrl-C to stop". (The
  self-pipe of week 47 is the remedy, and `EvLoop!ShutsDown` shows that it is.)
* `conn_flush`, evserver.c:134. At the end of input the server drops queued
  output, also replies made from the same batch of input. A client that writes
  and shuts down its side, as `printf ... | nc` does, may get nothing. The
  comments say "nothing left to deliver" and, at line 290, "flush before
  closing".
* `conn_bye`, evserver.c:98. The framing loop breaks before `start` passes the
  quit line. The line stays in the buffer and is processed again when more
  input arrives before "bye" is flushed, so that "bye" is said twice. Line 86
  says "Framing, exactly as in week 40", where the server returns after "bye".
* `quit_typed`, interrupts.c:89. The handler finds the FIFO empty and then
  clears the interrupt. A byte that arrives between the two raises an interrupt
  that is cleared with the others and stays in the FIFO until another byte is
  typed. Line 169 says "type freely, 'q' ends". The counterexample is under the
  receive interrupt as the code describes it; real hardware may raise it
  again, for instance by level.

Found while modelling, and without a run of its own. The models have the
behaviour of the code, and their properties allow it.

Servers and processes:

* evserver.c:78 closes a client with the comment "client not draining". The out
  buffer is not flushed while input is drained and is not compacted, so a
  client that does read is closed too when it sends enough lines at once.
* evserver.c:127 refreshes `last_active` with every byte received. A connection
  that is closing, whose client sends on and never reads, is never swept.
* evserver.c:102: a numbered reply of exactly `BUF_SIZE` bytes is truncated by
  `snprintf` and queued at its full length, so it ends in a NUL and not in a
  newline (`Cells` in `EvConnection`).
* echoserver.c:160 has a companion at line 59: a child's `recv` is interrupted
  by nothing that would end it, so after the parent has stopped the children
  serve on until their clients leave or are silent for 30 seconds.
* echoclient.c:59 receives once for each line. The greeting is printed as the
  answer to the first line and each later answer may come one line late; the last
  one may never be printed. A line of more than two pieces waits 10 seconds for
  an answer that cannot come: the README's `head -c 1000000 /dev/zero` experiment
  ends that way and never reaches the server's "line too long".
* minishell.c:101 and 112: after a fork that fails, the ends of the pipe stay open
  and the first child is not waited for.

Text and numbers:

* errors.c:98 says "written only on success", but an `fclose` that fails at line
  103 returns an error with `*lines_out` written. Line 87 doubles a value
  without a check.
* variant2.c:89, files.c:82, errors.c:69 and filter.c:104 take a last line of
  exactly `LINE - 1` characters without a newline for one that is too long, and a
  NUL in a line makes them skip the next one. The filter reads one line more
  than its limit and does not look at the flush of stdout.
* config.c:50 converts a long with `(int)`: 2^32 becomes 0 and 2^31 negative,
  after the comment of line 48. A file longer than `CONFIG_MAX` is cut silently.
* parser.h (week 56) says a failure "leaves the outputs untouched", but a name
  that does not fit is written as far as it goes. The legacy parser truncates
  "99999999999" and the new one says 0, against "rewrite changed no behavior".
* prompt.c:42 drops a valid number at the end of input without a newline.
* files.c:143 compares `(long)index`, so an index of 2^63 or more passes and reads
  the record at the index modulo 2^63. A name of 32 bytes without a NUL loses its
  last byte when it is decoded (portable.c:90).
* dynarray.c:110 prints "five reallocations for nine pushes"; there are three.
  generic.c:206 ignores the result of `vector_init`.

Firmware:

* interrupts.c:186 reads `tick_count` twice in one condition. If the first tick
  comes between the two reads, "5000 ticks" is reported after one.
* interrupts.c:143: `uart_irq_init` clears the interrupt of a byte that was
  typed after the polled one; the byte waits for the next. `Served` and
  `QuitEnds` begin after that.
* protocol.c drops the byte that overflows the line and answers the rest of the
  line as a new one; a byte that comes late in a long poll is timed out earlier
  by up to the length of the poll; `last_status` never returns to OK.
* hal_device.c: `dev_ticks` returns SYST_CVR, a 24-bit counter that counts down,
  while the protocol expects one of 32 bits that counts up (`Protocol` models the
  latter).
* layout.c:57: `paint_stack` is never called, so `stack_used_bytes` reports the
  whole stack, against line 143, "this is a measurement, not an estimate"
  (`Image` in `Words`, with `painted` false).
* constrained.c: `put_int` and `put_q16` of INT_MIN are undefined, `q16_div` shifts
  a negative number left, and the integral of `pid_step` has no bound.
* uart.c: what is typed while a long reply is written is lost when the receive
  FIFO is full, and main is not told; `uart_putc` echoes a typed newline without
  a carriage return.


## 6. Plan

Done, in this order: `BoundedQueue` with `ClosableQueue` and its proofs,
`LineFraming` with `EchoConnection` and `EvConnection`, `ForkServer`, `EvLoop`,
`Interrupts` with its proofs, `Rtos`, `LinkedList` with `HashMap` and
`SearchTree`; then `GrowableArray`, `Constrained`, `LinePrograms`,
`ConfigReload`, `RecordParser`, `Words`, `Algorithms`, `Inputs`, `Minishell`,
`Counters`, `Superloop`, `Protocol`, `Uart`, `FixedMap` and `EchoClient`.

Theorems proved, in this order: the queue's refinement; the receiver; the queue's
wakeups and totals; the processes; the event loop; the firmware; the line framing
with the echo child, its client and the event server's connection; what the text
programs hold and write; the reload; the two parsers; the pool and the ring; the
growable array; the list and its refinement; the two maps and theirs; the
search tree.

Models that could still be added: a clock for `EvConnection`, to show the
connection that is never swept (evserver.c:127).
