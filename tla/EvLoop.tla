------------------------------- MODULE EvLoop -------------------------------
(***************************************************************************)
(* The event loop of week 47 (evserver.c): the table of connections, the    *)
(* descriptors the kernel hands out and takes back, the batches of events   *)
(* that epoll_wait returns, the sweep of idle connections, and shutdown     *)
(* through the self-pipe.  What happens inside one connection is in         *)
(* EvConnection; here an event leaves a connection closing or not, with     *)
(* output pending or not.                                                   *)
(*                                                                          *)
(* Clients connect, become active or hang up at any time, and signals come  *)
(* at any time.  Time is counted in seconds and passes while the loop       *)
(* sleeps in epoll_wait: handling an event takes none.                      *)
(***************************************************************************)
EXTENDS Naturals, Sequences, FiniteSets, FiniteSetsExt, SequencesExt

CONSTANTS
    Fds,           \* the descriptors accept can return, natural numbers
    Clients,       \* bound: who connects, each at most once at a time
    NoClient, NoConn,
    Listener, WakePipe,   \* the two other descriptors epoll watches
    MaxEvents,     \* MAX_EVENTS
    IdleLimit,     \* IDLE_LIMIT
    SweepPeriod,   \* the 5 seconds between sweeps
    WaitLimit,     \* epoll_wait's timeout, one second
    MaxSignals,    \* bound: signals delivered
    MaxConnects    \* bound: connections made

Conn == [client : Clients, closing : BOOLEAN, pending : BOOLEAN]

ASSUME FdsAssumption == Fds \subseteq Nat /\ IsFiniteSet(Fds)
ASSUME NamesAssumption ==
    /\ Listener # WakePipe /\ {Listener, WakePipe} \cap Fds = {}
    /\ NoClient \notin Clients /\ NoConn \notin Conn
ASSUME LimitsAssumption ==
    /\ MaxEvents \in Nat \ {0} /\ WaitLimit \in Nat \ {0}
    /\ IdleLimit \in Nat /\ SweepPeriod \in Nat \ {0} /\ MaxSignals \in Nat
    /\ MaxConnects \in Nat

VARIABLES
    conns,        \* conns[], with fd as the index
    kernel,       \* the client at the other end of each open descriptor
    watched,      \* the descriptors registered with epfd, besides the two
    ready,        \* open descriptors with input, or with room for output
    hungUp,       \* open descriptors with EPOLLHUP or EPOLLERR
    backlog,      \* connections the listener has not accepted
    pipe,         \* bytes in the self-pipe
    signals,      \* signals delivered so far
    connects,     \* connections made so far
    batch,        \* the rest of events[], each with the client it is about
    pc, running,
    idle,         \* seconds since last_active, for each descriptor
    sinceSweep,   \* seconds since last_sweep
    waited,       \* seconds this epoll_wait has slept
    live, peak, total

environment == <<ready, hungUp, backlog, pipe, signals, connects>>
clock == <<idle, sinceSweep, waited>>
counters == <<live, peak, total>>
table == <<conns, kernel, watched>>
vars == <<conns, kernel, watched, ready, hungUp, backlog, pipe, signals,
          connects, batch, pc, running, idle, sinceSweep, waited, live, peak, total>>

Table == {fd \in Fds : conns[fd] # NoConn}
Open == {fd \in Fds : kernel[fd] # NoClient}
Free == Fds \ Open

Init ==
    /\ conns = [fd \in Fds |-> NoConn]
    /\ kernel = [fd \in Fds |-> NoClient]
    /\ watched = {} /\ ready = {} /\ hungUp = {} /\ backlog = {}
    /\ pipe = 0 /\ signals = 0 /\ connects = 0
    /\ batch = <<>> /\ pc = "wait" /\ running = TRUE
    /\ idle = [fd \in Fds |-> 0] /\ sinceSweep = 0 /\ waited = 0
    /\ live = 0 /\ peak = 0 /\ total = 0

-----------------------------------------------------------------------------
\* The world outside.

Seen == backlog \cup {kernel[fd] : fd \in Open}

\* A client that is not here connects (again).
Connect(k) ==
    /\ pc # "done" /\ k \notin Seen /\ connects < MaxConnects
    /\ backlog' = backlog \cup {k}
    /\ connects' = connects + 1
    /\ UNCHANGED <<table, ready, hungUp, pipe, signals, batch, pc, running,
                   clock, counters>>

\* Input arrives, or there is room for pending output.
Activity(fd) ==
    /\ fd \in Open \ ready
    /\ ready' = ready \cup {fd}
    /\ UNCHANGED <<table, hungUp, backlog, pipe, signals, connects, batch, pc, running,
                   clock, counters>>

HangUp(fd) ==
    /\ fd \in Open \ hungUp
    /\ hungUp' = hungUp \cup {fd}
    /\ UNCHANGED <<table, ready, backlog, pipe, signals, connects, batch, pc, running,
                   clock, counters>>

\* on_signal writes one byte.  If the loop sleeps, epoll_wait returns EINTR
\* and is called again.
Signal ==
    /\ pc # "done" /\ signals < MaxSignals
    /\ signals' = signals + 1
    /\ pipe' = pipe + 1
    /\ waited' = IF pc = "wait" THEN 0 ELSE waited
    /\ UNCHANGED <<table, ready, hungUp, backlog, connects, batch, pc, running, idle,
                   sinceSweep, counters>>

-----------------------------------------------------------------------------
\* The loop.

BugReadyItems == (watched \cap (ready \cup hungUp))    \* no self-pipe
                 \cup (IF backlog # {} THEN {Listener} ELSE {})
ReadyItems == (watched \cap (ready \cup hungUp))
              \cup (IF backlog # {} THEN {Listener} ELSE {})
              \cup (IF pipe > 0 THEN {WakePipe} ELSE {})

\* A second passes while the loop has nothing to do.
Tick ==
    /\ pc = "wait" /\ ReadyItems = {} /\ waited < WaitLimit
    /\ idle' = [fd \in Fds |-> IF fd \in Table THEN idle[fd] + 1 ELSE 0]
    /\ sinceSweep' = sinceSweep + 1
    /\ waited' = waited + 1
    /\ UNCHANGED <<table, environment, batch, pc, running, counters>>

Event(item) ==
    IF item \in Fds
    THEN [item |-> item, client |-> kernel[item], hup |-> item \in hungUp]
    ELSE [item |-> item, client |-> NoClient, hup |-> FALSE]

\* epoll_wait returns as many of the ready descriptors as fit, in any order.
Wake(items) ==
    /\ pc = "wait"
    /\ Cardinality(items) = Min({MaxEvents, Cardinality(ReadyItems)})
    /\ \E order \in SetToSeqs(items) :
         batch' = [k \in 1 .. Len(order) |-> Event(order[k])]
    /\ pc' = "dispatch"
    /\ UNCHANGED <<table, environment, running, clock, counters>>

WaitForEvents ==
    \E items \in (SUBSET ReadyItems) \ {{}} : Wake(items)

TimeOut ==
    /\ pc = "wait" /\ ReadyItems = {} /\ waited = WaitLimit
    /\ pc' = "dispatch"
    /\ UNCHANGED <<table, environment, batch, running, clock, counters>>

NextEvent == Head(batch)

\* accept_new, until there is nothing to accept.
StartAccept ==
    /\ pc = "dispatch" /\ batch # <<>> /\ NextEvent.item = Listener
    /\ batch' = Tail(batch)
    /\ pc' = "accept"
    /\ UNCHANGED <<table, environment, running, clock, counters>>

\* The kernel gives out the lowest free descriptor.
LowestFree == Min(Free)

\* accept, calloc and the registration all succeed.
Accept(k) ==
    /\ pc = "accept" /\ k \in backlog /\ Free # {}
    /\ backlog' = backlog \ {k}
    /\ kernel' = [kernel EXCEPT ![LowestFree] = k]
    /\ conns' = [conns EXCEPT ![LowestFree] =
                    [client |-> k, closing |-> FALSE, pending |-> TRUE]]
    /\ watched' = watched \cup {LowestFree}
    /\ ready' = ready \ {LowestFree} /\ hungUp' = hungUp \ {LowestFree}
    /\ idle' = [idle EXCEPT ![LowestFree] = 0]
    /\ live' = live + 1 /\ total' = total + 1
    /\ peak' = Max({peak, live + 1})
    /\ UNCHANGED <<pipe, signals, connects, batch, pc, running, sinceSweep, waited>>

\* What the table holds after EPOLL_CTL_ADD failed and the descriptor was
\* closed.
BugAfterFailedAdd(k) ==
    [conns EXCEPT ![LowestFree] =
        [client |-> k, closing |-> FALSE, pending |-> TRUE]]
AfterFailedAdd(k) == [conns EXCEPT ![LowestFree] = NoConn]

\* set_nonblocking, calloc or EPOLL_CTL_ADD fails: the new descriptor is
\* closed at once, and the loop accepts on.
AcceptAndGiveUp(k) ==
    /\ pc = "accept" /\ k \in backlog /\ Free # {}
    /\ backlog' = backlog \ {k}
    /\ conns' = AfterFailedAdd(k)
    /\ UNCHANGED <<kernel, watched, ready, hungUp, pipe, signals, connects, batch, pc,
                   running, clock, counters>>

\* Nothing to accept, or no descriptor left for it.
StopAccepting ==
    /\ pc = "accept" /\ (backlog = {} \/ Free = {})
    /\ pc' = "dispatch"
    /\ UNCHANGED <<table, environment, batch, running, clock, counters>>

\* The self-pipe is drained and the loop told to end.
DrainPipe ==
    /\ pc = "dispatch" /\ batch # <<>> /\ NextEvent.item = WakePipe
    /\ pipe' = 0
    /\ running' = FALSE
    /\ batch' = Tail(batch)
    /\ UNCHANGED <<table, ready, hungUp, backlog, signals, connects, pc, clock, counters>>

LiveWithout(closed) == live - Cardinality(closed)

\* conn_close on a set of connections.
CloseConnections(closed) ==
    /\ conns' = [fd \in Fds |-> IF fd \in closed THEN NoConn ELSE conns[fd]]
    /\ kernel' = [fd \in Fds |-> IF fd \in closed THEN NoClient ELSE kernel[fd]]
    /\ watched' = watched \ closed
    /\ ready' = ready \ closed
    /\ hungUp' = hungUp \ closed
    /\ idle' = [fd \in Fds |-> IF fd \in closed THEN 0 ELSE idle[fd]]
    /\ live' = LiveWithout(closed)

\* An event of a connection closes it, on EPOLLHUP or EPOLLERR before
\* anything is read or written, else once it is closing with nothing to send.
CloseOnEvent ==
    /\ pc = "dispatch" /\ batch # <<>> /\ NextEvent.item \in Table
    /\ CloseConnections({NextEvent.item})
    /\ batch' = Tail(batch)
    /\ UNCHANGED <<backlog, pipe, signals, connects, pc, running, sinceSweep, waited,
                   peak, total>>

\* An event of a connection is served by conn_readable and conn_writable: what
\* they transfer refreshes last_active, and they may set closing.
Serve ==
    /\ pc = "dispatch" /\ batch # <<>> /\ NextEvent.item \in Table
    /\ ~ NextEvent.hup
    /\ LET fd == NextEvent.item IN
       \E closing \in {conns[fd].closing, TRUE}, pending, moved, more \in BOOLEAN :
         /\ ~ (closing /\ ~ pending)
         /\ conns' = [conns EXCEPT ![fd].closing = closing,
                                   ![fd].pending = pending]
         /\ idle' = [idle EXCEPT ![fd] = IF moved THEN 0 ELSE @]
         /\ ready' = IF more THEN ready ELSE ready \ {fd}
    /\ batch' = Tail(batch)
    /\ UNCHANGED <<kernel, watched, hungUp, backlog, pipe, signals, connects, pc,
                   running, sinceSweep, waited, counters>>

\* The loop's last part, after a batch.
BugBatchDone == pc = "dispatch"
BatchDone == pc = "dispatch" /\ batch = <<>>

BugSweepDue == sinceSweep > SweepPeriod
SweepDue == sinceSweep >= SweepPeriod

\* sweep_idle.
Sweep ==
    /\ BatchDone /\ SweepDue
    /\ CloseConnections({fd \in Table : idle[fd] > IdleLimit})
    /\ sinceSweep' = 0
    /\ UNCHANGED <<backlog, pipe, signals, connects, batch, pc, running, waited, peak,
                   total>>

\* Back to epoll_wait, or out of the loop.
Again ==
    /\ pc = "dispatch" /\ batch = <<>> /\ ~ SweepDue
    /\ pc' = IF running THEN "wait" ELSE "exit"
    /\ waited' = 0
    /\ UNCHANGED <<table, environment, batch, running, idle, sinceSweep,
                   counters>>

ClosedAtExit == Table

\* After the loop: every connection and then the loop's own descriptors are
\* closed.
Exit ==
    /\ pc = "exit"
    /\ CloseConnections(ClosedAtExit)
    /\ backlog' = {}
    /\ pc' = "done"
    /\ UNCHANGED <<pipe, signals, connects, batch, running, sinceSweep, waited, peak,
                   total>>

Loop ==
    \/ WaitForEvents \/ TimeOut
    \/ StartAccept
    \/ \E k \in Clients : Accept(k) \/ AcceptAndGiveUp(k)
    \/ StopAccepting
    \/ DrainPipe \/ CloseOnEvent \/ Serve
    \/ Sweep \/ Again \/ Exit

Environment ==
    \/ \E k \in Clients : Connect(k)
    \/ \E fd \in Fds : Activity(fd) \/ HangUp(fd)
    \/ Signal
    \/ Tick

Next == Loop \/ Environment

Spec == Init /\ [][Next]_vars

\* The loop runs whenever it can.  epoll_wait takes the ready descriptors in
\* turns, so that the self-pipe is in some batch.
FairSpec ==
    /\ Spec
    /\ WF_vars(Loop)
    /\ SF_vars(\E items \in SUBSET ReadyItems : WakePipe \in items /\ Wake(items))

-----------------------------------------------------------------------------
Events == [item : Fds \cup {Listener, WakePipe}, client : Clients \cup {NoClient}, hup : BOOLEAN]

\* Every variable stays in its range.
TypeOK ==
    /\ conns \in [Fds -> Conn \cup {NoConn}]
    /\ kernel \in [Fds -> Clients \cup {NoClient}]
    /\ watched \subseteq Fds /\ ready \subseteq Fds /\ hungUp \subseteq Fds
    /\ backlog \subseteq Clients
    /\ pipe \in 0 .. MaxSignals /\ signals \in 0 .. MaxSignals
    /\ connects \in 0 .. MaxConnects
    /\ batch \in Seq(Events) /\ Len(batch) <= MaxEvents
    /\ pc \in {"wait", "dispatch", "accept", "exit", "done"}
    /\ running \in BOOLEAN
    /\ idle \in [Fds -> Nat] /\ sinceSweep \in Nat /\ waited \in 0 .. WaitLimit
    /\ live \in Nat /\ peak \in Nat /\ total \in Nat

\* The table, the kernel's descriptors and epoll agree on who is connected,
\* whichever step of accept_new fails, and the counters agree with the table;
\* and when the server has ended, every descriptor was given back.
TableConsistent ==
    /\ TypeOK
    /\ pc = "done" => Table = {}
    /\ watched = Table /\ Open = Table
    /\ \A fd \in Table : conns[fd].client = kernel[fd]
    /\ live = Cardinality(Table) /\ live <= peak /\ peak <= total

\* No event is applied to another connection than the one it was reported
\* for: although descriptors are reused at once, one that is in the rest of a
\* batch is not closed before its event is handled.
EventsHitTheirConnection ==
    \A k \in 1 .. Len(batch) : batch[k].item \in Fds =>
        conns[batch[k].item] # NoConn
        /\ conns[batch[k].item].client = batch[k].client

\* Nothing keeps a descriptor longer than its idle time, the sweep period and
\* one sleep: neither events of other connections nor an interrupted
\* epoll_wait, which skips the sweep, put it off further.
IdleBounded ==
    \A fd \in Table : idle[fd] <= IdleLimit + SweepPeriod + WaitLimit - 1

\* A batch is handled before the loop sleeps or ends, and reports a descriptor
\* once; the bytes in the self-pipe are signals.
BatchInv ==
    /\ pc \in {"wait", "exit", "done"} => batch = <<>>
    /\ \A j, k \in 1 .. Len(batch) : batch[j].item = batch[k].item => j = k
    /\ pipe <= signals

\* The next sweep is at most one sleep overdue, and after a signal in that sleep
\* the next one does not begin; a connection is not idle longer than that.
SweepInv ==
    /\ sinceSweep <= SweepPeriod - 1 + WaitLimit
    /\ pc = "wait" /\ pipe = 0 => sinceSweep <= SweepPeriod - 1 + waited
    /\ \A fd \in Table : idle[fd] <= IdleLimit + sinceSweep

\* The inductive invariant.
IInv == TableConsistent /\ EventsHitTheirConnection /\ BatchInv /\ SweepInv

\* A signal ends the server, whenever it arrives.
ShutsDown == signals > 0 ~> pc = "done"
=============================================================================
