----------------------------- MODULE ForkServer -----------------------------
(***************************************************************************)
(* The process structure of week 40's echo server (echoserver.c): the       *)
(* parent that accepts and forks, one child per connection, SIGCHLD with    *)
(* the handler that reaps children, and SIGINT or SIGTERM with the handler  *)
(* that sets "stop".  What a child says to its client is in EchoConnection. *)
(*                                                                          *)
(* A signal handler runs in the parent between any two of its steps, and    *)
(* may interrupt accept: on_signal is installed without SA_RESTART, so a    *)
(* blocked accept returns EINTR; on_child with SA_RESTART, so it does not.  *)
(* A signal that is pending already is not delivered twice.                 *)
(***************************************************************************)
EXTENDS Naturals, FiniteSets

CONSTANTS
    Clients,       \* bound: who connects, each once
    NoClient

ASSUME NoClientAssumption == NoClient \notin Clients

VARIABLES
    backlog,       \* connected, not accepted
    conn,          \* the parent's local "conn"
    parentHolds,   \* connections the parent has a descriptor for
    childHolds,    \* connections a child has a descriptor for
    serving,       \* clients whose child is running
    zombies,       \* clients whose child has exited and was not waited for
    served,        \* history: clients given up by everyone
    stop,          \* the flag on_signal sets
    asked,         \* history: SIGINT or SIGTERM was sent
    stopPending, childPending,   \* signals not delivered yet
    pc,            \* where main is
    handler,       \* on_child is running: "no", "reap" or "return"
    errno, saved,  \* errno, and on_child's local "saved"
    failed         \* history: accept really failed

signalling == <<stop, asked, stopPending>>
reaping == <<childPending, handler, saved>>
holds == <<parentHolds, childHolds>>
vars == <<backlog, conn, parentHolds, childHolds, serving, zombies, served,
          stop, asked, stopPending, childPending, pc, handler, errno, saved,
          failed>>

Init ==
    /\ backlog = {} /\ conn = NoClient
    /\ parentHolds = {} /\ childHolds = {}
    /\ serving = {} /\ zombies = {} /\ served = {}
    /\ stop = FALSE /\ asked = FALSE
    /\ stopPending = FALSE /\ childPending = FALSE
    /\ pc = "test" /\ handler = "no"
    /\ errno = "none" /\ saved = "none" /\ failed = FALSE

-----------------------------------------------------------------------------
\* The world outside: clients connect, someone stops the server.

New(k) == k \notin backlog \cup parentHolds \cup childHolds \cup served

Connect(k) ==
    /\ pc # "done" /\ New(k)
    /\ backlog' = backlog \cup {k}
    /\ UNCHANGED <<conn, holds, serving, zombies, served, signalling, reaping,
                   pc, errno, failed>>

AskToStop ==
    /\ pc # "done" /\ ~ asked
    /\ asked' = TRUE /\ stopPending' = TRUE
    /\ UNCHANGED <<backlog, conn, holds, serving, zombies, served, stop,
                   reaping, pc, errno, failed>>

\* A connection is over once nobody holds a descriptor for it.
GivenUp(k, parent, child) ==
    served' = IF k \in parent \cup child THEN served ELSE served \cup {k}

\* A child's conversation ends (see EchoConnection): it closes conn and exits.
ChildExit(k) ==
    /\ k \in serving
    /\ serving' = serving \ {k}
    /\ childHolds' = childHolds \ {k}
    /\ zombies' = zombies \cup {k}
    /\ childPending' = TRUE
    /\ GivenUp(k, parentHolds, childHolds')
    /\ UNCHANGED <<backlog, conn, parentHolds, signalling, handler, pc, errno,
                   saved, failed>>

-----------------------------------------------------------------------------
\* The signal handlers, between the steps of main.

MainRuns == handler = "no" /\ pc # "done"

\* on_signal.  If main is blocked in accept, the call fails with EINTR.
OnSignal ==
    /\ stopPending /\ pc # "done"
    /\ stopPending' = FALSE
    /\ stop' = TRUE
    /\ IF pc = "accept" /\ handler = "no"
       THEN pc' = "failed" /\ errno' = "EINTR"
       ELSE UNCHANGED <<pc, errno>>
    /\ UNCHANGED <<backlog, conn, holds, serving, zombies, served, asked,
                   reaping, failed>>

\* on_child starts, with SIGCHLD blocked until it returns.
OnChild ==
    /\ childPending /\ MainRuns
    /\ childPending' = FALSE
    /\ saved' = errno
    /\ handler' = "reap"
    /\ UNCHANGED <<backlog, conn, holds, serving, zombies, served, signalling,
                   pc, errno, failed>>

\* (A definition whose name starts with Bug is a mistake the code could have
\* made; no action uses it, and a property of this module refutes each.)
BugAfterReap == "return"               \* one waitpid per signal
AfterReap == "reap"

\* waitpid in on_child reaps one child.
Reap(k) ==
    /\ handler = "reap" /\ k \in zombies
    /\ zombies' = zombies \ {k}
    /\ handler' = AfterReap
    /\ UNCHANGED <<backlog, conn, holds, serving, served, signalling,
                   childPending, pc, errno, saved, failed>>

\* waitpid finds no child to reap: it returns 0, or -1 when there is no child
\* at all.
ReapNone ==
    /\ handler = "reap" /\ zombies = {}
    /\ errno' = IF serving = {} THEN "ECHILD" ELSE errno
    /\ handler' = "return"
    /\ UNCHANGED <<backlog, conn, holds, serving, zombies, served, signalling,
                   childPending, pc, saved, failed>>

BugRestored == errno
Restored == saved

\* on_child returns, and errno is what it was.
ChildReturn ==
    /\ handler = "return"
    /\ errno' = Restored
    /\ handler' = "no"
    /\ UNCHANGED <<backlog, conn, holds, serving, zombies, served, signalling,
                   childPending, pc, saved, failed>>

-----------------------------------------------------------------------------
\* main.

\* while (!stop)
Test ==
    /\ MainRuns /\ pc = "test"
    /\ pc' = IF stop THEN "done" ELSE "call"
    /\ UNCHANGED <<backlog, conn, holds, serving, zombies, served, signalling,
                   reaping, errno, failed>>

\* The call of accept: a signal before it does not interrupt it.
CallAccept ==
    /\ MainRuns /\ pc = "call"
    /\ pc' = "accept"
    /\ UNCHANGED <<backlog, conn, holds, serving, zombies, served, signalling,
                   reaping, errno, failed>>

Accept(k) ==
    /\ MainRuns /\ pc = "accept" /\ k \in backlog
    /\ backlog' = backlog \ {k}
    /\ conn' = k
    /\ parentHolds' = parentHolds \cup {k}
    /\ pc' = "fork"
    /\ UNCHANGED <<childHolds, serving, zombies, served, signalling, reaping,
                   errno, failed>>

\* accept fails for a reason of its own.
AcceptError ==
    /\ MainRuns /\ pc = "accept"
    /\ errno' = "EMFILE" /\ failed' = TRUE
    /\ pc' = "failed"
    /\ UNCHANGED <<backlog, conn, holds, serving, zombies, served, signalling,
                   reaping>>

\* accept returned -1: go on after EINTR, else report and leave.
CheckError ==
    /\ MainRuns /\ pc = "failed"
    /\ pc' = IF errno = "EINTR" THEN "test" ELSE "broken"
    /\ UNCHANGED <<backlog, conn, holds, serving, zombies, served, signalling,
                   reaping, errno, failed>>

Broken ==
    /\ MainRuns /\ pc = "broken"
    /\ pc' = "done"
    /\ UNCHANGED <<backlog, conn, holds, serving, zombies, served, signalling,
                   reaping, errno, failed>>

\* fork: the child has a descriptor of its own for the connection.
Fork ==
    /\ MainRuns /\ pc = "fork"
    /\ childHolds' = childHolds \cup {conn}
    /\ serving' = serving \cup {conn}
    /\ pc' = "close"
    /\ UNCHANGED <<backlog, conn, parentHolds, zombies, served, signalling,
                   reaping, errno, failed>>

ForkFails ==
    /\ MainRuns /\ pc = "fork"
    /\ errno' = "EAGAIN"
    /\ pc' = "close"
    /\ UNCHANGED <<backlog, conn, holds, serving, zombies, served, signalling,
                   reaping, failed>>

ParentKeeps(k) == parentHolds \ {k}

\* The parent closes its descriptor, whether or not fork succeeded.
ParentClose ==
    /\ MainRuns /\ pc = "close"
    /\ parentHolds' = ParentKeeps(conn)
    /\ GivenUp(conn, parentHolds', childHolds)
    /\ pc' = "test"
    /\ UNCHANGED <<backlog, conn, childHolds, serving, zombies, signalling,
                   reaping, errno, failed>>

Parent ==
    \/ Test \/ CallAccept \/ AcceptError \/ CheckError \/ Broken
    \/ (\E k \in Clients : Accept(k))
    \/ Fork \/ ForkFails \/ ParentClose

Handlers ==
    \/ OnSignal \/ OnChild
    \/ (\E k \in Clients : Reap(k))
    \/ ReapNone \/ ChildReturn

Next ==
    \/ \E k \in Clients : Connect(k) \/ ChildExit(k)
    \/ AskToStop
    \/ Handlers
    \/ Parent

Spec == Init /\ [][Next]_vars

\* What main does when accept does not fail: a fair run need not see errors.
ParentProgress ==
    \/ Test \/ CallAccept \/ CheckError \/ Broken
    \/ (\E k \in Clients : Accept(k))
    \/ Fork \/ ParentClose

\* The parent is scheduled, signals are delivered, and every conversation
\* ends (ChildEnds of EchoConnection).
FairSpec ==
    /\ Spec
    /\ WF_vars(Handlers)
    /\ SF_vars(ParentProgress)
    /\ \A k \in Clients : WF_vars(ChildExit(k))

-----------------------------------------------------------------------------
\* Every variable stays in its range.
TypeOK ==
    /\ backlog \subseteq Clients /\ served \subseteq Clients
    /\ conn \in Clients \cup {NoClient}
    /\ parentHolds \subseteq Clients /\ childHolds \subseteq Clients
    /\ serving \subseteq Clients /\ zombies \subseteq Clients
    /\ \A flag \in {stop, asked, stopPending, childPending, failed} :
         flag \in BOOLEAN
    /\ pc \in {"test", "call", "accept", "failed", "broken", "fork",
              "close", "done"}
    /\ handler \in {"no", "reap", "return"}
    /\ errno \in {"none", "EINTR", "ECHILD", "EMFILE", "EAGAIN"}
    /\ saved \in {"none", "EINTR", "ECHILD", "EMFILE", "EAGAIN"}

\* The server gives up only on a real failure of accept: neither a signal nor
\* the waitpid of the handler that runs between accept's failure and the test
\* of errno makes it leave its loop with an error.
NoSpuriousFailure == pc = "broken" => failed

\* A child that has exited is announced: while there is a zombie, SIGCHLD is
\* pending or the handler is still looking.
ZombieIsAnnounced ==
    zombies # {} => childPending \/ handler = "reap"

\* What accept left in errno is EINTR unless accept really failed, also while the
\* handler of SIGCHLD runs, which keeps it in "saved".
ErrnoInv ==
    pc = "failed" => failed \/ (IF handler = "no" THEN errno ELSE saved) = "EINTR"

\* The parent has a descriptor only for the connection it is handing over, and
\* a child only for its own.
HoldsInv ==
    /\ parentHolds = IF pc \in {"fork", "close"} THEN {conn} ELSE {}
    /\ childHolds = serving

\* The inductive invariant.
IInv == TypeOK /\ ErrnoInv /\ HoldsInv /\ NoSpuriousFailure /\ ZombieIsAnnounced

\* Every child that exits is reaped, although pending SIGCHLDs are merged.
NoZombieStays ==
    \A k \in Clients : k \in zombies ~> (k \notin zombies \/ pc = "done")

\* A client sees its connection end once its child has exited or could not be
\* forked: no descriptor for it is left open in the parent.
ConnectionsEnd ==
    \A k \in Clients : k \in parentHolds ~> (k \in served)

\* "Ctrl-C to stop": a server that was sent SIGINT stops.
StopsWhenAsked == asked ~> (pc = "done")
=============================================================================
