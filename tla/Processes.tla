------------------------------ MODULE Processes ------------------------------
(***************************************************************************)
(* The programs that fork, and counting threads: the echo server of week 40 *)
(* (ForkServer), the process primitives of week 39 (Minishell) and the      *)
(* counters of week 41 (Counters).  They are different programs and share   *)
(* nothing: a behaviour is one of the one that which names, while the       *)
(* others stay as they began.                                               *)
(***************************************************************************)
EXTENDS ForkServer

CONSTANTS PipeSize, Output, Naps, Bumpers, BUMPS, NoBumper

ASSUME BumpersAssumption ==
    /\ IsFiniteSet(Bumpers) /\ Bumpers # {}
    /\ NoBumper \notin Bumpers
    /\ BUMPS \in Nat \ {0}
ASSUME ShellAssumption == {PipeSize, Output, Naps} \subseteq Nat

VARIABLES
    which,
    shcall, shpc, shends, shpipe, shwritten, shread, shcode, shresult, shfailed,
    shsawEnd, shasked, shpending, shinterrupted, shnaps,
    npc, nround, ntemp, nracy, natomic, nguarded, nguard

shellVars == <<shcall, shpc, shends, shpipe, shwritten, shread, shcode, shresult, shfailed,
               shsawEnd, shasked, shpending, shinterrupted, shnaps>>
counterVars == <<npc, nround, ntemp, nracy, natomic, nguarded, nguard>>
allVars == <<which, vars, shellVars, counterVars>>

Shell == INSTANCE Minishell WITH
    call <- shcall, pc <- shpc, ends <- shends, pipe <- shpipe, written <- shwritten,
    read <- shread, code <- shcode, result <- shresult, failed <- shfailed,
    sawEnd <- shsawEnd, asked <- shasked, pending <- shpending,
    interrupted <- shinterrupted, naps <- shnaps
Count == INSTANCE Counters WITH
    pc <- npc, round <- nround, temp <- ntemp, racy_counter <- nracy,
    atomic_counter <- natomic, guarded_counter <- nguarded, guard <- nguard

InitAll ==
    /\ which \in {"server", "shell", "counters"}
    /\ Init /\ Shell!Init /\ Count!Init
    /\ which # "shell" => shcall = "pause"

Server(A) == which = "server" /\ A /\ UNCHANGED <<which, shellVars, counterVars>>
InShell(A) == which = "shell" /\ A /\ UNCHANGED <<which, vars, counterVars>>

NextAll ==
    \/ Server(Next) \/ InShell(Shell!Next)
    \/ which = "counters" /\ Count!Next /\ UNCHANGED <<which, vars, shellVars>>

\* The fairness of ForkServer for the server.  In the shell the parent and its
\* children are scheduled; nothing else is assumed, no key need be pressed.
Fairness ==
    /\ WF_allVars(Server(Handlers))
    /\ SF_allVars(Server(ParentProgress))
    /\ \A k \in Clients : WF_allVars(Server(ChildExit(k)))
    /\ WF_allVars(InShell(Shell!Parent))
    /\ \A c \in {"first", "second"} : WF_allVars(InShell(Shell!Runs(c)))

SpecAll == InitAll /\ [][NextAll]_allVars /\ Fairness

-----------------------------------------------------------------------------
\* echoserver.c: every child that exits is announced and reaped, although pending
\* SIGCHLDs are merged, and every accepted connection is given up by the parent
\* too; see ZombieIsAnnounced, NoZombieStays and ConnectionsEnd in ForkServer.
ChildrenAndConnectionsEnd ==
    which = "server" => []ZombieIsAnnounced /\ NoZombieStays /\ ConnectionsEnd

\* concurrent.c: of the three counters only the unprotected one loses updates;
\* see OnlyTheRacyCounterLoses in Counters.
OnlyTheRacyCounterLoses == Count!OnlyTheRacyCounterLoses

\* minishell.c: a call that has returned has left no child and no descriptor;
\* see NothingLeftBehind in Minishell.
NothingLeftBehind == Shell!NothingLeftBehind

\* minishell.c: the reader sees the end of its input and the parent the end of
\* its children, so that every call returns; see CallReturns in Minishell.
CallReturns == which = "shell" => Shell!CallReturns
=============================================================================
