------------------------------ MODULE Minishell ------------------------------
(***************************************************************************)
(* The process primitives of week 39 (minishell.c): one command, one with   *)
(* its output in a file, two connected by a pipe, a write in a loop, and    *)
(* the loop that waits for Ctrl-C.  A behaviour is one of these calls.      *)
(*                                                                          *)
(* A child is external from exec on: the left one of a pipe writes and      *)
(* ends, the right one reads to the end of its input or ends before it.     *)
(* Ctrl-C goes to every process.  The parent handles it, a child that has   *)
(* exec'ed is killed by it, and one that has not yet still has the handler. *)
(***************************************************************************)
EXTENDS Naturals, Sequences

CONSTANTS
    PipeSize,          \* bound: what the pipe holds
    Output,            \* bound: what the left command and write_all write
    Naps               \* 30: the rounds of the waiting loop

VARIABLES
    call,              \* what the parent is doing: never changes
    pc,                \* per process: where it is
    ends,              \* per process: its descriptors of the pipe
    pipe, written, read,   \* what is in the pipe, was written, was read
    code,              \* per child: how it ended
    result,            \* what the call returned
    failed,            \* history: pipe or fork failed
    sawEnd,            \* history: the right command read to the end
    asked, pending,    \* Ctrl-C was pressed; the parent has yet to notice
    interrupted,       \* the flag on_sigint sets
    naps

data == <<pipe, written, read, sawEnd>>
signal == <<asked, pending, interrupted>>
vars == <<call, pc, ends, pipe, written, read, code, result, failed, sawEnd,
          asked, pending, interrupted, naps>>

Children == {"first", "second"}
Processes == {"parent"} \cup Children

Init ==
    /\ call \in {"command", "redirected", "pipeline", "write", "pause"}
    /\ pc = [p \in Processes |->
               IF p # "parent" THEN "none"
               ELSE CASE call = "pipeline" -> "pipe"
                      [] call \in {"command", "redirected"} -> "fork first"
                      [] OTHER -> call]
    /\ ends = [p \in Processes |-> {}]
    /\ pipe = 0 /\ written = 0 /\ read = 0 /\ sawEnd = FALSE
    /\ code = [c \in Children |-> "none"]
    /\ result = "none" /\ failed = FALSE
    /\ asked = FALSE /\ pending = FALSE /\ interrupted = FALSE
    /\ naps = 0

-----------------------------------------------------------------------------
\* A definition whose name starts with "Bug" is a mistake the definition after
\* it could have had; no action uses it.

ForkOf == [first |-> "fork first", second |-> "fork second"]
WaitFor == [first |-> "wait first", second |-> "wait second"]

Goto(p, label) == pc' = [pc EXCEPT ![p] = label]

Return(r) == Goto("parent", "returned") /\ result' = r

\* An error return: what is open stays open.
GiveUp ==
    /\ pc["parent"] \in {"pipe", "fork first", "fork second"}
    /\ failed' = TRUE
    /\ Return("-1")
    /\ UNCHANGED <<call, ends, data, code, signal, naps>>

Pipe ==
    /\ pc["parent"] = "pipe"
    /\ ends' = [ends EXCEPT !["parent"] = {"r", "w"}]
    /\ Goto("parent", "fork first")
    /\ UNCHANGED <<call, data, code, result, failed, signal, naps>>

Fork(c) ==
    /\ pc["parent"] = ForkOf[c]
    /\ ends' = [ends EXCEPT ![c] = ends["parent"]]
    /\ pc' = [pc EXCEPT ![c] = "forked",
                        !["parent"] = IF call # "pipeline" THEN "wait first"
                                       ELSE IF c = "first" THEN "fork second" ELSE "close"]
    /\ UNCHANGED <<call, data, code, result, failed, signal, naps>>

\* Exiting closes the descriptors and leaves a zombie.
Exit(c, how) ==
    /\ pc' = [pc EXCEPT ![c] = "zombie"]
    /\ ends' = [ends EXCEPT ![c] = {}]
    /\ code' = [code EXCEPT ![c] = how]

\* "not reading", "not writing": one end is closed and the other becomes the
\* child's stdout or stdin.  A file is opened instead in run_redirected.
Connected(c) ==
    IF call # "pipeline" THEN {} ELSE IF c = "first" THEN {"w"} ELSE {"r"}

Connect(c) ==
    /\ pc[c] = "forked"
    /\ ends' = [ends EXCEPT ![c] = Connected(c)]
    /\ Goto(c, "exec")
    /\ UNCHANGED <<call, data, code, result, failed, signal, naps>>

RedirectFails ==
    /\ call = "redirected" /\ pc["first"] = "forked"
    /\ Exit("first", "126")
    /\ UNCHANGED <<call, data, result, failed, signal, naps>>

Exec(c) ==
    /\ pc[c] = "exec"
    /\ \/ Goto(c, "runs") /\ UNCHANGED <<ends, code>>
       \/ Exit(c, "127")
    /\ UNCHANGED <<call, data, result, failed, signal, naps>>

\* The commands.
CommandWrites ==
    /\ pc["first"] = "runs" /\ "w" \in ends["first"] /\ written < Output
    /\ \/ \E p \in Processes : "r" \in ends[p]
          /\ pipe < PipeSize /\ pipe' = pipe + 1 /\ written' = written + 1
          /\ UNCHANGED <<pc, ends, code>>
       \/ /\ \A p \in Processes : "r" \notin ends[p]
          /\ Exit("first", "SIGPIPE") /\ UNCHANGED <<pipe, written>>
    /\ UNCHANGED <<call, read, sawEnd, result, failed, signal, naps>>

CommandReads ==
    /\ pc["second"] = "runs"
    /\ \/ /\ pipe > 0
          /\ pipe' = pipe - 1 /\ read' = read + 1
          /\ UNCHANGED <<pc, ends, code, sawEnd>>
       \/ /\ pipe = 0 /\ \A p \in Processes : "w" \notin ends[p]
          /\ sawEnd' = TRUE
          /\ Exit("second", "0") /\ UNCHANGED <<pipe, read>>
    /\ UNCHANGED <<call, written, result, failed, signal, naps>>

CommandEnds(c) ==
    /\ pc[c] = "runs"
    /\ c = "first" /\ "w" \in ends[c] => written = Output
    /\ Exit(c, "0")
    /\ UNCHANGED <<call, data, result, failed, signal, naps>>

-----------------------------------------------------------------------------
\* "The parent must close BOTH ends, or the reader never sees EOF."
BugParentKeeps == {"w"}
ParentKeeps == {}

Close ==
    /\ pc["parent"] = "close"
    /\ ends' = [ends EXCEPT !["parent"] = ParentKeeps]
    /\ Goto("parent", "wait first")
    /\ UNCHANGED <<call, data, code, result, failed, signal, naps>>

Wait(c) ==
    /\ pc["parent"] = WaitFor[c]
    /\ pc[c] = "zombie"
    /\ LET more == call = "pipeline" /\ c = "first" IN
       /\ pc' = [pc EXCEPT ![c] = "reaped",
                           !["parent"] = IF more THEN "wait second" ELSE "returned"]
       /\ result' = IF more THEN result ELSE code[c]
    /\ UNCHANGED <<call, ends, data, code, failed, signal, naps>>

\* SA_RESTART: the handler does not end a waitpid.  run_command would go on
\* waiting anyway; the others do not test what waitpid returns.
BugRestarted == call = "command"
Restarted == TRUE

OnSigint ==
    /\ pending
    /\ pending' = FALSE /\ interrupted' = TRUE
    /\ \/ /\ pc["parent"] \in {"wait first", "wait second"} /\ ~ Restarted
          /\ Return("garbage") /\ UNCHANGED naps
       \/ /\ pc["parent"] \notin {"wait first", "wait second"} \/ Restarted
          /\ UNCHANGED <<pc, result, naps>>
    /\ UNCHANGED <<call, ends, data, code, failed, asked>>

CtrlC ==
    /\ ~ asked /\ pc["parent"] # "returned"
    /\ asked' = TRUE /\ pending' = TRUE
    /\ LET dead == {c \in Children : pc[c] = "runs"} IN
       /\ pc' = [p \in Processes |-> IF p \in dead THEN "zombie" ELSE pc[p]]
       /\ ends' = [p \in Processes |-> IF p \in dead THEN {} ELSE ends[p]]
       /\ code' = [c \in Children |-> IF c \in dead THEN "SIGINT" ELSE code[c]]
    /\ UNCHANGED <<call, data, result, failed, interrupted, naps>>

\* write_all: a part at a time, from where the last one ended.
WriteAll ==
    /\ pc["parent"] = "write"
    /\ \/ /\ written < Output
          /\ \E n \in 1 .. Output - written : written' = written + n
          /\ UNCHANGED <<pc, result>>
       \/ written < Output /\ Return("-1") /\ UNCHANGED written
       \/ written = Output /\ Return("0") /\ UNCHANGED written
    /\ UNCHANGED <<call, ends, pipe, read, sawEnd, code, failed, signal, naps>>

\* The loop of "8. signals": a nap is short, or ended by the signal.
Pause ==
    /\ pc["parent"] = "pause"
    /\ IF naps < Naps /\ ~ interrupted
       THEN naps' = naps + 1 /\ UNCHANGED <<pc, result>>
       ELSE Return(IF interrupted THEN "0" ELSE "-1") /\ UNCHANGED naps
    /\ UNCHANGED <<call, ends, data, code, failed, signal>>

Parent ==
    \/ Pipe \/ Close \/ WriteAll \/ Pause \/ OnSigint
    \/ \E c \in Children : Fork(c) \/ Wait(c)

\* What a child does sooner or later: a reader reads on, and need not end before
\* its input does.
Runs(c) ==
    \/ Connect(c) \/ Exec(c)
    \/ c = "first" /\ (RedirectFails \/ CommandWrites \/ CommandEnds(c))
    \/ c = "second" /\ CommandReads

Child(c) == Runs(c) \/ (c = "second" /\ CommandEnds(c))

Next == Parent \/ GiveUp \/ CtrlC \/ \E c \in Children : Child(c)

-----------------------------------------------------------------------------
Labels == {"pipe", "fork first", "fork second", "close", "wait first", "wait second",
           "write", "pause", "returned", "none", "forked", "exec", "runs", "zombie", "reaped"}
Codes == {"none", "0", "126", "127", "SIGPIPE", "SIGINT"}

TypeOK ==
    /\ call \in {"command", "redirected", "pipeline", "write", "pause"}
    /\ pc \in [Processes -> Labels]
    /\ \A c \in Children : pc[c] \in {"none", "forked", "exec", "runs", "zombie", "reaped"}
    /\ call = "pipeline" => pc["parent"] \in {"pipe", "fork first", "fork second", "close",
                                              "wait first", "wait second", "returned"}
    /\ call \in {"command", "redirected"} =>
         pc["parent"] \in {"fork first", "wait first", "returned"}
    /\ call \in {"write", "pause"} => pc["parent"] \in {call, "returned"}
    /\ ends \in [Processes -> SUBSET {"r", "w"}]
    /\ pipe \in Nat /\ written \in 0 .. Output /\ read \in Nat
    /\ code \in [Children -> Codes] /\ result \in Codes \cup {"-1", "garbage"}
    /\ {failed, sawEnd, asked, pending, interrupted} \subseteq BOOLEAN
    /\ naps \in 0 .. Naps

\* Where each child is, given where the parent is and that nothing failed: it is
\* forked, and reaped, when the parent says so.  The second is forked after the
\* first, and only for a pipeline.
ChildrenInv ==
    /\ failed => pc["parent"] = "returned"
    /\ ~ failed => \A c \in Children :
         /\ pc[c] = "reaped" =>
              pc["parent"] = "returned" \/ (c = "first" /\ pc["parent"] = "wait second")
         /\ pc["parent"] = "wait second" => pc["first"] = "reaped"
         /\ pc["parent"] \in {"fork second", "close", "wait first"} => pc["first"] # "none"
         /\ call = "pipeline" /\ pc["parent"] \in {"close", "wait first", "wait second"}
              => pc["second"] # "none"
         /\ pc["parent"] = "returned" => pc[c] \in {"none", "reaped"}
    /\ pc["parent"] \in {"pipe", "fork first"} => \A c \in Children : pc[c] = "none"
    /\ pc["parent"] = "fork second" => pc["second"] = "none"
    /\ pc["second"] # "none" => call = "pipeline" /\ pc["first"] # "none" /\ ~ failed
    /\ call \in {"write", "pause"} => \A c \in Children : pc[c] = "none"

\* Who holds an end of the pipe: a child that has ended none, the parent only
\* until it closes them, and the left command its writing end while it runs.
EndsInv ==
    /\ \A c \in Children : pc[c] \in {"none", "zombie", "reaped"} => ends[c] = {}
    /\ ends["parent"] # {} => pc["parent"] \in {"fork first", "fork second", "close"} \/ failed
    /\ call = "pipeline" /\ pc["parent"] \in {"fork first", "fork second", "close"}
         => ends["parent"] = {"r", "w"}
    /\ call = "pipeline" /\ pc["first"] \in {"forked", "exec", "runs"} => "w" \in ends["first"]
    /\ call # "pipeline" => \A p \in Processes : ends[p] = {}

\* What was written is in the pipe or was read.
DataInv ==
    /\ call # "write" => written = pipe + read
    /\ sawEnd => pc["second"] \in {"zombie", "reaped"}
    /\ pc["parent"] = "returned" /\ ~ failed =>
         /\ call \in {"command", "redirected"} => result = code["first"] /\ pc["first"] = "reaped"
         /\ call = "pipeline" => result = code["second"] /\ pc["second"] = "reaped"
         /\ call = "write" /\ result = "0" => written = Output

\* Unless pipe or fork fails, a call that has returned has left nothing behind:
\* every child was waited for, no end of the pipe is open in the parent, and
\* what it returns is how its last child ended, Ctrl-C or not; and a command
\* that saw the end of its input saw it after everything the other one wrote.
NothingLeftBehind ==
    /\ pc["parent"] = "returned" /\ ~ failed =>
        /\ ends["parent"] = {}
        /\ \A c \in Children : pc[c] \in {"none", "reaped"}
        /\ call \in {"command", "redirected"} => result = code["first"]
        /\ call = "pipeline" => result = code["second"]
        /\ call = "write" /\ result = "0" => written = Output
    /\ sawEnd => pipe = 0 /\ read = written /\ pc["first"] \in {"zombie", "reaped"}

\* The inductive invariant.
IInv == TypeOK /\ ChildrenInv /\ EndsInv /\ DataInv /\ NothingLeftBehind

\* "or the reader never sees EOF": whatever the commands do, the call returns.
CallReturns == <> (pc["parent"] = "returned")
=============================================================================
