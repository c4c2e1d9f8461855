------------------------------- MODULE Counters -------------------------------
(***************************************************************************)
(* The first part of week 41 (concurrent.c): threads that count the same    *)
(* thing three ways.  racy_counter++ is a data race; any build loads and    *)
(* stores it once a round, because the calls around it may use it too, and  *)
(* other threads come in between.                                           *)
(***************************************************************************)
EXTENDS Integers, FiniteSets

CONSTANTS
    Bumpers,           \* the threads, 4
    BUMPS,             \* 200000
    NoBumper

VARIABLES
    pc, round,         \* of each thread
    temp,              \* the register of the increment under way
    racy_counter, atomic_counter, guarded_counter,
    guard              \* who holds the mutex

vars == <<pc, round, temp, racy_counter, atomic_counter, guarded_counter, guard>>

Init ==
    /\ pc = [t \in Bumpers |-> "racy"] /\ round = [t \in Bumpers |-> 1]
    /\ temp = [t \in Bumpers |-> 0]
    /\ racy_counter = 0 /\ atomic_counter = 0 /\ guarded_counter = 0
    /\ guard = NoBumper

-----------------------------------------------------------------------------
\* A definition whose name starts with "Bug" is a mistake the definition after
\* it could have had; no action uses it.

At(t, from, to) == pc[t] = from /\ pc' = [pc EXCEPT ![t] = to]

LoadRacy(t) ==
    /\ At(t, "racy", "store") /\ temp' = [temp EXCEPT ![t] = racy_counter]
    /\ UNCHANGED <<round, racy_counter, atomic_counter, guarded_counter, guard>>
StoreRacy(t) ==
    /\ At(t, "store", "atomic") /\ racy_counter' = temp[t] + 1
    /\ UNCHANGED <<round, temp, atomic_counter, guarded_counter, guard>>
AddAtomic(t) ==
    /\ At(t, "atomic", "lock") /\ atomic_counter' = atomic_counter + 1
    /\ UNCHANGED <<round, temp, racy_counter, guarded_counter, guard>>

BugFree(t) == TRUE
Free(t) == guard = NoBumper

Lock(t) ==
    /\ At(t, "lock", "guarded") /\ Free(t) /\ guard' = t
    /\ UNCHANGED <<round, temp, racy_counter, atomic_counter, guarded_counter>>
LoadGuarded(t) ==
    /\ At(t, "guarded", "store guarded") /\ temp' = [temp EXCEPT ![t] = guarded_counter]
    /\ UNCHANGED <<round, racy_counter, atomic_counter, guarded_counter, guard>>
StoreGuarded(t) ==
    /\ At(t, "store guarded", "unlock") /\ guarded_counter' = temp[t] + 1
    /\ UNCHANGED <<round, temp, racy_counter, atomic_counter, guard>>
Unlock(t) ==
    /\ At(t, "unlock", IF round[t] = BUMPS THEN "done" ELSE "racy")
    /\ guard' = NoBumper /\ round' = [round EXCEPT ![t] = @ + 1]
    /\ UNCHANGED <<temp, racy_counter, atomic_counter, guarded_counter>>

Next == \E t \in Bumpers :
    \/ LoadRacy(t) \/ StoreRacy(t) \/ AddAtomic(t)
    \/ Lock(t) \/ LoadGuarded(t) \/ StoreGuarded(t) \/ Unlock(t)

-----------------------------------------------------------------------------
Labels == {"racy", "store", "atomic", "lock", "guarded", "store guarded", "unlock", "done"}

TypeOK ==
    /\ pc \in [Bumpers -> Labels]
    /\ round \in [Bumpers -> 1 .. BUMPS + 1]
    /\ temp \in [Bumpers -> Nat]
    /\ racy_counter \in Nat /\ atomic_counter \in Nat /\ guarded_counter \in Nat
    /\ guard \in Bumpers \cup {NoBumper}

\* The increments made so far, each as its thread and round: those of earlier
\* rounds, and that of this round once the thread is past it.
Made(before) ==
    {m \in Bumpers \X (1 .. BUMPS) :
        m[2] < round[m[1]] \/ (m[2] = round[m[1]] /\ pc[m[1]] \notin before)}
Stored == Made({"racy", "store"})
Added == Made({"racy", "store", "atomic"})
Guarded == Made(Labels \ {"unlock"})

\* A thread is done after its last round.
RoundsInv == \A t \in Bumpers : pc[t] = "done" <=> round[t] = BUMPS + 1

\* The two exact counters count increments, because the thread that is between
\* its load and its store holds the mutex and what it loaded is current.
ExactInv ==
    /\ atomic_counter = Cardinality(Added)
    /\ guarded_counter = Cardinality(Guarded)
    /\ \A t \in Bumpers :
         /\ pc[t] \in {"guarded", "store guarded", "unlock"} <=> guard = t
         /\ pc[t] = "store guarded" => temp[t] = guarded_counter

\* The racy counter, and what a thread has loaded of it, never exceed the stores
\* made; once there was a store it is positive, so that a thread in a later round
\* has loaded at least 1, and the last store of all is made in a last round.
RacyInv ==
    /\ racy_counter <= Cardinality(Stored)
    /\ Stored # {} => racy_counter >= 1
    /\ \A t \in Bumpers : pc[t] = "store" =>
         /\ temp[t] <= Cardinality(Stored)
         /\ round[t] > 1 => temp[t] >= 1
    /\ Stored = Bumpers \X (1 .. BUMPS) => racy_counter >= IF BUMPS < 2 THEN BUMPS ELSE 2

IInv == TypeOK /\ RoundsInv /\ ExactInv /\ RacyInv

\* What main prints after it has joined them: the atomic and the guarded counter
\* are exact; the racy one has lost updates, but never so many that fewer than
\* two are left of several threads that count at least twice, nor has it gained.
OnlyTheRacyCounterLoses ==
    (\A t \in Bumpers : pc[t] = "done") =>
        LET expected == BUMPS * Cardinality(Bumpers) IN
        /\ atomic_counter = expected /\ guarded_counter = expected
        /\ racy_counter <= expected
        /\ racy_counter >= IF BUMPS < 2 THEN BUMPS ELSE 2
=============================================================================
