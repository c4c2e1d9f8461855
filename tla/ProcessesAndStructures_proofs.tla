---------------------- MODULE ProcessesAndStructures_proofs ----------------------
(***************************************************************************)
(* Proofs about the modules that have no proof module of their own: the     *)
(* echo server's processes, the process primitives and the counters, for    *)
(* any clients, any number of threads and of increments, and any sizes of   *)
(* the pipe and of what is written; and the list, the growable array, the   *)
(* pool and the ring, for any nodes, values, blocks and sizes.              *)
(***************************************************************************)
EXTENDS Processes, Structures, FiniteSetTheorems, SequenceTheorems, WellFoundedInduction, TLAPS

-----------------------------------------------------------------------------
\* The echo server's parent, its children and its signals.

LEMMA ServerInit == Init => IInv
BY DEF Init, IInv, TypeOK, ErrnoInv, HoldsInv, NoSpuriousFailure, ZombieIsAnnounced

\* A step of the server keeps every variable in its range.
LEMMA ServerTypeOK == TypeOK /\ HoldsInv /\ [Next]_vars => TypeOK'
<1> SUFFICES ASSUME TypeOK, HoldsInv, [Next]_vars PROVE TypeOK'
  OBVIOUS
<1> USE DEF TypeOK, holds, signalling, reaping
<1>1. ASSUME NEW k \in Clients, Connect(k) \/ ChildExit(k) PROVE TypeOK'
  BY <1>1 DEF Connect, ChildExit, GivenUp
<1>2. CASE AskToStop
  BY <1>2 DEF AskToStop
<1>3. CASE OnSignal \/ OnChild \/ ReapNone \/ ChildReturn
  BY <1>3 DEF OnSignal, OnChild, ReapNone, ChildReturn, Restored
<1>4. ASSUME NEW k \in Clients, Reap(k) PROVE TypeOK'
  BY <1>4 DEF Reap, AfterReap
<1>5. CASE Test \/ CallAccept \/ AcceptError \/ CheckError \/ Broken
  BY <1>5 DEF Test, CallAccept, AcceptError, CheckError, Broken
<1>6. ASSUME NEW k \in Clients, Accept(k) PROVE TypeOK'
  BY <1>6 DEF Accept
<1>7. CASE Fork \/ ForkFails \/ ParentClose
  BY <1>7 DEF Fork, ForkFails, ParentClose, ParentKeeps, GivenUp, HoldsInv
<1>8. CASE UNCHANGED vars
  BY <1>8 DEF vars
<1> HIDE DEF TypeOK, holds, signalling, reaping
<1> QED
  BY <1>1, <1>2, <1>3, <1>4, <1>5, <1>6, <1>7, <1>8 DEF Next, Handlers, Parent

\* A signal handler that runs between accept's failure and the test of errno
\* leaves errno as it was, and the loop is left for a failure of accept only.
LEMMA ServerErrnoInv ==
    TypeOK /\ ErrnoInv /\ NoSpuriousFailure /\ [Next]_vars
        => ErrnoInv' /\ NoSpuriousFailure'
<1> SUFFICES ASSUME TypeOK, ErrnoInv, NoSpuriousFailure, [Next]_vars
             PROVE  ErrnoInv' /\ NoSpuriousFailure'
  OBVIOUS
<1> USE DEF ErrnoInv, NoSpuriousFailure, signalling, reaping, MainRuns
<1>1. ASSUME NEW k \in Clients, Connect(k) \/ ChildExit(k) \/ Reap(k) \/ Accept(k)
      PROVE  ErrnoInv' /\ NoSpuriousFailure'
  BY <1>1 DEF Connect, ChildExit, Reap, AfterReap, Accept
<1>2. CASE OnSignal \/ OnChild \/ ReapNone \/ ChildReturn
  BY <1>2 DEF OnSignal, OnChild, ReapNone, ChildReturn, Restored
<1>3. CASE Test \/ CallAccept \/ AcceptError \/ CheckError \/ Broken
  BY <1>3 DEF Test, CallAccept, AcceptError, CheckError, Broken
<1>4. CASE AskToStop \/ Fork \/ ForkFails \/ ParentClose \/ UNCHANGED vars
  BY <1>4 DEF AskToStop, Fork, ForkFails, ParentClose, vars
<1> HIDE DEF ErrnoInv, NoSpuriousFailure, signalling, reaping, MainRuns
<1> QED
  BY <1>1, <1>2, <1>3, <1>4 DEF Next, Handlers, Parent

\* The descriptors follow main: accept opens one, the close after fork ends it,
\* and only fork gives one to a child.
LEMMA ServerHoldsInv == TypeOK /\ HoldsInv /\ [Next]_vars => HoldsInv'
<1> SUFFICES ASSUME TypeOK, HoldsInv, [Next]_vars PROVE HoldsInv'
  OBVIOUS
<1> USE DEF HoldsInv, holds
<1>1. ASSUME NEW k \in Clients, Connect(k) \/ ChildExit(k) \/ Reap(k) \/ Accept(k)
      PROVE  HoldsInv'
  BY <1>1 DEF Connect, ChildExit, Reap, Accept
<1>2. CASE OnSignal \/ OnChild \/ ReapNone \/ ChildReturn
  BY <1>2 DEF OnSignal, OnChild, ReapNone, ChildReturn
<1>3. CASE Test \/ CallAccept \/ AcceptError \/ CheckError \/ Broken
  BY <1>3 DEF Test, CallAccept, AcceptError, CheckError, Broken
<1>4. CASE AskToStop \/ Fork \/ ForkFails \/ ParentClose \/ UNCHANGED vars
  BY <1>4 DEF AskToStop, Fork, ForkFails, ParentClose, ParentKeeps, vars
<1> HIDE DEF HoldsInv, holds
<1> QED
  BY <1>1, <1>2, <1>3, <1>4 DEF Next, Handlers, Parent

\* The handler looks for zombies until it has found that there are none, and an
\* exit after that sends a new signal.
LEMMA ServerZombies == ZombieIsAnnounced /\ [Next]_vars => ZombieIsAnnounced'
<1> SUFFICES ASSUME ZombieIsAnnounced, [Next]_vars PROVE ZombieIsAnnounced'
  OBVIOUS
<1> USE DEF ZombieIsAnnounced, reaping
<1>1. ASSUME NEW k \in Clients, Connect(k) \/ ChildExit(k) \/ Reap(k) \/ Accept(k)
      PROVE  ZombieIsAnnounced'
  BY <1>1 DEF Connect, ChildExit, Reap, AfterReap, Accept
<1>2. CASE OnSignal \/ OnChild \/ ReapNone \/ ChildReturn
  BY <1>2 DEF OnSignal, OnChild, ReapNone, ChildReturn
<1>3. CASE Test \/ CallAccept \/ AcceptError \/ CheckError \/ Broken
  BY <1>3 DEF Test, CallAccept, AcceptError, CheckError, Broken
<1>4. CASE AskToStop \/ Fork \/ ForkFails \/ ParentClose \/ UNCHANGED vars
  BY <1>4 DEF AskToStop, Fork, ForkFails, ParentClose, vars
<1> HIDE DEF ZombieIsAnnounced, reaping
<1> QED
  BY <1>1, <1>2, <1>3, <1>4 DEF Next, Handlers, Parent

\* The server's invariant holds whichever program runs.
THEOREM ServerInvariance == SpecAll => []IInv
<1>1. InitAll => IInv
  BY ServerInit DEF InitAll
<1>2. IInv /\ [Next]_vars => IInv'
  BY ServerTypeOK, ServerErrnoInv, ServerHoldsInv, ServerZombies DEF IInv
<1>3. [NextAll]_allVars => [Next]_vars
  BY DEF NextAll, Server, InShell, allVars
<1> QED
  BY <1>1, <1>2, <1>3, PTL DEF SpecAll

\* echoserver.c: the server leaves its loop with an error only when accept
\* failed, never because a handler changed errno.
THEOREM NeverLeavesForASignal == SpecAll => []NoSpuriousFailure
BY ServerInvariance, PTL DEF IInv

\* echoserver.c: no exited child is forgotten, although pending SIGCHLDs merge.
THEOREM ZombiesAreAnnounced == SpecAll => []ZombieIsAnnounced
BY ServerInvariance, PTL DEF IInv

\* echoserver.c: the parent never keeps the descriptor of a connection it has
\* handed over, nor a child one that is not its own.
THEOREM DescriptorsFollowMain == SpecAll => []HoldsInv
BY ServerInvariance, PTL DEF IInv

-----------------------------------------------------------------------------
\* The counters.

\* The instance of Counters brings a Cardinality of its own.
LEMMA SameCardinality == \A S : Count!Cardinality(S) = Cardinality(S)
BY DEF Count!Cardinality, Cardinality

Pairs == Bumpers \X (1 .. BUMPS)

LEMMA MadeIsFinite ==
    ASSUME NEW before
    PROVE  /\ Count!Made(before) \subseteq Pairs
           /\ IsFiniteSet(Count!Made(before)) /\ IsFiniteSet(Pairs)
           /\ Cardinality(Count!Made(before)) \in Nat
           /\ Cardinality(Pairs) = BUMPS * Cardinality(Bumpers)
<1>1. Count!Made(before) \subseteq Pairs
  BY DEF Count!Made, Pairs
<1>2. IsFiniteSet(1 .. BUMPS) /\ Cardinality(1 .. BUMPS) = BUMPS
  BY BumpersAssumption, FS_Interval
<1>3. IsFiniteSet(Pairs) /\ Cardinality(Pairs) = Cardinality(Bumpers) * BUMPS
  BY BumpersAssumption, <1>2, FS_Product DEF Pairs
<1>4. Cardinality(Bumpers) \in Nat
  BY BumpersAssumption, FS_CardinalityType
<1>5. IsFiniteSet(Count!Made(before))
  BY <1>1, <1>3, FS_Subset
<1> QED
  BY <1>1, <1>3, <1>4, <1>5, FS_CardinalityType, BumpersAssumption

\* A thread that goes past the labels in "before" makes one increment more.
LEMMA OneMore ==
    ASSUME Count!TypeOK, NEW before, NEW t \in Bumpers, NEW to,
           npc[t] \in before, to \notin before, nround[t] \in 1 .. BUMPS,
           npc' = [npc EXCEPT ![t] = to], nround' = nround
    PROVE  /\ Count!Made(before)' = Count!Made(before) \cup {<<t, nround[t]>>}
           /\ <<t, nround[t]>> \notin Count!Made(before)
           /\ Cardinality(Count!Made(before)') = Cardinality(Count!Made(before)) + 1
<1>1. <<t, nround[t]>> \notin Count!Made(before)
  BY DEF Count!Made, Count!TypeOK
<1>2. Count!Made(before)' = Count!Made(before) \cup {<<t, nround[t]>>}
  <2>1. ASSUME NEW m \in Pairs
        PROVE  m \in Count!Made(before)' <=>
                 m \in Count!Made(before) \/ m = <<t, nround[t]>>
    BY <2>1 DEF Count!Made, Count!TypeOK, Pairs
  <2>2. <<t, nround[t]>> \in Pairs
    BY DEF Pairs
  <2>3. Count!Made(before)' \subseteq Pairs /\ Count!Made(before) \subseteq Pairs
    BY DEF Count!Made, Pairs
  <2> QED
    BY <2>1, <2>2, <2>3
<1> QED
  BY <1>1, <1>2, MadeIsFinite, FS_AddElement

\* Other steps make none.
LEMMA NoMore ==
    ASSUME Count!TypeOK, NEW before, NEW t \in Bumpers, NEW to,
           npc[t] \in before <=> to \in before,
           npc' = [npc EXCEPT ![t] = to], nround' = nround
    PROVE  Count!Made(before)' = Count!Made(before)
BY DEF Count!Made, Count!TypeOK

\* Nor does the beginning of the next round, or the end.
LEMMA NextRound ==
    ASSUME Count!TypeOK, NEW before, NEW t \in Bumpers, Count!Unlock(t),
           nround[t] \in 1 .. BUMPS, "unlock" \notin before, "racy" \in before
    PROVE  Count!Made(before)' = Count!Made(before)
<1>1. /\ npc[t] = "unlock" /\ nround' = [nround EXCEPT ![t] = @ + 1]
      /\ npc' = [npc EXCEPT ![t] = IF nround[t] = BUMPS THEN "done" ELSE "racy"]
  BY DEF Count!Unlock, Count!At
<1>2. ASSUME NEW m \in Pairs
      PROVE  m \in Count!Made(before)' <=> m \in Count!Made(before)
  <2>1. CASE m[1] = t
    BY <1>1, <2>1, BumpersAssumption DEF Count!Made, Count!TypeOK, Pairs
  <2>2. CASE m[1] # t
    BY <1>1, <2>2 DEF Count!Made, Count!TypeOK, Pairs
  <2> QED
    BY <2>1, <2>2
<1> QED
  BY <1>2 DEF Count!Made, Pairs

CountStep(t) ==
    \/ Count!LoadRacy(t) \/ Count!StoreRacy(t) \/ Count!AddAtomic(t)
    \/ Count!Lock(t) \/ Count!LoadGuarded(t) \/ Count!StoreGuarded(t) \/ Count!Unlock(t)

LEMMA CountInit == Count!Init => Count!IInv
<1> SUFFICES ASSUME Count!Init PROVE Count!IInv
  OBVIOUS
<1>1. Count!TypeOK /\ Count!RoundsInv
  BY BumpersAssumption DEF Count!Init, Count!TypeOK, Count!RoundsInv, Count!Labels
<1>2. ASSUME NEW before, "racy" \in before
      PROVE  Count!Made(before) = {} /\ Cardinality(Count!Made(before)) = 0
  BY <1>2, FS_EmptySet DEF Count!Init, Count!Made
<1>3. /\ Count!Stored = {} /\ Count!Added = {} /\ Count!Guarded = {}
      /\ Cardinality(Count!Stored) = 0 /\ Cardinality(Count!Added) = 0
      /\ Cardinality(Count!Guarded) = 0
  BY <1>2 DEF Count!Stored, Count!Added, Count!Guarded, Count!Labels
<1>4. Count!ExactInv
  BY <1>3, SameCardinality, BumpersAssumption DEF Count!Init, Count!ExactInv
<1>5. Bumpers \X (1 .. BUMPS) # {}
  <2>1. PICK t \in Bumpers : TRUE
    BY BumpersAssumption
  <2>2. <<t, 1>> \in Bumpers \X (1 .. BUMPS)
    BY BumpersAssumption
  <2> QED
    BY <2>2
<1>6. Count!RacyInv
  BY <1>3, <1>5, SameCardinality DEF Count!Init, Count!RacyInv
<1> QED
  BY <1>1, <1>4, <1>6 DEF Count!IInv

LEMMA CountTypeOK ==
    ASSUME Count!TypeOK, Count!RoundsInv, NEW t \in Bumpers, CountStep(t)
    PROVE  Count!TypeOK' /\ Count!RoundsInv'
<1> USE BumpersAssumption
<1>1. /\ npc \in [Bumpers -> Count!Labels] /\ nround \in [Bumpers -> 1 .. BUMPS + 1]
      /\ ntemp \in [Bumpers -> Nat] /\ nracy \in Nat /\ natomic \in Nat /\ nguarded \in Nat
      /\ nguard \in Bumpers \cup {NoBumper}
      /\ \A u \in Bumpers : npc[u] = "done" <=> nround[u] = BUMPS + 1
  BY DEF Count!TypeOK, Count!RoundsInv
<1>2. ASSUME NEW to \in Count!Labels \ {"done"}, npc[t] # "done",
             npc' = [npc EXCEPT ![t] = to], nround' = nround,
             ntemp' \in [Bumpers -> Nat], nracy' \in Nat, natomic' \in Nat,
             nguarded' \in Nat, nguard' \in Bumpers \cup {NoBumper}
      PROVE  Count!TypeOK' /\ Count!RoundsInv'
  <2>1. npc' \in [Bumpers -> Count!Labels]
    BY <1>1, <1>2
  <2>2. \A u \in Bumpers : npc'[u] = "done" <=> nround'[u] = BUMPS + 1
    BY <1>1, <1>2
  <2> QED
    BY <1>1, <1>2, <2>1, <2>2 DEF Count!TypeOK, Count!RoundsInv
<1>3. CASE Count!LoadRacy(t)
  <2>1. npc[t] = "racy" /\ npc' = [npc EXCEPT ![t] = "store"] /\ nround' = nround
    BY <1>3 DEF Count!LoadRacy, Count!At
  <2>2. ntemp' \in [Bumpers -> Nat] /\ UNCHANGED <<nracy, natomic, nguarded, nguard>>
    BY <1>1, <1>3 DEF Count!LoadRacy
  <2> QED
    BY <1>1, <1>2, <2>1, <2>2 DEF Count!Labels
<1>4. CASE Count!StoreRacy(t)
  <2>1. npc[t] = "store" /\ npc' = [npc EXCEPT ![t] = "atomic"] /\ nround' = nround
    BY <1>4 DEF Count!StoreRacy, Count!At
  <2>2. nracy' \in Nat /\ UNCHANGED <<ntemp, natomic, nguarded, nguard>>
    BY <1>1, <1>4 DEF Count!StoreRacy
  <2> QED
    BY <1>1, <1>2, <2>1, <2>2 DEF Count!Labels
<1>5. CASE Count!AddAtomic(t)
  <2>1. npc[t] = "atomic" /\ npc' = [npc EXCEPT ![t] = "lock"] /\ nround' = nround
    BY <1>5 DEF Count!AddAtomic, Count!At
  <2>2. natomic' \in Nat /\ UNCHANGED <<ntemp, nracy, nguarded, nguard>>
    BY <1>1, <1>5 DEF Count!AddAtomic
  <2> QED
    BY <1>1, <1>2, <2>1, <2>2 DEF Count!Labels
<1>6. CASE Count!Lock(t)
  <2>1. npc[t] = "lock" /\ npc' = [npc EXCEPT ![t] = "guarded"] /\ nround' = nround
    BY <1>6 DEF Count!Lock, Count!At
  <2>2. nguard' \in Bumpers \cup {NoBumper} /\ UNCHANGED <<ntemp, nracy, natomic, nguarded>>
    BY <1>1, <1>6 DEF Count!Lock
  <2> QED
    BY <1>1, <1>2, <2>1, <2>2 DEF Count!Labels
<1>7. CASE Count!LoadGuarded(t)
  <2>1. npc[t] = "guarded" /\ npc' = [npc EXCEPT ![t] = "store guarded"] /\ nround' = nround
    BY <1>7 DEF Count!LoadGuarded, Count!At
  <2>2. ntemp' \in [Bumpers -> Nat] /\ UNCHANGED <<nracy, natomic, nguarded, nguard>>
    BY <1>1, <1>7 DEF Count!LoadGuarded
  <2> QED
    BY <1>1, <1>2, <2>1, <2>2 DEF Count!Labels
<1>8. CASE Count!StoreGuarded(t)
  <2>1. npc[t] = "store guarded" /\ npc' = [npc EXCEPT ![t] = "unlock"] /\ nround' = nround
    BY <1>8 DEF Count!StoreGuarded, Count!At
  <2>2. nguarded' = ntemp[t] + 1 /\ UNCHANGED <<ntemp, nracy, natomic, nguard>>
    BY <1>8 DEF Count!StoreGuarded
  <2>3. nguarded' \in Nat
    BY <1>1, <2>2
  <2> QED
    BY <1>1, <1>2, <2>1, <2>2, <2>3 DEF Count!Labels
<1>9. CASE Count!Unlock(t)
  <2>1. /\ npc[t] = "unlock" /\ nround' = [nround EXCEPT ![t] = @ + 1]
        /\ npc' = [npc EXCEPT ![t] = IF nround[t] = BUMPS THEN "done" ELSE "racy"]
        /\ UNCHANGED <<ntemp, nracy, natomic, nguarded>> /\ nguard' = NoBumper
    BY <1>9 DEF Count!Unlock, Count!At
  <2>2. nround[t] \in 1 .. BUMPS
    BY <1>1, <2>1
  <2>3. npc' \in [Bumpers -> Count!Labels]
    <3>1. (IF nround[t] = BUMPS THEN "done" ELSE "racy") \in Count!Labels
      BY DEF Count!Labels
    <3> QED
      BY <1>1, <2>1, <3>1
  <2>4. nround' \in [Bumpers -> 1 .. BUMPS + 1]
    <3>1. nround[t] + 1 \in 1 .. BUMPS + 1
      BY <2>2
    <3> QED
      BY <1>1, <2>1, <3>1
  <2>5. ASSUME NEW u \in Bumpers
        PROVE  npc'[u] = "done" <=> nround'[u] = BUMPS + 1
    BY <1>1, <2>1, <2>2
  <2> QED
    BY <1>1, <2>1, <2>3, <2>4, <2>5 DEF Count!TypeOK, Count!RoundsInv
<1> QED
  BY <1>3, <1>4, <1>5, <1>6, <1>7, <1>8, <1>9 DEF CountStep

\* The exact counters: an atomic increment is one step, and a guarded one is not
\* disturbed, because its thread holds the mutex.
LEMMA CountExact ==
    ASSUME Count!IInv, NEW t \in Bumpers, CountStep(t)
    PROVE  Count!ExactInv'
<1> USE BumpersAssumption, SameCardinality
<1> DEFINE inside == {"guarded", "store guarded", "unlock"}
           added == {"racy", "store", "atomic"}
<1>1. /\ Count!TypeOK /\ Count!RoundsInv
      /\ npc \in [Bumpers -> Count!Labels] /\ nround \in [Bumpers -> 1 .. BUMPS + 1]
      /\ nguard \in Bumpers \cup {NoBumper}
  BY DEF Count!IInv, Count!TypeOK
<1>2. /\ natomic = Cardinality(Count!Added) /\ nguarded = Cardinality(Count!Guarded)
      /\ \A u \in Bumpers : npc[u] \in inside <=> nguard = u
      /\ \A u \in Bumpers : npc[u] = "store guarded" => ntemp[u] = nguarded
  BY DEF Count!IInv, Count!ExactInv
<1>3. npc[t] # "done" => nround[t] \in 1 .. BUMPS
  BY <1>1 DEF Count!RoundsInv
<1>4. ntemp \in [Bumpers -> Nat]
  BY <1>1 DEF Count!TypeOK
<1>5. ASSUME NEW to, npc' = [npc EXCEPT ![t] = to], nround' = nround,
             npc[t] \in added <=> to \in added
      PROVE  Count!Added' = Count!Added
  BY <1>1, <1>5, NoMore DEF Count!Added
<1>6. ASSUME NEW to \in Count!Labels, npc' = [npc EXCEPT ![t] = to], nround' = nround,
             npc[t] = "unlock" <=> to = "unlock"
      PROVE  Count!Guarded' = Count!Guarded
  <2>1. npc[t] \in Count!Labels \ {"unlock"} <=> to \in Count!Labels \ {"unlock"}
    BY <1>1, <1>6
  <2> QED
    BY <1>1, <1>6, <2>1, NoMore DEF Count!Guarded
<1>7. CASE Count!LoadRacy(t)
  <2>1. /\ npc[t] = "racy" /\ npc' = [npc EXCEPT ![t] = "store"] /\ nround' = nround
        /\ ntemp' = [ntemp EXCEPT ![t] = nracy] /\ UNCHANGED <<natomic, nguarded, nguard>>
    BY <1>7 DEF Count!LoadRacy, Count!At
  <2>2. Count!Added' = Count!Added /\ Count!Guarded' = Count!Guarded
    BY <1>5, <1>6, <2>1 DEF Count!Labels
  <2> QED
    BY <1>1, <1>2, <1>4, <2>1, <2>2 DEF Count!ExactInv
<1>8. CASE Count!StoreRacy(t)
  <2>1. /\ npc[t] = "store" /\ npc' = [npc EXCEPT ![t] = "atomic"] /\ nround' = nround
        /\ UNCHANGED <<ntemp, natomic, nguarded, nguard>>
    BY <1>8 DEF Count!StoreRacy, Count!At
  <2>2. Count!Added' = Count!Added /\ Count!Guarded' = Count!Guarded
    BY <1>5, <1>6, <2>1 DEF Count!Labels
  <2> QED
    BY <1>1, <1>2, <2>1, <2>2 DEF Count!ExactInv
<1>9. CASE Count!AddAtomic(t)
  <2>1. /\ npc[t] = "atomic" /\ npc' = [npc EXCEPT ![t] = "lock"] /\ nround' = nround
        /\ natomic' = natomic + 1 /\ UNCHANGED <<ntemp, nguarded, nguard>>
    BY <1>9 DEF Count!AddAtomic, Count!At
  <2>2. Cardinality(Count!Added') = Cardinality(Count!Added) + 1
    <3>1. "atomic" \in added /\ "lock" \notin added
      OBVIOUS
    <3>2. Cardinality(Count!Made(added)') = Cardinality(Count!Made(added)) + 1
      <4>1. npc[t] \in added /\ nround[t] \in 1 .. BUMPS
        BY <1>3, <2>1
      <4> HIDE DEF added
      <4> QED
        BY <1>1, <2>1, <3>1, <4>1, OneMore
    <3> QED
      BY <3>2 DEF Count!Added
  <2>3. Count!Guarded' = Count!Guarded
    BY <1>6, <2>1 DEF Count!Labels
  <2> QED
    BY <1>1, <1>2, <2>1, <2>2, <2>3 DEF Count!ExactInv
<1>10. CASE Count!Lock(t)
  <2>1. /\ npc[t] = "lock" /\ npc' = [npc EXCEPT ![t] = "guarded"] /\ nround' = nround
        /\ nguard = NoBumper /\ nguard' = t /\ UNCHANGED <<ntemp, natomic, nguarded>>
    BY <1>10 DEF Count!Lock, Count!At, Count!Free
  <2>2. Count!Added' = Count!Added /\ Count!Guarded' = Count!Guarded
    BY <1>5, <1>6, <2>1 DEF Count!Labels
  <2> QED
    BY <1>1, <1>2, <2>1, <2>2 DEF Count!ExactInv
<1>11. CASE Count!LoadGuarded(t)
  <2>1. /\ npc[t] = "guarded" /\ npc' = [npc EXCEPT ![t] = "store guarded"]
        /\ nround' = nround
        /\ ntemp' = [ntemp EXCEPT ![t] = nguarded] /\ UNCHANGED <<natomic, nguarded,
                                                                  nguard>>
    BY <1>11 DEF Count!LoadGuarded, Count!At
  <2>2. Count!Added' = Count!Added /\ Count!Guarded' = Count!Guarded
    BY <1>5, <1>6, <2>1 DEF Count!Labels
  <2> QED
    BY <1>1, <1>2, <1>4, <2>1, <2>2 DEF Count!ExactInv
<1>12. CASE Count!StoreGuarded(t)
  <2>1. /\ npc[t] = "store guarded" /\ npc' = [npc EXCEPT ![t] = "unlock"]
        /\ nround' = nround
        /\ nguarded' = ntemp[t] + 1 /\ UNCHANGED <<ntemp, natomic, nguard>>
    BY <1>12 DEF Count!StoreGuarded, Count!At
  <2>2. Count!Added' = Count!Added
    BY <1>5, <2>1
  <2>3. Cardinality(Count!Guarded') = Cardinality(Count!Guarded) + 1
    BY <1>1, <1>3, <2>1, OneMore DEF Count!Guarded, Count!Labels
  <2>4. \A u \in Bumpers : npc'[u] # "store guarded"
    BY <1>1, <1>2, <2>1
  <2> QED
    BY <1>1, <1>2, <2>1, <2>2, <2>3, <2>4 DEF Count!ExactInv
<1>13. CASE Count!Unlock(t)
  <2>1. /\ npc[t] = "unlock" /\ UNCHANGED <<ntemp, natomic, nguarded>> /\ nguard' = NoBumper
        /\ npc' = [npc EXCEPT ![t] = IF nround[t] = BUMPS THEN "done" ELSE "racy"]
    BY <1>13 DEF Count!Unlock, Count!At
  <2>2. Count!Added' = Count!Added
    BY <1>1, <1>3, <1>13, <2>1, NextRound DEF Count!Added
  <2>3. Count!Guarded' = Count!Guarded
    <3> DEFINE before == Count!Labels \ {"unlock"}
    <3>1. "unlock" \notin before /\ "racy" \in before
      BY DEF Count!Labels
    <3>2. Count!Made(before)' = Count!Made(before)
      BY <1>1, <1>3, <1>13, <2>1, <3>1, NextRound
    <3> QED
      BY <3>2 DEF Count!Guarded
  <2> QED
    BY <1>1, <1>2, <2>1, <2>2, <2>3 DEF Count!ExactInv
<1> QED
  BY <1>7, <1>8, <1>9, <1>10, <1>11, <1>12, <1>13 DEF CountStep
\* The racy counter: a store writes one more than what was loaded, which no
\* store since has made too small to be at least 1 in a later round.
LEMMA CountRacy ==
    ASSUME Count!IInv, NEW t \in Bumpers, CountStep(t)
    PROVE  Count!RacyInv'
<1> USE BumpersAssumption, SameCardinality
<1> DEFINE before == {"racy", "store"}
           least == IF BUMPS < 2 THEN BUMPS ELSE 2
<1>1. /\ Count!TypeOK /\ Count!RoundsInv
      /\ npc \in [Bumpers -> Count!Labels] /\ nround \in [Bumpers -> 1 .. BUMPS + 1]
      /\ ntemp \in [Bumpers -> Nat] /\ nracy \in Nat
  BY DEF Count!IInv, Count!TypeOK
<1>2. /\ nracy <= Cardinality(Count!Stored)
      /\ Count!Stored # {} => nracy >= 1
      /\ \A u \in Bumpers : npc[u] = "store" =>
           ntemp[u] <= Cardinality(Count!Stored) /\ (nround[u] > 1 => ntemp[u] >= 1)
      /\ Count!Stored = Pairs => nracy >= least
  BY DEF Count!IInv, Count!RacyInv, Pairs
<1>3. npc[t] # "done" => nround[t] \in 1 .. BUMPS
  BY <1>1 DEF Count!RoundsInv
<1>4. Cardinality(Count!Stored) \in Nat
  BY MadeIsFinite DEF Count!Stored
<1>5. ASSUME Count!Stored' = Count!Stored, nracy' = nracy,
             \A u \in Bumpers : npc'[u] = "store" =>
               npc[u] = "store" /\ ntemp'[u] = ntemp[u] /\ nround'[u] = nround[u]
      PROVE  Count!RacyInv'
  BY <1>2, <1>5 DEF Count!RacyInv, Pairs
<1>6. CASE Count!LoadRacy(t)
  <2>1. /\ npc[t] = "racy" /\ npc' = [npc EXCEPT ![t] = "store"] /\ nround' = nround
        /\ ntemp' = [ntemp EXCEPT ![t] = nracy] /\ nracy' = nracy
    BY <1>6 DEF Count!LoadRacy, Count!At
  <2>2. Count!Stored' = Count!Stored
    BY <1>1, <2>1, NoMore DEF Count!Stored
  <2>3. ASSUME nround[t] > 1 PROVE nracy >= 1
    <3>1. <<t, 1>> \in Count!Stored
      BY <1>1, <1>3, <2>1, <2>3 DEF Count!Stored, Count!Made
    <3> QED
      BY <1>2, <3>1
  <2>4. ASSUME NEW u \in Bumpers, npc'[u] = "store"
        PROVE  /\ ntemp'[u] <= Cardinality(Count!Stored)
               /\ nround'[u] > 1 => ntemp'[u] >= 1
    BY <1>1, <1>2, <2>1, <2>3, <2>4
  <2> QED
    BY <1>2, <2>1, <2>2, <2>4 DEF Count!RacyInv, Pairs
<1>7. CASE Count!StoreRacy(t)
  <2>1. /\ npc[t] = "store" /\ npc' = [npc EXCEPT ![t] = "atomic"] /\ nround' = nround
        /\ ntemp' = ntemp /\ nracy' = ntemp[t] + 1
    BY <1>7 DEF Count!StoreRacy, Count!At
  <2>2. nround[t] \in 1 .. BUMPS /\ npc[t] \in before /\ "atomic" \notin before
    BY <1>3, <2>1
  <2>3. /\ Count!Stored' = Count!Stored \cup {<<t, nround[t]>>}
        /\ Cardinality(Count!Stored') = Cardinality(Count!Stored) + 1
    <3> HIDE DEF before
    <3>1. /\ Count!Made(before)' = Count!Made(before) \cup {<<t, nround[t]>>}
          /\ Cardinality(Count!Made(before)') = Cardinality(Count!Made(before)) + 1
      BY <1>1, <2>1, <2>2, OneMore
    <3> QED
      BY <3>1 DEF before, Count!Stored
  <2>4. ASSUME Count!Stored' = Pairs PROVE nracy' >= least
    <3>1. <<t, BUMPS>> \in Count!Stored'
      BY <2>4 DEF Pairs
    <3>2. nround[t] = BUMPS
      <4>1. BUMPS < nround'[t] \/ BUMPS = nround'[t]
        BY <3>1 DEF Count!Stored, Count!Made
      <4> QED
        BY <2>1, <2>2, <4>1
    <3>3. ntemp[t] \in Nat /\ (BUMPS > 1 => ntemp[t] >= 1)
      BY <1>1, <1>2, <2>1, <3>2
    <3> QED
      BY <2>1, <3>3
  <2>5. nracy' <= Cardinality(Count!Stored') /\ nracy' >= 1
    BY <1>1, <1>2, <1>4, <2>1, <2>3
  <2>6. ASSUME NEW u \in Bumpers, npc'[u] = "store"
        PROVE  /\ ntemp'[u] <= Cardinality(Count!Stored')
               /\ nround'[u] > 1 => ntemp'[u] >= 1
    <3>1. npc[u] = "store" /\ ntemp[u] \in Nat
      BY <1>1, <2>1, <2>6
    <3> QED
      BY <1>2, <1>4, <2>1, <2>3, <3>1
  <2> QED
    BY <2>4, <2>5, <2>6 DEF Count!RacyInv, Pairs
<1>8. ASSUME NEW to, to # "store", npc' = [npc EXCEPT ![t] = to], nround' = nround,
             npc[t] \in before <=> to \in before, nracy' = nracy,
             \A u \in Bumpers : npc'[u] = "store" => ntemp'[u] = ntemp[u]
      PROVE  Count!RacyInv'
  <2>1. Count!Stored' = Count!Stored
    BY <1>1, <1>8, NoMore DEF Count!Stored
  <2>2. ASSUME NEW u \in Bumpers, npc'[u] = "store"
        PROVE  npc[u] = "store" /\ ntemp'[u] = ntemp[u] /\ nround'[u] = nround[u]
    BY <1>1, <1>8, <2>2
  <2> QED
    BY <1>5, <1>8, <2>1, <2>2
<1>9. CASE Count!AddAtomic(t)
  <2>1. /\ npc[t] = "atomic" /\ npc' = [npc EXCEPT ![t] = "lock"]
        /\ UNCHANGED <<nround, ntemp, nracy>>
    BY <1>9 DEF Count!AddAtomic, Count!At
  <2> QED
    BY <1>8, <2>1
<1>10. CASE Count!Lock(t)
  <2>1. /\ npc[t] = "lock" /\ npc' = [npc EXCEPT ![t] = "guarded"]
        /\ UNCHANGED <<nround, ntemp, nracy>>
    BY <1>10 DEF Count!Lock, Count!At
  <2> QED
    BY <1>8, <2>1
<1>11. CASE Count!LoadGuarded(t)
  <2>1. /\ npc[t] = "guarded" /\ npc' = [npc EXCEPT ![t] = "store guarded"]
        /\ ntemp' = [ntemp EXCEPT ![t] = nguarded] /\ UNCHANGED <<nround, nracy>>
    BY <1>11 DEF Count!LoadGuarded, Count!At
  <2>2. \A u \in Bumpers : npc'[u] = "store" => ntemp'[u] = ntemp[u]
    BY <1>1, <2>1
  <2> QED
    BY <1>8, <2>1, <2>2
<1>12. CASE Count!StoreGuarded(t)
  <2>1. /\ npc[t] = "store guarded" /\ npc' = [npc EXCEPT ![t] = "unlock"]
        /\ UNCHANGED <<nround, ntemp, nracy>>
    BY <1>12 DEF Count!StoreGuarded, Count!At
  <2> QED
    BY <1>8, <2>1
<1>13. CASE Count!Unlock(t)
  <2>1. /\ npc[t] = "unlock" /\ nround' = [nround EXCEPT ![t] = @ + 1]
        /\ npc' = [npc EXCEPT ![t] = IF nround[t] = BUMPS THEN "done" ELSE "racy"]
        /\ UNCHANGED <<ntemp, nracy>>
    BY <1>13 DEF Count!Unlock, Count!At
  <2>2. Count!Stored' = Count!Stored
    BY <1>1, <1>3, <1>13, <2>1, NextRound DEF Count!Stored
  <2>3. ASSUME NEW u \in Bumpers, npc'[u] = "store"
        PROVE  npc[u] = "store" /\ ntemp'[u] = ntemp[u] /\ nround'[u] = nround[u]
    BY <1>1, <2>1, <2>3
  <2> QED
    BY <1>5, <2>1, <2>2, <2>3
<1> QED
  BY <1>6, <1>7, <1>9, <1>10, <1>11, <1>12, <1>13 DEF CountStep

\* Nothing changes while another program runs.
LEMMA CountStutter ==
    Count!IInv /\ UNCHANGED <<npc, nround, ntemp, nracy, natomic, nguarded, nguard>>
        => Count!IInv'
<1> SUFFICES ASSUME Count!IInv,
                    UNCHANGED <<npc, nround, ntemp, nracy, natomic, nguarded, nguard>>
             PROVE  Count!IInv'
  OBVIOUS
<1>1. \A before : Count!Made(before)' = Count!Made(before)
  BY DEF Count!Made
<1>2. /\ Count!Stored' = Count!Stored /\ Count!Added' = Count!Added
      /\ Count!Guarded' = Count!Guarded
  BY <1>1 DEF Count!Stored, Count!Added, Count!Guarded
<1> QED
  BY <1>2 DEF Count!IInv, Count!TypeOK, Count!RoundsInv, Count!ExactInv, Count!RacyInv

\* concurrent.c: what is stored, read and yet to be added, of each counter.
THEOREM CountInvariance == SpecAll => []Count!IInv
<1>1. InitAll => Count!IInv
  BY CountInit DEF InitAll
<1>2. ASSUME Count!IInv, NEW t \in Bumpers, CountStep(t)
      PROVE  Count!IInv'
  BY <1>2, CountTypeOK, CountExact, CountRacy DEF Count!IInv
<1>3. Count!IInv /\ [NextAll]_allVars => Count!IInv'
  <2> SUFFICES ASSUME Count!IInv, [NextAll]_allVars PROVE Count!IInv'
    OBVIOUS
  <2>1. CASE \E t \in Bumpers : CountStep(t)
    BY <1>2, <2>1
  <2>2. CASE UNCHANGED <<npc, nround, ntemp, nracy, natomic, nguarded, nguard>>
    BY <2>2, CountStutter
  <2> QED
    BY <2>1, <2>2 DEF NextAll, Server, InShell, CountStep, Count!Next, allVars, counterVars
<1> QED
  BY <1>1, <1>3, PTL DEF SpecAll

\* concurrent.c: after the join the atomic and the guarded counter are exact,
\* and the racy one is between two and the number of increments.
THEOREM CountersAreExact == SpecAll => []OnlyTheRacyCounterLoses
<1>1. ASSUME Count!IInv PROVE OnlyTheRacyCounterLoses
  <2> SUFFICES ASSUME \A t \in Bumpers : npc[t] = "done"
               PROVE  LET expected == BUMPS * Cardinality(Bumpers) IN
                      /\ natomic = expected /\ nguarded = expected
                      /\ nracy <= expected
                      /\ nracy >= IF BUMPS < 2 THEN BUMPS ELSE 2
    BY SameCardinality DEF OnlyTheRacyCounterLoses, Count!OnlyTheRacyCounterLoses
  <2>1. \A t \in Bumpers : nround[t] = BUMPS + 1
    BY <1>1 DEF Count!IInv, Count!RoundsInv
  <2>2. \A before : Count!Made(before) = Pairs
    BY <2>1, BumpersAssumption DEF Count!Made, Pairs
  <2>3. Count!Stored = Pairs /\ Count!Added = Pairs /\ Count!Guarded = Pairs
    BY <2>2 DEF Count!Stored, Count!Added, Count!Guarded
  <2>4. Cardinality(Pairs) = BUMPS * Cardinality(Bumpers)
    BY MadeIsFinite
  <2> QED
    BY <1>1, <2>3, <2>4, SameCardinality
       DEF Count!IInv, Count!ExactInv, Count!RacyInv, Pairs
<1> QED
  BY <1>1, CountInvariance, PTL
-----------------------------------------------------------------------------
\* The process primitives.

LEMMA ShellInit == Shell!Init => Shell!IInv
<1> SUFFICES ASSUME Shell!Init PROVE Shell!IInv
  OBVIOUS
<1> USE DEF Shell!Processes, Shell!Children
<1>1. /\ shpc["first"] = "none" /\ shpc["second"] = "none"
      /\ shpc["parent"] \in {"pipe", "fork first", "write", "pause"}
      /\ shpc["parent"] = "pipe" <=> shcall = "pipeline"
      /\ shpc["parent"] = "fork first" <=> shcall \in {"command", "redirected"}
      /\ shcall \in {"write", "pause"} => shpc["parent"] = shcall
      /\ shpc = [p \in Shell!Processes |-> shpc[p]]
  BY DEF Shell!Init
<1>2. /\ shends = [p \in Shell!Processes |-> {}]
      /\ shcode = [c \in Shell!Children |-> "none"]
      /\ shpipe = 0 /\ shwritten = 0 /\ shread = 0 /\ shnaps = 0 /\ shresult = "none"
      /\ shsawEnd = FALSE /\ shfailed = FALSE
      /\ shasked = FALSE /\ shpending = FALSE /\ shinterrupted = FALSE
      /\ shcall \in {"command", "redirected", "pipeline", "write", "pause"}
  BY DEF Shell!Init
<1> HIDE DEF Shell!Init
<1>3. shpc \in [Shell!Processes -> Shell!Labels]
  BY <1>1 DEF Shell!Labels
<1>4. shwritten = shpipe + shread /\ shwritten \in 0 .. Output /\ shnaps \in 0 .. Naps
  BY <1>2, ShellAssumption
<1>5. Shell!TypeOK
  BY <1>1, <1>2, <1>3, <1>4 DEF Shell!TypeOK, Shell!Codes
<1>6. Shell!ChildrenInv /\ Shell!EndsInv
  BY <1>1, <1>2 DEF Shell!ChildrenInv, Shell!EndsInv
<1>7. Shell!DataInv /\ Shell!NothingLeftBehind
  BY <1>1, <1>2, <1>4 DEF Shell!DataInv, Shell!NothingLeftBehind
<1> QED
  BY <1>5, <1>6, <1>7 DEF Shell!IInv

LEMMA ShellStep == Shell!IInv /\ Shell!Next => Shell!IInv'
<1>1. SUFFICES ASSUME Shell!IInv, Shell!Next PROVE Shell!IInv'
  OBVIOUS
<1> USE DEF Shell!IInv, Shell!TypeOK, Shell!ChildrenInv, Shell!EndsInv, Shell!DataInv,
        Shell!NothingLeftBehind, Shell!Processes, Shell!Children, Shell!Labels, Shell!Codes,
        Shell!data, Shell!signal, Shell!Goto
<1>2. /\ Output \in Nat /\ Naps \in Nat /\ shpipe \in Nat /\ shread \in Nat
      /\ shwritten \in 0 .. Output /\ shnaps \in 0 .. Naps
  BY <1>1, ShellAssumption
<1>3. /\ Output \in Nat /\ Naps \in Nat /\ Shell!TypeOK /\ Shell!ChildrenInv
      /\ Shell!EndsInv /\ Shell!DataInv /\ Shell!NothingLeftBehind
  BY <1>1, ShellAssumption
<1>4. CASE Shell!Pipe
  BY <1>3, <1>4 DEF Shell!Pipe
<1>5. CASE Shell!Close
  BY <1>3, <1>5 DEF Shell!Close, Shell!ParentKeeps
<1>6. CASE Shell!GiveUp
  BY <1>3, <1>6 DEF Shell!GiveUp, Shell!Return
<1>7. CASE Shell!WriteAll
  <2>1. shwritten' \in 0 .. Output
    BY <1>2, <1>7 DEF Shell!WriteAll
  <2>2. Shell!TypeOK'
    BY <1>3, <1>7, <2>1 DEF Shell!WriteAll, Shell!Return
  <2> QED
    BY <1>3, <1>7, <2>1, <2>2 DEF Shell!WriteAll, Shell!Return
<1>8. CASE Shell!Pause
  <2>1. shnaps' \in 0 .. Naps
    BY <1>2, <1>8 DEF Shell!Pause
  <2>2. Shell!TypeOK'
    BY <1>3, <1>8, <2>1 DEF Shell!Pause, Shell!Return
  <2> QED
    BY <1>3, <1>8, <2>1, <2>2 DEF Shell!Pause, Shell!Return
<1>9. CASE Shell!OnSigint
  <2>1. Shell!TypeOK'
    BY <1>3, <1>9 DEF Shell!OnSigint, Shell!Return, Shell!Restarted
  <2>2. Shell!ChildrenInv'
    BY <1>3, <1>9 DEF Shell!OnSigint, Shell!Return, Shell!Restarted
  <2>3. Shell!EndsInv'
    BY <1>3, <1>9 DEF Shell!OnSigint, Shell!Return, Shell!Restarted
  <2>4. Shell!DataInv'
    BY <1>3, <1>9 DEF Shell!OnSigint, Shell!Return, Shell!Restarted
  <2>5. Shell!NothingLeftBehind'
    BY <1>3, <1>9 DEF Shell!OnSigint, Shell!Return, Shell!Restarted
  <2> QED
    BY <2>1, <2>2, <2>3, <2>4, <2>5
<1>10. CASE Shell!CtrlC
  BY <1>3, <1>10 DEF Shell!CtrlC
<1>11. CASE Shell!Fork("first")
  <2>1. /\ shpc["parent"] = "fork first"
        /\ shends' = [shends EXCEPT !["first"] = shends["parent"]]
        /\ shpc' = [shpc EXCEPT !["first"] = "forked", !["parent"] =
                    IF shcall = "pipeline" THEN "fork second" ELSE "wait first"]
        /\ UNCHANGED <<shcall, shpipe, shwritten, shread, shsawEnd, shcode, shresult,
                       shfailed,
                       shasked, shpending, shinterrupted, shnaps>>
    BY <1>11 DEF Shell!Fork, Shell!ForkOf
  <2>2. shpc'["first"] = "forked" /\ shpc'["second"] = "none" /\ shcall' = shcall
        /\ (shcall = "pipeline" => shpc'["parent"] = "fork second")
        /\ (shcall # "pipeline" => shpc'["parent"] = "wait first")
        /\ shpc' \in [Shell!Processes -> Shell!Labels]
    BY <1>3, <2>1
  <2> QED
    BY <1>3, <2>1, <2>2
<1>12. CASE Shell!Fork("second")
  <2>1. /\ shpc["parent"] = "fork second"
        /\ shends' = [shends EXCEPT !["second"] = shends["parent"]]
        /\ shpc' = [shpc EXCEPT !["second"] = "forked", !["parent"] = "close"]
        /\ UNCHANGED <<shcall, shpipe, shwritten, shread, shsawEnd, shcode, shresult,
                       shfailed,
                       shasked, shpending, shinterrupted, shnaps>>
    BY <1>3, <1>12 DEF Shell!Fork, Shell!ForkOf
  <2>2. /\ shcall = "pipeline" /\ shpc["first"] # "none" /\ ~ shfailed
        /\ shpc'["first"] = shpc["first"] /\ shpc'["second"] = "forked"
        /\ shpc'["parent"] = "close"
    BY <1>3, <2>1
  <2>3. Shell!TypeOK'
    BY <1>3, <2>1
  <2>4. Shell!ChildrenInv'
    BY <1>3, <2>1, <2>2
  <2>5. Shell!EndsInv'
    BY <1>3, <2>1
  <2>6. Shell!DataInv'
    BY <1>3, <2>1
  <2>7. Shell!NothingLeftBehind'
    BY <1>3, <2>1
  <2> QED
    BY <2>3, <2>4, <2>5, <2>6, <2>7
<1>13. CASE Shell!Wait("first")
  <2>1. /\ shpc["parent"] = "wait first" /\ shpc["first"] = "zombie"
        /\ shpc' = [shpc EXCEPT !["first"] = "reaped", !["parent"] =
                    IF shcall = "pipeline" THEN "wait second" ELSE "returned"]
        /\ shresult' = IF shcall = "pipeline" THEN shresult ELSE shcode["first"]
        /\ UNCHANGED <<shcall, shends, shpipe, shwritten, shread, shsawEnd, shcode,
                       shfailed, shasked,
                       shpending, shinterrupted, shnaps>>
    BY <1>3, <1>13 DEF Shell!Wait, Shell!WaitFor
  <2>2. shpc'["first"] = "reaped" /\ shpc'["second"] = shpc["second"] /\ shcall' = shcall
        /\ (shcall = "pipeline" => shpc'["parent"] = "wait second" /\ shresult' = shresult)
        /\ (shcall # "pipeline" => shpc'["parent"] = "returned"
        /\ shresult' = shcode["first"])
        /\ shpc' \in [Shell!Processes -> Shell!Labels]
    BY <1>3, <2>1
  <2> QED
    BY <1>3, <2>1, <2>2
<1>14. CASE Shell!Wait("second")
  <2>1. /\ shpc["parent"] = "wait second" /\ shpc["second"] = "zombie"
        /\ shpc' = [shpc EXCEPT !["second"] = "reaped", !["parent"] = "returned"]
        /\ shresult' = shcode["second"]
        /\ UNCHANGED <<shcall, shends, shpipe, shwritten, shread, shsawEnd, shcode,
                       shfailed, shasked,
                       shpending, shinterrupted, shnaps>>
    BY <1>3, <1>14 DEF Shell!Wait, Shell!WaitFor
  <2>2. Shell!TypeOK'
    BY <1>3, <2>1
  <2>3. Shell!ChildrenInv'
    BY <1>3, <2>1
  <2>4. Shell!EndsInv'
    BY <1>3, <2>1
  <2>5. Shell!DataInv'
    BY <1>3, <2>1
  <2>6. Shell!NothingLeftBehind'
    BY <1>3, <2>1
  <2> QED
    BY <2>2, <2>3, <2>4, <2>5, <2>6
<1>15. ASSUME NEW c \in Shell!Children, Shell!Connect(c) PROVE Shell!IInv'
  BY <1>3, <1>15 DEF Shell!Connect, Shell!Connected
<1>16. ASSUME NEW c \in Shell!Children, Shell!Exec(c) PROVE Shell!IInv'
  <2>1. CASE Shell!Exit(c, "127")
    BY <1>3, <1>16, <2>1 DEF Shell!Exec, Shell!Exit
  <2>2. CASE ~ Shell!Exit(c, "127")
    BY <1>3, <1>16, <2>2 DEF Shell!Exec
  <2> QED
    BY <2>1, <2>2
<1>17. ASSUME NEW c \in Shell!Children, Shell!CommandEnds(c) PROVE Shell!IInv'
  BY <1>3, <1>17 DEF Shell!CommandEnds, Shell!Exit
<1>18. CASE Shell!RedirectFails
  BY <1>3, <1>18 DEF Shell!RedirectFails, Shell!Exit
<1>19. CASE Shell!CommandWrites
  <2>1. CASE UNCHANGED shpc
    <3>1. /\ shpc["first"] = "runs" /\ shwritten' = shwritten + 1 /\ shpipe' = shpipe + 1
          /\ shwritten < Output /\ UNCHANGED <<shcall, shpc, shends, shcode, shread,
                                               shsawEnd, shresult,
                                            shfailed, shasked, shpending, shinterrupted, shnaps>>
      BY <1>3, <1>19, <2>1 DEF Shell!CommandWrites, Shell!Exit
    <3>2. /\ shwritten' \in 0 .. Output /\ shpipe' \in Nat
          /\ shwritten = shpipe + shread => shwritten' = shpipe' + shread'
      BY <1>2, <3>1
    <3>3. Shell!TypeOK'
      BY <1>2, <1>3, <3>1, <3>2
    <3>4. Shell!ChildrenInv'
      BY <1>2, <1>3, <3>1, <3>2
    <3>5. Shell!EndsInv'
      BY <1>2, <1>3, <3>1, <3>2
    <3>6. Shell!DataInv'
      BY <1>2, <1>3, <3>1, <3>2
    <3>7. Shell!NothingLeftBehind'
      BY <1>2, <1>3, <3>1, <3>2
    <3> QED
      BY <3>3, <3>4, <3>5, <3>6, <3>7
  <2>2. CASE ~ UNCHANGED shpc
    <3>1. /\ shpc["first"] = "runs" /\ shpc' = [shpc EXCEPT !["first"] = "zombie"]
          /\ shends' = [shends EXCEPT !["first"] = {}]
          /\ shcode' = [shcode EXCEPT !["first"] = "SIGPIPE"]
          /\ UNCHANGED <<shcall, shpipe, shwritten, shread, shsawEnd, shresult, shfailed,
                         shasked,
                         shpending, shinterrupted, shnaps>>
      BY <1>19, <2>2 DEF Shell!CommandWrites, Shell!Exit
    <3>2. Shell!TypeOK'
      BY <1>3, <3>1
    <3>3. Shell!ChildrenInv'
      BY <1>3, <3>1
    <3>4. Shell!EndsInv'
      BY <1>3, <3>1
    <3>5. Shell!DataInv'
      BY <1>3, <3>1
    <3>6. Shell!NothingLeftBehind'
      BY <1>3, <3>1
    <3> QED
      BY <3>2, <3>3, <3>4, <3>5, <3>6
  <2> QED
    BY <2>1, <2>2
<1>20. CASE Shell!CommandReads
  <2>1. CASE UNCHANGED shpc
    <3>1. /\ shpc["second"] = "runs" /\ shpipe > 0 /\ shread' = shread + 1
          /\ shpipe' = shpipe - 1
          /\ UNCHANGED <<shcall, shpc, shends, shcode, shwritten, shsawEnd, shresult,
                         shfailed, shasked, shpending, shinterrupted, shnaps>>
      BY <1>3, <1>20, <2>1 DEF Shell!CommandReads, Shell!Exit
    <3>2. shread' \in Nat /\ shpipe' \in Nat /\ shpipe' + shread' = shpipe + shread
      BY <1>2, <3>1
    <3>3. Shell!TypeOK'
      BY <1>2, <1>3, <3>1, <3>2
    <3>4. Shell!ChildrenInv'
      BY <1>2, <1>3, <3>1, <3>2
    <3>5. Shell!EndsInv'
      BY <1>2, <1>3, <3>1, <3>2
    <3>6. Shell!DataInv'
      BY <1>2, <1>3, <3>1, <3>2
    <3>7. Shell!NothingLeftBehind'
      BY <1>2, <1>3, <3>1, <3>2
    <3> QED
      BY <3>3, <3>4, <3>5, <3>6, <3>7
  <2>2. CASE ~ UNCHANGED shpc
    <3>1. /\ shpc["second"] = "runs" /\ shpc' = [shpc EXCEPT !["second"] = "zombie"]
          /\ shpipe = 0 /\ \A p \in Shell!Processes : "w" \notin shends[p]
          /\ shsawEnd' = TRUE
          /\ shends' = [shends EXCEPT !["second"] = {}]
          /\ shcode' = [shcode EXCEPT !["second"] = "0"]
          /\ UNCHANGED <<shcall, shpipe, shwritten, shread, shresult, shfailed, shasked,
                         shpending, shinterrupted, shnaps>>
      BY <1>20, <2>2 DEF Shell!CommandReads, Shell!Exit
    <3>2. shcall = "pipeline" /\ shpc["first"] # "none" /\ shpc'["first"] = shpc["first"]
      BY <1>3, <3>1
    <3>3. shpc["first"] \in {"zombie", "reaped"} /\ shwritten = shpipe + shread
      BY <1>3, <3>1, <3>2
    <3>4. shwritten = shread
      BY <1>2, <3>1, <3>3
    <3>5. Shell!TypeOK'
      BY <1>3, <3>1
    <3>6. Shell!ChildrenInv'
      BY <1>3, <3>1
    <3>7. Shell!EndsInv'
      BY <1>3, <3>1
    <3>8. Shell!DataInv'
      BY <1>3, <3>1
    <3>9. Shell!NothingLeftBehind'
      BY <1>3, <3>1, <3>2, <3>3, <3>4
    <3> QED
      BY <3>5, <3>6, <3>7, <3>8, <3>9
  <2> QED
    BY <2>1, <2>2
<1> HIDE DEF Shell!IInv, Shell!TypeOK, Shell!ChildrenInv, Shell!EndsInv, Shell!DataInv,
        Shell!NothingLeftBehind
<1> QED
  BY <1>1, <1>4, <1>5, <1>6, <1>7, <1>8, <1>9, <1>10, <1>11, <1>12, <1>13, <1>14, <1>15, <1>16,
     <1>17, <1>18, <1>19, <1>20 DEF Shell!Next, Shell!Parent, Shell!Child, Shell!Runs

\* minishell.c: the invariant of the calls holds whichever program runs.
THEOREM ShellInvariance == SpecAll => []Shell!IInv
<1>1. InitAll => Shell!IInv
  BY ShellInit DEF InitAll
<1>2. Shell!IInv /\ UNCHANGED shellVars => Shell!IInv'
  <2> SUFFICES ASSUME Shell!IInv, UNCHANGED shellVars PROVE Shell!IInv'
    OBVIOUS
  <2> USE DEF Shell!IInv, shellVars
  <2>1. Shell!TypeOK'
    BY DEF Shell!TypeOK
  <2>2. Shell!ChildrenInv' /\ Shell!EndsInv'
    BY DEF Shell!ChildrenInv, Shell!EndsInv
  <2>3. Shell!DataInv' /\ Shell!NothingLeftBehind'
    BY DEF Shell!DataInv, Shell!NothingLeftBehind
  <2> QED
    BY <2>1, <2>2, <2>3
<1>3. Shell!IInv /\ [NextAll]_allVars => Shell!IInv'
  BY <1>2, ShellStep DEF NextAll, Server, InShell, allVars
<1> QED
  BY <1>1, <1>3, PTL DEF SpecAll

\* minishell.c: unless pipe or fork fails, a call that has returned has waited
\* for its children and closed both ends, and returns how its last child ended.
THEOREM CallsLeaveNothingBehind == SpecAll => []NothingLeftBehind
<1>1. Shell!IInv => NothingLeftBehind
  BY DEF Shell!IInv, NothingLeftBehind
<1> QED
  BY <1>1, ShellInvariance, PTL

-----------------------------------------------------------------------------
\* Induction, as a fact about sets: a set that has 0 and with every number the
\* next has every number, for there is no least number that it has not.
LEMMA NatSet ==
    ASSUME NEW T, 0 \in T, \A n \in Nat : n \in T => n + 1 \in T
    PROVE  Nat \subseteq T
<1> DEFINE less == {ss \in Nat \X Nat : ss[1] < ss[2]}
           rest == Nat \ T
<1>1. SUFFICES ASSUME rest # {} PROVE FALSE
  OBVIOUS
<1>2. IsWellFoundedOn(less, Nat)
  BY NatLessThanWellFounded DEF OpToRel
<1>3. PICK x \in rest : \A y \in rest : ~ (<<y, x>> \in less)
  <2> HIDE DEF less
  <2>1. rest \subseteq Nat /\ rest # {}
    BY <1>1
  <2> HIDE DEF rest
  <2> QED
    BY <1>2, <2>1, WFMin
<1>4. x \in Nat /\ x # 0 /\ x \notin T
  BY <1>3
<1>5. x - 1 \in Nat /\ x - 1 \notin rest
  <2>1. x - 1 \in Nat /\ x - 1 < x
    BY <1>4
  <2>2. <<x - 1, x>> \in less
    BY <1>4, <2>1
  <2> QED
    BY <1>3, <2>1, <2>2
<1> QED
  BY <1>4, <1>5

-----------------------------------------------------------------------------
\* constrained.c: the pool

\* Cardinality means the same in every module.
LEMMA CardinalityIs == \A S : Building!Cardinality(S) = Cardinality(S)
BY DEF Building!Cardinality, Building!IsFiniteSet, Cardinality, IsFiniteSet

LEMMA BlocksAreFinite == \A S \in SUBSET Building!Storage : IsFiniteSet(S)
<1>1. IsFiniteSet(0 .. POOL_BLOCKS - 1)
  <2>1. 0 \in Int /\ POOL_BLOCKS - 1 \in Int
    BY ConstrainedAssumption
  <2> QED
    BY <2>1, FS_Interval
<1>2. IsFiniteSet(Building!Storage)
  BY <1>1 DEF Building!Storage
<1> QED
  BY <1>2, FS_Subset

\* Where the free list leads, given its way.
LEMMA AfterIs ==
    ASSUME Building!PoolInv, NEW path \in [1 .. POOL_BLOCKS - cinuse -> Building!Storage \ cheld],
           Building!FreePath(path)
    PROVE  \A n \in 0 .. POOL_BLOCKS :
              Building!After[n] = IF n < POOL_BLOCKS - cinuse THEN path[n + 1] ELSE NULL
<1>1. PICK free \in Nat : free = POOL_BLOCKS - cinuse /\ free <= POOL_BLOCKS
  BY ConstrainedAssumption DEF Building!PoolInv
<1>2. POOL_BLOCKS \in Nat
  BY ConstrainedAssumption
<1> DEFINE at(n) == IF n < free THEN path[n + 1] ELSE NULL
           Is(f) == f = [n \in 0 .. POOL_BLOCKS |->
                   IF n = 0 THEN cfree ELSE IF f[n - 1] = NULL THEN NULL ELSE cnext[f[n - 1]]]
           g == [n \in 0 .. POOL_BLOCKS |-> at(n)]
<1>3. cfree = at(0)
  BY <1>1 DEF Building!FreePath
<1>4. ASSUME NEW n \in 1 .. POOL_BLOCKS
      PROVE  at(n) = IF at(n - 1) = NULL THEN NULL ELSE cnext[at(n - 1)]
  <2>1. CASE n - 1 < free
    <3>1. n \in 1 .. free /\ at(n - 1) = path[n] /\ path[n] \in Building!Storage
      BY <1>1, <2>1
    <3>2. path[n] # NULL
      BY <3>1, <1>2, ConstrainedAssumption DEF Building!Storage
    <3>3. cnext[path[n]] = IF n = free THEN NULL ELSE path[n + 1]
      BY <1>1, <3>1 DEF Building!FreePath
    <3> QED
      BY <1>1, <3>1, <3>2, <3>3
  <2>2. CASE ~ (n - 1 < free)
    BY <1>1, <2>2
  <2> QED
    BY <2>1, <2>2
<1>5. Is(g)
  <2>1. \A n \in 0 .. POOL_BLOCKS :
           g[n] = IF n = 0 THEN cfree ELSE IF g[n - 1] = NULL THEN NULL ELSE cnext[g[n - 1]]
    <3> SUFFICES ASSUME NEW n \in 0 .. POOL_BLOCKS
                 PROVE  g[n] = IF n = 0 THEN cfree ELSE IF g[n - 1] = NULL THEN NULL ELSE cnext[g[n - 1]]
      OBVIOUS
    <3>1. g[n] = at(n) /\ (n # 0 => n \in 1 .. POOL_BLOCKS /\ g[n - 1] = at(n - 1))
      BY <1>2
    <3> HIDE DEF g, at
    <3> QED
      BY <1>3, <1>4, <3>1
  <2>2. g = [n \in 0 .. POOL_BLOCKS |-> g[n]]
    OBVIOUS
  <2> HIDE DEF g
  <2> QED
    BY <2>1, <2>2
<1>6. Building!After = CHOOSE h : Is(h)
  BY DEF Building!After
<1>7. PICK h : h = Building!After
  OBVIOUS
<1>8. Is(h)
  <2> HIDE DEF Is, g
  <2> QED
    BY <1>5, <1>6, <1>7
<1>9. \A n \in 0 .. POOL_BLOCKS :
         h[n] = IF n = 0 THEN cfree ELSE IF h[n - 1] = NULL THEN NULL ELSE cnext[h[n - 1]]
  BY <1>8
<1> DEFINE T == {n \in Nat : n <= POOL_BLOCKS => h[n] = at(n)}
<1> HIDE DEF Is, g
<1>10. 0 \in T
  BY <1>2, <1>3, <1>9
<1>11. ASSUME NEW n \in Nat, n \in T PROVE n + 1 \in T
  <2>1. SUFFICES ASSUME n + 1 <= POOL_BLOCKS PROVE h[n + 1] = at(n + 1)
    OBVIOUS
  <2>2. n + 1 \in 1 .. POOL_BLOCKS /\ n + 1 \in 0 .. POOL_BLOCKS /\ n + 1 # 0 /\ n + 1 - 1 = n /\ h[n] = at(n)
    BY <1>2, <1>11, <2>1
  <2>3. h[n + 1] = IF h[n + 1 - 1] = NULL THEN NULL ELSE cnext[h[n + 1 - 1]]
    BY <1>9, <2>2
  <2>4. at(n + 1) = IF at(n + 1 - 1) = NULL THEN NULL ELSE cnext[at(n + 1 - 1)]
    BY <1>4, <2>2
  <2> HIDE DEF at
  <2> QED
    BY <2>2, <2>3, <2>4
<1>12. Nat \subseteq T
  <2> HIDE DEF T
  <2> QED
    BY <1>10, <1>11, NatSet
<1>13. \A n \in 0 .. POOL_BLOCKS : h[n] = at(n)
  BY <1>2, <1>12
<1> QED
  BY <1>1, <1>7, <1>13

\* What the property says of the pool.
LEMMA PoolHolds ==
    ASSUME Building!PoolInv
    PROVE  /\ {Building!After[n] : n \in 0 .. POOL_BLOCKS} \ {NULL} = Building!Storage \ cheld
           /\ Building!After[POOL_BLOCKS - cinuse] = NULL
           /\ cinuse = Cardinality(cheld) /\ cpeak \in cinuse .. POOL_BLOCKS
<1>1. PICK path \in [1 .. POOL_BLOCKS - cinuse -> Building!Storage \ cheld] : Building!FreePath(path)
  BY DEF Building!PoolInv
<1>2. PICK free \in Nat : free = POOL_BLOCKS - cinuse /\ free <= POOL_BLOCKS /\ POOL_BLOCKS \in Nat
  BY ConstrainedAssumption DEF Building!PoolInv
<1>3. \A n \in 0 .. POOL_BLOCKS : Building!After[n] = IF n < free THEN path[n + 1] ELSE NULL
  BY <1>1, <1>2, AfterIs
<1>4. ASSUME NEW n \in 0 .. POOL_BLOCKS, Building!After[n] # NULL
      PROVE  Building!After[n] \in Building!Storage \ cheld
  BY <1>1, <1>2, <1>3, <1>4
<1>5. ASSUME NEW b \in Building!Storage \ cheld
      PROVE  b # NULL /\ \E n \in 0 .. POOL_BLOCKS : Building!After[n] = b
  <2>1. PICK k \in 1 .. free : path[k] = b
    BY <1>1, <1>2, <1>5 DEF Building!FreePath
  <2>2. k - 1 \in 0 .. POOL_BLOCKS /\ k - 1 < free /\ k - 1 + 1 = k
    BY <1>2, <2>1
  <2>3. Building!After[k - 1] = b
    BY <1>3, <2>1, <2>2
  <2>4. b # NULL
    BY <1>2, ConstrainedAssumption DEF Building!Storage
  <2> QED
    BY <2>2, <2>3, <2>4
<1>6. Building!After[POOL_BLOCKS - cinuse] = NULL
  BY <1>2, <1>3
<1>7. {Building!After[n] : n \in 0 .. POOL_BLOCKS} \ {NULL} = Building!Storage \ cheld
  BY <1>4, <1>5
<1> QED
  BY <1>6, <1>7, CardinalityIs DEF Building!PoolInv

LEMMA PoolInit == Building!Init => Building!PoolInv
<1> SUFFICES ASSUME Building!Init PROVE Building!PoolInv
  OBVIOUS
<1>1. POOL_BLOCKS \in Nat \ {0} /\ cheld = {} /\ cinuse = 0 /\ cpeak = 0 /\ cfree = POOL_BLOCKS - 1
  BY ConstrainedAssumption DEF Building!Init
<1>2. cnext = [b \in Building!Storage |-> IF b = 0 THEN NULL ELSE b - 1]
  BY DEF Building!Init
<1> DEFINE path == [k \in 1 .. POOL_BLOCKS |-> POOL_BLOCKS - k]
<1>3. path \in [1 .. POOL_BLOCKS - cinuse -> Building!Storage \ cheld]
  BY <1>1 DEF Building!Storage
<1>4. Building!FreePath(path)
  <2>1. \A b \in Building!Storage : POOL_BLOCKS - b \in 1 .. POOL_BLOCKS /\ path[POOL_BLOCKS - b] = b
    BY <1>1 DEF Building!Storage
  <2>2. \A k \in 1 .. POOL_BLOCKS : cnext[path[k]] = IF k = POOL_BLOCKS THEN NULL ELSE path[k + 1]
    BY <1>1, <1>2 DEF Building!Storage
  <2>3. \A j, k \in 1 .. POOL_BLOCKS : path[j] = path[k] => j = k
    BY <1>1
  <2> QED
    <3>1. POOL_BLOCKS - cinuse = POOL_BLOCKS /\ POOL_BLOCKS # 0 /\ path[1] = cfree
      BY <1>1
    <3> HIDE DEF path
    <3> QED
      BY <1>1, <2>1, <2>2, <2>3, <3>1 DEF Building!FreePath
<1>5. cnext \in [Building!Storage -> Building!Storage \cup {NULL}]
  BY <1>1, <1>2 DEF Building!Storage
<1>6. Cardinality(cheld) = 0
  BY <1>1, FS_EmptySet
<1> HIDE DEF path
<1> QED
  BY <1>1, <1>3, <1>4, <1>5, <1>6, CardinalityIs DEF Building!PoolInv

LEMMA PoolAllocates == Building!PoolInv /\ Building!PoolAlloc => Building!PoolInv'
<1> SUFFICES ASSUME Building!PoolInv, Building!PoolAlloc PROVE Building!PoolInv'
  OBVIOUS
<1>1. PICK free \in Nat : free = POOL_BLOCKS - cinuse /\ free <= POOL_BLOCKS /\ POOL_BLOCKS \in Nat
  BY ConstrainedAssumption DEF Building!PoolInv
<1>2. PICK path \in [1 .. free -> Building!Storage \ cheld] : Building!FreePath(path)
  BY <1>1 DEF Building!PoolInv
<1>3. free # 0 /\ cfree = path[1] /\ cfree \in Building!Storage \ cheld
  BY <1>1, <1>2 DEF Building!FreePath, Building!PoolAlloc
<1>4. PICK content \in Building!Storage \cup {NULL} : cnext' = [cnext EXCEPT ![cfree] = content]
  BY DEF Building!PoolAlloc
<1>5. cheld' = cheld \cup {cfree} /\ cfree' = cnext[cfree] /\ cinuse' = cinuse + 1
  BY DEF Building!PoolAlloc
<1>6. cheld \subseteq Building!Storage /\ cnext \in [Building!Storage -> Building!Storage \cup {NULL}]
      /\ cinuse \in 0 .. POOL_BLOCKS /\ cinuse = Cardinality(cheld)
  BY CardinalityIs DEF Building!PoolInv
<1>7. Cardinality(cheld') = cinuse + 1
  <2>1. IsFiniteSet(cheld)
    BY <1>6, BlocksAreFinite
  <2> QED
    BY <1>3, <1>5, <1>6, <2>1, FS_AddElement
<1> DEFINE rest == [k \in 1 .. free - 1 |-> path[k + 1]]
<1>8. POOL_BLOCKS - cinuse' = free - 1
  BY <1>1, <1>5, <1>6
<1>9. \A k \in 1 .. free - 1 : rest[k] = path[k + 1] /\ k + 1 \in 1 .. free /\ path[k + 1] # path[1]
  BY <1>1, <1>2, <1>3 DEF Building!FreePath
<1>10. rest \in [1 .. free - 1 -> Building!Storage \ cheld']
  BY <1>1, <1>3, <1>5, <1>9
<1> HIDE DEF rest
<1>11. \A j, k \in 1 .. free - 1 : rest[j] = rest[k] => j = k
  <2> SUFFICES ASSUME NEW j \in 1 .. free - 1, NEW k \in 1 .. free - 1, rest[j] = rest[k] PROVE j = k
    OBVIOUS
  <2>1. j + 1 = k + 1
    BY <1>1, <1>2, <1>9 DEF Building!FreePath
  <2> QED
    BY <2>1
<1>12. ASSUME NEW b \in Building!Storage \ cheld' PROVE \E k \in 1 .. free - 1 : rest[k] = b
  <2>1. PICK k \in 1 .. free : path[k] = b
    BY <1>1, <1>2, <1>5 DEF Building!FreePath
  <2>2. k # 1
    BY <1>3, <1>5, <2>1
  <2>3. k - 1 \in 1 .. free - 1 /\ k - 1 + 1 = k
    BY <1>1, <2>1, <2>2
  <2>4. rest[k - 1] = b
    BY <1>9, <2>1, <2>3
  <2> QED
    BY <2>3, <2>4
<1>13. cfree' = IF free - 1 = 0 THEN NULL ELSE rest[1]
  <2>1. cnext[path[1]] = IF 1 = free THEN NULL ELSE path[1 + 1]
    BY <1>1, <1>2, <1>3 DEF Building!FreePath
  <2>2. free # 1 => 1 \in 1 .. free - 1
    BY <1>3
  <2> QED
    BY <1>1, <1>3, <1>5, <1>9, <2>1, <2>2
<1>14. ASSUME NEW k \in 1 .. free - 1
       PROVE  cnext'[rest[k]] = IF k = free - 1 THEN NULL ELSE rest[k + 1]
  <2>1. k + 1 \in 1 .. free /\ rest[k] = path[k + 1] /\ path[k + 1] # cfree /\ path[k + 1] \in Building!Storage
    BY <1>2, <1>3, <1>9
  <2>2. cnext'[rest[k]] = cnext[path[k + 1]]
    BY <1>4, <1>6, <2>1
  <2>3. cnext[path[k + 1]] = IF k + 1 = free THEN NULL ELSE path[k + 1 + 1]
    BY <1>1, <1>2, <2>1 DEF Building!FreePath
  <2>4. k # free - 1 => k + 1 \in 1 .. free - 1
    BY <1>1
  <2> QED
    BY <1>1, <1>9, <2>2, <2>3, <2>4
<1>15. Building!FreePath(rest)'
  BY <1>8, <1>11, <1>12, <1>13, <1>14 DEF Building!FreePath
<1>16. cpeak' \in cinuse' .. POOL_BLOCKS /\ cinuse' \in 0 .. POOL_BLOCKS
  BY <1>1, <1>3, <1>5, <1>6 DEF Building!PoolAlloc, Building!Peak, Building!PoolInv
<1>17. cnext' \in [Building!Storage -> Building!Storage \cup {NULL}] /\ cheld' \subseteq Building!Storage
  BY <1>3, <1>4, <1>5, <1>6
<1> QED
  BY <1>5, <1>7, <1>8, <1>10, <1>15, <1>16, <1>17, CardinalityIs DEF Building!PoolInv

LEMMA PoolFrees == \A b \in cheld : Building!PoolInv /\ Building!PoolFree(b) => Building!PoolInv'
<1> SUFFICES ASSUME NEW b \in cheld, Building!PoolInv, Building!PoolFree(b) PROVE Building!PoolInv'
  OBVIOUS
<1>1. PICK free \in Nat : free = POOL_BLOCKS - cinuse /\ free <= POOL_BLOCKS /\ POOL_BLOCKS \in Nat
  BY ConstrainedAssumption DEF Building!PoolInv
<1>2. PICK path \in [1 .. free -> Building!Storage \ cheld] : Building!FreePath(path)
  BY <1>1 DEF Building!PoolInv
<1>3. /\ cnext' = [cnext EXCEPT ![b] = cfree] /\ cfree' = b /\ cheld' = cheld \ {b}
      /\ cinuse' = cinuse - 1 /\ cpeak' = cpeak
  BY DEF Building!PoolFree, Building!Freed
<1>4. cheld \subseteq Building!Storage /\ cnext \in [Building!Storage -> Building!Storage \cup {NULL}]
      /\ cinuse \in 0 .. POOL_BLOCKS /\ cinuse = Cardinality(cheld) /\ cpeak \in cinuse .. POOL_BLOCKS
  BY CardinalityIs DEF Building!PoolInv
<1>5. Cardinality(cheld') = cinuse - 1 /\ cinuse # 0
  <2>1. IsFiniteSet(cheld)
    BY <1>4, BlocksAreFinite
  <2>2. cinuse # 0
    BY <1>4, <2>1, FS_EmptySet
  <2> QED
    BY <1>3, <1>4, <2>1, <2>2, FS_RemoveElement
<1> DEFINE more == [k \in 1 .. free + 1 |-> IF k = 1 THEN b ELSE path[k - 1]]
<1>6. POOL_BLOCKS - cinuse' = free + 1
  BY <1>1, <1>3, <1>4
<1>7. more[1] = b /\ \A k \in 2 .. free + 1 : more[k] = path[k - 1] /\ k - 1 \in 1 .. free /\ path[k - 1] # b
  BY <1>1, <1>2
<1>8. more \in [1 .. free + 1 -> Building!Storage \ cheld']
  BY <1>1, <1>2, <1>3, <1>4
<1> HIDE DEF more
<1>9. ASSUME NEW j \in 1 .. free + 1, NEW k \in 1 .. free + 1, more[j] = more[k] PROVE j = k
  <2>1. CASE j # 1 /\ k # 1
    <3>1. j \in 2 .. free + 1 /\ k \in 2 .. free + 1
      BY <2>1
    <3>2. j - 1 = k - 1
      BY <1>1, <1>2, <1>7, <1>9, <3>1 DEF Building!FreePath
    <3> QED
      BY <3>2
  <2>2. CASE j = 1 \/ k = 1
    <3>1. (j # 1 => j \in 2 .. free + 1) /\ (k # 1 => k \in 2 .. free + 1)
      OBVIOUS
    <3> QED
      BY <1>7, <1>9, <2>2, <3>1
  <2> QED
    BY <2>1, <2>2
<1>10. ASSUME NEW a \in Building!Storage \ cheld' PROVE \E k \in 1 .. free + 1 : more[k] = a
  <2>1. CASE a = b
    BY <1>7, <2>1
  <2>2. CASE a # b
    <3>1. PICK k \in 1 .. free : path[k] = a
      BY <1>1, <1>2, <1>3, <2>2 DEF Building!FreePath
    <3>2. k + 1 \in 2 .. free + 1 /\ k + 1 \in 1 .. free + 1 /\ k + 1 - 1 = k
      BY <3>1
    <3>3. more[k + 1] = a
      BY <1>7, <3>1, <3>2
    <3> QED
      BY <3>2, <3>3
  <2> QED
    BY <2>1, <2>2
<1>11. ASSUME NEW k \in 1 .. free + 1
       PROVE  cnext'[more[k]] = IF k = free + 1 THEN NULL ELSE more[k + 1]
  <2>1. CASE k = 1
    <3>1. cnext'[b] = cfree /\ more[1] = b
      BY <1>3, <1>4, <1>7
    <3>2. cfree = IF free = 0 THEN NULL ELSE path[1]
      BY <1>1, <1>2 DEF Building!FreePath
    <3>3. free # 0 => 2 \in 2 .. free + 1
      OBVIOUS
    <3> QED
      BY <1>7, <2>1, <3>1, <3>2, <3>3
  <2>2. CASE k # 1
    <3>1. k \in 2 .. free + 1
      BY <2>2
    <3>2. more[k] = path[k - 1] /\ k - 1 \in 1 .. free /\ path[k - 1] # b /\ path[k - 1] \in Building!Storage
      BY <1>2, <1>7, <3>1
    <3>3. cnext'[more[k]] = cnext[path[k - 1]]
      BY <1>3, <1>4, <3>2
    <3>4. cnext[path[k - 1]] = IF k - 1 = free THEN NULL ELSE path[k - 1 + 1]
      BY <1>1, <1>2, <3>2 DEF Building!FreePath
    <3>5. k # free + 1 => k + 1 \in 2 .. free + 1 /\ more[k + 1] = path[k]
      <4>1. SUFFICES ASSUME k # free + 1 PROVE k + 1 \in 2 .. free + 1 /\ more[k + 1] = path[k]
        OBVIOUS
      <4>2. k + 1 \in 2 .. free + 1 /\ k + 1 - 1 = k
        BY <3>1, <4>1
      <4> QED
        BY <1>7, <4>2
    <3> QED
      BY <3>1, <3>3, <3>4, <3>5
  <2> QED
    BY <2>1, <2>2
<1>12. Building!FreePath(more)'
  BY <1>3, <1>6, <1>7, <1>9, <1>10, <1>11 DEF Building!FreePath
<1>13. cpeak' \in cinuse' .. POOL_BLOCKS /\ cinuse' \in 0 .. POOL_BLOCKS
  BY <1>1, <1>3, <1>4, <1>5
<1>14. cnext' \in [Building!Storage -> Building!Storage \cup {NULL}] /\ cheld' \subseteq Building!Storage
  <2>1. cfree \in Building!Storage \cup {NULL}
    BY <1>1, <1>2 DEF Building!FreePath
  <2> QED
    BY <1>3, <1>4, <2>1
<1> QED
  BY <1>3, <1>5, <1>6, <1>8, <1>12, <1>13, <1>14, CardinalityIs DEF Building!PoolInv

-----------------------------------------------------------------------------
\* constrained.c: the ring

LEMMA Wraps ==
    ASSUME NEW a \in Nat, a < 2 * RING_SIZE
    PROVE  a % RING_SIZE = IF a < RING_SIZE THEN a ELSE a - RING_SIZE
<1>1. PICK r \in Nat \ {0} : r = RING_SIZE
  BY ConstrainedAssumption
<1>2. \A x \in 0 .. r - 1 : x % r = x /\ (x + r) % r = x
  OBVIOUS
<1>3. CASE a < r
  BY <1>1, <1>2, <1>3
<1>4. CASE ~ (a < r)
  <2>1. a - r \in 0 .. r - 1 /\ a - r + r = a
    BY <1>1, <1>4
  <2> QED
    BY <1>1, <1>2, <1>4, <2>1
<1> QED
  BY <1>1, <1>3, <1>4

\* The slot of the k-th byte.
Slot(k) == IF ctail + k - 1 < RING_SIZE THEN ctail + k - 1 ELSE ctail + k - 1 - RING_SIZE

LEMMA SlotIs ==
    ASSUME RING_SIZE \in Nat \ {0}, ctail \in 0 .. RING_SIZE - 1, NEW k \in 1 .. RING_SIZE
    PROVE  (ctail + k - 1) % RING_SIZE = Slot(k) /\ Slot(k) \in 0 .. RING_SIZE - 1
<1>1. ctail + k - 1 \in Nat /\ ctail + k - 1 < 2 * RING_SIZE
  OBVIOUS
<1>2. (ctail + k - 1) % RING_SIZE = Slot(k)
  BY <1>1, Wraps DEF Slot
<1> QED
  BY <1>2 DEF Slot

LEMMA SuccessorIs ==
    ASSUME RING_SIZE \in Nat \ {0}, NEW k \in 0 .. RING_SIZE - 1
    PROVE  /\ Building!Successor(k) = IF k + 1 = RING_SIZE THEN 0 ELSE k + 1
           /\ Building!Successor(k) \in 0 .. RING_SIZE - 1
<1>1. (k + 1) % RING_SIZE = IF k + 1 < RING_SIZE THEN k + 1 ELSE k + 1 - RING_SIZE
  BY Wraps
<1> QED
  BY <1>1 DEF Building!Successor

\* RingInv without the remainders.
RingState ==
    /\ chead \in 0 .. RING_SIZE - 1 /\ ctail \in 0 .. RING_SIZE - 1
    /\ cqueued \in Seq(Bytes)
    /\ DOMAIN cdata = 0 .. RING_SIZE - 1
    /\ Len(cqueued) = IF chead >= ctail THEN chead - ctail ELSE chead + RING_SIZE - ctail
    /\ \A k \in 1 .. Len(cqueued) : cdata[Slot(k)] = cqueued[k]

LEMMA RingIs == Building!RingInv <=> RingState
<1>1. RING_SIZE \in Nat \ {0}
  BY ConstrainedAssumption
<1>2. ASSUME chead \in 0 .. RING_SIZE - 1, ctail \in 0 .. RING_SIZE - 1,
             Len(cqueued) = IF chead >= ctail THEN chead - ctail ELSE chead + RING_SIZE - ctail,
             NEW k \in 1 .. Len(cqueued)
      PROVE  (ctail + k - 1) % RING_SIZE = Slot(k)
  <2>1. k \in 1 .. RING_SIZE
    BY <1>1, <1>2
  <2> QED
    BY <1>1, <1>2, <2>1, SlotIs
<1> QED
  BY <1>2 DEF Building!RingInv, RingState

LEMMA RingHolds ==
    ASSUME Building!RingInv
    PROVE  /\ Len(cqueued) = (chead + RING_SIZE - ctail) % RING_SIZE
           /\ \A k \in 1 .. Len(cqueued) : cdata[(ctail + k - 1) % RING_SIZE] = cqueued[k]
<1>1. /\ RING_SIZE \in Nat \ {0} /\ chead \in 0 .. RING_SIZE - 1 /\ ctail \in 0 .. RING_SIZE - 1
      /\ Len(cqueued) = IF chead >= ctail THEN chead - ctail ELSE chead + RING_SIZE - ctail
  BY ConstrainedAssumption DEF Building!RingInv
<1>2. PICK a \in Nat : a = chead + RING_SIZE - ctail /\ a < 2 * RING_SIZE
  BY <1>1
<1>3. a % RING_SIZE = IF a < RING_SIZE THEN a ELSE a - RING_SIZE
  BY <1>2, Wraps
<1> QED
  BY <1>1, <1>2, <1>3 DEF Building!RingInv

LEMMA RingInit == Building!Init => Building!RingInv
BY ConstrainedAssumption DEF Building!Init, Building!RingInv

LEMMA RingPushes == \A v \in Bytes : Building!RingInv /\ Building!RingPush(v) => Building!RingInv'
<1> SUFFICES ASSUME NEW v \in Bytes, Building!RingInv, Building!RingPush(v) PROVE Building!RingInv'
  OBVIOUS
<1>1. /\ RING_SIZE \in Nat \ {0} /\ chead \in 0 .. RING_SIZE - 1 /\ ctail \in 0 .. RING_SIZE - 1
      /\ cqueued \in Seq(Bytes) /\ DOMAIN cdata = 0 .. RING_SIZE - 1
      /\ Len(cqueued) = IF chead >= ctail THEN chead - ctail ELSE chead + RING_SIZE - ctail
      /\ \A k \in 1 .. Len(cqueued) : cdata[Slot(k)] = cqueued[k]
  BY ConstrainedAssumption, RingIs DEF RingState
<1>2. /\ cdata' = [cdata EXCEPT ![chead] = v] /\ cqueued' = Append(cqueued, v)
      /\ chead' = Building!Successor(chead) /\ ctail' = ctail /\ Building!Successor(chead) # ctail
  BY DEF Building!RingPush, Building!RingFull
<1>3. chead' = (IF chead + 1 = RING_SIZE THEN 0 ELSE chead + 1) /\ chead' \in 0 .. RING_SIZE - 1
  BY <1>1, <1>2, SuccessorIs
<1>4. PICK n \in Nat : n = Len(cqueued)
  BY <1>1
<1>5. /\ cqueued' \in Seq(Bytes) /\ Len(cqueued') = n + 1 /\ cqueued'[n + 1] = v
      /\ \A k \in 1 .. n : cqueued'[k] = cqueued[k]
  <2>1. PICK t \in Seq(Bytes) : t = Append(cqueued, v)
    BY <1>1, AppendProperties
  <2>2. Len(t) = n + 1 /\ t[n + 1] = v /\ \A k \in 1 .. n : t[k] = cqueued[k]
    <3>1. cqueued \in Seq(Bytes) /\ n = Len(cqueued)
      BY <1>1, <1>4
    <3> QED
      BY <2>1, <3>1, AppendProperties
  <2> QED
    BY <1>2, <2>1, <2>2
<1>6. n + 1 = IF chead' >= ctail THEN chead' - ctail ELSE chead' + RING_SIZE - ctail
  BY <1>1, <1>2, <1>3, <1>4
<1>7. Slot(n + 1) = chead /\ \A k \in 1 .. n : Slot(k) # chead
  <2>1. n = IF chead >= ctail THEN chead - ctail ELSE chead + RING_SIZE - ctail
    BY <1>1, <1>4
  <2>2. Slot(n + 1) = chead
    BY <1>1, <2>1 DEF Slot
  <2>3. ASSUME NEW k \in 1 .. n PROVE Slot(k) # chead
    BY <1>1, <2>1 DEF Slot
  <2> QED
    BY <2>2, <2>3
<1>8. DOMAIN cdata' = 0 .. RING_SIZE - 1 /\ cdata'[chead] = v
      /\ \A x \in 0 .. RING_SIZE - 1 : x # chead => cdata'[x] = cdata[x]
  BY <1>1, <1>2
<1>9. ASSUME NEW k \in 1 .. n + 1 PROVE cdata'[Slot(k)] = cqueued'[k]
  <2>1. CASE k = n + 1
    BY <1>5, <1>7, <1>8, <2>1
  <2>2. CASE k # n + 1
    <3>1. k \in 1 .. n /\ k \in 1 .. RING_SIZE
      BY <1>1, <1>4, <2>2
    <3>2. Slot(k) \in 0 .. RING_SIZE - 1
      BY <1>1, <3>1, SlotIs
    <3> QED
      BY <1>1, <1>4, <1>5, <1>7, <1>8, <3>1, <3>2
  <2> QED
    BY <2>1, <2>2
<1>10. \A k : Slot(k)' = Slot(k)
  BY <1>2 DEF Slot
<1>11. RingState'
  BY <1>1, <1>2, <1>3, <1>5, <1>6, <1>8, <1>9, <1>10 DEF RingState
<1> QED
  BY <1>11, RingIs, PTL

LEMMA RingPops == Building!RingInv /\ Building!RingPop => Building!RingInv'
<1> SUFFICES ASSUME Building!RingInv, Building!RingPop PROVE Building!RingInv'
  OBVIOUS
<1>1. /\ RING_SIZE \in Nat \ {0} /\ chead \in 0 .. RING_SIZE - 1 /\ ctail \in 0 .. RING_SIZE - 1
      /\ cqueued \in Seq(Bytes) /\ DOMAIN cdata = 0 .. RING_SIZE - 1
      /\ Len(cqueued) = IF chead >= ctail THEN chead - ctail ELSE chead + RING_SIZE - ctail
      /\ \A k \in 1 .. Len(cqueued) : cdata[Slot(k)] = cqueued[k]
  BY ConstrainedAssumption, RingIs DEF RingState
<1>2. /\ cdata' = cdata /\ cqueued' = Tail(cqueued) /\ ctail # chead
      /\ chead' = chead /\ ctail' = Building!Successor(ctail)
  BY DEF Building!RingPop
<1>3. ctail' = (IF ctail + 1 = RING_SIZE THEN 0 ELSE ctail + 1) /\ ctail' \in 0 .. RING_SIZE - 1
  BY <1>1, <1>2, SuccessorIs
<1>4. PICK n \in Nat : n = Len(cqueued) /\ n # 0
  BY <1>1, <1>2
<1>5. /\ cqueued' \in Seq(Bytes) /\ Len(cqueued') = n - 1
      /\ \A k \in 1 .. n - 1 : cqueued'[k] = cqueued[k + 1]
  BY <1>1, <1>2, <1>4
<1>6. n - 1 = IF chead' >= ctail' THEN chead' - ctail' ELSE chead' + RING_SIZE - ctail'
  BY <1>1, <1>2, <1>3, <1>4
<1>7. \A k \in 1 .. n - 1 : Slot(k)' = Slot(k + 1)
  BY <1>1, <1>3, <1>4 DEF Slot
<1>8. ASSUME NEW k \in 1 .. n - 1 PROVE cdata'[Slot(k)'] = cqueued'[k]
  <2>1. k + 1 \in 1 .. n
    BY <1>4
  <2> QED
    BY <1>1, <1>2, <1>4, <1>5, <1>7, <2>1
<1>9. RingState'
  BY <1>1, <1>2, <1>3, <1>5, <1>6, <1>8 DEF RingState
<1> QED
  BY <1>9, RingIs, PTL

-----------------------------------------------------------------------------
\* dynarray.c, intarray.c, generic.c: the growable array

LEMMA IntsAre == Array!Ints \in SUBSET Int
BY ArrayAssumption DEF Array!Ints, Array!INT_MIN, Array!INT_MAX

\* "Never x - y": the comparator orders as < does.
LEMMA ComparatorIs ==
    {x \in Array!Ints \X Array!Ints : Array!CmpInt(x[1], x[2]) < 0}
        = {x \in Array!Ints \X Array!Ints : x[1] < x[2]}
<1>1. ASSUME NEW a \in Array!Ints, NEW b \in Array!Ints PROVE Array!CmpInt(a, b) < 0 <=> a < b
  BY IntsAre DEF Array!CmpInt
<1>2. ASSUME NEW x \in Array!Ints \X Array!Ints PROVE Array!CmpInt(x[1], x[2]) < 0 <=> x[1] < x[2]
  BY <1>1
<1> QED
  BY <1>2

Ordered(s, p) == \A j, k \in DOMAIN p : j < k => ~ (s[p[k]] < s[p[j]])

\* Among finitely many integers there is a greatest.
LEMMA GreatestIs ==
    \A n \in Nat \ {0} : \A s \in [1 .. n -> Int] : \E m \in 1 .. n : \A k \in 1 .. n : s[k] <= s[m]
<1> DEFINE Has(n) == \A s \in [1 .. n -> Int] : \E m \in 1 .. n : \A k \in 1 .. n : s[k] <= s[m]
           T == {n \in Nat : n > 0 => Has(n)}
<1>1. 0 \in T
  OBVIOUS
<1>2. ASSUME NEW n \in Nat, n \in T PROVE n + 1 \in T
  <2> SUFFICES Has(n + 1)
    <3> HIDE DEF Has
    <3> QED
      OBVIOUS
  <2>1. SUFFICES ASSUME NEW s \in [1 .. n + 1 -> Int]
                 PROVE  \E m \in 1 .. n + 1 : \A k \in 1 .. n + 1 : s[k] <= s[m]
    OBVIOUS
  <2>2. CASE n = 0
    BY <2>2
  <2>3. CASE n > 0
    <3>1. [k \in 1 .. n |-> s[k]] \in [1 .. n -> Int]
      OBVIOUS
    <3>2. PICK m \in 1 .. n : \A k \in 1 .. n : s[k] <= s[m]
      BY <1>2, <2>3, <3>1
    <3>3. \A k \in 1 .. n + 1 : k \in 1 .. n \/ k = n + 1
      OBVIOUS
    <3>4. CASE s[n + 1] <= s[m]
      <4>1. m \in 1 .. n + 1
        OBVIOUS
      <4> QED
        BY <3>2, <3>3, <3>4, <4>1
    <3>5. CASE ~ (s[n + 1] <= s[m])
      <4>1. n + 1 \in 1 .. n + 1 /\ s[n + 1] \in Int /\ s[m] \in Int /\ \A k \in 1 .. n : s[k] \in Int
        OBVIOUS
      <4>2. \A k \in 1 .. n + 1 : s[k] <= s[n + 1]
        BY <3>2, <3>3, <3>5, <4>1
      <4> QED
        BY <4>1, <4>2
    <3> QED
      BY <3>4, <3>5
  <2> QED
    BY <2>2, <2>3
<1>3. Nat \subseteq T
  <2> HIDE DEF T
  <2> QED
    BY <1>1, <1>2, NatSet
<1>4. \A n \in Nat \ {0} : Has(n)
  <2> HIDE DEF Has
  <2> QED
    BY <1>3
<1> QED
  BY <1>4

\* Every sequence of integers can be put in order: its greatest goes last.
LEMMA OrderExists ==
    \A n \in Nat : \A s \in [1 .. n -> Int] : \E p \in Array!Orders(n) : Ordered(s, p)
<1> DEFINE T == {n \in Nat : \A s \in [1 .. n -> Int] : \E p \in Array!Orders(n) : Ordered(s, p)}
<1>1. 0 \in T
  <2>1. SUFFICES ASSUME NEW s \in [1 .. 0 -> Int] PROVE \E p \in Array!Orders(0) : Ordered(s, p)
    OBVIOUS
  <2>2. [k \in 1 .. 0 |-> k] \in Array!Orders(0)
    BY DEF Array!Orders
  <2>3. Ordered(s, [k \in 1 .. 0 |-> k])
    BY DEF Ordered
  <2> QED
    BY <2>2, <2>3
<1>2. ASSUME NEW n \in Nat, n \in T PROVE n + 1 \in T
  <2>1. SUFFICES ASSUME NEW s \in [1 .. n + 1 -> Int]
                 PROVE  \E p \in Array!Orders(n + 1) : Ordered(s, p)
    OBVIOUS
  <2>2. PICK m \in 1 .. n + 1 : \A k \in 1 .. n + 1 : s[k] <= s[m]
    <3>1. n + 1 \in Nat \ {0}
      OBVIOUS
    <3> QED
      BY <3>1, GreatestIs
  <2>3. PICK skip \in [1 .. n -> 1 .. n + 1] : skip = [k \in 1 .. n |-> IF k < m THEN k ELSE k + 1]
    <3>1. [k \in 1 .. n |-> IF k < m THEN k ELSE k + 1] \in [1 .. n -> 1 .. n + 1]
      OBVIOUS
    <3> QED
      BY <3>1
  <2>4. PICK t \in [1 .. n -> Int] : t = [k \in 1 .. n |-> s[skip[k]]]
    <3>1. [k \in 1 .. n |-> s[skip[k]]] \in [1 .. n -> Int]
      OBVIOUS
    <3> QED
      BY <3>1
  <2>5. PICK p \in Array!Orders(n) : Ordered(t, p)
    BY <1>2
  <2>6. p \in [1 .. n -> 1 .. n] /\ \A k \in 1 .. n : \E j \in 1 .. n : p[j] = k
    BY DEF Array!Orders
  <2>7. PICK q : q = [k \in 1 .. n + 1 |-> IF k = n + 1 THEN m ELSE skip[p[k]]]
    OBVIOUS
  <2>8. q[n + 1] = m /\ \A k \in 1 .. n : q[k] = skip[p[k]] /\ s[q[k]] = t[p[k]]
    <3>1. n + 1 \in 1 .. n + 1
      OBVIOUS
    <3>2. ASSUME NEW k \in 1 .. n PROVE q[k] = skip[p[k]] /\ s[q[k]] = t[p[k]]
      <4>1. k \in 1 .. n + 1 /\ k # n + 1 /\ p[k] \in 1 .. n
        BY <2>6
      <4> QED
        BY <2>4, <2>7, <4>1
    <3> QED
      BY <2>7, <3>1, <3>2
  <2>9. q \in [1 .. n + 1 -> 1 .. n + 1]
    <3>1. ASSUME NEW k \in 1 .. n + 1 PROVE q[k] \in 1 .. n + 1
      <4>1. k = n + 1 \/ k \in 1 .. n
        OBVIOUS
      <4>2. k \in 1 .. n => p[k] \in 1 .. n
        BY <2>6
      <4>3. k \in 1 .. n => skip[p[k]] \in 1 .. n + 1
        BY <2>3, <4>2
      <4> QED
        BY <2>8, <4>1, <4>3
    <3> QED
      BY <2>7, <3>1
  <2>10. ASSUME NEW k \in 1 .. n + 1 PROVE \E j \in 1 .. n + 1 : q[j] = k
    <3>1. CASE k = m
      BY <2>8, <3>1
    <3>2. CASE k # m
      <4>1. PICK i \in 1 .. n : skip[i] = k
        <5>1. CASE k < m
          <6>1. k \in 1 .. n /\ skip[k] = k
            BY <2>3, <5>1
          <6> QED
            BY <6>1
        <5>2. CASE k > m
          <6>1. k - 1 \in 1 .. n /\ ~ (k - 1 < m) /\ (k - 1) + 1 = k
            BY <5>2
          <6>2. skip[k - 1] = k
            BY <2>3, <6>1
          <6> QED
            BY <6>1, <6>2
        <5> QED
          BY <3>2, <5>1, <5>2
      <4>2. PICK j \in 1 .. n : p[j] = i
        BY <2>6
      <4>3. j \in 1 .. n + 1
        OBVIOUS
      <4>4. q[j] = skip[p[j]]
        BY <2>8
      <4> QED
        BY <4>1, <4>2, <4>3, <4>4
    <3> QED
      BY <3>1, <3>2
  <2>11. q \in Array!Orders(n + 1)
    BY <2>9, <2>10 DEF Array!Orders
  <2>12. ASSUME NEW j \in 1 .. n + 1, NEW k \in 1 .. n + 1, j < k PROVE ~ (s[q[k]] < s[q[j]])
    <3>1. j \in 1 .. n /\ (k \in 1 .. n \/ k = n + 1)
      BY <2>12
    <3>2. CASE k = n + 1
      <4>1. q[j] \in 1 .. n + 1 /\ s[q[j]] \in Int /\ s[m] \in Int
        BY <2>9
      <4>2. s[q[j]] <= s[m]
        BY <2>2, <4>1
      <4> QED
        BY <2>8, <3>2, <4>1, <4>2
    <3>3. CASE k \in 1 .. n
      BY <2>5, <2>6, <2>8, <2>12, <3>1, <3>3 DEF Ordered
    <3> QED
      BY <3>1, <3>2, <3>3
  <2>13. Ordered(s, q)
    BY <2>9, <2>12 DEF Ordered
  <2> QED
    BY <2>11, <2>13
<1>3. Nat \subseteq T
  <2> HIDE DEF T
  <2> QED
    BY <1>1, <1>2, NatSet
<1> QED
  BY <1>3

\* What qsort makes of a sequence of ints.
LEMMA SortedIs ==
    ASSUME NEW s \in Seq(Array!Ints)
    PROVE  LET less == {x \in Array!Ints \X Array!Ints : x[1] < x[2]}
           IN  Array!Sorted(s, less) \in Seq(Array!Ints) /\ Len(Array!Sorted(s, less)) = Len(s)
<1> DEFINE less == {x \in Array!Ints \X Array!Ints : x[1] < x[2]}
           n == Len(s)
           Right(p) == p \in Array!Orders(n) /\ \A j, k \in 1 .. n : j < k => <<s[p[k]], s[p[j]]>> \notin less
<1>1. n \in Nat /\ s \in [1 .. n -> Int] /\ \A k \in 1 .. n : s[k] \in Array!Ints
  <2>1. n \in Nat /\ s \in [1 .. n -> Array!Ints]
    OBVIOUS
  <2>2. \A k \in 1 .. n : s[k] \in Array!Ints /\ s[k] \in Int
    BY <2>1, IntsAre
  <2> QED
    BY <2>1, <2>2
<1>2. PICK p \in Array!Orders(n) : Ordered(s, p)
  BY <1>1, OrderExists
<1>3. p \in [1 .. n -> 1 .. n]
  BY DEF Array!Orders
<1>4. Right(p)
  <2>1. ASSUME NEW j \in 1 .. n, NEW k \in 1 .. n, j < k PROVE <<s[p[k]], s[p[j]]>> \notin less
    <3>1. ~ (s[p[k]] < s[p[j]])
      BY <1>2, <1>3, <2>1 DEF Ordered
    <3> QED
      BY <3>1
  <2> QED
    BY <2>1
<1>5. PICK order : order = CHOOSE q : Right(q)
  OBVIOUS
<1>6. Right(order)
  <2> HIDE DEF Right
  <2> QED
    BY <1>4, <1>5
<1>7. order \in [1 .. n -> 1 .. n]
  BY <1>6 DEF Array!Orders
<1>8. Array!Sorted(s, less) = [k \in 1 .. n |-> s[order[k]]]
  BY <1>5 DEF Array!Sorted
<1>9. [k \in 1 .. n |-> s[order[k]]] \in [1 .. n -> Array!Ints]
  BY <1>1, <1>7
<1> QED
  BY <1>1, <1>8, <1>9

\* What a block of the array may hold.
Cells == Array!Ints \cup {Garbage}

LEMMA ArrayInit == Array!Init => Array!ArrayInv
<1> SUFFICES ASSUME Array!Init PROVE Array!ArrayInv
  OBVIOUS
<1>1. <<>> \in Seq(Array!Ints) /\ Len(<<>>) = 0 /\ DOMAIN aheap = {}
  BY DEF Array!Init
<1> QED
  BY <1>1 DEF Array!Init, Array!ArrayInv

\* A new array.
LEMMA ArrayCreated ==
    ASSUME Array!ArrayInv, ~ astruct, NEW initial \in Capacities, Array!Created(initial), UNCHANGED apushed
    PROVE  Array!ArrayInv'
<1>1. PICK room \in Nat : room = (IF initial = 0 THEN DefaultCapacity ELSE initial) /\ room > 0
  BY ArrayAssumption
<1>2. PICK b \in Blocks :
         /\ aheap' = Array!With(aheap, b, [k \in 1 .. room |-> Garbage])
         /\ adata' = b /\ acount' = 0 /\ acapacity' = room /\ astruct'
  BY <1>1 DEF Array!Created
<1>3. DOMAIN aheap = {} /\ apushed \in Seq(Array!Ints) /\ Len(apushed) = 0
  BY DEF Array!ArrayInv
<1>4. [k \in 1 .. room |-> Garbage] \in [1 .. room -> Array!Ints \cup {Garbage}]
  OBVIOUS
<1>5. DOMAIN aheap' = {b} /\ aheap'[b] = [k \in 1 .. room |-> Garbage]
  BY <1>2, <1>3 DEF Array!With
<1>6. aheap'[adata'] \in [1 .. acapacity' -> Array!Ints \cup {Garbage}] /\ DOMAIN aheap' = {adata'}
  BY <1>2, <1>4, <1>5
<1>7. acapacity' \in Nat /\ acount' = 0 /\ acount' \in 0 .. acapacity' /\ acapacity' > 0
  BY <1>1, <1>2
<1>8. apushed' \in Seq(Array!Ints) /\ Len(apushed') = acount'
  BY <1>2, <1>3
<1>9. astruct' /\ \A k \in 1 .. acount' : aheap'[adata'][k] = apushed'[k]
  BY <1>2
<1> QED
  BY <1>6, <1>7, <1>8, <1>9 DEF Array!ArrayInv

\* A value more, in place or in a block twice as large.
LEMMA ArrayPushes ==
    ASSUME Array!ArrayInv, NEW v \in Array!Ints, Array!Push(v)
    PROVE  Array!ArrayInv'
<1>1. /\ astruct /\ astruct' /\ acapacity \in Nat /\ acapacity > 0 /\ acount \in 0 .. acapacity
      /\ acount' = acount + 1 /\ apushed \in Seq(Array!Ints) /\ Len(apushed) = acount
      /\ DOMAIN aheap = {adata} /\ aheap[adata] \in [1 .. acapacity -> Array!Ints \cup {Garbage}]
      /\ \A k \in 1 .. acount : aheap[adata][k] = apushed[k]
  BY DEF Array!ArrayInv, Array!Push
<1>2. PICK old \in [1 .. acapacity -> Array!Ints \cup {Garbage}] : old = aheap[adata]
  BY <1>1
<1>3. PICK more \in Seq(Array!Ints) : more = Append(apushed, v)
  BY <1>1, AppendProperties
<1>4. /\ apushed' = more /\ Len(more) = acount + 1 /\ more[acount + 1] = v
      /\ \A k \in 1 .. acount : more[k] = apushed[k]
  <2>1. apushed' = more
    BY <1>3 DEF Array!Push
  <2> QED
    BY <1>1, <1>3, <2>1, AppendProperties
<1>5. SUFFICES /\ DOMAIN aheap' = {adata'}
               /\ acapacity' \in Nat /\ acapacity' >= acapacity /\ acount + 1 <= acapacity'
               /\ aheap'[adata'] \in [1 .. acapacity' -> Array!Ints \cup {Garbage}]
               /\ aheap'[adata'][acount + 1] = v
               /\ \A k \in 1 .. acount : aheap'[adata'][k] = old[k]
  <2>1. acount' \in 0 .. acapacity' /\ acapacity' > 0
    BY <1>1, <1>5
  <2>2. \A k \in 1 .. acount' : aheap'[adata'][k] = apushed'[k]
    <3> SUFFICES ASSUME NEW k \in 1 .. acount + 1 PROVE aheap'[adata'][k] = more[k]
      BY <1>1, <1>4
    <3>1. k \in 1 .. acount \/ k = acount + 1
      BY <1>1
    <3> QED
      BY <1>1, <1>2, <1>4, <1>5, <3>1
  <2> QED
    BY <1>1, <1>4, <1>5, <2>1, <2>2 DEF Array!ArrayInv
<1>6. CASE Array!Fits(v)
  <2>1. acount < acapacity /\ adata' = adata /\ acapacity' = acapacity
        /\ aheap' = [aheap EXCEPT ![adata] = Array!Put(aheap[adata], v)]
    BY <1>6 DEF Array!Fits
  <2>2. DOMAIN aheap' = {adata} /\ aheap'[adata] = [old EXCEPT ![acount + 1] = v]
    BY <1>1, <1>2, <2>1 DEF Array!Put
  <2>3. acount + 1 \in 1 .. acapacity
    BY <1>1, <2>1
  <2>4. [old EXCEPT ![acount + 1] = v] \in [1 .. acapacity -> Array!Ints \cup {Garbage}]
        /\ [old EXCEPT ![acount + 1] = v][acount + 1] = v
        /\ \A k \in 1 .. acount : [old EXCEPT ![acount + 1] = v][k] = old[k]
    BY <1>1, <1>2, <2>3
  <2> QED
    BY <1>1, <2>1, <2>2, <2>3, <2>4
<1>7. CASE Array!Moved(v)
  <2>1. PICK cells : cells = [k \in 1 .. Array!Bigger |-> IF k <= acapacity THEN old[k] ELSE Garbage]
    OBVIOUS
  <2>2. PICK b \in {adata} \cup (Blocks \ DOMAIN aheap) :
           aheap' = Array!With(Array!Without(adata), b, Array!Put(cells, v)) /\ adata' = b
    BY <1>2, <1>7, <2>1 DEF Array!Moved
  <2>3. acount = acapacity /\ acapacity' = acapacity * 2 /\ Array!Bigger = acapacity * 2
    BY <1>7 DEF Array!Moved, Array!Bigger
  <2>4. PICK room \in Nat : room = acapacity * 2 /\ acount + 1 \in 1 .. room /\ acapacity <= room
    BY <1>1, <2>3
  <2>5. cells \in [1 .. room -> Array!Ints \cup {Garbage}] /\ \A k \in 1 .. acount : cells[k] = old[k]
    BY <1>1, <1>2, <2>1, <2>3, <2>4
  <2>6. PICK filled : filled = [cells EXCEPT ![acount + 1] = v]
    OBVIOUS
  <2>7. /\ filled \in [1 .. room -> Array!Ints \cup {Garbage}] /\ filled[acount + 1] = v
        /\ \A k \in 1 .. acount : filled[k] = old[k]
    BY <1>1, <2>4, <2>5, <2>6
  <2>8. DOMAIN aheap' = {b} /\ aheap'[b] = filled
    BY <1>1, <2>2, <2>6 DEF Array!With, Array!Without, Array!Put
  <2> QED
    BY <1>1, <2>2, <2>3, <2>4, <2>7, <2>8
<1> QED
  BY <1>6, <1>7 DEF Array!Push

\* In order.
LEMMA ArraySorts ==
    ASSUME Array!ArrayInv, Array!Sort
    PROVE  Array!ArrayInv'
<1> DEFINE less == {x \in Array!Ints \X Array!Ints : x[1] < x[2]}
<1>1. /\ astruct /\ astruct' /\ acapacity \in Nat /\ acapacity > 0 /\ acount \in 0 .. acapacity
      /\ apushed \in Seq(Array!Ints) /\ Len(apushed) = acount
      /\ DOMAIN aheap = {adata} /\ aheap[adata] \in [1 .. acapacity -> Array!Ints \cup {Garbage}]
      /\ \A k \in 1 .. acount : aheap[adata][k] = apushed[k]
      /\ UNCHANGED <<adata, acount, acapacity>>
  BY DEF Array!ArrayInv, Array!Sort, Array!fields
<1>2. PICK old \in Seq(Cells) : old = aheap[adata] /\ Len(old) = acapacity
  <2>1. aheap[adata] \in Seq(Cells) /\ Len(aheap[adata]) = acapacity
    BY <1>1 DEF Cells
  <2> QED
    BY <2>1
<1>3. Array!Elements = apushed
  <2>1. Len(Array!Elements) = acount /\ \A k \in 1 .. acount : Array!Elements[k] = old[k]
    BY <1>1, <1>2 DEF Array!Elements
  <2>2. Array!Elements = [k \in 1 .. acount |-> old[k]]
    BY <1>1, <1>2 DEF Array!Elements
  <2>3. apushed = [k \in 1 .. acount |-> apushed[k]]
    BY <1>1
  <2> QED
    BY <1>1, <1>2, <2>2, <2>3
<1>4. PICK sorted \in Seq(Array!Ints) : sorted = Array!Sorted(apushed, less) /\ Len(sorted) = acount
  BY <1>1, SortedIs
<1>5. PICK rest \in Seq(Cells) : rest = SubSeq(old, acount + 1, acapacity) /\ Len(rest) = acapacity - acount
  <2>1. \A k \in acount + 1 .. acapacity : old[k] \in Cells
    BY <1>1, <1>2
  <2>2. SubSeq(old, acount + 1, acapacity) \in Seq(Cells)
    BY <1>1, <1>2, <2>1
  <2>3. Len(SubSeq(old, acount + 1, acapacity)) = acapacity - acount
    BY <1>1, <1>2
  <2> QED
    BY <2>2, <2>3
<1>6. sorted \in Seq(Cells)
  BY DEF Cells
<1>7. PICK new \in Seq(Cells) : new = sorted \o rest
  BY <1>6, ConcatProperties
<1>8. Len(new) = acapacity /\ \A k \in 1 .. acount : new[k] = sorted[k]
  <2>1. Len(new) = Len(sorted) + Len(rest) /\ \A k \in 1 .. Len(sorted) : new[k] = sorted[k]
    BY <1>6, <1>7
  <2>2. Len(sorted) = acount /\ Len(rest) = acapacity - acount
    BY <1>4, <1>5
  <2> QED
    BY <1>1, <2>1, <2>2
<1>9. /\ aheap' = [aheap EXCEPT ![adata] = Array!Sorted(apushed, less) \o SubSeq(aheap[adata], acount + 1, acapacity)]
      /\ apushed' = Array!Sorted(apushed, less)
  BY <1>3, ComparatorIs DEF Array!Sort
<1>10. aheap' = [aheap EXCEPT ![adata] = new] /\ apushed' = sorted
  <2>1. aheap' = [aheap EXCEPT ![adata] = sorted \o rest] /\ apushed' = sorted
    <3> HIDE DEF less
    <3> QED
      BY <1>2, <1>4, <1>5, <1>9
  <2> QED
    BY <1>7, <2>1
<1>11. DOMAIN aheap' = {adata'} /\ aheap'[adata'] = new
  BY <1>1, <1>10
<1>12. new \in [1 .. acapacity -> Array!Ints \cup {Garbage}]
  <2>1. new \in [1 .. Len(new) -> Cells]
    OBVIOUS
  <2> QED
    BY <1>8, <2>1 DEF Cells
<1>13. apushed' \in Seq(Array!Ints) /\ Len(apushed') = acount'
  BY <1>1, <1>4, <1>10
<1>14. \A k \in 1 .. acount' : aheap'[adata'][k] = apushed'[k]
  BY <1>1, <1>8, <1>10, <1>11
<1> QED
  BY <1>1, <1>11, <1>12, <1>13, <1>14 DEF Array!ArrayInv

LEMMA ArrayNext == Array!ArrayInv /\ [Array!Next]_arrayVars => Array!ArrayInv'
<1> SUFFICES ASSUME Array!ArrayInv, [Array!Next]_arrayVars PROVE Array!ArrayInv'
  OBVIOUS
<1>1. \A n \in Capacities : Array!Created(n) /\ ~ astruct /\ UNCHANGED apushed => Array!ArrayInv'
  BY ArrayCreated
<1>2. ASSUME ~ astruct, ~ astruct', acount' = 0, acapacity' = 0 \/ acapacity' = acapacity,
             UNCHANGED <<aheap, apushed>>
      PROVE  Array!ArrayInv'
  <2>1. apushed \in Seq(Array!Ints) /\ Len(apushed) = 0 /\ DOMAIN aheap = {} /\ acapacity \in Nat
    BY <1>2 DEF Array!ArrayInv
  <2> QED
    BY <1>2, <2>1 DEF Array!ArrayInv
<1>3. ASSUME NEW n \in Capacities, Array!InitArray(n) \/ Array!Create(n) \/ Array!InitVector(n)
      PROVE  Array!ArrayInv'
  <2>1. ~ astruct /\ UNCHANGED apushed
    BY <1>3 DEF Array!InitArray, Array!Create, Array!InitVector
  <2>2. acount = 0
    BY <2>1 DEF Array!ArrayInv
  <2>3. CASE Array!Created(n)
    BY <1>1, <2>1, <2>3
  <2>4. CASE ~ Array!Created(n)
    BY <1>2, <1>3, <2>1, <2>2, <2>4 DEF Array!InitArray, Array!Create, Array!InitVector, Array!fields
  <2> QED
    BY <2>3, <2>4
<1>4. ASSUME Array!DestroyArray \/ Array!DestroyHandle PROVE Array!ArrayInv'
  <2>1. /\ aheap' = Array!Without(adata) /\ acount' = 0 /\ acapacity' = 0 /\ astruct' = FALSE
        /\ apushed' = <<>>
    BY <1>4 DEF Array!DestroyArray, Array!DestroyHandle
  <2>2. DOMAIN aheap' = {}
    BY <2>1 DEF Array!ArrayInv, Array!Without
  <2>3. apushed' \in Seq(Array!Ints) /\ Len(apushed') = 0
    BY <2>1
  <2> QED
    BY <2>1, <2>2, <2>3 DEF Array!ArrayInv
<1>5. ASSUME NEW v \in Array!Ints, Array!Push(v) PROVE Array!ArrayInv'
  BY <1>5, ArrayPushes
<1>6. CASE Array!PushFails
  BY <1>6 DEF Array!ArrayInv, Array!PushFails, Array!AfterFailure
<1>7. CASE Array!Clear
  <2>1. /\ astruct /\ astruct' /\ acount' = 0 /\ apushed' = <<>>
        /\ UNCHANGED <<adata, acapacity, aheap>>
    BY <1>7 DEF Array!Clear, Array!ArrayInv
  <2>2. apushed' \in Seq(Array!Ints) /\ Len(apushed') = 0
    BY <2>1
  <2> QED
    BY <2>1, <2>2 DEF Array!ArrayInv
<1>8. CASE Array!Sort
  BY <1>8, ArraySorts
<1>9. CASE UNCHANGED arrayVars
  BY <1>9 DEF Array!ArrayInv, arrayVars
<1> QED
  BY <1>3, <1>4, <1>5, <1>6, <1>7, <1>8, <1>9 DEF Array!Next

LEMMA ArrayHolds == Array!ArrayInv => ArrayIsSequence
<1> SUFFICES ASSUME Array!ArrayInv PROVE Array!ArrayIsSequence
  BY DEF ArrayIsSequence
<1>1. /\ DOMAIN aheap = IF astruct THEN {adata} ELSE {}
      /\ acount = Len(apushed) /\ acount \in Nat /\ acount <= acapacity
  BY DEF Array!ArrayInv
<1>2. astruct => Len(aheap[adata]) = acapacity /\ acapacity > 0
  BY DEF Array!ArrayInv
<1>3. \A k \in 1 .. acount : Array!Get(k - 1) = apushed[k]
  <2> SUFFICES ASSUME NEW k \in 1 .. acount PROVE Array!Get(k - 1) = apushed[k]
    OBVIOUS
  <2>1. k - 1 < acount /\ (k - 1) + 1 = k
    BY <1>1
  <2> QED
    BY <2>1 DEF Array!Get, Array!ArrayInv
<1> DEFINE Got(f) == f = [k \in 0 .. acount |-> IF k = 0 THEN 0 ELSE f[k - 1] + Array!Get(k - 1)]
           Told(f) == f = [k \in 0 .. acount |-> IF k = 0 THEN 0 ELSE f[k - 1] + apushed[k]]
<1>4. ASSUME NEW f PROVE Got(f) <=> Told(f)
  <2>1. \A k \in 0 .. acount : k # 0 => Array!Get(k - 1) = apushed[k]
    BY <1>1, <1>3
  <2>2. [k \in 0 .. acount |-> IF k = 0 THEN 0 ELSE f[k - 1] + Array!Get(k - 1)]
          = [k \in 0 .. acount |-> IF k = 0 THEN 0 ELSE f[k - 1] + apushed[k]]
    BY <2>1
  <2> QED
    BY <2>2
<1>5. (CHOOSE f : Got(f)) = (CHOOSE f : Told(f))
  <2> HIDE DEF Got, Told
  <2> QED
    BY <1>4
<1>6. Array!Sum = (CHOOSE f : Got(f))[acount]
  BY DEF Array!Sum
<1> QED
  BY <1>1, <1>2, <1>3, <1>5, <1>6 DEF Array!ArrayIsSequence

LEMMA ArrayStep == [NextStructures]_structureVars => [Array!Next]_arrayVars
BY DEF NextStructures, structureVars

\* dynarray.c, intarray.c, generic.c: whatever allocations fail and wherever realloc
\* moves the block, the growable array holds in order what it accepted and the heap
\* has its block and no other, for any capacities and any width of int.
THEOREM ArrayKeepsItsElements == SpecStructures => []ArrayIsSequence
<1>1. InitStructures => Array!ArrayInv
  BY ArrayInit DEF InitStructures
<1> QED
  BY <1>1, ArrayNext, ArrayStep, ArrayHolds, PTL DEF SpecStructures


-----------------------------------------------------------------------------
\* A step of any structure is a step of the blocks or leaves them alone; the same
\* for the others.
LEMMA BlocksStep == [NextStructures]_structureVars => [Building!Next]_blockVars
BY DEF NextStructures, structureVars

LEMMA BlocksNext ==
    Building!PoolInv /\ Building!RingInv /\ [Building!Next]_blockVars
        => (Building!PoolInv /\ Building!RingInv)'
<1> SUFFICES ASSUME Building!PoolInv, Building!RingInv, [Building!Next]_blockVars
             PROVE  Building!PoolInv' /\ Building!RingInv'
  OBVIOUS
<1>1. ASSUME UNCHANGED Building!ring PROVE Building!RingInv'
  BY <1>1 DEF Building!RingInv, Building!ring
<1>2. ASSUME UNCHANGED Building!pool PROVE Building!PoolInv'
  <2>1. PICK path \in [1 .. POOL_BLOCKS - cinuse -> Building!Storage \ cheld] : Building!FreePath(path)
    BY DEF Building!PoolInv
  <2>2. UNCHANGED <<cnext, cfree, cinuse, cpeak, cheld>>
    BY <1>2 DEF Building!pool
  <2>3. Building!FreePath(path)'
    BY <2>1, <2>2 DEF Building!FreePath
  <2>4. path \in [1 .. POOL_BLOCKS - cinuse' -> Building!Storage \ cheld']
    BY <2>1, <2>2
  <2> QED
    BY <2>2, <2>3, <2>4 DEF Building!PoolInv
<1>3. CASE Building!PoolAlloc
  BY <1>1, <1>3, PoolAllocates DEF Building!PoolAlloc
<1>4. ASSUME NEW b \in cheld, Building!PoolFree(b) PROVE Building!PoolInv' /\ Building!RingInv'
  BY <1>1, <1>4, PoolFrees DEF Building!PoolFree, Building!ring
<1>5. ASSUME NEW v \in Bytes, Building!RingPush(v) PROVE Building!PoolInv' /\ Building!RingInv'
  BY <1>2, <1>5, RingPushes DEF Building!RingPush, Building!pool
<1>6. CASE Building!RingPop
  BY <1>2, <1>6, RingPops DEF Building!RingPop, Building!pool
<1>7. CASE UNCHANGED blockVars
  BY <1>1, <1>2, <1>7 DEF blockVars, Building!ring, Building!pool
<1> QED
  BY <1>3, <1>4, <1>5, <1>6, <1>7 DEF Building!Next

\* constrained.c: "exhausted, not undefined", "full: refuse, not grow": with any
\* number of blocks and bytes, whatever the users write into their blocks and in
\* whatever order they give them back, no block is given out twice or lost, and
\* the ring is a queue.
THEOREM PoolAndRingHold == SpecStructures => []BuildingBlocksHold
<1>1. InitStructures => Building!PoolInv /\ Building!RingInv
  BY PoolInit, RingInit DEF InitStructures
<1>2. Building!PoolInv /\ Building!RingInv => BuildingBlocksHold
  BY PoolHolds, RingHolds, CardinalityIs DEF BuildingBlocksHold, Building!BuildingBlocksHold
<1> QED
  BY <1>1, <1>2, BlocksNext, BlocksStep, PTL DEF SpecStructures

-----------------------------------------------------------------------------
\* lists.c: the list.  ListInv in four parts: the types; nodes, which are exactly
\* those that are allocated, each once; the links between them; and where the
\* list's fields and the operation under way are.

Basics ==
    /\ lallocated \subseteq Nodes
    /\ lvalue \in [Nodes -> Values \cup {Garbage}]
    /\ lnext \in [Nodes -> Nodes \cup {NULL, Garbage}]
    /\ lpc \in {"idle", "remove", "reverse", "destroy"}
    /\ lpc = "remove" => lwanted \in Values

Each(n, nodes, all) ==
    /\ n \in Nat /\ n = Cardinality(all)
    /\ nodes \in [1 .. n -> all]
    /\ \A j, k \in 1 .. n : nodes[j] = nodes[k] => j = k
    /\ \A b \in all : \E k \in 1 .. n : nodes[k] = b

Links(n, nodes, turned, links) ==
    /\ turned \in 0 .. n
    /\ \A k \in 1 .. turned : links[nodes[k]] = IF k = 1 THEN NULL ELSE nodes[k - 1]
    /\ \A k \in turned + 1 .. n : links[nodes[k]] = IF k = n THEN NULL ELSE nodes[k + 1]

Place(n, nodes, turned) ==
    /\ IF lpc = "reverse" THEN lprev = IF turned = 0 THEN NULL ELSE nodes[turned] ELSE turned = 0
    /\ (IF lpc \in {"idle", "remove"} THEN lhead ELSE lcurr) =
           IF turned = n THEN NULL ELSE nodes[turned + 1]
    /\ lpc # "destroy" =>
           /\ lcount = n
           /\ ltail = IF n = 0 THEN NULL ELSE nodes[IF lpc = "reverse" THEN 1 ELSE n]
    /\ lpc = "remove" /\ llink # HeadField =>
           \E k \in 1 .. n : llink = nodes[k] /\ \A j \in 1 .. k : lvalue[nodes[j]] # lwanted

LEMMA ListCardinality == \A S : List!Cardinality(S) = Cardinality(S)
BY DEF List!Cardinality, Cardinality

LEMMA NodesAreFinite == \A S \in SUBSET Nodes : IsFiniteSet(S) /\ Cardinality(S) \in Nat
BY NodesAssumption, FS_Subset, FS_CardinalityType

LEMMA ListIs ==
    List!ListInv <=>
        Basics /\ \E n, nodes, turned : /\ Each(n, nodes, lallocated)
                                        /\ Links(n, nodes, turned, lnext)
                                        /\ Place(n, nodes, turned)
<1> USE ListCardinality
<1>1. ASSUME List!ListInv
      PROVE  Basics /\ \E n, nodes, turned : /\ Each(n, nodes, lallocated)
                                             /\ Links(n, nodes, turned, lnext)
                                             /\ Place(n, nodes, turned)
  <2>1. Basics
    BY <1>1 DEF List!ListInv, Basics
  <2>2. PICK n \in Nat : n = Cardinality(lallocated)
    BY <2>1, NodesAreFinite DEF Basics
  <2>3. PICK nodes \in [1 .. n -> lallocated] : \E turned \in 0 .. n : List!Strung(nodes, turned)
    BY <1>1, <2>2 DEF List!ListInv
  <2>4. PICK turned \in 0 .. n : List!Strung(nodes, turned)
    BY <2>3
  <2>5. Each(n, nodes, lallocated)
    BY <2>2, <2>4 DEF List!Strung, Each
  <2>6. Links(n, nodes, turned, lnext)
    BY <2>2, <2>4 DEF List!Strung, Links
  <2>7. Place(n, nodes, turned)
    BY <2>2, <2>4 DEF List!Strung, Place
  <2> QED
    BY <2>1, <2>5, <2>6, <2>7
<1>2. ASSUME Basics, NEW n, NEW nodes, NEW turned, Each(n, nodes, lallocated),
             Links(n, nodes, turned, lnext), Place(n, nodes, turned)
      PROVE  List!ListInv
  <2>1. n = Cardinality(lallocated) /\ nodes \in [1 .. n -> lallocated] /\ turned \in 0 .. n
    BY <1>2 DEF Each, Links
  <2>2. List!Strung(nodes, turned)
    BY <1>2, <2>1 DEF Each, Links, Place, List!Strung
  <2> QED
    BY <1>2, <2>1, <2>2 DEF Basics, List!ListInv
<1> QED
  BY <1>1, <1>2

\* A node less, a node more at either end, and the same nodes backwards.
Out(n, nodes, i) == [k \in 1 .. n - 1 |-> IF k < i THEN nodes[k] ELSE nodes[k + 1]]
First(n, nodes, b) == [k \in 1 .. n + 1 |-> IF k = 1 THEN b ELSE nodes[k - 1]]
Final(n, nodes, b) == [k \in 1 .. n + 1 |-> IF k = n + 1 THEN b ELSE nodes[k]]
Backwards(n, nodes) == [k \in 1 .. n |-> nodes[n + 1 - k]]

LEMMA OutEach ==
    ASSUME NEW n, NEW nodes, NEW all \in SUBSET Nodes, Each(n, nodes, all), NEW i \in 1 .. n
    PROVE  Each(n - 1, Out(n, nodes, i), all \ {nodes[i]}) /\ nodes[i] \in all
<1>1. n \in Nat /\ n - 1 \in Nat /\ nodes \in [1 .. n -> all] /\ nodes[i] \in all
  BY DEF Each
<1>2. Cardinality(all \ {nodes[i]}) = n - 1
  BY <1>1, NodesAreFinite, FS_RemoveElement DEF Each
<1>3. \A j, k \in 1 .. n : nodes[j] = nodes[k] => j = k
  BY DEF Each
<1> DEFINE at(k) == IF k < i THEN k ELSE k + 1
           rest == Out(n, nodes, i)
<1>4. \A k \in 1 .. n - 1 : at(k) \in 1 .. n /\ at(k) # i /\ rest[k] = nodes[at(k)]
  BY <1>1 DEF Out
<1>5. rest \in [1 .. n - 1 -> all \ {nodes[i]}]
  <2>1. \A k \in 1 .. n - 1 : rest[k] \in all \ {nodes[i]}
    BY <1>1, <1>3, <1>4
  <2>2. rest = [k \in 1 .. n - 1 |-> rest[k]]
    BY DEF Out
  <2> HIDE DEF rest
  <2> QED
    BY <2>1, <2>2
<1>6. ASSUME NEW j \in 1 .. n - 1, NEW k \in 1 .. n - 1, rest[j] = rest[k] PROVE j = k
  <2>1. at(j) = at(k)
    <3> HIDE DEF at, rest
    <3> QED
      BY <1>3, <1>4, <1>6
  <2> QED
    BY <2>1
<1>7. ASSUME NEW b \in all \ {nodes[i]} PROVE \E k \in 1 .. n - 1 : rest[k] = b
  <2>1. PICK k \in 1 .. n : nodes[k] = b
    BY DEF Each
  <2>2. CASE k < i
    <3>1. k \in 1 .. n - 1 /\ at(k) = k
      BY <1>1, <2>2
    <3> HIDE DEF at, rest
    <3> QED
      BY <1>4, <2>1, <3>1
  <2>3. CASE ~ (k < i)
    <3>1. k # i
      BY <2>1
    <3>2. k - 1 \in 1 .. n - 1 /\ at(k - 1) = k
      BY <1>1, <2>3, <3>1
    <3> HIDE DEF at, rest
    <3> QED
      BY <1>4, <2>1, <3>2
  <2> QED
    BY <2>2, <2>3
<1> HIDE DEF rest
<1> QED
  BY <1>1, <1>2, <1>5, <1>6, <1>7 DEF Each, rest

LEMMA FirstEach ==
    ASSUME NEW n, NEW nodes, NEW all \in SUBSET Nodes, Each(n, nodes, all), NEW b \in Nodes \ all
    PROVE  Each(n + 1, First(n, nodes, b), all \cup {b})
<1>1. n \in Nat /\ n + 1 \in Nat /\ nodes \in [1 .. n -> all]
  BY DEF Each
<1>2. Cardinality(all \cup {b}) = n + 1
  BY NodesAreFinite, FS_AddElement DEF Each
<1> DEFINE more == First(n, nodes, b)
<1>3. more[1] = b /\ \A k \in 2 .. n + 1 : k - 1 \in 1 .. n /\ more[k] = nodes[k - 1]
  BY <1>1 DEF First
<1>4. more \in [1 .. n + 1 -> all \cup {b}]
  BY <1>1 DEF First
<1> HIDE DEF more
<1>5. ASSUME NEW j \in 1 .. n + 1, NEW k \in 1 .. n + 1, more[j] = more[k] PROVE j = k
  <2>1. CASE j # 1 /\ k # 1
    <3>1. j \in 2 .. n + 1 /\ k \in 2 .. n + 1
      BY <2>1
    <3>2. j - 1 = k - 1
      BY <1>3, <1>5, <3>1 DEF Each
    <3> QED
      BY <3>2
  <2>2. CASE j = 1 \/ k = 1
    <3>1. (j # 1 => j \in 2 .. n + 1) /\ (k # 1 => k \in 2 .. n + 1)
      OBVIOUS
    <3>2. \A l \in 2 .. n + 1 : more[l] # b
      BY <1>1, <1>3
    <3> QED
      BY <1>3, <1>5, <2>2, <3>1, <3>2
  <2> QED
    BY <2>1, <2>2
<1>6. ASSUME NEW a \in all \cup {b} PROVE \E k \in 1 .. n + 1 : more[k] = a
  <2>1. CASE a = b
    BY <1>1, <1>3, <2>1
  <2>2. CASE a \in all
    <3>1. PICK k \in 1 .. n : nodes[k] = a
      BY <2>2 DEF Each
    <3>2. k + 1 \in 2 .. n + 1 /\ k + 1 \in 1 .. n + 1 /\ k + 1 - 1 = k
      BY <1>1
    <3> QED
      BY <1>3, <3>1, <3>2
  <2> QED
    BY <2>1, <2>2
<1> QED
  BY <1>1, <1>2, <1>4, <1>5, <1>6 DEF Each, more

LEMMA FinalEach ==
    ASSUME NEW n, NEW nodes, NEW all \in SUBSET Nodes, Each(n, nodes, all), NEW b \in Nodes \ all
    PROVE  Each(n + 1, Final(n, nodes, b), all \cup {b})
<1>1. n \in Nat /\ n + 1 \in Nat /\ nodes \in [1 .. n -> all]
  BY DEF Each
<1>2. Cardinality(all \cup {b}) = n + 1
  BY NodesAreFinite, FS_AddElement DEF Each
<1> DEFINE more == Final(n, nodes, b)
<1>3. more[n + 1] = b /\ \A k \in 1 .. n : more[k] = nodes[k]
  BY <1>1 DEF Final
<1>4. more \in [1 .. n + 1 -> all \cup {b}]
  BY <1>1 DEF Final
<1> HIDE DEF more
<1>5. ASSUME NEW j \in 1 .. n + 1, NEW k \in 1 .. n + 1, more[j] = more[k] PROVE j = k
  <2>1. (j # n + 1 => j \in 1 .. n) /\ (k # n + 1 => k \in 1 .. n)
    BY <1>1
  <2>2. \A l \in 1 .. n : more[l] # b
    BY <1>1, <1>3
  <2> QED
    BY <1>3, <1>5, <2>1, <2>2 DEF Each
<1>6. ASSUME NEW a \in all \cup {b} PROVE \E k \in 1 .. n + 1 : more[k] = a
  <2>1. CASE a = b
    BY <1>1, <1>3, <2>1
  <2>2. CASE a \in all
    <3>1. PICK k \in 1 .. n : nodes[k] = a
      BY <2>2 DEF Each
    <3> QED
      BY <1>1, <1>3, <3>1
  <2> QED
    BY <2>1, <2>2
<1> QED
  BY <1>1, <1>2, <1>4, <1>5, <1>6 DEF Each, more

LEMMA BackwardsEach ==
    ASSUME NEW n, NEW nodes, NEW all, Each(n, nodes, all)
    PROVE  Each(n, Backwards(n, nodes), all)
<1>1. n \in Nat /\ nodes \in [1 .. n -> all]
  BY DEF Each
<1> DEFINE back == Backwards(n, nodes)
<1>2. \A k \in 1 .. n : n + 1 - k \in 1 .. n /\ back[k] = nodes[n + 1 - k]
  BY <1>1 DEF Backwards
<1>3. back \in [1 .. n -> all]
  BY <1>1, <1>2 DEF Backwards
<1> HIDE DEF back
<1>4. ASSUME NEW j \in 1 .. n, NEW k \in 1 .. n, back[j] = back[k] PROVE j = k
  <2>1. n + 1 - j = n + 1 - k
    BY <1>2, <1>4 DEF Each
  <2> QED
    BY <1>1, <2>1
<1>5. ASSUME NEW a \in all PROVE \E k \in 1 .. n : back[k] = a
  <2>1. PICK k \in 1 .. n : nodes[k] = a
    BY DEF Each
  <2>2. n + 1 - k \in 1 .. n /\ n + 1 - (n + 1 - k) = k
    BY <1>1
  <2> QED
    BY <1>2, <2>1, <2>2
<1> QED
  BY <1>1, <1>3, <1>4, <1>5 DEF Each, back

\* What a step does to the links of the nodes.
LEMMA OutLinks ==
    ASSUME NEW n, NEW nodes, Each(n, nodes, lallocated), Basics, NEW i \in 1 .. n,
           Links(n, nodes, 0, lnext), NEW links, NEW content,
           links = [(IF i = 1 THEN lnext ELSE [lnext EXCEPT ![nodes[i - 1]] = lnext[nodes[i]]])
                        EXCEPT ![nodes[i]] = content]
    PROVE  Links(n - 1, Out(n, nodes, i), 0, links)
<1>1. n \in Nat /\ n - 1 \in Nat /\ nodes \in [1 .. n -> lallocated] /\ lallocated \subseteq Nodes
  BY DEF Each, Basics
<1>2. \A j, k \in 1 .. n : nodes[j] = nodes[k] => j = k
  BY DEF Each
<1>3. \A k \in 1 .. n : lnext[nodes[k]] = IF k = n THEN NULL ELSE nodes[k + 1]
  BY DEF Links
<1>4. ASSUME NEW k \in 1 .. n, k # i
      PROVE  links[nodes[k]] = IF i # 1 /\ k = i - 1 THEN lnext[nodes[i]] ELSE lnext[nodes[k]]
  <2>1. nodes[k] # nodes[i] /\ nodes[k] \in Nodes
    BY <1>1, <1>2, <1>4
  <2>2. links[nodes[k]] =
          (IF i = 1 THEN lnext ELSE [lnext EXCEPT ![nodes[i - 1]] = lnext[nodes[i]]])[nodes[k]]
    BY <2>1 DEF Basics
  <2>3. CASE i = 1
    BY <2>2, <2>3
  <2>4. CASE i # 1
    <3>1. i - 1 \in 1 .. n
      BY <1>1, <2>4
    <3>2. nodes[i - 1] = nodes[k] <=> k = i - 1
      BY <1>2, <3>1
    <3> QED
      BY <2>1, <2>2, <2>4, <3>2 DEF Basics
  <2> QED
    BY <2>3, <2>4
<1> DEFINE rest == Out(n, nodes, i)
<1>5. \A k \in 1 .. n - 1 : rest[k] = IF k < i THEN nodes[k] ELSE nodes[k + 1]
  BY DEF Out
<1>6. ASSUME NEW k \in 1 .. n - 1 PROVE links[rest[k]] = IF k = n - 1 THEN NULL ELSE rest[k + 1]
  <2>1. k \in 1 .. n /\ k + 1 \in 1 .. n /\ k + 1 - 1 = k
    BY <1>1
  <2>2. k # n - 1 => k + 1 \in 1 .. n - 1 /\ k + 1 # n
    BY <1>1
  <2>3. CASE k < i /\ k # i - 1
    <3>1. k # i /\ k # n /\ k # n - 1 /\ k + 1 < i
      BY <1>1, <2>3
    <3>2. links[nodes[k]] = nodes[k + 1]
      BY <1>3, <1>4, <2>1, <2>3, <3>1
    <3> QED
      BY <1>5, <2>2, <2>3, <3>1, <3>2
  <2>4. CASE k = i - 1
    <3>1. k # i /\ i # 1 /\ k < i /\ k + 1 = i /\ k # n /\ ~ (k + 1 < i)
      BY <1>1, <2>4
    <3>2. links[nodes[k]] = IF i = n THEN NULL ELSE nodes[i + 1]
      BY <1>3, <1>4, <2>1, <2>4, <3>1
    <3>3. i = n <=> k = n - 1
      BY <1>1, <2>4
    <3> QED
      BY <1>5, <2>2, <3>1, <3>2, <3>3
  <2>5. CASE ~ (k < i)
    <3>1. k + 1 # i /\ k + 1 # i - 1 /\ ~ (k + 1 < i)
      BY <2>5
    <3>2. links[nodes[k + 1]] = IF k + 1 = n THEN NULL ELSE nodes[k + 1 + 1]
      BY <1>3, <1>4, <2>1, <3>1
    <3>3. k + 1 = n <=> k = n - 1
      BY <1>1
    <3> QED
      BY <1>5, <2>2, <2>5, <3>1, <3>2, <3>3
  <2> QED
    BY <2>3, <2>4, <2>5
<1> HIDE DEF rest
<1>7. /\ 0 \in 0 .. n - 1
      /\ \A k \in 1 .. 0 : links[rest[k]] = IF k = 1 THEN NULL ELSE rest[k - 1]
      /\ \A k \in 0 + 1 .. n - 1 : links[rest[k]] = IF k = n - 1 THEN NULL ELSE rest[k + 1]
  <2>1. 0 + 1 = 1 /\ 0 \in 0 .. n - 1 /\ 1 .. 0 = {}
    BY <1>1
  <2> QED
    BY <1>6, <2>1
<1>8. Links(n - 1, rest, 0, links)
  BY <1>7 DEF Links
<1> QED
  BY <1>8 DEF rest

LEMMA FirstLinks ==
    ASSUME NEW n, NEW nodes, Each(n, nodes, lallocated), Basics, NEW b \in Nodes \ lallocated,
           Links(n, nodes, 0, lnext), NEW links, NEW h,
           h = IF 0 = n THEN NULL ELSE nodes[0 + 1], links = [lnext EXCEPT ![b] = h]
    PROVE  Links(n + 1, First(n, nodes, b), 0, links)
<1>1. n \in Nat /\ nodes \in [1 .. n -> lallocated] /\ lallocated \subseteq Nodes
  BY DEF Each, Basics
<1>2. \A k \in 1 .. n : lnext[nodes[k]] = IF k = n THEN NULL ELSE nodes[k + 1]
  BY DEF Links
<1> DEFINE more == First(n, nodes, b)
<1>3. \A k \in 1 .. n + 1 : more[k] = IF k = 1 THEN b ELSE nodes[k - 1]
  BY DEF First
<1> HIDE DEF more
<1>4. ASSUME NEW k \in 1 .. n + 1 PROVE links[more[k]] = IF k = n + 1 THEN NULL ELSE more[k + 1]
  <2>1. CASE k = 1
    <3>1. more[1] = b /\ links[b] = h
      BY <1>1, <1>3 DEF Basics
    <3>2. n # 0 => 2 \in 1 .. n + 1 /\ more[2] = nodes[1]
      BY <1>1, <1>3
    <3> QED
      BY <1>1, <2>1, <3>1, <3>2
  <2>2. CASE k # 1
    <3>1. k - 1 \in 1 .. n /\ k - 1 + 1 = k /\ (k - 1 = n <=> k = n + 1)
      BY <1>1, <2>2
    <3>2. nodes[k - 1] # b /\ links[nodes[k - 1]] = lnext[nodes[k - 1]]
      BY <1>1, <3>1 DEF Basics
    <3>3. k # n + 1 => k + 1 \in 1 .. n + 1 /\ more[k + 1] = nodes[k + 1 - 1] /\ k + 1 - 1 = k
      BY <1>1, <1>3, <2>2
    <3> QED
      BY <1>2, <1>3, <2>2, <3>1, <3>2, <3>3
  <2> QED
    BY <2>1, <2>2
<1>5. /\ 0 \in 0 .. n + 1
      /\ \A k \in 1 .. 0 : links[more[k]] = IF k = 1 THEN NULL ELSE more[k - 1]
      /\ \A k \in 0 + 1 .. n + 1 : links[more[k]] = IF k = n + 1 THEN NULL ELSE more[k + 1]
  <2>1. 0 + 1 = 1 /\ 0 \in 0 .. n + 1 /\ 1 .. 0 = {}
    BY <1>1
  <2> QED
    BY <1>4, <2>1
<1>6. Links(n + 1, more, 0, links)
  BY <1>5 DEF Links
<1> QED
  BY <1>6 DEF more

LEMMA FinalLinks ==
    ASSUME NEW n, NEW nodes, Each(n, nodes, lallocated), Basics, NEW b \in Nodes \ lallocated,
           Links(n, nodes, 0, lnext), NEW links,
           links = IF n # 0 THEN [lnext EXCEPT ![nodes[n]] = b, ![b] = NULL]
                   ELSE [lnext EXCEPT ![b] = NULL]
    PROVE  Links(n + 1, Final(n, nodes, b), 0, links)
<1>1. n \in Nat /\ nodes \in [1 .. n -> lallocated] /\ lallocated \subseteq Nodes
  BY DEF Each, Basics
<1>2. \A k \in 1 .. n : lnext[nodes[k]] = IF k = n THEN NULL ELSE nodes[k + 1]
  BY DEF Links
<1> DEFINE more == Final(n, nodes, b)
<1>3. more[n + 1] = b /\ \A k \in 1 .. n : more[k] = nodes[k]
  BY <1>1 DEF Final
<1> HIDE DEF more
<1>4. links[b] = NULL
  BY <1>1 DEF Basics
<1>5. ASSUME NEW k \in 1 .. n PROVE links[nodes[k]] = IF k = n THEN b ELSE lnext[nodes[k]]
  <2>1. n # 0 /\ n \in 1 .. n
    BY <1>1
  <2>2. nodes[k] \in Nodes /\ nodes[k] # b /\ nodes[n] # b
    BY <1>1, <2>1
  <2>3. nodes[k] = nodes[n] <=> k = n
    BY <2>1 DEF Each
  <2> QED
    BY <1>1, <2>1, <2>2, <2>3 DEF Basics
<1>6. ASSUME NEW k \in 1 .. n + 1 PROVE links[more[k]] = IF k = n + 1 THEN NULL ELSE more[k + 1]
  <2>1. CASE k = n + 1
    BY <1>3, <1>4, <2>1
  <2>2. CASE k # n + 1
    <3>1. k \in 1 .. n /\ (k # n => k + 1 \in 1 .. n)
      BY <1>1, <2>2
    <3> QED
      BY <1>2, <1>3, <1>5, <2>2, <3>1
  <2> QED
    BY <2>1, <2>2
<1>7. /\ 0 \in 0 .. n + 1
      /\ \A k \in 1 .. 0 : links[more[k]] = IF k = 1 THEN NULL ELSE more[k - 1]
      /\ \A k \in 0 + 1 .. n + 1 : links[more[k]] = IF k = n + 1 THEN NULL ELSE more[k + 1]
  <2>1. 0 + 1 = 1 /\ 0 \in 0 .. n + 1 /\ 1 .. 0 = {}
    BY <1>1
  <2> QED
    BY <1>6, <2>1
<1>8. Links(n + 1, more, 0, links)
  BY <1>7 DEF Links
<1> QED
  BY <1>8 DEF more

LEMMA TurnLinks ==
    ASSUME NEW n, NEW nodes, Each(n, nodes, lallocated), Basics, NEW turned \in 0 .. n - 1,
           Links(n, nodes, turned, lnext), NEW links,
           links = [lnext EXCEPT ![nodes[turned + 1]] = IF turned = 0 THEN NULL ELSE nodes[turned]]
    PROVE  Links(n, nodes, turned + 1, links)
<1>1. n \in Nat /\ nodes \in [1 .. n -> lallocated] /\ lallocated \subseteq Nodes
  BY DEF Each, Basics
<1>2. turned + 1 \in 1 .. n /\ turned + 1 \in 0 .. n /\ nodes[turned + 1] \in Nodes
  BY <1>1
<1>3. \A k \in 1 .. n : nodes[k] = nodes[turned + 1] <=> k = turned + 1
  BY <1>2 DEF Each
<1>4. links[nodes[turned + 1]] = IF turned = 0 THEN NULL ELSE nodes[turned]
  BY <1>2 DEF Basics
<1>5. \A k \in 1 .. n : k # turned + 1 => links[nodes[k]] = lnext[nodes[k]]
  BY <1>1, <1>2, <1>3 DEF Basics
<1>6. ASSUME NEW k \in 1 .. turned + 1 PROVE links[nodes[k]] = IF k = 1 THEN NULL ELSE nodes[k - 1]
  <2>1. CASE k = turned + 1
    <3>1. k - 1 = turned
      BY <2>1
    <3> QED
      BY <1>4, <2>1, <3>1
  <2>2. CASE k # turned + 1
    <3>1. k \in 1 .. turned /\ k \in 1 .. n
      BY <1>1, <2>2
    <3> QED
      BY <1>5, <2>2, <3>1 DEF Links
  <2> QED
    BY <2>1, <2>2
<1>7. ASSUME NEW k \in turned + 1 + 1 .. n PROVE links[nodes[k]] = IF k = n THEN NULL ELSE nodes[k + 1]
  <2>1. k \in turned + 1 .. n /\ k \in 1 .. n /\ k # turned + 1
    BY <1>1
  <2> QED
    BY <1>5, <2>1 DEF Links
<1> QED
  BY <1>2, <1>6, <1>7 DEF Links

LEMMA BackLinks ==
    ASSUME NEW n, NEW nodes, Each(n, nodes, lallocated), Links(n, nodes, n, lnext)
    PROVE  Links(n, Backwards(n, nodes), 0, lnext)
<1>1. n \in Nat
  BY DEF Each
<1> DEFINE back == Backwards(n, nodes)
<1>2. \A k \in 1 .. n : back[k] = nodes[n + 1 - k]
  BY DEF Backwards
<1> HIDE DEF back
<1>3. ASSUME NEW k \in 1 .. n PROVE lnext[back[k]] = IF k = n THEN NULL ELSE back[k + 1]
  <2>1. n + 1 - k \in 1 .. n /\ (n + 1 - k = 1 <=> k = n)
    BY <1>1
  <2>2. lnext[nodes[n + 1 - k]] = IF k = n THEN NULL ELSE nodes[n + 1 - k - 1]
    BY <2>1 DEF Links
  <2>3. k # n => k + 1 \in 1 .. n /\ n + 1 - (k + 1) = n + 1 - k - 1
    BY <1>1
  <2> QED
    BY <1>2, <2>2, <2>3
<1>4. 0 \in 0 .. n /\ 0 + 1 = 1
  BY <1>1
<1> QED
  BY <1>3, <1>4 DEF Links, back

-----------------------------------------------------------------------------
\* Chains: the nodes path that next leads to from the node from.
Path(from, len, path) ==
    /\ len \in 0 .. Cardinality(Nodes) /\ path \in [1 .. len -> lallocated]
    /\ from = IF len = 0 THEN NULL ELSE path[1]
    /\ \A k \in 1 .. len : lnext[path[k]] = IF k = len THEN NULL ELSE path[k + 1]

LEMMA FollowingIs ==
    ASSUME Basics, NEW from, NEW len, NEW path, Path(from, len, path)
    PROVE  \A k \in Nat : List!Following(from, k) = IF k < len THEN path[k + 1] ELSE NULL
<1>1. len \in Nat /\ NULL \notin lallocated
  BY NodesAssumption, NodesAreFinite DEF Path, Basics
<1> DEFINE at(k) == IF k < len THEN path[k + 1] ELSE NULL
           Is(f) == f = [j \in Nat |->
                   IF j = 0 THEN from ELSE IF f[j - 1] \in lallocated THEN lnext[f[j - 1]] ELSE NULL]
           g == [j \in Nat |-> at(j)]
<1>2. from = at(0)
  BY <1>1 DEF Path
<1>3. ASSUME NEW j \in Nat, j # 0
      PROVE  at(j) = IF at(j - 1) \in lallocated THEN lnext[at(j - 1)] ELSE NULL
  <2>1. CASE j - 1 < len
    <3>1. j \in 1 .. len /\ at(j - 1) = path[j] /\ path[j] \in lallocated
      BY <1>1, <1>3, <2>1 DEF Path
    <3>2. lnext[path[j]] = IF j = len THEN NULL ELSE path[j + 1]
      BY <3>1 DEF Path
    <3> QED
      BY <1>1, <3>1, <3>2
  <2>2. CASE ~ (j - 1 < len)
    BY <1>1, <1>3, <2>2
  <2> QED
    BY <2>1, <2>2
<1>4. Is(g)
  <2>1. \A j \in Nat :
           g[j] = IF j = 0 THEN from ELSE IF g[j - 1] \in lallocated THEN lnext[g[j - 1]] ELSE NULL
    <3> SUFFICES ASSUME NEW j \in Nat
                 PROVE  g[j] = IF j = 0 THEN from
                               ELSE IF g[j - 1] \in lallocated THEN lnext[g[j - 1]] ELSE NULL
      OBVIOUS
    <3>1. g[j] = at(j) /\ (j # 0 => j - 1 \in Nat /\ g[j - 1] = at(j - 1))
      OBVIOUS
    <3> HIDE DEF g, at
    <3> QED
      BY <1>2, <1>3, <3>1
  <2>2. g = [j \in Nat |-> g[j]]
    OBVIOUS
  <2> HIDE DEF g
  <2> QED
    BY <2>1, <2>2
<1>5. PICK h : Is(h) /\ \A k : List!Following(from, k) = h[k]
  <2>1. \A k : List!Following(from, k) = (CHOOSE h : Is(h))[k]
    BY DEF List!Following
  <2>2. Is(CHOOSE h : Is(h))
    <3> HIDE DEF Is, g
    <3> QED
      BY <1>4
  <2> HIDE DEF Is
  <2> QED
    BY <2>1, <2>2
<1>6. \A j \in Nat :
         h[j] = IF j = 0 THEN from ELSE IF h[j - 1] \in lallocated THEN lnext[h[j - 1]] ELSE NULL
  BY <1>5
<1> DEFINE T == {j \in Nat : h[j] = at(j)}
<1> HIDE DEF Is, g
<1>7. 0 \in T
  BY <1>2, <1>6
<1>8. ASSUME NEW j \in Nat, j \in T PROVE j + 1 \in T
  <2>1. j + 1 \in Nat /\ j + 1 # 0 /\ j + 1 - 1 = j /\ h[j] = at(j)
    BY <1>8
  <2>2. h[j + 1] = IF h[j + 1 - 1] \in lallocated THEN lnext[h[j + 1 - 1]] ELSE NULL
    BY <1>6, <2>1
  <2>3. at(j + 1) = IF at(j + 1 - 1) \in lallocated THEN lnext[at(j + 1 - 1)] ELSE NULL
    BY <1>3, <2>1
  <2> HIDE DEF at
  <2> QED
    BY <2>1, <2>2, <2>3
<1>9. Nat \subseteq T
  <2> HIDE DEF T
  <2> QED
    BY <1>7, <1>8, NatSet
<1>10. \A k \in Nat : h[k] = at(k)
  BY <1>9
<1> QED
  BY <1>5, <1>10

LEMMA ChainIs ==
    Basics => \A from, len, path : Path(from, len, path) =>
        /\ List!ChainLength(from) = len
        /\ List!Chain(from) = path
        /\ List!ValuesFrom(from) = [k \in 1 .. len |-> lvalue[path[k]]]
        /\ List!Following(from, len) = NULL
<1> SUFFICES ASSUME Basics, NEW from, NEW len, NEW path, Path(from, len, path)
             PROVE  /\ List!ChainLength(from) = len
                    /\ List!Chain(from) = path
                    /\ List!ValuesFrom(from) = [k \in 1 .. len |-> lvalue[path[k]]]
                    /\ List!Following(from, len) = NULL
  OBVIOUS
<1>1. /\ Cardinality(Nodes) \in Nat /\ len \in Nat /\ len <= Cardinality(Nodes)
      /\ path \in [1 .. len -> lallocated] /\ NULL \notin lallocated
  BY NodesAssumption, NodesAreFinite DEF Path, Basics
<1> DEFINE at(k) == List!Following(from, k)
           Fits(k) == /\ k = Cardinality(Nodes) + 1 \/ at(k) \notin lallocated
                      /\ \A j \in 0 .. k - 1 : at(j) \in lallocated
<1>2. \A k \in Nat : at(k) = IF k < len THEN path[k + 1] ELSE NULL
  BY FollowingIs
<1> HIDE DEF at
<1>3. \A k \in 0 .. len - 1 : k \in Nat /\ k < len /\ k + 1 \in 1 .. len /\ at(k) \in lallocated
  BY <1>1, <1>2
<1>4. at(len) = NULL /\ at(len) \notin lallocated
  BY <1>1, <1>2
<1>5. len \in 0 .. Cardinality(Nodes) + 1 /\ Fits(len)
  BY <1>1, <1>3, <1>4
<1>6. ASSUME NEW k \in 0 .. Cardinality(Nodes) + 1, Fits(k) PROVE k = len
  <2>1. CASE k < len
    <3>1. k \in 0 .. len - 1 /\ k # Cardinality(Nodes) + 1
      BY <1>1, <2>1
    <3> QED
      BY <1>3, <1>6, <3>1
  <2>2. CASE len < k
    <3>1. len \in 0 .. k - 1
      BY <1>1, <2>2
    <3> QED
      BY <1>4, <1>6, <3>1
  <2> QED
    BY <1>1, <2>1, <2>2
<1>7. List!ChainLength(from) = CHOOSE k \in 0 .. Cardinality(Nodes) + 1 : Fits(k)
  BY ListCardinality DEF List!ChainLength, at
<1>8. List!ChainLength(from) = len
  <2> HIDE DEF Fits
  <2> QED
    BY <1>5, <1>6, <1>7
<1>9. \A k \in 1 .. len : at(k - 1) = path[k]
  <2> SUFFICES ASSUME NEW k \in 1 .. len PROVE at(k - 1) = path[k]
    OBVIOUS
  <2>1. k - 1 \in Nat /\ k - 1 < len /\ k - 1 + 1 = k
    BY <1>1
  <2> QED
    BY <1>2, <2>1
<1>10. List!Chain(from) = [k \in 1 .. len |-> at(k - 1)]
  BY <1>8 DEF List!Chain, at
<1>11. List!ValuesFrom(from) = [k \in 1 .. len |-> lvalue[at(k - 1)]]
  BY <1>8 DEF List!ValuesFrom, at
<1> QED
  BY <1>1, <1>4, <1>8, <1>9, <1>10, <1>11 DEF at

-----------------------------------------------------------------------------
\* What the list holds: the values of its nodes.
Held(n, nodes) == [k \in 1 .. n |-> lvalue[nodes[k]]]

\* The nodes from a place on, and those before one backwards, are chains.
LEMMA Chains ==
    ASSUME Basics, NEW n, NEW nodes, NEW turned, Each(n, nodes, lallocated),
           Links(n, nodes, turned, lnext)
    PROVE  /\ Path(IF turned = n THEN NULL ELSE nodes[turned + 1], n - turned,
                   [k \in 1 .. n - turned |-> nodes[turned + k]])
           /\ Path(IF turned = 0 THEN NULL ELSE nodes[turned], turned,
                   [k \in 1 .. turned |-> nodes[turned + 1 - k]])
<1>1. /\ n \in Nat /\ turned \in 0 .. n /\ n - turned \in 0 .. n
      /\ nodes \in [1 .. n -> lallocated]
  BY DEF Each, Links
<1>2. n <= Cardinality(Nodes) /\ Cardinality(Nodes) \in Nat
  BY NodesAssumption, FS_Subset, FS_CardinalityType DEF Basics, Each
<1>3. /\ \A k \in 1 .. turned : lnext[nodes[k]] = IF k = 1 THEN NULL ELSE nodes[k - 1]
      /\ \A k \in turned + 1 .. n : lnext[nodes[k]] = IF k = n THEN NULL ELSE nodes[k + 1]
  BY DEF Links
<1> DEFINE rest == [k \in 1 .. n - turned |-> nodes[turned + k]]
           done == [k \in 1 .. turned |-> nodes[turned + 1 - k]]
<1>4. rest \in [1 .. n - turned -> lallocated] /\ done \in [1 .. turned -> lallocated]
  BY <1>1
<1>5. ASSUME NEW k \in 1 .. n - turned PROVE lnext[rest[k]] = IF k = n - turned THEN NULL ELSE rest[k + 1]
  <2>1. turned + k \in turned + 1 .. n /\ (turned + k = n <=> k = n - turned)
    BY <1>1
  <2>2. k # n - turned => k + 1 \in 1 .. n - turned /\ turned + (k + 1) = turned + k + 1
    BY <1>1
  <2> QED
    BY <1>3, <2>1, <2>2
<1>6. ASSUME NEW k \in 1 .. turned PROVE lnext[done[k]] = IF k = turned THEN NULL ELSE done[k + 1]
  <2>1. PICK m \in 1 .. turned : m = turned + 1 - k
    BY <1>1
  <2>2. lnext[nodes[m]] = IF m = 1 THEN NULL ELSE nodes[m - 1]
    BY <1>3
  <2>3. done[k] = nodes[m]
    BY <2>1
  <2>4. m = 1 <=> k = turned
    BY <1>1, <2>1
  <2>5. ASSUME k # turned PROVE done[k + 1] = nodes[m - 1]
    <3>1. k + 1 \in 1 .. turned /\ turned + 1 - (k + 1) = m - 1
      BY <1>1, <2>1, <2>5
    <3> QED
      BY <3>1
  <2> HIDE DEF done
  <2> QED
    BY <2>2, <2>3, <2>4, <2>5
<1>7. /\ (IF turned = n THEN NULL ELSE nodes[turned + 1]) = IF n - turned = 0 THEN NULL ELSE rest[1]
      /\ (IF turned = 0 THEN NULL ELSE nodes[turned]) = IF turned = 0 THEN NULL ELSE done[1]
  <2>1. n # turned => 1 \in 1 .. n - turned
    BY <1>1
  <2>2. turned # 0 => 1 \in 1 .. turned /\ turned + 1 - 1 = turned
    BY <1>1
  <2> QED
    BY <1>1, <2>1, <2>2
<1>8. turned \in 0 .. Cardinality(Nodes) /\ n - turned \in 0 .. Cardinality(Nodes)
  BY <1>1, <1>2
<1> HIDE DEF rest, done
<1>9. Path(IF turned = n THEN NULL ELSE nodes[turned + 1], n - turned, rest)
  BY <1>4, <1>5, <1>7, <1>8 DEF Path
<1>10. Path(IF turned = 0 THEN NULL ELSE nodes[turned], turned, done)
  BY <1>4, <1>6, <1>7, <1>8 DEF Path
<1> QED
  BY <1>9, <1>10 DEF rest, done

\* What was taken from the front of a sequence, turned round again, and the rest.
Whole(f, n, taken) ==
    f = List!Reverse([k \in 1 .. taken |-> f[taken + 1 - k]]) \o [k \in 1 .. n - taken |-> f[taken + k]]

LEMMA HalvesAre ==
    ASSUME NEW X, NEW n \in Nat, NEW taken \in 0 .. n, NEW f \in [1 .. n -> X]
    PROVE  Whole(f, n, taken)
<1>1. taken \in Nat /\ n - taken \in Nat
  OBVIOUS
<1> DEFINE behind == [k \in 1 .. taken |-> f[taken + 1 - k]]
           back == [k \in 1 .. taken |-> behind[taken - k + 1]]
           ahead == [k \in 1 .. n - taken |-> f[taken + k]]
<1>2. List!Reverse(behind) = back
  <2>1. Len(behind) = taken
    BY <1>1
  <2> HIDE DEF behind
  <2> QED
    BY <2>1 DEF List!Reverse
<1>3. \A k \in 1 .. taken : back[k] = f[k]
  <2> SUFFICES ASSUME NEW k \in 1 .. taken PROVE back[k] = f[k]
    OBVIOUS
  <2>1. taken - k + 1 \in 1 .. taken /\ taken + 1 - (taken - k + 1) = k
    OBVIOUS
  <2> QED
    BY <2>1
<1>4. back \in [1 .. taken -> X] /\ ahead \in [1 .. n - taken -> X]
  <2>1. back = [k \in 1 .. taken |-> back[k]] /\ \A k \in 1 .. taken : k \in 1 .. n
    OBVIOUS
  <2>2. \A k \in 1 .. n - taken : taken + k \in 1 .. n
    OBVIOUS
  <2>3. ahead \in [1 .. n - taken -> X]
    BY <2>2
  <2> HIDE DEF back
  <2> QED
    BY <1>3, <2>1, <2>3
<1>5. \A k \in 1 .. n - taken : ahead[k] = f[taken + k]
  OBVIOUS
<1> HIDE DEF back, ahead
<1>6. back \in Seq(X) /\ ahead \in Seq(X) /\ Len(back) = taken /\ Len(ahead) = n - taken
  BY <1>1, <1>4
<1>7. PICK x \in Seq(X) : x = back \o ahead
  <2>1. back \o ahead \in Seq(X)
    BY <1>6, ConcatProperties
  <2> QED
    BY <2>1
<1>8. /\ Len(x) = taken + (n - taken)
      /\ \A k \in 1 .. taken + (n - taken) : x[k] = IF k <= taken THEN back[k] ELSE ahead[k - taken]
  <2>1. /\ Len(x) = Len(back) + Len(ahead)
        /\ \A k \in 1 .. Len(back) + Len(ahead) : x[k] = IF k <= Len(back) THEN back[k] ELSE ahead[k - Len(back)]
    BY <1>6, <1>7, ConcatProperties
  <2> QED
    BY <1>6, <2>1
<1>9. taken + (n - taken) = n
  OBVIOUS
<1>10. x \in [1 .. n -> X]
  BY <1>8, <1>9, LenProperties
<1>11. ASSUME NEW k \in 1 .. n PROVE x[k] = f[k]
  <2>1. ~ (k <= taken) => k - taken \in 1 .. n - taken /\ taken + (k - taken) = k
    OBVIOUS
  <2> QED
    BY <1>3, <1>5, <1>8, <1>9, <2>1
<1>12. x = f
  BY <1>10, <1>11
<1> QED
  BY <1>2, <1>7, <1>12 DEF Whole, ahead

\* Where the nodes are, whatever operation is under way.
Stand(n, nodes, turned) ==
    Each(n, nodes, lallocated) /\ Links(n, nodes, turned, lnext) /\ Place(n, nodes, turned)

LEMMA ContentsAre ==
    Basics => \A n, nodes, turned : Stand(n, nodes, turned) => List!Contents = Held(n, nodes)
<1> SUFFICES ASSUME Basics, NEW n, NEW nodes, NEW turned, Stand(n, nodes, turned)
             PROVE  List!Contents = Held(n, nodes)
  OBVIOUS
<1>1. Each(n, nodes, lallocated) /\ Links(n, nodes, turned, lnext) /\ Place(n, nodes, turned)
  BY DEF Stand
<1>2. n \in Nat /\ turned \in 0 .. n /\ n - turned \in Nat
  BY <1>1 DEF Each, Links
<1> DEFINE to == IF turned = n THEN NULL ELSE nodes[turned + 1]
           from == IF turned = 0 THEN NULL ELSE nodes[turned]
           rest == [k \in 1 .. n - turned |-> nodes[turned + k]]
           done == [k \in 1 .. turned |-> nodes[turned + 1 - k]]
           all == Held(n, nodes)
           ahead == [k \in 1 .. n - turned |-> all[turned + k]]
           behind == [k \in 1 .. turned |-> all[turned + 1 - k]]
<1>3. Path(to, n - turned, rest) /\ Path(from, turned, done)
  BY <1>1, Chains
<1>4. \A k \in 1 .. n : all[k] = lvalue[nodes[k]]
  BY DEF Held
<1> HIDE DEF all
<1>5. /\ \A k \in 1 .. n - turned : turned + k \in 1 .. n
      /\ \A k \in 1 .. turned : turned + 1 - k \in 1 .. n
  BY <1>2
<1>6. List!ValuesFrom(to) = ahead
  <2>1. List!ValuesFrom(to) = [k \in 1 .. n - turned |-> lvalue[rest[k]]]
    <3> HIDE DEF to, rest
    <3> QED
      BY <1>3, ChainIs
  <2> QED
    BY <1>4, <1>5, <2>1
<1>7. List!ValuesFrom(from) = behind
  <2>1. List!ValuesFrom(from) = [k \in 1 .. turned |-> lvalue[done[k]]]
    <3> HIDE DEF from, done
    <3> QED
      BY <1>3, ChainIs
  <2> QED
    BY <1>4, <1>5, <2>1
<1>8. CASE lpc = "reverse"
  <2>1. lprev = from /\ lcurr = to
    BY <1>1, <1>8 DEF Place
  <2>2. List!Contents = List!Reverse(behind) \o ahead
    <3> HIDE DEF to, from, ahead, behind
    <3> QED
      BY <1>6, <1>7, <1>8, <2>1 DEF List!Contents
  <2>3. all \in [1 .. n -> {lvalue[nodes[k]] : k \in 1 .. n}]
    BY DEF all, Held
  <2>4. Whole(all, n, turned)
    BY <1>2, <2>3, HalvesAre
  <2> QED
    BY <2>2, <2>4 DEF Whole, all
<1>9. CASE lpc # "reverse"
  <2>1. turned = 0 /\ (IF lpc \in {"idle", "remove"} THEN lhead ELSE lcurr) = to
    BY <1>1, <1>9 DEF Place
  <2>2. List!Contents = List!ValuesFrom(to)
    BY <1>9, <2>1 DEF Basics, List!Contents
  <2>3. ahead = all
    BY <1>2, <2>1 DEF all, Held
  <2> QED
    BY <1>6, <2>2, <2>3 DEF all
<1> QED
  BY <1>8, <1>9

LEMMA ShapeIs ==
    ASSUME Basics, NEW n, NEW nodes, NEW turned, Stand(n, nodes, turned)
    PROVE  List!Shape
<1>1. Each(n, nodes, lallocated) /\ Links(n, nodes, turned, lnext) /\ Place(n, nodes, turned)
  BY DEF Stand
<1>2. n \in Nat /\ turned \in 0 .. n /\ n - turned \in Nat /\ nodes \in [1 .. n -> lallocated]
  BY <1>1 DEF Each, Links
<1> DEFINE to == IF turned = n THEN NULL ELSE nodes[turned + 1]
           from == IF turned = 0 THEN NULL ELSE nodes[turned]
           rest == [k \in 1 .. n - turned |-> nodes[turned + k]]
           done == [k \in 1 .. turned |-> nodes[turned + 1 - k]]
<1>3. Path(to, n - turned, rest) /\ Path(from, turned, done)
  BY <1>1, Chains
<1>4. List!Chain(to) = rest /\ List!Chain(from) = done /\ List!Following(to, n - turned) = NULL
  <2> HIDE DEF to, from, rest, done
  <2> QED
    BY <1>3, ChainIs
<1>5. List!ChainIs(nodes)
  <2>1. Len(nodes) = List!Cardinality(lallocated)
    BY <1>1, <1>2, ListCardinality DEF Each
  <2>2. List!ToSet(nodes) = lallocated
    BY <1>1, <1>2 DEF Each, List!ToSet
  <2> QED
    BY <2>1, <2>2 DEF List!ChainIs
<1>6. turned = 0 => rest = nodes
  BY <1>2
<1> HIDE DEF rest, done
<1>7. lpc \in {"idle", "remove"} =>
          /\ List!ChainIs(List!Chain(lhead))
          /\ lcount = Len(List!Chain(lhead))
          /\ ltail = IF lhead = NULL THEN NULL ELSE List!Last(List!Chain(lhead))
          /\ List!Following(lhead, lcount) = NULL
          /\ lcount = n /\ List!Chain(lhead) = nodes
  <2> SUFFICES ASSUME lpc \in {"idle", "remove"}
               PROVE  /\ List!ChainIs(List!Chain(lhead))
                      /\ lcount = Len(List!Chain(lhead))
                      /\ ltail = IF lhead = NULL THEN NULL ELSE List!Last(List!Chain(lhead))
                      /\ List!Following(lhead, lcount) = NULL
                      /\ lcount = n /\ List!Chain(lhead) = nodes
    OBVIOUS
  <2>1. turned = 0 /\ lhead = to /\ lcount = n
        /\ ltail = IF n = 0 THEN NULL ELSE nodes[n]
    BY <1>1 DEF Place
  <2>2. lhead = NULL <=> n = 0
    <3>1. n # 0 => nodes[1] \in Nodes
      BY <1>2 DEF Basics
    <3> QED
      BY <2>1, <3>1, NodesAssumption
  <2>3. Len(nodes) = n /\ n - 0 = n
    BY <1>2
  <2>4. List!Chain(lhead) = nodes /\ List!Following(lhead, n) = NULL
    <3> HIDE DEF to
    <3> QED
      BY <1>4, <1>6, <2>1, <2>3
  <2> QED
    BY <1>5, <2>1, <2>2, <2>3, <2>4 DEF List!Last
<1>8. lpc = "reverse" => List!ChainIs(List!Reverse(List!Chain(lprev)) \o List!Chain(lcurr))
  <2> SUFFICES ASSUME lpc = "reverse"
               PROVE  List!ChainIs(List!Reverse(List!Chain(lprev)) \o List!Chain(lcurr))
    OBVIOUS
  <2>1. lprev = from /\ lcurr = to
    BY <1>1 DEF Place
  <2>2. Whole(nodes, n, turned)
    BY <1>2, HalvesAre
  <2>3. nodes = List!Reverse(done) \o rest
    BY <2>2 DEF Whole, done, rest
  <2> HIDE DEF to, from
  <2> QED
    BY <1>4, <1>5, <2>1, <2>3
<1>9. lpc = "destroy" => List!ChainIs(List!Chain(lcurr))
  <2> SUFFICES ASSUME lpc = "destroy" PROVE List!ChainIs(List!Chain(lcurr))
    OBVIOUS
  <2>1. turned = 0 /\ lcurr = to
    BY <1>1 DEF Place
  <2> HIDE DEF to
  <2> QED
    BY <1>4, <1>5, <1>6, <2>1
<1>10. ASSUME lpc = "remove", NEW k \in 1 .. n, nodes[k] = llink, NEW j \in 1 .. k
       PROVE  lvalue[nodes[j]] # lwanted
  <2>1. llink \in Nodes /\ llink # HeadField
    BY <1>2, <1>10, NodesAssumption DEF Basics
  <2>2. PICK m \in 1 .. n : llink = nodes[m] /\ \A i \in 1 .. m : lvalue[nodes[i]] # lwanted
    BY <1>1, <1>10, <2>1 DEF Place
  <2>3. m = k
    BY <1>1, <1>10, <2>2 DEF Each
  <2> QED
    BY <1>10, <2>2, <2>3
<1> QED
  BY <1>7, <1>8, <1>9, <1>10 DEF List!Shape

-----------------------------------------------------------------------------
\* What each operation does to the nodes and to what the list holds.

\* Facts about a node in its place.
LEMMA NodeIs ==
    ASSUME Basics, NEW n, NEW nodes, NEW turned, Stand(n, nodes, turned)
    PROVE  /\ n \in Nat /\ turned \in 0 .. n /\ nodes \in [1 .. n -> lallocated]
           /\ \A k \in 1 .. n : nodes[k] \in Nodes /\ nodes[k] # NULL /\ nodes[k] # HeadField
           /\ (IF turned = n THEN NULL ELSE nodes[turned + 1]) = NULL <=> turned = n
BY NodesAssumption DEF Stand, Each, Links, Basics

LEMMA HeldIs ==
    ASSUME NEW n \in Nat, NEW nodes, NEW X, \A k \in 1 .. n : lvalue[nodes[k]] \in X
    PROVE  /\ Held(n, nodes) \in Seq(X) /\ Len(Held(n, nodes)) = n
           /\ \A k \in 1 .. n : Held(n, nodes)[k] = lvalue[nodes[k]]
<1>1. \A k \in 1 .. n : Held(n, nodes)[k] = lvalue[nodes[k]]
  BY DEF Held
<1>2. Held(n, nodes) \in [1 .. n -> X]
  BY DEF Held
<1>3. Held(n, nodes) \in Seq(X)
  BY <1>2, SeqDef
<1> QED
  BY <1>1, <1>2, <1>3, LenProperties

\* A function is the sequence with the same length and the same elements.
LEMMA SameSequence ==
    ASSUME NEW X, NEW s \in Seq(X), NEW n \in Nat, Len(s) = n, NEW f, f = [k \in 1 .. n |-> f[k]],
           \A k \in 1 .. n : f[k] = s[k]
    PROVE  f = s
<1>1. s \in [1 .. n -> X]
  BY LenProperties
<1> QED
  BY <1>1

LEMMA PushesFront ==
    ASSUME Basics, NEW n, NEW nodes, NEW turned, Stand(n, nodes, turned),
           NEW v \in Values, List!PushFront(v)
    PROVE  Basics' /\ \E n2, nodes2, turned2 : /\ Stand(n2, nodes2, turned2)'
                                               /\ Held(n2, nodes2)' = <<v>> \o Held(n, nodes)
<1>1. PICK b \in Nodes \ lallocated :
         /\ lallocated' = lallocated \cup {b}
         /\ lvalue' = [lvalue EXCEPT ![b] = v]
         /\ lnext' = [lnext EXCEPT ![b] = lhead]
         /\ lhead' = b
         /\ ltail' = IF ltail = NULL THEN b ELSE ltail
  BY DEF List!PushFront, List!Malloc
<1>2. /\ lpc = "idle" /\ lcount' = lcount + 1
      /\ UNCHANGED <<lpc, lprev, lcurr, llink, lwanted>>
  BY DEF List!PushFront, List!locals
<1>3. /\ n \in Nat /\ nodes \in [1 .. n -> lallocated]
      /\ \A k \in 1 .. n : nodes[k] \in Nodes /\ nodes[k] # NULL
  BY NodeIs
<1>4. /\ turned = 0 /\ lcount = n /\ lhead = IF 0 = n THEN NULL ELSE nodes[0 + 1]
      /\ ltail = IF n = 0 THEN NULL ELSE nodes[n]
  BY <1>2 DEF Stand, Place
<1> DEFINE more == First(n, nodes, b)
<1>5. Each(n + 1, more, lallocated')
  BY <1>1, FirstEach DEF Stand, Basics
<1>6. Links(n + 1, more, 0, lnext')
  BY <1>1, <1>4, FirstLinks DEF Stand
<1>7. more[1] = b /\ (n # 0 => more[n + 1] = nodes[n])
  BY <1>3 DEF First
<1>8. \A k \in 1 .. n + 1 : lvalue'[more[k]] = IF k = 1 THEN v ELSE lvalue[nodes[k - 1]]
  <2> SUFFICES ASSUME NEW k \in 1 .. n + 1
               PROVE  lvalue'[more[k]] = IF k = 1 THEN v ELSE lvalue[nodes[k - 1]]
    OBVIOUS
  <2>1. k # 1 => k - 1 \in 1 .. n
    BY <1>3
  <2>2. k # 1 => nodes[k - 1] \in Nodes /\ nodes[k - 1] # b
    BY <1>3, <2>1
  <2>3. more[k] = IF k = 1 THEN b ELSE nodes[k - 1]
    BY DEF First
  <2> QED
    BY <1>1, <2>2, <2>3 DEF Basics
<1> HIDE DEF more
<1>9. Place(n + 1, more, 0)'
  <2>1. n # 0 => n \in 1 .. n
    BY <1>3
  <2> QED
    BY <1>1, <1>2, <1>3, <1>4, <1>7, <2>1 DEF Place
<1>10. Stand(n + 1, more, 0)'
  BY <1>5, <1>6, <1>9 DEF Stand
<1>11. Held(n + 1, more)' = <<v>> \o Held(n, nodes)
  <2> DEFINE X == {lvalue[nodes[k]] : k \in 1 .. n} \cup {v}
             f == [k \in 1 .. n + 1 |-> lvalue'[more[k]]]
  <2>1. <<v>> \in Seq(X) /\ Len(<<v>>) = 1 /\ <<v>>[1] = v
    OBVIOUS
  <2>2. \A k \in 1 .. n : lvalue[nodes[k]] \in X
    OBVIOUS
  <2> HIDE DEF X
  <2>3. /\ Held(n, nodes) \in Seq(X) /\ Len(Held(n, nodes)) = n
        /\ \A k \in 1 .. n : Held(n, nodes)[k] = lvalue[nodes[k]]
    BY <1>3, <2>2, HeldIs
  <2>4. PICK s \in Seq(X) : s = <<v>> \o Held(n, nodes)
    <3>1. <<v>> \o Held(n, nodes) \in Seq(X)
      BY <2>3, <2>1, ConcatProperties
    <3> QED
      BY <3>1
  <2>5. /\ Len(s) = 1 + n
        /\ \A k \in 1 .. 1 + n : s[k] = IF k <= 1 THEN <<v>>[k] ELSE Held(n, nodes)[k - 1]
    BY <2>3, <2>1, <2>4, ConcatProperties
  <2>6. \A k \in 1 .. n + 1 : f[k] = s[k]
    <3> SUFFICES ASSUME NEW k \in 1 .. n + 1 PROVE f[k] = s[k]
      OBVIOUS
    <3>1. f[k] = IF k = 1 THEN v ELSE lvalue[nodes[k - 1]]
      BY <1>8
    <3>2. CASE k = 1
      <4>1. s[1] = <<v>>[1]
        BY <1>3, <2>5
      <4> QED
        BY <2>1, <3>1, <3>2, <4>1
    <3>3. CASE k # 1
      <4>1. k - 1 \in 1 .. n /\ k \in 1 .. 1 + n /\ ~ (k <= 1)
        BY <1>3, <3>3
      <4>2. s[k] = Held(n, nodes)[k - 1]
        BY <2>5, <4>1
      <4> QED
        BY <2>3, <3>1, <3>3, <4>1, <4>2
    <3> QED
      BY <3>2, <3>3
  <2>7. f = [k \in 1 .. n + 1 |-> f[k]] /\ n + 1 \in Nat /\ Len(s) = n + 1
    BY <1>3, <2>5
  <2>8. f = Held(n + 1, more)'
    BY DEF Held
  <2> HIDE DEF f
  <2>9. f = s
    BY <2>6, <2>7, SameSequence
  <2> QED
    BY <2>4, <2>8, <2>9
<1>12. Basics'
  <2>1. lhead \in Nodes \cup {NULL}
    BY <1>3, <1>4
  <2> QED
    BY <1>1, <1>2, <2>1 DEF Basics
<1> QED
  BY <1>10, <1>11, <1>12

LEMMA PushesBack ==
    ASSUME Basics, NEW n, NEW nodes, NEW turned, Stand(n, nodes, turned),
           NEW v \in Values, List!PushBack(v)
    PROVE  Basics' /\ \E n2, nodes2, turned2 : /\ Stand(n2, nodes2, turned2)'
                                               /\ Held(n2, nodes2)' = Append(Held(n, nodes), v)
<1>1. PICK b \in Nodes \ lallocated :
         /\ lallocated' = lallocated \cup {b}
         /\ lvalue' = [lvalue EXCEPT ![b] = v]
         /\ lnext' = IF ltail # NULL THEN [lnext EXCEPT ![ltail] = b, ![b] = NULL]
                     ELSE [lnext EXCEPT ![b] = NULL]
         /\ lhead' = IF ltail # NULL THEN lhead ELSE b
         /\ ltail' = b
  BY DEF List!PushBack, List!Malloc
<1>2. /\ lpc = "idle" /\ lcount' = lcount + 1
      /\ UNCHANGED <<lpc, lprev, lcurr, llink, lwanted>>
  BY DEF List!PushBack, List!locals
<1>3. /\ n \in Nat /\ nodes \in [1 .. n -> lallocated]
      /\ \A k \in 1 .. n : nodes[k] \in Nodes /\ nodes[k] # NULL
  BY NodeIs
<1>4. /\ turned = 0 /\ lcount = n /\ lhead = IF 0 = n THEN NULL ELSE nodes[0 + 1]
      /\ ltail = IF n = 0 THEN NULL ELSE nodes[n]
  BY <1>2 DEF Stand, Place
<1>5. ltail # NULL <=> n # 0
  <2>1. n # 0 => n \in 1 .. n
    BY <1>3
  <2> QED
    BY <1>3, <1>4, <2>1
<1>6. lnext' = IF n # 0 THEN [lnext EXCEPT ![nodes[n]] = b, ![b] = NULL]
               ELSE [lnext EXCEPT ![b] = NULL]
  BY <1>1, <1>4, <1>5
<1> DEFINE more == Final(n, nodes, b)
<1>7. Each(n + 1, more, lallocated')
  BY <1>1, FinalEach DEF Stand, Basics
<1>8. Links(n + 1, more, 0, lnext')
  BY <1>1, <1>4, <1>6, FinalLinks DEF Stand
<1>9. more[n + 1] = b /\ \A k \in 1 .. n : more[k] = nodes[k]
  BY <1>3 DEF Final
<1> HIDE DEF more
<1>10. lvalue'[b] = v /\ \A k \in 1 .. n : lvalue'[more[k]] = lvalue[nodes[k]]
  <2>1. \A k \in 1 .. n : nodes[k] # b
    BY <1>3
  <2> QED
    BY <1>1, <1>3, <1>9, <2>1 DEF Basics
<1>11. Place(n + 1, more, 0)'
  <2>1. n # 0 => 1 \in 1 .. n
    BY <1>3
  <2>2. n # 0 => more[1] = nodes[1]
    BY <1>9, <2>1
  <2>3. lhead' = more[1]
    BY <1>1, <1>4, <1>5, <1>9, <2>2
  <2> QED
    BY <1>1, <1>2, <1>3, <1>4, <1>9, <2>3 DEF Place
<1>12. Stand(n + 1, more, 0)'
  BY <1>7, <1>8, <1>11 DEF Stand
<1>13. Held(n + 1, more)' = Append(Held(n, nodes), v)
  <2> DEFINE X == {lvalue[nodes[k]] : k \in 1 .. n} \cup {v}
             f == [k \in 1 .. n + 1 |-> lvalue'[more[k]]]
  <2>1. v \in X /\ \A k \in 1 .. n : lvalue[nodes[k]] \in X
    OBVIOUS
  <2> HIDE DEF X
  <2>2. /\ Held(n, nodes) \in Seq(X) /\ Len(Held(n, nodes)) = n
        /\ \A k \in 1 .. n : Held(n, nodes)[k] = lvalue[nodes[k]]
    BY <1>3, <2>1, HeldIs
  <2>3. PICK s \in Seq(X) : s = Append(Held(n, nodes), v)
    <3>1. Append(Held(n, nodes), v) \in Seq(X)
      BY <2>1, <2>2, AppendProperties
    <3> QED
      BY <3>1
  <2>4. /\ Len(s) = n + 1 /\ s[n + 1] = v
        /\ \A k \in 1 .. n : s[k] = Held(n, nodes)[k]
    BY <2>1, <2>2, <2>3, AppendProperties
  <2>5. \A k \in 1 .. n + 1 : f[k] = s[k]
    <3> SUFFICES ASSUME NEW k \in 1 .. n + 1 PROVE f[k] = s[k]
      OBVIOUS
    <3>1. f[k] = lvalue'[more[k]] /\ (k # n + 1 => k \in 1 .. n)
      BY <1>3
    <3> HIDE DEF f
    <3> QED
      BY <1>9, <1>10, <2>2, <2>4, <3>1
  <2>6. f = [k \in 1 .. n + 1 |-> f[k]] /\ n + 1 \in Nat /\ Len(s) = n + 1
    BY <1>3, <2>4
  <2>7. f = Held(n + 1, more)'
    BY DEF Held
  <2> HIDE DEF f
  <2>8. f = s
    BY <2>5, <2>6, SameSequence
  <2> QED
    BY <2>3, <2>7, <2>8
<1>14. Basics'
  <2>1. lnext' \in [Nodes -> Nodes \cup {NULL, Garbage}]
    BY <1>1 DEF Basics
  <2> QED
    BY <1>1, <1>2, <2>1 DEF Basics
<1> QED
  BY <1>12, <1>13, <1>14

\* A node that leaves: stack_pop and queue_dequeue take the first, list_remove any,
\* list_destroy one after the other.
LEMMA NodeLeaves ==
    ASSUME Basics, NEW n, NEW nodes, Each(n, nodes, lallocated), Links(n, nodes, 0, lnext),
           NEW i \in 1 .. n,
           List!FreeWith(nodes[i], IF i = 1 THEN lnext ELSE [lnext EXCEPT ![nodes[i - 1]] = lnext[nodes[i]]])
    PROVE  /\ Each(n - 1, Out(n, nodes, i), lallocated')
           /\ Links(n - 1, Out(n, nodes, i), 0, lnext')
           /\ \A k \in 1 .. n : k # i => lvalue'[nodes[k]] = lvalue[nodes[k]]
           /\ Held(n - 1, Out(n, nodes, i))' = List!RemoveAt(Held(n, nodes), i)
           /\ lallocated' \subseteq Nodes
           /\ lvalue' \in [Nodes -> Values \cup {Garbage}]
           /\ lnext' \in [Nodes -> Nodes \cup {NULL, Garbage}]
<1>1. /\ lallocated' = lallocated \ {nodes[i]}
      /\ lvalue' = [lvalue EXCEPT ![nodes[i]] = Garbage]
      /\ lnext' = [(IF i = 1 THEN lnext ELSE [lnext EXCEPT ![nodes[i - 1]] = lnext[nodes[i]]])
                        EXCEPT ![nodes[i]] = Garbage]
  BY DEF List!FreeWith
<1>2. /\ n \in Nat /\ nodes \in [1 .. n -> lallocated]
      /\ \A k \in 1 .. n : nodes[k] \in Nodes
      /\ \A j, k \in 1 .. n : nodes[j] = nodes[k] => j = k
  BY DEF Each, Basics
<1> DEFINE rest == Out(n, nodes, i)
<1>3. Each(n - 1, rest, lallocated')
  BY <1>1, OutEach DEF Basics
<1>4. Links(n - 1, rest, 0, lnext')
  BY <1>1, OutLinks
<1>5. \A k \in 1 .. n : k # i => lvalue'[nodes[k]] = lvalue[nodes[k]]
  BY <1>1, <1>2 DEF Basics
<1>6. \A k \in 1 .. n - 1 : rest[k] = IF k < i THEN nodes[k] ELSE nodes[k + 1]
  BY DEF Out
<1> HIDE DEF rest
<1>7. Held(n - 1, rest)' = List!RemoveAt(Held(n, nodes), i)
  <2> DEFINE X == {lvalue[nodes[k]] : k \in 1 .. n}
             f == [k \in 1 .. n - 1 |-> lvalue'[rest[k]]]
  <2>1. \A k \in 1 .. n : lvalue[nodes[k]] \in X
    OBVIOUS
  <2> HIDE DEF X
  <2>2. PICK held \in Seq(X) : /\ held = Held(n, nodes) /\ Len(held) = n
                               /\ \A k \in 1 .. n : held[k] = lvalue[nodes[k]]
    <3>1. /\ Held(n, nodes) \in Seq(X) /\ Len(Held(n, nodes)) = n
          /\ \A k \in 1 .. n : Held(n, nodes)[k] = lvalue[nodes[k]]
      BY <1>2, <2>1, HeldIs
    <3> QED
      BY <3>1
  <2>3. PICK front \in Seq(X) : /\ front = SubSeq(held, 1, i - 1) /\ Len(front) = i - 1
                                /\ \A k \in 1 .. i - 1 : front[k] = held[k]
    <3>1. /\ SubSeq(held, 1, i - 1) \in Seq(X) /\ Len(SubSeq(held, 1, i - 1)) = i - 1
          /\ \A k \in 1 .. i - 1 : SubSeq(held, 1, i - 1)[k] = held[k]
      BY <1>2, <2>2
    <3> QED
      BY <3>1
  <2>4. PICK back \in Seq(X) : /\ back = SubSeq(held, i + 1, n) /\ Len(back) = n - i
                               /\ \A k \in 1 .. n - i : back[k] = held[i + k]
    <3>1. /\ SubSeq(held, i + 1, n) \in Seq(X) /\ Len(SubSeq(held, i + 1, n)) = n - i
          /\ \A k \in 1 .. n - i : SubSeq(held, i + 1, n)[k] = held[i + k]
      BY <1>2, <2>2
    <3> QED
      BY <3>1
  <2>5. PICK s \in Seq(X) : s = front \o back
    <3>1. front \o back \in Seq(X)
      BY ConcatProperties
    <3> QED
      BY <3>1
  <2>6. /\ Len(s) = Len(front) + Len(back)
        /\ \A k \in 1 .. Len(front) + Len(back) :
              s[k] = IF k <= Len(front) THEN front[k] ELSE back[k - Len(front)]
    BY <2>5, ConcatProperties
  <2>7. Len(s) = n - 1 /\ n - 1 \in Nat
        /\ \A k \in 1 .. n - 1 : s[k] = IF k < i THEN held[k] ELSE held[k + 1]
    <3>1. Len(s) = n - 1 /\ n - 1 \in Nat
      <4>1. Len(s) = Len(front) + Len(back)
        BY <2>6
      <4>2. Len(front) = i - 1 /\ Len(back) = n - i
        BY <2>3, <2>4
      <4> QED
        BY <1>2, <4>1, <4>2
    <3>2. ASSUME NEW k \in 1 .. n - 1 PROVE s[k] = IF k < i THEN held[k] ELSE held[k + 1]
      <4>1. s[k] = IF k <= i - 1 THEN front[k] ELSE back[k - (i - 1)]
        <5>1. Len(front) = i - 1 /\ k \in 1 .. Len(front) + Len(back)
          BY <1>2, <2>3, <2>4
        <5>2. s[k] = IF k <= Len(front) THEN front[k] ELSE back[k - Len(front)]
          BY <2>6, <5>1
        <5> QED
          BY <5>1, <5>2
      <4>2. CASE k < i
        <5>1. k \in 1 .. i - 1
          BY <4>2
        <5> QED
          BY <2>3, <4>1, <4>2, <5>1
      <4>3. CASE ~ (k < i)
        <5>1. k - (i - 1) \in 1 .. n - i /\ i + (k - (i - 1)) = k + 1 /\ ~ (k <= i - 1)
          BY <1>2, <4>3
        <5> QED
          BY <2>4, <4>1, <4>3, <5>1
      <4> QED
        BY <4>2, <4>3
    <3> QED
      BY <3>1, <3>2
  <2>8. ASSUME NEW k \in 1 .. n - 1 PROVE f[k] = s[k]
    <3>1. f[k] = lvalue'[rest[k]]
      OBVIOUS
    <3>2. k \in 1 .. n /\ k + 1 \in 1 .. n /\ (k < i => k # i) /\ (~ (k < i) => k + 1 # i)
      BY <1>2
    <3> HIDE DEF f
    <3>3. rest[k] = IF k < i THEN nodes[k] ELSE nodes[k + 1]
      BY <1>6
    <3>4. s[k] = IF k < i THEN held[k] ELSE held[k + 1]
      BY <2>7
    <3>5. (k < i => lvalue'[nodes[k]] = held[k]) /\ (~ (k < i) => lvalue'[nodes[k + 1]] = held[k + 1])
      BY <1>5, <2>2, <3>2
    <3> QED
      BY <3>1, <3>3, <3>4, <3>5
  <2>9. f = [k \in 1 .. n - 1 |-> f[k]]
    OBVIOUS
  <2>10. f = Held(n - 1, rest)'
    BY DEF Held
  <2> HIDE DEF f
  <2>11. f = s
    BY <2>7, <2>8, <2>9, SameSequence
  <2> QED
    BY <2>2, <2>3, <2>4, <2>5, <2>10, <2>11 DEF List!RemoveAt
<1>8. /\ lallocated' \subseteq Nodes
      /\ lvalue' \in [Nodes -> Values \cup {Garbage}]
      /\ lnext' \in [Nodes -> Nodes \cup {NULL, Garbage}]
  <2>1. lnext[nodes[i]] \in Nodes \cup {NULL, Garbage}
    BY <1>2 DEF Basics
  <2> QED
    BY <1>1, <2>1 DEF Basics
<1> QED
  BY <1>3, <1>4, <1>5, <1>7, <1>8 DEF rest

LEMMA TakesFront ==
    ASSUME Basics, NEW n, NEW nodes, NEW turned, Stand(n, nodes, turned), List!TakeFront
    PROVE  Basics' /\ \E n2, nodes2, turned2 : /\ n # 0 /\ Stand(n2, nodes2, turned2)'
                                               /\ Held(n2, nodes2)' = List!RemoveAt(Held(n, nodes), 1)
<1>1. /\ lpc = "idle" /\ lhead # NULL /\ lhead' = lnext[lhead]
      /\ ltail' = IF lnext[lhead] = NULL THEN NULL ELSE ltail
      /\ List!FreeWith(lhead, lnext) /\ lcount' = lcount - 1
      /\ UNCHANGED <<lpc, lprev, lcurr, llink, lwanted>>
  BY DEF List!TakeFront, List!TailAfterTake, List!locals
<1>2. /\ n \in Nat /\ nodes \in [1 .. n -> lallocated]
      /\ \A k \in 1 .. n : nodes[k] \in Nodes /\ nodes[k] # NULL
  BY NodeIs
<1>3. /\ turned = 0 /\ lcount = n /\ lhead = IF 0 = n THEN NULL ELSE nodes[0 + 1]
      /\ ltail = IF n = 0 THEN NULL ELSE nodes[n]
  BY <1>1 DEF Stand, Place
<1>4. 1 \in 1 .. n /\ n # 0 /\ lhead = nodes[1]
  BY <1>1, <1>2, <1>3
<1> DEFINE rest == Out(n, nodes, 1)
<1>5. /\ Each(n - 1, rest, lallocated') /\ Links(n - 1, rest, 0, lnext')
      /\ Held(n - 1, rest)' = List!RemoveAt(Held(n, nodes), 1)
      /\ lallocated' \subseteq Nodes
      /\ lvalue' \in [Nodes -> Values \cup {Garbage}]
      /\ lnext' \in [Nodes -> Nodes \cup {NULL, Garbage}]
  <2>1. Each(n, nodes, lallocated) /\ Links(n, nodes, 0, lnext)
    BY <1>3 DEF Stand
  <2>2. PICK i \in 1 .. n : i = 1
    BY <1>4
  <2>3. List!FreeWith(nodes[i], IF i = 1 THEN lnext ELSE [lnext EXCEPT ![nodes[i - 1]] = lnext[nodes[i]]])
    BY <1>1, <1>4, <2>2
  <2>4. /\ Each(n - 1, Out(n, nodes, i), lallocated') /\ Links(n - 1, Out(n, nodes, i), 0, lnext')
        /\ Held(n - 1, Out(n, nodes, i))' = List!RemoveAt(Held(n, nodes), i)
        /\ lallocated' \subseteq Nodes
        /\ lvalue' \in [Nodes -> Values \cup {Garbage}]
        /\ lnext' \in [Nodes -> Nodes \cup {NULL, Garbage}]
    BY <2>1, <2>3, NodeLeaves
  <2> QED
    BY <2>2, <2>4
<1>6. Place(n - 1, rest, 0)'
  <2>1. lnext[nodes[1]] = IF 1 = n THEN NULL ELSE nodes[1 + 1]
    BY <1>3, <1>4 DEF Stand, Links
  <2>2. n # 1 => 1 \in 1 .. n - 1 /\ n - 1 \in 1 .. n - 1 /\ 2 \in 1 .. n
    BY <1>2, <1>4
  <2>3. n # 1 => rest[1] = nodes[2] /\ rest[n - 1] = nodes[n]
    BY <1>2, <2>2 DEF Out
  <2> HIDE DEF rest
  <2>4. lhead' = IF 0 = n - 1 THEN NULL ELSE rest[0 + 1]
    BY <1>1, <1>2, <1>4, <2>1, <2>2, <2>3
  <2>5. ltail' = IF n - 1 = 0 THEN NULL ELSE rest[n - 1]
    BY <1>1, <1>2, <1>3, <1>4, <2>1, <2>2, <2>3
  <2> QED
    BY <1>1, <1>3, <2>4, <2>5 DEF Place
<1>7. Stand(n - 1, rest, 0)'
  BY <1>5, <1>6 DEF Stand
<1>8. Basics'
  BY <1>1, <1>5 DEF Basics
<1> HIDE DEF rest
<1> QED
  BY <1>4, <1>5, <1>7, <1>8

LEMMA DestroysNode ==
    ASSUME Basics, NEW n, NEW nodes, NEW turned, Stand(n, nodes, turned), List!DestroyNode
    PROVE  Basics' /\ \E n2, nodes2, turned2 : /\ n # 0 /\ Stand(n2, nodes2, turned2)'
                                               /\ Held(n2, nodes2)' = List!RemoveAt(Held(n, nodes), 1)
<1>1. /\ lpc = "destroy" /\ lcurr # NULL /\ lcurr' = lnext[lcurr] /\ List!FreeWith(lcurr, lnext)
      /\ UNCHANGED <<lhead, ltail, lcount, lpc, lprev, llink, lwanted>>
  BY DEF List!DestroyNode, List!list
<1>2. /\ n \in Nat /\ nodes \in [1 .. n -> lallocated]
  BY NodeIs
<1>3. turned = 0 /\ lcurr = IF 0 = n THEN NULL ELSE nodes[0 + 1]
  BY <1>1 DEF Stand, Place
<1>4. 1 \in 1 .. n /\ n # 0 /\ lcurr = nodes[1]
  BY <1>1, <1>2, <1>3
<1> DEFINE rest == Out(n, nodes, 1)
<1>5. /\ Each(n - 1, rest, lallocated') /\ Links(n - 1, rest, 0, lnext')
      /\ Held(n - 1, rest)' = List!RemoveAt(Held(n, nodes), 1)
      /\ lallocated' \subseteq Nodes
      /\ lvalue' \in [Nodes -> Values \cup {Garbage}]
      /\ lnext' \in [Nodes -> Nodes \cup {NULL, Garbage}]
  <2>1. Each(n, nodes, lallocated) /\ Links(n, nodes, 0, lnext)
    BY <1>3 DEF Stand
  <2>2. PICK i \in 1 .. n : i = 1
    BY <1>4
  <2>3. List!FreeWith(nodes[i], IF i = 1 THEN lnext ELSE [lnext EXCEPT ![nodes[i - 1]] = lnext[nodes[i]]])
    BY <1>1, <1>4, <2>2
  <2>4. /\ Each(n - 1, Out(n, nodes, i), lallocated') /\ Links(n - 1, Out(n, nodes, i), 0, lnext')
        /\ Held(n - 1, Out(n, nodes, i))' = List!RemoveAt(Held(n, nodes), i)
        /\ lallocated' \subseteq Nodes
        /\ lvalue' \in [Nodes -> Values \cup {Garbage}]
        /\ lnext' \in [Nodes -> Nodes \cup {NULL, Garbage}]
    BY <2>1, <2>3, NodeLeaves
  <2> QED
    BY <2>2, <2>4
<1>6. Place(n - 1, rest, 0)'
  <2>1. lnext[nodes[1]] = IF 1 = n THEN NULL ELSE nodes[1 + 1]
    BY <1>3, <1>4 DEF Stand, Links
  <2>2. n # 1 => 1 \in 1 .. n - 1
    BY <1>2, <1>4
  <2>3. n # 1 => rest[1] = nodes[2]
    BY <1>2, <2>2 DEF Out
  <2> HIDE DEF rest
  <2>4. lcurr' = IF 0 = n - 1 THEN NULL ELSE rest[0 + 1]
    BY <1>1, <1>2, <1>4, <2>1, <2>2, <2>3
  <2> QED
    BY <1>1, <2>4 DEF Place
<1>7. Stand(n - 1, rest, 0)'
  BY <1>5, <1>6 DEF Stand
<1>8. Basics'
  BY <1>1, <1>5 DEF Basics
<1> HIDE DEF rest
<1> QED
  BY <1>4, <1>5, <1>7, <1>8

\* Where list_remove is: link leads to the i-th node, and none before has the value.
LEMMA LinkedIs ==
    ASSUME Basics, NEW n, NEW nodes, NEW turned, Stand(n, nodes, turned), lpc = "remove"
    PROVE  \/ List!Linked = NULL
           \/ \E i \in 1 .. n : /\ List!Linked = nodes[i]
                                /\ \A j \in 1 .. i - 1 : lvalue[nodes[j]] # lwanted
                                /\ IF i = 1 THEN llink = HeadField
                                   ELSE llink = nodes[i - 1] /\ llink # HeadField
<1>1. /\ n \in Nat /\ nodes \in [1 .. n -> lallocated]
      /\ \A k \in 1 .. n : nodes[k] \in Nodes /\ nodes[k] # NULL /\ nodes[k] # HeadField
  BY NodeIs
<1>2. turned = 0 /\ lhead = IF 0 = n THEN NULL ELSE nodes[0 + 1]
  BY DEF Stand, Place
<1>3. CASE llink = HeadField
  <2>1. List!Linked = IF n = 0 THEN NULL ELSE nodes[1]
    BY <1>2, <1>3 DEF List!Linked
  <2>2. n # 0 => 1 \in 1 .. n
    BY <1>1
  <2> QED
    BY <1>3, <2>1, <2>2
<1>4. CASE llink # HeadField
  <2>1. PICK k \in 1 .. n : llink = nodes[k] /\ \A j \in 1 .. k : lvalue[nodes[j]] # lwanted
    BY <1>4 DEF Stand, Place
  <2>2. List!Linked = IF k = n THEN NULL ELSE nodes[k + 1]
    BY <1>2, <1>4, <2>1 DEF List!Linked, Stand, Links
  <2>3. ASSUME k # n
        PROVE  \E i \in 1 .. n : /\ List!Linked = nodes[i]
                                 /\ \A j \in 1 .. i - 1 : lvalue[nodes[j]] # lwanted
                                 /\ IF i = 1 THEN llink = HeadField
                                    ELSE llink = nodes[i - 1] /\ llink # HeadField
    <3>1. PICK i \in 1 .. n : i = k + 1 /\ i # 1 /\ i - 1 = k
      BY <1>1, <2>3
    <3> QED
      BY <1>4, <2>1, <2>2, <2>3, <3>1
  <2> QED
    BY <2>2, <2>3
<1> QED
  BY <1>3, <1>4

LEMMA RemovesNode ==
    ASSUME Basics, NEW n, NEW nodes, NEW turned, Stand(n, nodes, turned), List!RemoveNode
    PROVE  Basics' /\ \E n2, nodes2, turned2 :
               /\ Stand(n2, nodes2, turned2)'
               /\ \E i \in 1 .. n : /\ lvalue[nodes[i]] = lwanted
                                    /\ \A j \in 1 .. i - 1 : lvalue[nodes[j]] # lwanted
                                    /\ Held(n2, nodes2)' = List!RemoveAt(Held(n, nodes), i)
<1>1. /\ lpc = "remove" /\ List!Linked # NULL /\ lvalue[List!Linked] = lwanted
      /\ lhead' = IF llink = HeadField THEN lnext[List!Linked] ELSE lhead
      /\ ltail' = IF List!Linked # ltail THEN ltail ELSE IF llink = HeadField THEN NULL ELSE llink
      /\ List!FreeWith(List!Linked, IF llink = HeadField THEN lnext
                                    ELSE [lnext EXCEPT ![llink] = lnext[List!Linked]])
      /\ lcount' = lcount - 1 /\ lpc' = "idle" /\ llink' = HeadField
      /\ UNCHANGED <<lprev, lcurr>>
  BY DEF List!RemoveNode, List!TailAfterRemove
<1>2. /\ n \in Nat /\ nodes \in [1 .. n -> lallocated]
      /\ \A k \in 1 .. n : nodes[k] \in Nodes /\ nodes[k] # NULL
  BY NodeIs
<1>3. /\ turned = 0 /\ lcount = n /\ lhead = IF 0 = n THEN NULL ELSE nodes[0 + 1]
      /\ ltail = IF n = 0 THEN NULL ELSE nodes[n]
  BY <1>1 DEF Stand, Place
<1>4. PICK i \in 1 .. n : /\ List!Linked = nodes[i]
                          /\ \A j \in 1 .. i - 1 : lvalue[nodes[j]] # lwanted
                          /\ IF i = 1 THEN llink = HeadField
                             ELSE llink = nodes[i - 1] /\ llink # HeadField
  BY <1>1, LinkedIs
<1> DEFINE rest == Out(n, nodes, i)
<1>5. /\ Each(n - 1, rest, lallocated') /\ Links(n - 1, rest, 0, lnext')
      /\ Held(n - 1, rest)' = List!RemoveAt(Held(n, nodes), i)
      /\ lallocated' \subseteq Nodes
      /\ lvalue' \in [Nodes -> Values \cup {Garbage}]
      /\ lnext' \in [Nodes -> Nodes \cup {NULL, Garbage}]
  <2>1. Each(n, nodes, lallocated) /\ Links(n, nodes, 0, lnext)
    BY <1>3 DEF Stand
  <2>2. List!FreeWith(nodes[i], IF i = 1 THEN lnext ELSE [lnext EXCEPT ![nodes[i - 1]] = lnext[nodes[i]]])
    BY <1>1, <1>4
  <2> QED
    BY <1>4, <2>1, <2>2, NodeLeaves
<1>6. Place(n - 1, rest, 0)'
  <2>1. \A k \in 1 .. n - 1 : rest[k] = IF k < i THEN nodes[k] ELSE nodes[k + 1]
    BY DEF Out
  <2> HIDE DEF rest
  <2>2. lhead' = IF 0 = n - 1 THEN NULL ELSE rest[0 + 1]
    <3>1. CASE i = 1
      <4>1. lhead' = IF i = n THEN NULL ELSE nodes[i + 1]
        BY <1>1, <1>3, <1>4, <3>1 DEF Stand, Links
      <4>2. n # 1 => 1 \in 1 .. n - 1
        BY <1>2
      <4>3. n # 1 => rest[1] = nodes[2]
        BY <2>1, <3>1, <4>2
      <4> QED
        BY <1>2, <3>1, <4>1, <4>3
    <3>2. CASE i # 1
      <4>1. 1 \in 1 .. n - 1 /\ 1 < i /\ n # 1 /\ n # 0
        BY <1>2, <3>2
      <4>2. rest[1] = nodes[1]
        BY <2>1, <4>1
      <4> QED
        BY <1>1, <1>2, <1>3, <1>4, <3>2, <4>1, <4>2
    <3> QED
      BY <3>1, <3>2
  <2>3. ltail' = IF n - 1 = 0 THEN NULL ELSE rest[n - 1]
    <3>1. ltail = nodes[n] /\ n \in 1 .. n
      BY <1>2, <1>3
    <3>2. nodes[i] = nodes[n] <=> i = n
      BY <3>1 DEF Stand, Each
    <3>3. CASE i = n
      <4>1. ltail' = IF i = 1 THEN NULL ELSE nodes[i - 1]
        BY <1>1, <1>4, <3>1, <3>3
      <4>2. n # 1 => n - 1 \in 1 .. n - 1 /\ n - 1 < i
        BY <1>2, <3>3
      <4>3. n # 1 => rest[n - 1] = nodes[n - 1]
        BY <2>1, <4>2
      <4> QED
        BY <1>2, <3>3, <4>1, <4>3
    <3>4. CASE i # n
      <4>1. ltail' = nodes[n]
        BY <1>1, <1>4, <3>1, <3>2, <3>4
      <4>2. n - 1 \in 1 .. n - 1 /\ ~ (n - 1 < i) /\ n - 1 + 1 = n /\ n - 1 # 0
        BY <1>2, <3>4
      <4>3. rest[n - 1] = nodes[n]
        BY <2>1, <4>2
      <4> QED
        BY <4>1, <4>2, <4>3
    <3> QED
      BY <3>3, <3>4
  <2> QED
    BY <1>1, <1>3, <2>2, <2>3 DEF Place
<1>7. Stand(n - 1, rest, 0)'
  BY <1>5, <1>6 DEF Stand
<1>8. Basics'
  BY <1>1, <1>5 DEF Basics
<1> HIDE DEF rest
<1> QED
  BY <1>1, <1>4, <1>5, <1>7, <1>8

LEMMA ReversesLink ==
    ASSUME Basics, NEW n, NEW nodes, NEW turned, Stand(n, nodes, turned), List!ReverseLink
    PROVE  Basics' /\ Stand(n, nodes, turned + 1)'
<1>1. /\ lpc = "reverse" /\ lcurr # NULL
      /\ lnext' = [lnext EXCEPT ![lcurr] = lprev] /\ lprev' = lcurr /\ lcurr' = lnext[lcurr]
      /\ UNCHANGED <<lvalue, lallocated, lhead, ltail, lcount, lpc, llink, lwanted>>
  BY DEF List!ReverseLink, List!Rest, List!list
<1>2. n \in Nat /\ turned \in 0 .. n /\ nodes \in [1 .. n -> lallocated]
      /\ \A k \in 1 .. n : nodes[k] \in Nodes /\ nodes[k] # NULL
  BY NodeIs
<1>3. /\ lprev = IF turned = 0 THEN NULL ELSE nodes[turned]
      /\ lcurr = IF turned = n THEN NULL ELSE nodes[turned + 1]
  BY <1>1 DEF Stand, Place
<1>4. turned \in 0 .. n - 1 /\ lcurr = nodes[turned + 1] /\ turned + 1 \in turned + 1 .. n
      /\ turned + 1 \in 1 .. n
  BY <1>1, <1>2, <1>3
<1>5. Links(n, nodes, turned + 1, lnext')
  BY <1>1, <1>3, <1>4, TurnLinks DEF Stand
<1>6. Each(n, nodes, lallocated')
  BY <1>1 DEF Stand
<1>7. Place(n, nodes, turned + 1)'
  <2>1. lnext[nodes[turned + 1]] = IF turned + 1 = n THEN NULL ELSE nodes[turned + 1 + 1]
    BY <1>4 DEF Stand, Links
  <2>2. turned + 1 # 0
    BY <1>2
  <2> QED
    BY <1>1, <1>4, <2>1, <2>2 DEF Stand, Place
<1>8. Basics'
  <2>1. lprev \in Nodes \cup {NULL}
    <3>1. turned # 0 => turned \in 1 .. n
      BY <1>2
    <3> QED
      BY <1>2, <1>3, <3>1
  <2> QED
    BY <1>1, <2>1 DEF Basics
<1> QED
  BY <1>5, <1>6, <1>7, <1>8 DEF Stand

LEMMA ReverseEnds ==
    ASSUME Basics, NEW n, NEW nodes, NEW turned, Stand(n, nodes, turned), List!ReverseDone
    PROVE  Basics' /\ \E n2, nodes2, turned2 : /\ Stand(n2, nodes2, turned2)'
                                               /\ Held(n2, nodes2)' = List!Reverse(Held(n, nodes))
<1>1. /\ lpc = "reverse" /\ lcurr = NULL /\ lhead' = lprev /\ lpc' = "idle"
      /\ UNCHANGED <<lvalue, lnext, lallocated, ltail, lcount, lcurr, llink, lwanted>>
  BY DEF List!ReverseDone, List!heap
<1>2. n \in Nat /\ nodes \in [1 .. n -> lallocated] /\ turned = n
  BY <1>1, NodeIs DEF Stand, Place
<1>3. lprev = (IF n = 0 THEN NULL ELSE nodes[n]) /\ lcount = n
      /\ ltail = (IF n = 0 THEN NULL ELSE nodes[1])
  <2>1. /\ lprev = (IF turned = 0 THEN NULL ELSE nodes[turned]) /\ lcount = n
        /\ ltail = (IF n = 0 THEN NULL ELSE nodes[IF lpc = "reverse" THEN 1 ELSE n])
    BY <1>1 DEF Stand, Place
  <2> QED
    BY <1>1, <1>2, <2>1
<1> DEFINE back == Backwards(n, nodes)
<1>4. Each(n, back, lallocated') /\ Links(n, back, 0, lnext')
  BY <1>1, <1>2, BackwardsEach, BackLinks DEF Stand
<1>5. \A k \in 1 .. n : back[k] = nodes[n + 1 - k]
  BY DEF Backwards
<1>6. Place(n, back, 0)'
  <2>1. n # 0 => 1 \in 1 .. n /\ n \in 1 .. n /\ n + 1 - 1 = n /\ n + 1 - n = 1
    BY <1>2
  <2> HIDE DEF back
  <2>2. n # 0 => back[1] = nodes[n] /\ back[n] = nodes[1]
    BY <1>5, <2>1
  <2>3. /\ lpc' = "idle" /\ lcount' = n
        /\ lhead' = (IF 0 = n THEN NULL ELSE back[0 + 1])
        /\ ltail' = (IF n = 0 THEN NULL ELSE back[n])
    <3>1. 0 + 1 = 1
      OBVIOUS
    <3> QED
      BY <1>1, <1>3, <2>2, <3>1
  <2>4. lpc' \in {"idle", "remove"} /\ lpc' # "reverse" /\ lpc' # "remove"
    BY <2>3
  <2> QED
    BY <2>3, <2>4 DEF Place
<1>7. Held(n, back)' = List!Reverse(Held(n, nodes))
  <2>1. Len(Held(n, nodes)) = n
    BY <1>2 DEF Held
  <2>2. List!Reverse(Held(n, nodes)) = [k \in 1 .. n |-> Held(n, nodes)[n - k + 1]]
    BY <2>1 DEF List!Reverse
  <2>3. ASSUME NEW k \in 1 .. n PROVE Held(n, nodes)[n - k + 1] = lvalue'[back[k]]
    <3>1. n - k + 1 \in 1 .. n /\ n - k + 1 = n + 1 - k
      BY <1>2
    <3>2. Held(n, nodes)[n - k + 1] = lvalue[nodes[n - k + 1]]
      BY <3>1 DEF Held
    <3> HIDE DEF back
    <3> QED
      BY <1>1, <1>5, <3>1, <3>2
  <2>4. Held(n, back)' = [k \in 1 .. n |-> lvalue'[back[k]]]
    BY DEF Held
  <2> HIDE DEF back
  <2> QED
    BY <2>2, <2>3, <2>4
<1>8. Basics'
  BY <1>1 DEF Basics
<1> HIDE DEF back
<1> QED
  BY <1>4, <1>6, <1>7, <1>8 DEF Stand

\* The steps that move no node.
LEMMA NothingMoves ==
    ASSUME Basics, NEW n, NEW nodes, NEW turned, Stand(n, nodes, turned),
           \/ \E v \in Values : List!StartRemove(v)
           \/ List!RemoveSkip \/ List!RemoveNothing
           \/ List!StartReverse \/ List!StartDestroy \/ List!DestroyDone
           \/ UNCHANGED listVars
    PROVE  Basics' /\ Stand(n, nodes, turned)' /\ Held(n, nodes)' = Held(n, nodes)
<1>1. UNCHANGED <<lvalue, lnext, lallocated>>
  BY DEF List!StartRemove, List!RemoveSkip, List!RemoveNothing, List!StartReverse,
         List!StartDestroy, List!DestroyDone, List!heap, listVars
<1>2. Each(n, nodes, lallocated)' /\ Links(n, nodes, turned, lnext)'
  BY <1>1 DEF Stand, Each, Links
<1>3. Held(n, nodes)' = Held(n, nodes)
  BY <1>1 DEF Held
<1>4. n \in Nat /\ turned \in 0 .. n /\ nodes \in [1 .. n -> lallocated]
      /\ \A k \in 1 .. n : nodes[k] \in Nodes /\ nodes[k] # NULL /\ nodes[k] # HeadField
  BY NodeIs
<1>5. Place(n, nodes, turned)
  BY DEF Stand
<1>6. ASSUME NEW v \in Values, List!StartRemove(v) PROVE Basics' /\ Place(n, nodes, turned)'
  BY <1>1, <1>5, <1>6 DEF List!StartRemove, List!list, Basics, Place
<1>7. ASSUME List!RemoveSkip PROVE Basics' /\ Place(n, nodes, turned)'
  <2>1. /\ lpc = "remove" /\ List!Linked # NULL /\ lvalue[List!Linked] # lwanted
        /\ llink' = List!Linked
        /\ UNCHANGED <<lhead, ltail, lcount, lpc, lprev, lcurr, lwanted>>
    BY <1>7 DEF List!RemoveSkip, List!list
  <2>2. PICK i \in 1 .. n : /\ List!Linked = nodes[i]
                            /\ \A j \in 1 .. i - 1 : lvalue[nodes[j]] # lwanted
    BY <2>1, LinkedIs
  <2>3. \A j \in 1 .. i : lvalue[nodes[j]] # lwanted
    <3>1. \A j \in 1 .. i : j # i => j \in 1 .. i - 1
      BY <1>4
    <3> QED
      BY <2>1, <2>2, <3>1
  <2>4. \E k \in 1 .. n : llink' = nodes[k] /\ \A j \in 1 .. k : lvalue'[nodes[j]] # lwanted'
    BY <1>1, <2>1, <2>2, <2>3
  <2>5. Place(n, nodes, turned)'
    BY <1>5, <2>1, <2>4 DEF Place
  <2>6. Basics'
    BY <1>1, <2>1 DEF Basics
  <2> QED
    BY <2>5, <2>6
<1>8. ASSUME List!RemoveNothing PROVE Basics' /\ Place(n, nodes, turned)'
  BY <1>1, <1>5, <1>8 DEF List!RemoveNothing, List!list, Basics, Place
<1>9. ASSUME List!StartReverse PROVE Basics' /\ Place(n, nodes, turned)'
  BY <1>1, <1>5, <1>9 DEF List!StartReverse, List!heap, Basics, Place
<1>10. ASSUME List!StartDestroy PROVE Basics' /\ Place(n, nodes, turned)'
  BY <1>1, <1>5, <1>10 DEF List!StartDestroy, List!heap, List!list, Basics, Place
<1>11. ASSUME List!DestroyDone PROVE Basics' /\ Place(n, nodes, turned)'
  <2>1. lpc = "destroy" /\ lcurr = NULL /\ lhead' = NULL /\ ltail' = NULL /\ lcount' = 0 /\ lpc' = "idle"
        /\ UNCHANGED <<lprev, lcurr, llink, lwanted>>
    BY <1>11 DEF List!DestroyDone
  <2>2. turned = 0 /\ n = 0
    BY <1>5, <2>1, NodeIs DEF Place
  <2> QED
    BY <1>1, <2>1, <2>2 DEF Basics, Place
<1>12. ASSUME UNCHANGED listVars PROVE Basics' /\ Place(n, nodes, turned)'
  BY <1>1, <1>5, <1>12 DEF listVars, Basics, Place
<1> QED
  BY <1>2, <1>3, <1>6, <1>7, <1>8, <1>9, <1>10, <1>11, <1>12 DEF Stand

LEMMA TailIs ==
    ASSUME NEW X, NEW s \in Seq(X), Len(s) # 0
    PROVE  s # <<>> /\ List!RemoveAt(s, 1) = Tail(s)
<1>1. Len(s) \in Nat
  BY LenProperties
<1>2. PICK one : one = 1
  OBVIOUS
<1>3. SubSeq(s, 1, one - 1) = <<>>
  BY <1>1, <1>2, SubSeqProperties
<1>4. SubSeq(s, one + 1, Len(s)) = Tail(s)
  BY <1>1, <1>2, SubSeqProperties, HeadTailProperties
<1>5. Tail(s) \in Seq(X)
  BY <1>1, HeadTailProperties
<1>6. List!RemoveAt(s, one) = <<>> \o Tail(s)
  BY <1>3, <1>4 DEF List!RemoveAt
<1>7. <<>> \o Tail(s) = Tail(s)
  BY <1>5, ConcatEmptySeq
<1>8. List!RemoveAt(s, 1) = Tail(s)
  BY <1>2, <1>6, <1>7
<1> QED
  BY <1>1, <1>8, EmptySeq

Known ==
    Basics => \A n, nodes, turned : Stand(n, nodes, turned) =>
                  List!ListInv /\ List!Contents = Held(n, nodes)

LEMMA ListKnown == Known
BY ListIs, ContentsAre DEF Known, Stand

\* A step of the list keeps ListInv, and is to its callers the step of the
\* sequence with its name, or none.
LEMMA ListStep ==
    List!ListInv /\ [List!Next]_listVars
        => List!ListInv' /\ [List!SL!SLNext]_(List!Contents)
<1> SUFFICES ASSUME List!ListInv, [List!Next]_listVars
             PROVE  List!ListInv' /\ [List!SL!SLNext]_(List!Contents)
  OBVIOUS
<1>1. Basics /\ \E n, nodes, turned : Stand(n, nodes, turned)
  BY ListIs DEF Stand
<1>2. PICK n, nodes, turned : Stand(n, nodes, turned)
  BY <1>1
<1>3. n \in Nat /\ nodes \in [1 .. n -> lallocated]
  BY <1>1, <1>2, NodeIs
<1>4. List!Contents = Held(n, nodes)
  BY <1>1, <1>2, ContentsAre
<1>5. Known'
  BY ListKnown, PTL
<1> DEFINE X == {lvalue[nodes[k]] : k \in 1 .. n}
<1>6. \A k \in 1 .. n : lvalue[nodes[k]] \in X
  OBVIOUS
<1> HIDE DEF X
<1>7. /\ Held(n, nodes) \in Seq(X) /\ Len(Held(n, nodes)) = n
      /\ \A k \in 1 .. n : Held(n, nodes)[k] = lvalue[nodes[k]]
  BY <1>3, <1>6, HeldIs
<1>8. ASSUME NEW m, NEW ns, NEW t, Basics', Stand(m, ns, t)'
      PROVE  List!ListInv' /\ List!Contents' = Held(m, ns)'
  BY <1>5, <1>8 DEF Known
<1>9. ASSUME NEW v \in Values, List!PushFront(v)
       PROVE  List!ListInv' /\ List!SL!SLNext
  <2>1. Basics' /\ \E m, ns, t : Stand(m, ns, t)' /\ Held(m, ns)' = <<v>> \o Held(n, nodes)
    BY <1>1, <1>2, <1>9, PushesFront
  <2>2. List!ListInv' /\ List!Contents' = <<v>> \o List!Contents
    BY <1>4, <1>8, <2>1
  <2> QED
    BY <2>2 DEF List!SL!SLNext, List!SL!InsertFirst
<1>10. ASSUME NEW v \in Values, List!PushBack(v)
       PROVE  List!ListInv' /\ List!SL!SLNext
  <2>1. Basics' /\ \E m, ns, t : Stand(m, ns, t)' /\ Held(m, ns)' = Append(Held(n, nodes), v)
    BY <1>1, <1>2, <1>10, PushesBack
  <2>2. List!ListInv' /\ List!Contents' = Append(List!Contents, v)
    BY <1>4, <1>8, <2>1
  <2> QED
    BY <2>2 DEF List!SL!SLNext, List!SL!InsertLast
<1>11. ASSUME List!TakeFront \/ List!DestroyNode
       PROVE  List!ListInv' /\ List!SL!SLNext
  <2>1. Basics' /\ n # 0
        /\ \E m, ns, t : Stand(m, ns, t)' /\ Held(m, ns)' = List!RemoveAt(Held(n, nodes), 1)
    BY <1>1, <1>2, <1>11, TakesFront, DestroysNode
  <2>2. List!ListInv' /\ List!Contents' = List!RemoveAt(Held(n, nodes), 1)
    BY <1>8, <2>1
  <2>3. Held(n, nodes) # <<>> /\ List!RemoveAt(Held(n, nodes), 1) = Tail(Held(n, nodes))
    BY <1>7, <2>1, TailIs
  <2> QED
    BY <1>4, <2>2, <2>3 DEF List!SL!SLNext, List!SL!TakeFirst
<1>12. ASSUME List!RemoveNode PROVE List!ListInv' /\ List!SL!SLNext
  <2>1. Basics' /\ \E m, ns, t :
            /\ Stand(m, ns, t)'
            /\ \E i \in 1 .. n : /\ lvalue[nodes[i]] = lwanted
                                 /\ \A j \in 1 .. i - 1 : lvalue[nodes[j]] # lwanted
                                 /\ Held(m, ns)' = List!RemoveAt(Held(n, nodes), i)
    BY <1>1, <1>2, <1>12, RemovesNode
  <2>2. PICK i \in 1 .. n : /\ List!ListInv'
                            /\ lvalue[nodes[i]] = lwanted
                            /\ \A j \in 1 .. i - 1 : lvalue[nodes[j]] # lwanted
                            /\ List!Contents' = List!RemoveAt(Held(n, nodes), i)
    BY <1>8, <2>1
  <2>3. lwanted \in Values
    BY <1>1, <1>12 DEF Basics, List!RemoveNode
  <2>4. i \in DOMAIN List!Contents /\ List!Contents[i] = lwanted
    BY <1>4, <1>7, <2>2 DEF Held
  <2>5. \A j \in 1 .. i - 1 : List!Contents[j] # lwanted
    <3>1. \A j \in 1 .. i - 1 : j \in 1 .. n
      BY <1>3
    <3> QED
      BY <1>4, <1>7, <2>2, <3>1
  <2>6. List!Contents' = List!SL!RemoveAt(List!Contents, i)
    BY <1>4, <2>2 DEF List!RemoveAt, List!SL!RemoveAt
  <2>7. List!SL!Drop(lwanted)
    BY <2>4, <2>5, <2>6 DEF List!SL!Drop
  <2> QED
    BY <2>2, <2>3, <2>7 DEF List!SL!SLNext
<1>13. ASSUME List!ReverseLink PROVE List!ListInv' /\ UNCHANGED List!Contents
  <2>1. Basics' /\ Stand(n, nodes, turned + 1)'
    BY <1>1, <1>2, <1>13, ReversesLink
  <2>2. Held(n, nodes)' = Held(n, nodes)
    BY <1>13 DEF List!ReverseLink, Held
  <2> QED
    BY <1>4, <1>8, <2>1, <2>2
<1>14. ASSUME List!ReverseDone PROVE List!ListInv' /\ List!SL!SLNext
  <2>1. Basics' /\ \E m, ns, t : Stand(m, ns, t)' /\ Held(m, ns)' = List!Reverse(Held(n, nodes))
    BY <1>1, <1>2, <1>14, ReverseEnds
  <2>2. List!ListInv' /\ List!Contents' = List!SL!Reverse(List!Contents)
    BY <1>4, <1>8, <2>1 DEF List!Reverse, List!SL!Reverse
  <2> QED
    BY <2>2 DEF List!SL!SLNext, List!SL!TurnAround
<1>15. ASSUME \/ \E v \in Values : List!StartRemove(v)
              \/ List!RemoveSkip \/ List!RemoveNothing
              \/ List!StartReverse \/ List!StartDestroy \/ List!DestroyDone
              \/ UNCHANGED listVars
       PROVE  List!ListInv' /\ UNCHANGED List!Contents
  <2>1. Basics' /\ Stand(n, nodes, turned)' /\ Held(n, nodes)' = Held(n, nodes)
    BY <1>1, <1>2, <1>15, NothingMoves
  <2> QED
    BY <1>4, <1>8, <2>1
<1> QED
  BY <1>9, <1>10, <1>11, <1>12, <1>13, <1>14, <1>15 DEF List!Next

LEMMA ListInit == List!Init => List!ListInv /\ List!SL!SLInit
<1> SUFFICES ASSUME List!Init PROVE List!ListInv /\ List!SL!SLInit
  OBVIOUS
<1>1. Basics
  BY DEF List!Init, Basics
<1> DEFINE none == [k \in 1 .. 0 |-> NULL]
<1>2. Each(0, none, lallocated)
  BY FS_EmptySet DEF List!Init, Each
<1>3. Links(0, none, 0, lnext)
  BY DEF Links
<1>4. Place(0, none, 0)
  BY DEF List!Init, Place
<1>5. Stand(0, none, 0)
  BY <1>2, <1>3, <1>4 DEF Stand
<1>6. Held(0, none) = <<>>
  BY DEF Held
<1> HIDE DEF none
<1>7. List!ListInv
  BY <1>1, <1>5, ListIs DEF Stand
<1>8. List!Contents = <<>>
  BY <1>1, <1>5, <1>6, ContentsAre
<1> QED
  BY <1>7, <1>8 DEF List!SL!SLInit

LEMMA ListFrame == [NextStructures]_structureVars => [List!Next]_listVars
BY DEF NextStructures, structureVars

LEMMA ListInvariance == SpecStructures => []List!ListInv
<1>1. InitStructures => List!ListInv
  BY ListInit DEF InitStructures
<1> QED
  BY <1>1, ListStep, ListFrame, PTL DEF SpecStructures

\* lists.c: whatever operation is under way, the list is a sequence to its
\* callers, whose elements it gives up and turns round as they were told.
THEOREM ListImplementsSequence == SpecStructures => ListIsSequence
<1>1. InitStructures => List!SL!SLInit
  BY ListInit DEF InitStructures
<1>2. List!ListInv /\ [NextStructures]_structureVars => [List!SL!SLNext]_(List!Contents)
  BY ListStep, ListFrame
<1> QED
  BY <1>1, <1>2, ListInvariance, PTL
     DEF SpecStructures, ListIsSequence, List!ImplementsSequence, List!SL!SLSpec

\* lists.c: head, tail, count and the links agree after every step of every
\* operation, and no node is lost or followed after it is freed.
THEOREM ListKeepsItsShape == SpecStructures => []List!Shape
<1>1. List!ListInv => List!Shape
  BY ListIs, ShapeIs DEF Stand
<1> QED
  BY <1>1, ListInvariance, PTL

-----------------------------------------------------------------------------
\* lists.c, constrained.c: after every step the list's nodes and the pool's free blocks
\* are one chain each, without a block twice, and the ring is a queue.
THEOREM ChainsAlwaysHold == SpecStructures => []ChainsHold
BY ListKeepsItsShape, PoolAndRingHold, PTL DEF ChainsHold
================================================================================
