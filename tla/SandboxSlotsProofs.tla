------------------------- MODULE SandboxSlotsProofs -------------------------
(***************************************************************************)
(* Theorems about SandboxSlots, for any number of executions and any       *)
(* limit.  The semaphore and the set of threads inside the slot change     *)
(* together (SlotsConserved), and what became of an execution is known     *)
(* from its position (Traced), which bounds the containers left behind.    *)
(***************************************************************************)
EXTENDS SandboxSlots, FiniteSetTheorems, TLAPS

Early == {"idle", "preparing", "waiting", "starting"}

\* What is known of an execution's client, kill and container at each position.
Traced(r) ==
    /\ pc[r] \in Early => client[r] = "none"
    /\ client[r] = "none" => container[r] = "none"
    /\ client[r] = "exited" => container[r] \in {"none", "gone"}
    /\ kill[r] = "hit" => container[r] = "gone"
    /\ pc[r] = "killing" => result[r] = "timed out"
    /\ pc[r] = "collecting" => result[r] = "timed out" /\ kill[r] # "none"
    /\ pc[r] \in {"releasing", "over"} =>
           \/ result[r] = "raised"
           \/ result[r] = "completed" /\ client[r] = "exited"
           \/ result[r] = "timed out" /\ kill[r] # "none"

IInv ==
    /\ TypeOK
    /\ IsFiniteSet(Holders)
    /\ SlotsConserved
    /\ \A r \in Runs : Traced(r)

-----------------------------------------------------------------------------
LEMMA InitIInv == Init => IInv
<1> SUFFICES ASSUME Init PROVE IInv  OBVIOUS
<1>1. Holders = {}  BY DEF Init, Holders, Holding
<1>2. IsFiniteSet(Holders) /\ Cardinality(Holders) = 0  BY <1>1, FS_EmptySet
<1>3. TypeOK  BY LimitAssumption DEF Init, TypeOK
<1>4. SlotsConserved  BY <1>2, LimitAssumption DEF Init, SlotsConserved
<1>5. \A r \in Runs : Traced(r)  BY DEF Init, Traced, Early
<1> QED BY <1>2, <1>3, <1>4, <1>5 DEF IInv

\* The numbers of the invariant.
LEMMA Counts ==
  ASSUME IInv
  PROVE  /\ slots \in Nat /\ slots <= Limit /\ Limit \in Nat
         /\ Cardinality(Holders) \in Nat /\ slots + Cardinality(Holders) = Limit
<1>1. slots \in 0 .. Limit  BY DEF IInv, TypeOK
<1>2. Limit \in Nat  BY LimitAssumption
<1>3. slots \in Nat /\ slots <= Limit  BY <1>1, <1>2
<1>4. Cardinality(Holders) \in Nat  BY FS_CardinalityType DEF IInv
<1>5. slots + Cardinality(Holders) = Limit  BY DEF IInv, SlotsConserved
<1> QED BY <1>2, <1>3, <1>4, <1>5

\* A step that moves q between two positions on the same side of the semaphore.
LEMMA SameHolders ==
  ASSUME IInv, NEW q \in Runs, NEW pos, Goto(q, pos),
         pos \in Holding <=> pc[q] \in Holding, UNCHANGED slots
  PROVE  IsFiniteSet(Holders)' /\ SlotsConserved'
<1>1. \A r \in Runs : pc'[r] \in Holding <=> pc[r] \in Holding
  BY DEF IInv, TypeOK, Goto
<1>2. Holders' = Holders  BY <1>1 DEF Holders
<1> QED BY <1>2 DEF IInv, SlotsConserved

\* Taking a slot and giving it back, one thread at a time.
LEMMA HolderEnters ==
  ASSUME IInv, NEW q \in Runs, NEW pos \in Holding, pc[q] \notin Holding,
         Goto(q, pos), slots' = slots - 1
  PROVE  IsFiniteSet(Holders)' /\ SlotsConserved'
<1>1. Holders' = Holders \cup {q}  BY DEF IInv, TypeOK, Goto, Holders
<1>2. q \notin Holders  BY DEF Holders
<1>3. IsFiniteSet(Holders') /\ Cardinality(Holders') = Cardinality(Holders) + 1
  BY <1>1, <1>2, FS_AddElement DEF IInv
<1>4. slots' + Cardinality(Holders') = Limit  BY <1>3, Counts
<1> QED BY <1>3, <1>4 DEF SlotsConserved

LEMMA HolderLeaves ==
  ASSUME IInv, NEW q \in Runs, NEW pos, pos \notin Holding, pc[q] \in Holding,
         Goto(q, pos), slots' = slots + 1
  PROVE  IsFiniteSet(Holders)' /\ SlotsConserved' /\ slots' \in 0 .. Limit
<1>1. Holders' = Holders \ {q}  BY DEF IInv, TypeOK, Goto, Holders
<1>2. q \in Holders  BY DEF Holders
<1>3. IsFiniteSet(Holders') /\ Cardinality(Holders') = Cardinality(Holders) - 1
  BY <1>1, <1>2, FS_RemoveElement DEF IInv
<1>4. Cardinality(Holders') \in Nat  BY <1>3, FS_CardinalityType
<1>5. slots' + Cardinality(Holders') = Limit /\ slots' \in 0 .. Limit
  BY <1>3, <1>4, Counts
<1> QED BY <1>3, <1>5 DEF SlotsConserved

\* The other executions stay traced when a step changes q's variables only.
LEMMA OthersTraced ==
  ASSUME NEW q \in Runs, \A r \in Runs : Traced(r), Traced(q)',
         \A r \in Runs \ {q} :
            /\ pc'[r] = pc[r] /\ client'[r] = client[r] /\ kill'[r] = kill[r]
            /\ result'[r] = result[r] /\ container'[r] = container[r]
  PROVE  \A r \in Runs : Traced(r)'
<1>1. ASSUME NEW r \in Runs \ {q} PROVE Traced(r)'
  <2>1. Traced(r)  OBVIOUS
  <2>2. /\ pc'[r] = pc[r] /\ client'[r] = client[r] /\ kill'[r] = kill[r]
        /\ result'[r] = result[r] /\ container'[r] = container[r]
    OBVIOUS
  <2> QED BY <2>1, <2>2 DEF Traced
<1> QED BY <1>1

-----------------------------------------------------------------------------
LEMMA RunStep == ASSUME IInv, NEW q \in Runs, Call(q) \/ Run(q) \/ Fails(q) PROVE IInv'
<1> USE DEF IInv
<1>0. Traced(q)  OBVIOUS
<1>1. CASE Call(q)
  <2>1. IsFiniteSet(Holders)' /\ SlotsConserved'  BY <1>1, SameHolders DEF Call, Holding
  <2>2. TypeOK'  BY <1>1 DEF Call, Goto, TypeOK
  <2>3. Traced(q)'  BY <1>0, <1>1 DEF Call, Goto, TypeOK, Traced, Early
  <2>4. \A r \in Runs : Traced(r)'  BY <1>1, <2>3, OthersTraced DEF Call, Goto, TypeOK
  <2> QED BY <2>1, <2>2, <2>4
<1>2. CASE PrepareFails(q)
  <2>1. IsFiniteSet(Holders)' /\ SlotsConserved'  BY <1>2, SameHolders DEF PrepareFails, Holding
  <2>2. TypeOK'  BY <1>2 DEF PrepareFails, Goto, Result, TypeOK
  <2>3. Traced(q)'  BY <1>0, <1>2 DEF PrepareFails, Goto, Result, TypeOK, Traced, Early
  <2>4. \A r \in Runs : Traced(r)'
    BY <1>2, <2>3, OthersTraced DEF PrepareFails, Goto, Result, TypeOK
  <2> QED BY <2>1, <2>2, <2>4
<1>3. CASE Prepared(q)
  <2>1. IsFiniteSet(Holders)' /\ SlotsConserved'  BY <1>3, SameHolders DEF Prepared, Holding
  <2>2. TypeOK'  BY <1>3 DEF Prepared, Goto, TypeOK
  <2>3. Traced(q)'  BY <1>0, <1>3 DEF Prepared, Goto, TypeOK, Traced, Early
  <2>4. \A r \in Runs : Traced(r)'  BY <1>3, <2>3, OthersTraced DEF Prepared, Goto, TypeOK
  <2> QED BY <2>1, <2>2, <2>4
<1>4. CASE Acquire(q)
  <2>1. IsFiniteSet(Holders)' /\ SlotsConserved'  BY <1>4, HolderEnters DEF Acquire, Holding
  <2>2. slots' \in 0 .. Limit  BY <1>4, Counts DEF Acquire
  <2>3. TypeOK'  BY <1>4, <2>2 DEF Acquire, Goto, TypeOK, Holding
  <2>4. Traced(q)'  BY <1>0, <1>4 DEF Acquire, Goto, TypeOK, Traced, Early
  <2>5. \A r \in Runs : Traced(r)'  BY <1>4, <2>4, OthersTraced DEF Acquire, Goto, TypeOK
  <2> QED BY <2>1, <2>3, <2>5
<1>5. CASE PopenFails(q)
  <2>1. IsFiniteSet(Holders)' /\ SlotsConserved'  BY <1>5, SameHolders DEF PopenFails, Holding
  <2>2. TypeOK'  BY <1>5 DEF PopenFails, Goto, Result, TypeOK, Holding
  <2>3. Traced(q)'  BY <1>0, <1>5 DEF PopenFails, Goto, Result, TypeOK, Traced, Early
  <2>4. \A r \in Runs : Traced(r)'
    BY <1>5, <2>3, OthersTraced DEF PopenFails, Goto, Result, TypeOK
  <2> QED BY <2>1, <2>2, <2>4
<1>6. CASE Popen(q)
  <2>1. IsFiniteSet(Holders)' /\ SlotsConserved'  BY <1>6, SameHolders DEF Popen, Holding
  <2>2. TypeOK'  BY <1>6 DEF Popen, Goto, TypeOK, Holding
  <2>3. Traced(q)'  BY <1>0, <1>6 DEF Popen, Goto, TypeOK, Traced, Early
  <2>4. \A r \in Runs : Traced(r)'  BY <1>6, <2>3, OthersTraced DEF Popen, Goto, TypeOK
  <2> QED BY <2>1, <2>2, <2>4
<1>7. CASE Completes(q)
  <2>1. IsFiniteSet(Holders)' /\ SlotsConserved'  BY <1>7, SameHolders DEF Completes, Holding
  <2>2. TypeOK'  BY <1>7 DEF Completes, Goto, Result, TypeOK, Holding
  <2>3. Traced(q)'  BY <1>0, <1>7 DEF Completes, Goto, Result, TypeOK, Traced, Early
  <2>4. \A r \in Runs : Traced(r)'
    BY <1>7, <2>3, OthersTraced DEF Completes, Goto, Result, TypeOK
  <2> QED BY <2>1, <2>2, <2>4
<1>8. CASE TimesOut(q)
  <2>1. IsFiniteSet(Holders)' /\ SlotsConserved'  BY <1>8, SameHolders DEF TimesOut, Holding
  <2>2. TypeOK'  BY <1>8 DEF TimesOut, Goto, Result, TypeOK, Holding
  <2>3. Traced(q)'  BY <1>0, <1>8 DEF TimesOut, Goto, Result, TypeOK, Traced, Early
  <2>4. \A r \in Runs : Traced(r)'
    BY <1>8, <2>3, OthersTraced DEF TimesOut, Goto, Result, TypeOK
  <2> QED BY <2>1, <2>2, <2>4
<1>9. CASE KillReturns(q)
  <2>1. IsFiniteSet(Holders)' /\ SlotsConserved'  BY <1>9, SameHolders DEF KillReturns, Holding
  <2>2. TypeOK'  BY <1>9 DEF KillReturns, Goto, TypeOK, Holding
  <2>3. Traced(q)'  BY <1>0, <1>9 DEF KillReturns, Goto, TypeOK, Traced, Early
  <2>4. \A r \in Runs : Traced(r)'  BY <1>9, <2>3, OthersTraced DEF KillReturns, Goto, TypeOK
  <2> QED BY <2>1, <2>2, <2>4
<1>10. CASE Raises(q)
  <2>1. IsFiniteSet(Holders)' /\ SlotsConserved'  BY <1>10, SameHolders DEF Raises, Holding
  <2>2. TypeOK'  BY <1>10 DEF Raises, Goto, Result, TypeOK, Holding
  <2>3. Traced(q)'  BY <1>0, <1>10 DEF Raises, Goto, Result, TypeOK, Traced, Early
  <2>4. \A r \in Runs : Traced(r)'
    BY <1>10, <2>3, OthersTraced DEF Raises, Goto, Result, TypeOK
  <2> QED BY <2>1, <2>2, <2>4
<1>11. CASE Collect(q)
  <2>1. IsFiniteSet(Holders)' /\ SlotsConserved'  BY <1>11, SameHolders DEF Collect, Holding
  <2>2. TypeOK'  BY <1>11 DEF Collect, Goto, TypeOK, Holding
  <2>3. Traced(q)'  BY <1>0, <1>11 DEF Collect, Goto, TypeOK, Traced, Early
  <2>4. \A r \in Runs : Traced(r)'  BY <1>11, <2>3, OthersTraced DEF Collect, Goto, TypeOK
  <2> QED BY <2>1, <2>2, <2>4
<1>12. CASE Release(q)
  <2>1. IsFiniteSet(Holders)' /\ SlotsConserved' /\ slots' \in 0 .. Limit
    BY <1>12, HolderLeaves DEF Release, Holding
  <2>2. TypeOK'  BY <1>12, <2>1 DEF Release, Goto, TypeOK
  <2>3. Traced(q)'  BY <1>0, <1>12 DEF Release, Goto, TypeOK, Traced, Early
  <2>4. \A r \in Runs : Traced(r)'  BY <1>12, <2>3, OthersTraced DEF Release, Goto, TypeOK
  <2> QED BY <2>1, <2>2, <2>4
<1> QED BY <1>1, <1>2, <1>3, <1>4, <1>5, <1>6, <1>7, <1>8, <1>9, <1>10, <1>11, <1>12 DEF Run, Fails

LEMMA DaemonStep == ASSUME IInv, NEW q \in Runs, Daemon(q) PROVE IInv'
<1> USE DEF IInv
<1>1. IsFiniteSet(Holders)' /\ SlotsConserved'
  BY DEF Daemon, Submit, ContainerStarts, ContainerEnds, ClientExits, thread, Holders, SlotsConserved
<1>2. TypeOK'
  BY DEF Daemon, Submit, ContainerStarts, ContainerEnds, ClientExits, thread, TypeOK
<1>3. Traced(q)'
  BY DEF Daemon, Submit, ContainerStarts, ContainerEnds, ClientExits, thread, TypeOK, Traced
<1>4. \A r \in Runs : Traced(r)'
  BY <1>3, OthersTraced
     DEF Daemon, Submit, ContainerStarts, ContainerEnds, ClientExits, thread, TypeOK
<1> QED BY <1>1, <1>2, <1>4

LEMMA StepIInv == IInv /\ [Next]_vars => IInv'
<1> SUFFICES ASSUME IInv, [Next]_vars PROVE IInv'  OBVIOUS
<1>1. CASE UNCHANGED vars
  BY <1>1 DEF IInv, TypeOK, Holders, SlotsConserved, Traced, vars, thread
<1> QED BY <1>1, RunStep, DaemonStep DEF Next

THEOREM Inductive == Spec => []IInv
<1> QED BY InitIInv, StepIInv, PTL DEF Spec

-----------------------------------------------------------------------------
(* The theorems. *)

\* The semaphore stays between 0 and its limit, whatever raises.
THEOREM TypeCorrect == Spec => []TypeOK
<1>1. IInv => TypeOK  BY DEF IInv
<1> QED BY <1>1, Inductive, PTL

\* Every slot is free or belongs to exactly one execution: none is lost to an
\* exception or a timeout, and none is given back twice.
THEOREM SlotsAlwaysConserved == Spec => []SlotsConserved
<1>1. IInv => SlotsConserved  BY DEF IInv
<1> QED BY <1>1, Inductive, PTL

\* At most Limit executions are between acquire and release at a time.
THEOREM LimitHolds == Spec => [](Cardinality(Holders) <= Limit)
<1>1. IInv => Cardinality(Holders) <= Limit  BY Counts
<1> QED BY <1>1, Inductive, PTL

\* A result is returned with the container gone, unless docker kill came before
\* the daemon had started it.
THEOREM OrphansHaveReasons == Spec => []OrphanHasReason
<1>1. ASSUME IInv, NEW r \in Runs, pc[r] = "over", container[r] \in {"requested", "running"}
      PROVE  kill[r] = "missed" \/ result[r] = "raised"
  <2>1. Traced(r) /\ kill[r] \in {"none", "hit", "missed"}  BY <1>1 DEF IInv, TypeOK
  <2> QED BY <1>1, <2>1 DEF Traced
<1>2. IInv => OrphanHasReason  BY <1>1 DEF OrphanHasReason
<1> QED BY <1>2, Inductive, PTL
=============================================================================
