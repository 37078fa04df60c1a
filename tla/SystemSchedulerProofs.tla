----------------------- MODULE SystemSchedulerProofs -----------------------
(* Theorems about SystemScheduler for every value of its constants. *)
EXTENDS SystemScheduler, ResourceTrackerProofs, FiniteSetTheorems, TLAPS

----------------------------------------------------------------------------
(* Types *)

\* A claim set names resources and uses.
LEMMA ClaimsOfType ==
    ASSUME NEW d \in Definitions
    PROVE  ClaimsOf(d) \in SUBSET Claim
BY SchedulerAssumption DEF ClaimsOf, Claim, Parameter, Access

\* An enumeration of some positions of a sequence yields a sequence.
LEMMA ListingType ==
    ASSUME NEW q \in Seq(Systems), NEW I \in SUBSET (DOMAIN q), NEW f \in Listings(I)
    PROVE  /\ [i \in DOMAIN f |-> q[f[i]]] \in Seq(Systems)
           /\ \A i \in DOMAIN f : f[i] \in I
           /\ DOMAIN f = 1..Cardinality(I)
           /\ Cardinality(I) \in Nat
<1>1. IsFiniteSet(I) /\ Cardinality(I) \in Nat
  <2>1. IsFiniteSet(1..Len(q))
    BY FS_Interval
  <2>2. QED
    BY <2>1, FS_Subset, FS_CardinalityType
<1>2. f \in [1..Cardinality(I) -> I]
  BY DEF Listings
<1>3. \A i \in 1..Cardinality(I) : q[f[i]] \in Systems
  BY <1>2
<1>4. QED
  BY <1>1, <1>2, <1>3

LEMMA WithoutSystemType ==
    ASSUME TypeOK, NEW s \in Systems, NEW q \in WithoutSystem(s)
    PROVE  /\ q \in Seq(Systems)
           /\ \A i \in DOMAIN q : \E j \in DOMAIN pending : q[i] = pending[j] /\ q[i] # s
<1> DEFINE I == {i \in DOMAIN pending : pending[i] # s}
<1>1. PICK f \in Listings(I) : q = [i \in DOMAIN f |-> pending[f[i]]]
  BY DEF WithoutSystem
<1>2. pending \in Seq(Systems) /\ I \in SUBSET (DOMAIN pending)
  BY DEF TypeOK
<1> HIDE DEF I
<1>3. q \in Seq(Systems) /\ \A i \in DOMAIN f : f[i] \in I
  BY <1>1, <1>2, ListingType
<1>4. QED
  BY <1>1, <1>3 DEF I

LEMMA SchedulableListsType ==
    ASSUME TypeOK, NEW q \in SchedulableLists
    PROVE  q \in Seq(Systems)
<1> DEFINE I == {i \in DOMAIN pending : CanSchedule(pending[i])}
<1>1. CASE Cardinality(executing) >= MaxConcurrent
  BY <1>1 DEF SchedulableLists
<1>2. CASE ~(Cardinality(executing) >= MaxConcurrent)
  <2>1. PICK f \in Listings(I) : q = [i \in DOMAIN f |-> pending[f[i]]]
    BY <1>2 DEF SchedulableLists
  <2>2. pending \in Seq(Systems) /\ I \in SUBSET (DOMAIN pending)
    BY DEF TypeOK
  <2> HIDE DEF I
  <2>3. QED
    BY <2>1, <2>2, ListingType
<1>3. QED
  BY <1>1, <1>2

\* Only finitely many systems run, so that their number can be compared with
\* the limit; nothing is assumed about how many there are.
Typed == TypeOK /\ IsFiniteSet(executing)

LEMMA TypedInit == Init => Typed
<1> SUFFICES ASSUME Init PROVE Typed
  OBVIOUS
<1>1. IsFiniteSet(executing)
  BY FS_EmptySet DEF Init
<1>2. strategy \in Strategy
  BY SchedulerAssumption DEF Init
<1>3. tracker \in Tracker
  BY DEF Init, Tracker, EmptyTracker
<1>4. batch \in [list : Seq(Systems), at : Nat, stop : Nat, scheduled : Seq(Systems)] /\ batch.at <= batch.stop
  BY DEF Init, NoBatch
<1>5. /\ deps \in [Systems -> Seq(Systems)]
      /\ pending \in Seq(Systems)
  BY DEF Init
<1>6. /\ prio \in [Systems -> 0..3]
      /\ savedPrio \in [Systems -> 0..3]
      /\ estimate \in [Systems -> 0..NoEstimate]
  BY DEF Init, Normal, NoEstimate
<1>7. /\ systems \subseteq Systems
      /\ claims \in [Systems -> SUBSET Claim]
      /\ ran \in [Systems -> BOOLEAN]
      /\ edges \subseteq Systems \X Systems
      /\ executing \subseteq systems
      /\ completed \subseteq systems
      /\ panicked \in BOOLEAN
  BY DEF Init
<1>8. QED
  BY <1>1, <1>2, <1>3, <1>4, <1>5, <1>6, <1>7 DEF Typed, TypeOK

LEMMA StartType ==
    ASSUME Typed, NEW s \in systems, Start(s)
    PROVE  /\ pending' \in Seq(Systems)
           /\ executing' \subseteq systems
           /\ IsFiniteSet(executing')
           /\ ran' \in [Systems -> BOOLEAN]
           /\ tracker' \in Tracker
<1>1. s \in Systems /\ claims[s] \in SUBSET Claim
  BY DEF Typed, TypeOK
<1>2. pending' \in Seq(Systems)
  BY <1>1, WithoutSystemType DEF Start, Typed
<1>3. IsFiniteSet(executing')
  BY FS_AddElement DEF Start, Typed
<1>4. tracker' \in Tracker
  BY <1>1, TrackerType DEF Start, Typed, TypeOK
<1>5. QED
  BY <1>1, <1>2, <1>3, <1>4 DEF Start, Typed, TypeOK

LEMMA RegisterType ==
    ASSUME Typed, NEW s \in Systems, NEW d \in Definitions, NEW ds \in Seq(Systems),
           NEW p \in 0..3, NEW e \in 0..NoEstimate, Register(s, d, ds, p, e)
    PROVE  Typed'
BY ClaimsOfType DEF Register, Typed, TypeOK

\* Every operation keeps the types.
LEMMA TypedStep == Typed /\ [Next]_vars => Typed'
<1> SUFFICES ASSUME Typed, [Next]_vars PROVE Typed'
  OBVIOUS
<1> USE DEF Typed
<1>1. ASSUME NEW s \in Systems, NEW d \in Definitions, AddSystem(s, d) PROVE Typed'
  <2>1. savedPrio[s] \in 0..3 /\ NoEstimate \in 0..NoEstimate /\ <<>> \in Seq(Systems)
    BY DEF TypeOK, NoEstimate
  <2>2. QED
    BY <1>1, <2>1, RegisterType DEF AddSystem
<1>2. ASSUME NEW s \in Systems, NEW d \in Definitions, NEW p \in Priorities, NEW e \in Estimates,
             NEW ds \in DependencyLists(s), AddSystemWithMetadata(s, d, p, e, ds)
      PROVE Typed'
  <2>1. ds \in Seq(Systems)
    <3>1. CASE ds = <<>>
      BY <3>1
    <3>2. ASSUME NEW q \in Dependencies, ds = <<q[2]>> PROVE ds \in Seq(Systems)
      <4>1. q[2] \in Systems
        BY SchedulerAssumption
      <4>2. QED
        BY <3>2, <4>1
    <3>3. QED
      BY <3>1, <3>2 DEF DependencyLists
  <2>2. p \in 0..3 /\ e \in 0..NoEstimate
    BY SchedulerAssumption
  <2>3. QED
    BY <1>2, <2>1, <2>2, RegisterType DEF AddSystemWithMetadata
<1>3. ASSUME NEW p \in Dependencies, AddDependency(p[1], p[2]) PROVE Typed'
  <2>1. p[1] \in Systems /\ p[2] \in Systems
    BY SchedulerAssumption
  <2>2. deps' \in [Systems -> Seq(Systems)]
    BY <1>3, <2>1 DEF AddDependency, TypeOK
  <2>3. QED
    BY <1>3, <2>2 DEF AddDependency, TypeOK
<1>4. ASSUME NEW s \in Systems, NEW p \in Priorities, SetSystemPriority(s, p) PROVE Typed'
  BY <1>4, SchedulerAssumption DEF SetSystemPriority, TypeOK
<1>5. ASSUME NEW st \in Strategies, SetStrategy(st) PROVE Typed'
  BY <1>5, SchedulerAssumption DEF SetStrategy, TypeOK, registry
<1>6. CASE BuildConflictGraph
  BY <1>6 DEF BuildConflictGraph, TypeOK, registry
<1>7. ASSUME NEW s \in Systems, EnqueueSystem(s) PROVE Typed'
  BY <1>7 DEF EnqueueSystem, TypeOK, config, registry
<1>8. ASSUME NEW s \in Systems, ScheduleSystem(s) PROVE Typed'
  BY <1>8, StartType DEF ScheduleSystem, CanSchedule, TypeOK, config, registry
<1>9. ASSUME NEW s \in Systems, CompleteSystem(s) PROVE Typed'
  <2>1. tracker' \in Tracker
    BY <1>9, TrackerType DEF CompleteSystem, TypeOK
  <2>2. IsFiniteSet(executing')
    BY <1>9, FS_RemoveElement DEF CompleteSystem
  <2>3. QED
    BY <1>9, <2>1, <2>2 DEF CompleteSystem, TypeOK, config, registry
<1>10. CASE BatchBegin
  <2>1. PICK list \in SchedulableLists :
           /\ list # <<>>
           /\ batch' = [NoBatch EXCEPT
                          !.list = list,
                          !.stop = Smaller(MaxConcurrent - Cardinality(executing), Len(list))]
    BY <1>10 DEF BatchBegin
  <2>2. list \in Seq(Systems)
    BY SchedulableListsType
  <2>3. Cardinality(executing) \in Nat /\ Cardinality(executing) < MaxConcurrent
    BY <1>10, FS_CardinalityType DEF BatchBegin
  <2>4. Smaller(MaxConcurrent - Cardinality(executing), Len(list)) \in Nat
    BY <2>2, <2>3, SchedulerAssumption DEF Smaller
  <2>5. batch' \in [list : Seq(Systems), at : Nat, stop : Nat, scheduled : Seq(Systems)]
        /\ batch'.at <= batch'.stop
    <3> DEFINE stop == Smaller(MaxConcurrent - Cardinality(executing), Len(list))
    <3>1. batch' = [list |-> list, at |-> 0, stop |-> stop, scheduled |-> <<>>]
      BY <2>1 DEF NoBatch
    <3>2. stop \in Nat
      BY <2>4
    <3> HIDE DEF stop
    <3>3. QED
      BY <2>2, <3>1, <3>2
  <2>6. QED
    BY <1>10, <2>5 DEF BatchBegin, TypeOK, config, registry
<1>11. CASE BatchUnderflow
  BY <1>11 DEF BatchUnderflow, TypeOK, config, registry
<1>12. CASE BatchStep
  <2>1. PICK list \in CurrentLists :
          \/ /\ batch.at + 1 <= Len(list) /\ CanSchedule(list[batch.at + 1])
             /\ Start(list[batch.at + 1])
             /\ batch' = [batch EXCEPT !.at = batch.at + 1,
                                       !.scheduled = Append(@, list[batch.at + 1])]
          \/ /\ batch' = [batch EXCEPT !.at = batch.at + 1]
             /\ UNCHANGED <<ran, tracker, executing, pending>>
    BY <1>12 DEF BatchStep
  <2>2. CASE batch' = [batch EXCEPT !.at = batch.at + 1] /\ UNCHANGED <<ran, tracker, executing, pending>>
    <3>1. /\ batch' \in [list : Seq(Systems), at : Nat, stop : Nat, scheduled : Seq(Systems)]
          /\ batch'.at <= batch'.stop
      <4>1. batch.at \in Nat /\ batch.stop \in Nat /\ batch.at < batch.stop
        BY <1>12 DEF BatchStep, TypeOK
      <4>2. batch' = [list |-> batch.list, at |-> batch.at + 1, stop |-> batch.stop,
                      scheduled |-> batch.scheduled]
        BY <2>2 DEF TypeOK
      <4>3. QED
        BY <4>1, <4>2 DEF TypeOK
    <3>2. QED
      BY <1>12, <2>2, <3>1 DEF BatchStep, TypeOK, config, registry
  <2>3. CASE /\ CanSchedule(list[batch.at + 1]) /\ Start(list[batch.at + 1])
             /\ batch' = [batch EXCEPT !.at = batch.at + 1,
                                       !.scheduled = Append(@, list[batch.at + 1])]
    <3>1. list[batch.at + 1] \in systems
      BY <2>3 DEF CanSchedule
    <3>2. /\ batch' \in [list : Seq(Systems), at : Nat, stop : Nat, scheduled : Seq(Systems)]
          /\ batch'.at <= batch'.stop
      <4>1. batch.scheduled \in Seq(Systems) /\ list[batch.at + 1] \in Systems
        BY <3>1 DEF TypeOK
      <4>2. Append(batch.scheduled, list[batch.at + 1]) \in Seq(Systems)
        BY <4>1
      <4>3. batch.at \in Nat /\ batch.stop \in Nat /\ batch.at < batch.stop
        BY <1>12 DEF BatchStep, TypeOK
      <4>4. batch' = [list |-> batch.list, at |-> batch.at + 1, stop |-> batch.stop,
                      scheduled |-> Append(batch.scheduled, list[batch.at + 1])]
        BY <2>3 DEF TypeOK
      <4>5. QED
        BY <4>2, <4>3, <4>4 DEF TypeOK
    <3>3. QED
      BY <1>12, <2>3, <3>1, <3>2, StartType DEF BatchStep, TypeOK, config, registry
  <2>4. QED
    BY <2>1, <2>2, <2>3
<1>13. CASE BatchReturn
  BY <1>13 DEF BatchReturn, NoBatch, TypeOK, config, registry
<1>14. CASE UNCHANGED vars
  BY <1>14 DEF TypeOK, vars, config, registry
<1>15. QED
  BY <1>1, <1>2, <1>3, <1>4, <1>5, <1>6, <1>7, <1>8, <1>9, <1>10, <1>11, <1>12, <1>13, <1>14 DEF Next

\* All variables keep the types of the fields they stand for, for any number
\* of systems and resources.
THEOREM TypeCorrect == Spec => []TypeOK
<1>1. Spec => []Typed
  BY TypedInit, TypedStep, PTL DEF Spec
<1>2. QED
  BY <1>1, PTL DEF Typed
----------------------------------------------------------------------------
(* Borrows *)

\* Every step starts a system that can be scheduled, or ends one, or leaves the
\* borrow table alone; definitions change only where MayChange allows it.
LEMMA StepKinds ==
    ASSUME Typed, [Next]_vars
    PROVE  \/ /\ \E s \in systems : CanSchedule(s) /\ Start(s)
              /\ UNCHANGED <<claims, deps, completed>>
           \/ /\ \E s \in systems : CompleteSystem(s)
              /\ UNCHANGED <<claims, deps>>
           \/ /\ UNCHANGED <<tracker, executing, completed>>
              /\ \/ UNCHANGED <<claims, deps>>
                 \/ \E s \in Systems :
                       /\ MayChange(s)
                       /\ \A u \in Systems \ {s} : claims'[u] = claims[u] /\ deps'[u] = deps[u]
<1> USE DEF Typed
<1>1. ASSUME NEW s \in Systems, NEW d, NEW ds, NEW p, NEW e, MayChange(s), Register(s, d, ds, p, e)
      PROVE  /\ UNCHANGED <<tracker, executing, completed>>
             /\ \E v \in Systems :
                   /\ MayChange(v)
                   /\ \A u \in Systems \ {v} : claims'[u] = claims[u] /\ deps'[u] = deps[u]
  BY <1>1 DEF Register, TypeOK
<1>2. ASSUME NEW s \in Systems, NEW d \in Definitions, AddSystem(s, d)
      PROVE  MayChange(s) /\ Register(s, d, <<>>, savedPrio[s], NoEstimate)
  BY <1>2 DEF AddSystem
<1>3. ASSUME NEW s \in Systems, NEW d \in Definitions, NEW p \in Priorities, NEW e \in Estimates,
             NEW ds \in DependencyLists(s), AddSystemWithMetadata(s, d, p, e, ds)
      PROVE  MayChange(s) /\ Register(s, d, ds, p, e)
  BY <1>3 DEF AddSystemWithMetadata
<1>4. ASSUME NEW p \in Dependencies, AddDependency(p[1], p[2])
      PROVE  /\ UNCHANGED <<tracker, executing, completed>>
             /\ \E v \in Systems :
                   /\ MayChange(v)
                   /\ \A u \in Systems \ {v} : claims'[u] = claims[u] /\ deps'[u] = deps[u]
  BY <1>4, SchedulerAssumption DEF AddDependency, TypeOK
<1>5. CASE \E s \in Systems, p \in Priorities : SetSystemPriority(s, p)
  BY <1>5 DEF SetSystemPriority
<1>6. CASE \E st \in Strategies : SetStrategy(st)
  BY <1>6 DEF SetStrategy, registry
<1>7. CASE BuildConflictGraph \/ BatchBegin \/ BatchUnderflow \/ BatchReturn \/ UNCHANGED vars
  BY <1>7 DEF BuildConflictGraph, BatchBegin, BatchUnderflow, BatchReturn, vars, config, registry
<1>8. CASE \E s \in Systems : EnqueueSystem(s)
  BY <1>8 DEF EnqueueSystem, config, registry
<1>9. CASE \E s \in Systems : ScheduleSystem(s)
  BY <1>9 DEF ScheduleSystem, CanSchedule, config, registry
<1>10. CASE \E s \in Systems : CompleteSystem(s)
  BY <1>10 DEF CompleteSystem, TypeOK, config, registry
<1>11. CASE BatchStep
  BY <1>11 DEF BatchStep, CanSchedule, config, registry
<1>12. QED
  BY <1>1, <1>2, <1>3, <1>4, <1>5, <1>6, <1>7, <1>8, <1>9, <1>10, <1>11 DEF Next

LEMMA BorrowStep == Typed /\ BorrowSafety /\ [Next]_vars => BorrowSafety'
<1> SUFFICES ASSUME Typed, BorrowSafety, [Next]_vars PROVE BorrowSafety'
  OBVIOUS
<1>1. ASSUME NEW s \in systems, CanSchedule(s), Start(s) PROVE BorrowSafety'
  BY <1>1, AcquireSafe DEF CanSchedule, Start, BorrowSafety, Typed, TypeOK
<1>2. ASSUME NEW s \in systems, CompleteSystem(s) PROVE BorrowSafety'
  BY <1>2, ReleaseSafe DEF CompleteSystem, BorrowSafety, Typed, TypeOK
<1>3. CASE UNCHANGED tracker
  BY <1>3 DEF BorrowSafety
<1>4. QED
  BY <1>1, <1>2, <1>3, StepKinds

\* The aliasing rule holds of every reachable borrow table: any number of
\* systems and resources, any definitions, redefined at any time, any order of
\* operations.
THEOREM BorrowSafetyHolds == Spec => []BorrowSafety
<1>1. Init => BorrowSafety
  BY DEF Init, EmptyTracker, BorrowSafety, BorrowSafe
<1>2. QED
  BY <1>1, TypedInit, TypedStep, BorrowStep, PTL DEF Spec

----------------------------------------------------------------------------
(* Dependencies *)

\* No set of systems under the dependencies D in which everyone waits for a member.
Unblocked(D) == \A C \in SUBSET Systems : C # {} => \E s \in C : D[s] \cap C = {}

Needs == [s \in Systems |-> SeqElements(deps[s])]

\* If none of the new dependencies of s leads to s, giving them to s blocks
\* nobody: the systems that do not lead to s are closed under dependencies, so
\* a blocked set would have to lie inside them or outside, and be blocked before.
LEMMA UnblockedUpdate ==
    ASSUME TypeOK, Unblocked(Needs), NEW s \in Systems,
           NEW N \in SUBSET Systems, \A x \in N : ~Reaches(x, s) \/ x \in Needs[s],
           NEW D \in [Systems -> SUBSET Systems],
           D[s] = N, \A u \in Systems \ {s} : D[u] = Needs[u]
    PROVE  Unblocked(D)
<1> DEFINE Away == {x \in Systems : ~Reaches(x, s)}
<1>1. s \notin Away
  BY DEF Reaches
<1>2. \A x \in Away : Needs[x] \subseteq Away
  <2> SUFFICES ASSUME NEW x \in Away, NEW y \in Needs[x] PROVE y \in Away
    OBVIOUS
  <2>1. PICK K \in SUBSET Systems : /\ x \in K
                                    /\ \A u \in K : SeqElements(deps[u]) \subseteq K
                                    /\ s \notin K
    BY DEF Reaches
  <2>2. y \in K
    BY <2>1 DEF Needs
  <2>3. QED
    BY <2>1, <2>2 DEF Reaches
<1> SUFFICES ASSUME NEW C \in SUBSET Systems, C # {}, \A u \in C : D[u] \cap C # {}
             PROVE  FALSE
  BY DEF Unblocked
<1>3. CASE C \cap Away # {}
  <2>1. \A u \in C \cap Away : Needs[u] \cap (C \cap Away) # {}
    BY <1>1, <1>2
  <2>2. QED
    BY <1>3, <2>1 DEF Unblocked
<1>4. CASE C \cap Away = {}
  <2>1. \A u \in C : Needs[u] \cap C # {}
    <3> SUFFICES ASSUME NEW u \in C PROVE Needs[u] \cap C # {}
      OBVIOUS
    <3>1. CASE u # s
      BY <3>1
    <3>2. CASE u = s
      <4>1. PICK x \in N : x \in C
        BY <3>2
      <4>2. x \in Needs[s]
        BY <1>4, <4>1
      <4>3. QED
        BY <3>2, <4>1, <4>2
    <3>3. QED
      BY <3>1, <3>2
  <2>2. QED
    BY <2>1 DEF Unblocked
<1>5. QED
  BY <1>3, <1>4

LEMMA NeedsMeaning ==
    ASSUME TypeOK
    PROVE  /\ NoMutualWait <=> Unblocked(Needs)
           /\ Needs \in [Systems -> SUBSET Systems]
<1>1. \A s \in Systems : Needs[s] = SeqElements(deps[s])
  BY DEF Needs
<1>2. NoMutualWait <=> Unblocked(Needs)
  BY <1>1 DEF NoMutualWait, Unblocked
<1>3. \A s \in Systems : SeqElements(deps[s]) \in SUBSET Systems
  BY DEF SeqElements, TypeOK
<1>4. Needs \in [Systems -> SUBSET Systems]
  BY <1>3 DEF Needs
<1>5. QED
  BY <1>2, <1>4

\* What one operation does to the dependencies of one system.
LEMMA DependencyUpdate ==
    ASSUME TypeOK, TypeOK', NoMutualWait, NEW s \in Systems, NEW ds \in Seq(Systems),
           deps' = [deps EXCEPT ![s] = ds],
           \A x \in SeqElements(ds) : ~Reaches(x, s) \/ x \in SeqElements(deps[s])
    PROVE  NoMutualWait'
<1>1. Unblocked(Needs) /\ Needs \in [Systems -> SUBSET Systems]
  BY NeedsMeaning
<1>2. NoMutualWait' <=> Unblocked(Needs')
  <2>1. \A u \in Systems : Needs'[u] = SeqElements(deps'[u])
    BY DEF Needs, SeqElements
  <2>2. QED
    BY <2>1 DEF NoMutualWait, Unblocked
<1>3. Needs' \in [Systems -> SUBSET Systems]
  BY DEF Needs, SeqElements, TypeOK
<1>4. SeqElements(ds) \in SUBSET Systems
  BY DEF SeqElements
<1>5. Needs'[s] = SeqElements(ds) /\ \A u \in Systems \ {s} : Needs'[u] = Needs[u]
  BY DEF Needs, TypeOK
<1>6. Needs[s] = SeqElements(deps[s])
  BY DEF Needs
<1>7. QED
  BY <1>1, <1>2, <1>3, <1>4, <1>5, <1>6, UnblockedUpdate

LEMMA DependencyStep == Typed /\ NoMutualWait /\ [Next]_vars => NoMutualWait'
<1> SUFFICES ASSUME Typed, NoMutualWait, [Next]_vars PROVE NoMutualWait'
  OBVIOUS
<1>0. TypeOK /\ TypeOK'
  BY TypedStep DEF Typed
<1>1. ASSUME NEW s \in Systems, NEW d \in Definitions, AddSystem(s, d) PROVE NoMutualWait'
  <2>1. deps' = [deps EXCEPT ![s] = <<>>] /\ <<>> \in Seq(Systems) /\ SeqElements(<<>>) = {}
    BY <1>1 DEF AddSystem, Register, SeqElements
  <2>2. QED
    BY <1>0, <2>1, DependencyUpdate
<1>2. ASSUME NEW s \in Systems, NEW d \in Definitions, NEW p \in Priorities, NEW e \in Estimates,
             NEW ds \in DependencyLists(s), AddSystemWithMetadata(s, d, p, e, ds)
      PROVE NoMutualWait'
  <2>1. deps' = [deps EXCEPT ![s] = ds] /\ \A x \in SeqElements(ds) : ~Reaches(x, s)
    BY <1>2 DEF AddSystemWithMetadata, Register, WouldCreateCycle
  <2>2. ds \in Seq(Systems)
    BY <1>0, <2>1 DEF TypeOK
  <2>3. QED
    BY <1>0, <2>1, <2>2, DependencyUpdate
<1>3. ASSUME NEW q \in Dependencies, AddDependency(q[1], q[2]) PROVE NoMutualWait'
  <2>1. q[1] \in Systems /\ q[2] \in Systems
    BY SchedulerAssumption
  <2>2. deps[q[1]] \in Seq(Systems)
    BY <1>0, <2>1 DEF TypeOK
  <2>3. deps' = [deps EXCEPT ![q[1]] = Append(deps[q[1]], q[2])] /\ ~Reaches(q[2], q[1])
    BY <1>3 DEF AddDependency, WouldCreateCycle
  <2>4. Append(deps[q[1]], q[2]) \in Seq(Systems)
    BY <2>1, <2>2
  <2>5. \A x \in SeqElements(Append(deps[q[1]], q[2])) : x = q[2] \/ x \in SeqElements(deps[q[1]])
    BY <2>1, <2>2 DEF SeqElements
  <2>6. QED
    BY <1>0, <2>1, <2>3, <2>4, <2>5, DependencyUpdate
<1>4. CASE UNCHANGED deps
  BY <1>4 DEF NoMutualWait
<1>5. QED
  BY <1>1, <1>2, <1>3, <1>4
     DEF Next, SetSystemPriority, SetStrategy, BuildConflictGraph, EnqueueSystem, ScheduleSystem,
         CompleteSystem, BatchBegin, BatchUnderflow, BatchStep, BatchReturn, vars, config, registry

\* The cycle checks keep every reachable set of systems free to make progress.
THEOREM NoMutualWaitHolds == Spec => []NoMutualWait
<1>1. Init => NoMutualWait
  BY DEF Init, NoMutualWait, SeqElements
<1>2. QED
  BY <1>1, TypedInit, TypedStep, DependencyStep, PTL DEF Spec
----------------------------------------------------------------------------
(* The queue and the limit *)

\* The queue alone is not inductive: a name may be enqueued only because it
\* neither runs nor has completed, and that must mean it never ran.
PendingInv == PendingNeverStarted /\ \A s \in Systems : ran[s] => s \in executing \cup completed

LEMMA PendingStep == Typed /\ PendingInv /\ [Next]_vars => PendingInv'
<1> SUFFICES ASSUME Typed, PendingInv, [Next]_vars PROVE PendingInv'
  OBVIOUS
<1> USE DEF Typed, PendingInv
<1>1. ASSUME NEW s \in Systems, NEW d, NEW ds, NEW p, NEW e, Register(s, d, ds, p, e)
      PROVE  PendingInv'
  BY <1>1 DEF Register, PendingNeverStarted, TypeOK
<1>2. ASSUME NEW s \in Systems, EnqueueSystem(s) PROVE PendingInv'
  <2>1. pending \in Seq(Systems) /\ pending' = Append(pending, s)
    BY <1>2 DEF EnqueueSystem, TypeOK
  <2>2. \A i \in DOMAIN pending' : pending'[i] = s \/ \E j \in DOMAIN pending : pending'[i] = pending[j]
    BY <2>1
  <2>3. s \notin executing \cup completed /\ UNCHANGED <<executing, completed, ran>>
    BY <1>2 DEF EnqueueSystem
  <2>4. ~ran[s]
    BY <2>3
  <2>5. QED
    BY <2>2, <2>3, <2>4 DEF PendingNeverStarted
<1>3. ASSUME NEW s \in systems, Start(s), UNCHANGED completed PROVE PendingInv'
  <2>1. s \in Systems
    BY DEF TypeOK
  <2>2. \A i \in DOMAIN pending' : \E j \in DOMAIN pending : pending'[i] = pending[j] /\ pending'[i] # s
    BY <1>3, <2>1, WithoutSystemType DEF Start
  <2>3. \A i \in DOMAIN pending : pending[i] \in Systems
    BY DEF TypeOK
  <2>4. PendingNeverStarted'
    BY <1>3, <2>1, <2>2, <2>3 DEF Start, PendingNeverStarted, TypeOK
  <2>5. QED
    BY <1>3, <2>1, <2>4 DEF Start, TypeOK
<1>4. ASSUME NEW s \in Systems, CompleteSystem(s) PROVE PendingInv'
  BY <1>4 DEF CompleteSystem, PendingNeverStarted, TypeOK, config, registry
<1>5. CASE UNCHANGED <<pending, executing, completed, ran>>
  BY <1>5 DEF PendingNeverStarted
<1>6. ASSUME NEW s \in Systems, ScheduleSystem(s) PROVE PendingInv'
  BY <1>3, <1>6 DEF ScheduleSystem, CanSchedule
<1>7. CASE BatchStep
  BY <1>3, <1>5, <1>7 DEF BatchStep, CanSchedule
<1>8. QED
  BY <1>1, <1>2, <1>4, <1>5, <1>6, <1>7
     DEF Next, AddSystem, AddSystemWithMetadata, AddDependency, SetSystemPriority, SetStrategy,
         BuildConflictGraph, BatchBegin, BatchUnderflow, BatchReturn, vars

\* Whatever the callers do, a name in the queue is a system that has not been
\* started since it was registered.
THEOREM PendingNeverStartedHolds == Spec => []PendingNeverStarted
<1>1. Init => PendingInv
  BY DEF Init, PendingInv, PendingNeverStarted
<1>2. Spec => []PendingInv
  BY <1>1, TypedInit, TypedStep, PendingStep, PTL DEF Spec
<1>3. QED
  BY <1>2, PTL DEF PendingInv

\* The slots a running batch may still fill are free: the strengthening of
\* WithinLimit that a batch of several starts needs.
SlotsFree == Cardinality(executing) + (batch.stop - batch.at) <= MaxConcurrent

LEMMA SlotsStep ==
    ASSUME ~DirectStarts
    PROVE  Typed /\ SlotsFree /\ [Next]_vars => SlotsFree'
<1> SUFFICES ASSUME Typed, SlotsFree, [Next]_vars PROVE SlotsFree'
  OBVIOUS
<1>0. /\ Cardinality(executing) \in Nat /\ batch.at \in Nat /\ batch.stop \in Nat
      /\ MaxConcurrent \in Nat
  BY FS_CardinalityType, SchedulerAssumption DEF Typed, TypeOK
<1>1. CASE UNCHANGED <<executing, batch>>
  BY <1>1 DEF SlotsFree
<1>2. ASSUME NEW s \in Systems, CompleteSystem(s) PROVE SlotsFree'
  <2>1. Cardinality(executing') <= Cardinality(executing) /\ Cardinality(executing') \in Nat
    <3>1. executing' \subseteq executing
      BY <1>2 DEF CompleteSystem
    <3>2. QED
      BY <3>1, FS_Subset, FS_CardinalityType DEF Typed
  <2>2. batch' = batch
    BY <1>2 DEF CompleteSystem
  <2>3. QED
    BY <1>0, <2>1, <2>2 DEF SlotsFree
<1>3. CASE BatchBegin
  <2>1. PICK list \in SchedulableLists :
           batch' = [NoBatch EXCEPT
                       !.list = list,
                       !.stop = Smaller(MaxConcurrent - Cardinality(executing), Len(list))]
    BY <1>3 DEF BatchBegin
  <2>2. Len(list) \in Nat
    BY SchedulableListsType DEF Typed
  <2>3. Smaller(MaxConcurrent - Cardinality(executing), Len(list)) <= MaxConcurrent - Cardinality(executing)
        /\ Smaller(MaxConcurrent - Cardinality(executing), Len(list)) \in Int
    BY <1>0, <2>2 DEF Smaller
  <2>4. batch'.at = 0 /\ batch'.stop = Smaller(MaxConcurrent - Cardinality(executing), Len(list))
    BY <2>1 DEF NoBatch
  <2>5. executing' = executing
    BY <1>3 DEF BatchBegin
  <2>6. QED
    BY <1>0, <2>3, <2>4, <2>5 DEF SlotsFree
<1>4. CASE BatchStep
  <2>1. PICK s : executing' = executing \/ executing' = executing \cup {s}
    BY <1>4 DEF BatchStep, Start
  <2>2. Cardinality(executing') <= Cardinality(executing) + 1 /\ Cardinality(executing') \in Nat
    <3>1. CASE executing' = executing
      BY <1>0, <3>1
    <3>2. CASE executing' = executing \cup {s}
      <4>1. Cardinality(executing \cup {s}) \in {Cardinality(executing), Cardinality(executing) + 1}
        BY FS_AddElement DEF Typed
      <4>2. QED
        BY <1>0, <3>2, <4>1
    <3>3. QED
      BY <2>1, <3>1, <3>2
  <2>3. batch'.at = batch.at + 1 /\ batch'.stop = batch.stop
    BY <1>4 DEF BatchStep, Typed, TypeOK
  <2>4. QED
    BY <1>0, <2>2, <2>3 DEF SlotsFree
<1>5. CASE BatchReturn
  BY <1>0, <1>5 DEF BatchReturn, NoBatch, SlotsFree
<1>6. QED
  BY <1>1, <1>2, <1>3, <1>4, <1>5
     DEF Next, AddSystem, AddSystemWithMetadata, Register, AddDependency, SetSystemPriority,
         SetStrategy, BuildConflictGraph, EnqueueSystem, ScheduleSystem, BatchUnderflow, vars

\* As long as systems are started by schedule_batch only, no more than the
\* configured number of them run at once.
THEOREM WithinLimitHolds ==
    ASSUME ~DirectStarts
    PROVE  Spec => []WithinLimit
<1>1. Init => SlotsFree
  BY FS_EmptySet, SchedulerAssumption DEF Init, NoBatch, SlotsFree
<1>2. Typed /\ SlotsFree => WithinLimit
  BY FS_CardinalityType, SchedulerAssumption DEF Typed, TypeOK, SlotsFree, WithinLimit
<1>3. Typed /\ SlotsFree /\ [Next]_vars => SlotsFree'
  BY SlotsStep
<1>4. QED
  BY <1>1, <1>2, <1>3, TypedInit, TypedStep, PTL DEF Spec
----------------------------------------------------------------------------
(* The order of a batch *)

\* What u may take after s has taken C, it may take before.
LEMMA AcquireHinders ==
    ASSUME NEW t \in Tracker, NEW s \in Systems, NEW u \in Systems \ {s}, NEW C \in SUBSET Claim,
           NEW c \in Claim, CanAccess(Acquire(t, s, C), c[1], u, c[2])
    PROVE  CanAccess(t, c[1], u, c[2])
<1>1. c[1] \in Resources /\ s # NoSystem
  BY NoSystemAssumption DEF Claim
<1>2. QED
  BY <1>1 DEF CanAccess, FreeFor, Acquire, Tracker

\* Starting a system makes nothing else ready that was not.
LEMMA StartHinders ==
    ASSUME Typed, NEW s \in Systems, Start(s), UNCHANGED <<config, completed>>,
           NEW u \in Systems \ {s}, CanSchedule(u)'
    PROVE  CanSchedule(u)
<1>1. UNCHANGED <<systems, deps, claims, edges>> /\ executing \subseteq executing'
  BY DEF Start, config, registry
<1>2. claims[u] \in SUBSET Claim /\ claims[s] \in SUBSET Claim /\ tracker \in Tracker
  BY DEF Typed, TypeOK
<1>3. \A c \in claims[u] : CanAccess(Acquire(tracker, s, claims[s]), c[1], u, c[2])
  BY <1>1 DEF CanSchedule, Start
<1>4. \A c \in claims[u] : CanAccess(tracker, c[1], u, c[2])
  BY <1>2, <1>3, AcquireHinders
<1>5. QED
  BY <1>1, <1>4 DEF CanSchedule, SeqElements

\* An enumeration of positions, as long as they are many, misses none.
LEMMA ListingComplete ==
    ASSUME NEW q \in Seq(Systems), NEW I \in SUBSET (DOMAIN q), NEW f \in Listings(I)
    PROVE  \A k \in I : \E i \in DOMAIN f : f[i] = k
<1>1. IsFiniteSet(I) /\ Cardinality(I) \in Nat
  <2>1. IsFiniteSet(1..Len(q)) /\ I \in SUBSET (1..Len(q))
    BY FS_Interval
  <2>2. QED
    BY <2>1, FS_Subset, FS_CardinalityType
<1>2. f \in Injection(1..Cardinality(I), I)
  BY DEF Listings, Injection, IsInjective
<1>3. Cardinality(1..Cardinality(I)) = Cardinality(I)
  BY <1>1, FS_Interval
<1>4. f \in Surjection(1..Cardinality(I), I)
  BY <1>1, <1>2, <1>3, FS_Injection
<1>5. QED
  BY <1>4 DEF Surjection

\* Taking s out of the queue: what is left keeps its order, and all but s is left.
LEMMA WithoutSystemEffect ==
    ASSUME TypeOK, NEW s \in Systems, NEW q \in WithoutSystem(s)
    PROVE  \E f \in [DOMAIN q -> DOMAIN pending] :
              /\ \A i \in DOMAIN q : q[i] = pending[f[i]] /\ q[i] # s
              /\ \A i, j \in DOMAIN q : i < j => f[i] < f[j]
              /\ \A k \in DOMAIN pending : pending[k] # s => \E i \in DOMAIN q : f[i] = k
<1> DEFINE I == {i \in DOMAIN pending : pending[i] # s}
<1>1. PICK f \in Listings(I) :
          /\ q = [i \in DOMAIN f |-> pending[f[i]]]
          /\ \A i, j \in DOMAIN f : i < j => f[i] < f[j]
  BY DEF WithoutSystem
<1>2. pending \in Seq(Systems) /\ I \in SUBSET (DOMAIN pending)
  BY DEF TypeOK
<1>3. \A k \in DOMAIN pending : pending[k] # s <=> k \in I
  OBVIOUS
<1> HIDE DEF I
<1>4. \A k \in I : \E i \in DOMAIN f : f[i] = k
  BY <1>2, ListingComplete
<1>5. f \in [DOMAIN q -> I] /\ DOMAIN f = DOMAIN q
  BY <1>1 DEF Listings
<1>6. f \in [DOMAIN q -> DOMAIN pending]
  BY <1>2, <1>5
<1>7. \A i \in DOMAIN q : q[i] = pending[f[i]] /\ q[i] # s
  BY <1>1, <1>2, <1>3, <1>5
<1>8. QED
  BY <1>1, <1>3, <1>4, <1>5, <1>6, <1>7

\* The listing a batch begins with: positions of the queue, in sorted order,
\* each once, and all that can be scheduled.
LEMMA SchedulableListsEffect ==
    ASSUME TypeOK, Cardinality(executing) < MaxConcurrent, IsFiniteSet(executing),
           NEW q \in SchedulableLists
    PROVE  \E f \in [DOMAIN q -> DOMAIN pending] :
              /\ q \in Seq(Systems)
              /\ \A i \in DOMAIN q : q[i] = pending[f[i]]
              /\ \A i, j \in DOMAIN q : f[i] = f[j] => i = j
              /\ \A i, j \in DOMAIN q : i < j => SortsBefore(f[i], f[j])
              /\ \A k \in DOMAIN pending : CanSchedule(pending[k]) => \E i \in DOMAIN q : f[i] = k
<1> DEFINE I == {i \in DOMAIN pending : CanSchedule(pending[i])}
<1>1. ~(Cardinality(executing) >= MaxConcurrent)
  BY FS_CardinalityType, SchedulerAssumption
<1>2. PICK f \in Listings(I) :
          /\ q = [i \in DOMAIN f |-> pending[f[i]]]
          /\ \A i, j \in DOMAIN f : i < j => SortsBefore(f[i], f[j])
  BY <1>1 DEF SchedulableLists
<1>3. pending \in Seq(Systems) /\ I \in SUBSET (DOMAIN pending)
  BY DEF TypeOK
<1>4. \A k \in DOMAIN pending : CanSchedule(pending[k]) => k \in I
  OBVIOUS
<1> HIDE DEF I
<1>5. \A k \in I : \E i \in DOMAIN f : f[i] = k
  BY <1>3, ListingComplete
<1>6. f \in [DOMAIN q -> I] /\ DOMAIN f = DOMAIN q /\ \A i, j \in DOMAIN f : f[i] = f[j] => i = j
  BY <1>2 DEF Listings
<1>7. f \in [DOMAIN q -> DOMAIN pending]
  BY <1>3, <1>6
<1>8. q \in Seq(Systems)
  BY SchedulableListsType
<1>9. QED
  BY <1>2, <1>4, <1>5, <1>6, <1>7, <1>8

\* No name waits twice.
QueueDistinct == \A i, j \in DOMAIN pending : pending[i] = pending[j] => i = j

LEMMA StartKeepsDistinct ==
    ASSUME Typed, QueueDistinct, NEW s \in Systems, Start(s)
    PROVE  QueueDistinct'
<1>1. PICK f \in [DOMAIN pending' -> DOMAIN pending] :
          /\ \A i \in DOMAIN pending' : pending'[i] = pending[f[i]]
          /\ \A i, j \in DOMAIN pending' : i < j => f[i] < f[j]
  BY WithoutSystemEffect DEF Start, Typed
<1>2. DOMAIN pending' \subseteq Int /\ DOMAIN pending \subseteq Int
  <2>1. pending' \in Seq(Systems) /\ pending \in Seq(Systems)
    BY WithoutSystemType DEF Start, Typed, TypeOK
  <2>2. QED
    BY <2>1
<1>3. \A i, j \in DOMAIN pending' : f[i] = f[j] => i = j
  BY <1>1, <1>2
<1>4. QED
  BY <1>1, <1>3 DEF QueueDistinct

LEMMA DistinctStep ==
    ASSUME ~DoubleEnqueue
    PROVE  Typed /\ QueueDistinct /\ [Next]_vars => QueueDistinct'
<1> SUFFICES ASSUME Typed, QueueDistinct, [Next]_vars PROVE QueueDistinct'
  OBVIOUS
<1>1. ASSUME NEW s \in Systems, EnqueueSystem(s) PROVE QueueDistinct'
  <2>1. pending \in Seq(Systems) /\ pending' = Append(pending, s)
    BY <1>1 DEF EnqueueSystem, Typed, TypeOK
  <2>2. \A i \in DOMAIN pending : pending[i] # s
    BY <1>1 DEF EnqueueSystem, SeqElements
  <2>3. QED
    BY <2>1, <2>2 DEF QueueDistinct
<1>2. CASE UNCHANGED pending
  BY <1>2 DEF QueueDistinct
<1>3. ASSUME NEW s \in Systems, ScheduleSystem(s) PROVE QueueDistinct'
  BY <1>3, StartKeepsDistinct DEF ScheduleSystem
<1>4. CASE BatchStep
  BY <1>2, <1>4, StartKeepsDistinct DEF BatchStep, CanSchedule, Typed, TypeOK
<1>5. QED
  BY <1>1, <1>2, <1>3, <1>4
     DEF Next, AddSystem, AddSystemWithMetadata, Register, AddDependency, SetSystemPriority,
         SetStrategy, BuildConflictGraph, CompleteSystem, BatchBegin, BatchUnderflow, BatchReturn, vars

\* The picks of the running batch that are still to be tried.
Left == {k \in DOMAIN batch.list : k > batch.at}

\* Every strategy but WorkStealing walks the list sorted at the beginning, and
\* that list stays as good as a fresh one: what is left of it still waits, in
\* the order of the strategy, and has all that can be scheduled by now.
PicksDistinct == \A k, l \in DOMAIN batch.list : batch.list[k] = batch.list[l] => k = l

PicksWait == \A k \in Left : \E i \in DOMAIN pending : pending[i] = batch.list[k]

PicksSorted ==
    \A k, l \in Left : \A i, j \in DOMAIN pending :
        k < l /\ pending[i] = batch.list[k] /\ pending[j] = batch.list[l] => SortsBefore(i, j)

PicksComplete ==
    \A j \in DOMAIN pending :
        CanSchedule(pending[j]) => \E k \in Left : batch.list[k] = pending[j]

PicksKept == PicksDistinct /\ PicksWait /\ PicksSorted /\ PicksComplete

PicksInv == InBatch /\ strategy # "WorkStealing" => PicksKept

\* Starting s changes the rank of nobody else.
LEMMA RankKept ==
    ASSUME Typed, NEW s \in Systems, Start(s), UNCHANGED config, NEW u \in Systems \ {s}
    PROVE  Rank(u)' = Rank(u)
BY DEF Rank, Start, config, registry, Typed, TypeOK

\* The first of the picks left is started.
LEMMA PickStarted ==
    ASSUME Typed, QueueDistinct, PicksKept, NEW s, batch.at + 1 \in DOMAIN batch.list,
           s = batch.list[batch.at + 1], CanSchedule(s), Start(s), UNCHANGED <<config, completed>>,
           batch'.list = batch.list, batch'.at = batch.at + 1
    PROVE  PicksKept'
<1>0. s \in Systems /\ batch.at \in Nat /\ DOMAIN batch.list \subseteq Int
  BY DEF CanSchedule, Typed, TypeOK
<1>1. PICK f \in [DOMAIN pending' -> DOMAIN pending] :
          /\ \A i \in DOMAIN pending' : pending'[i] = pending[f[i]] /\ pending'[i] # s
          /\ \A i, j \in DOMAIN pending' : i < j => f[i] < f[j]
          /\ \A k \in DOMAIN pending : pending[k] # s => \E i \in DOMAIN pending' : f[i] = k
  BY <1>0, WithoutSystemEffect DEF Start, Typed
<1>2. \A i \in DOMAIN pending' : pending'[i] \in Systems \ {s}
  <2>1. \A i \in DOMAIN pending : pending[i] \in Systems
    BY DEF Typed, TypeOK
  <2>2. QED
    BY <1>1, <2>1
<1>3. \A k \in Left' : k \in Left /\ k # batch.at + 1 /\ batch.list[k] # s
  BY <1>0 DEF Left, PicksDistinct, PicksKept
<1>4. \A k \in Left : batch.list[k] # s => k \in Left'
  BY <1>0 DEF Left
<1>5. PicksDistinct'
  BY DEF PicksDistinct, PicksKept
<1>6. PicksWait'
  BY <1>1, <1>3 DEF PicksWait, PicksKept
<1>7. PicksSorted'
  <2> SUFFICES ASSUME NEW k \in Left', NEW l \in Left', NEW i \in DOMAIN pending', NEW j \in DOMAIN pending',
                      k < l, pending'[i] = batch.list[k], pending'[j] = batch.list[l]
               PROVE  SortsBefore(i, j)'
    BY DEF PicksSorted
  <2>1. SortsBefore(f[i], f[j])
    BY <1>1, <1>3 DEF PicksSorted, PicksKept
  <2>2. PICK u \in Systems \ {s}, v \in Systems \ {s} :
            u = pending'[i] /\ v = pending'[j] /\ u = pending[f[i]] /\ v = pending[f[j]]
    BY <1>1, <1>2
  <2>3. Rank(u)' = Rank(u) /\ Rank(v)' = Rank(v)
    BY <1>0, <2>2, RankKept
  <2>4. f[i] < f[j] => i < j
    <3>1. pending' \in Seq(Systems) /\ pending \in Seq(Systems)
      BY <1>0, WithoutSystemType DEF Start, Typed, TypeOK
    <3>2. i \in Int /\ j \in Int /\ f[i] \in Int /\ f[j] \in Int
      BY <1>1, <3>1
    <3>3. QED
      BY <1>1, <3>2
  <2>5. QED
    BY <2>1, <2>2, <2>3, <2>4 DEF SortsBefore
<1>8. PicksComplete'
  <2> SUFFICES ASSUME NEW j \in DOMAIN pending', CanSchedule(pending[j])'
               PROVE  \E k \in Left' : batch.list[k] = pending'[j]
    BY DEF PicksComplete
  <2>1. PICK u \in Systems \ {s} : u = pending'[j] /\ u = pending[f[j]]
    BY <1>1, <1>2
  <2>2. CanSchedule(u)
    BY <1>0, <2>1, StartHinders
  <2>3. PICK k \in Left : batch.list[k] = u
    BY <1>1, <2>1, <2>2 DEF PicksComplete, PicksKept
  <2>4. QED
    BY <1>4, <2>1, <2>3
<1>9. QED
  BY <1>5, <1>6, <1>7, <1>8 DEF PicksKept

\* The first of the picks left can no longer be started, and is passed over.
LEMMA PickSkipped ==
    ASSUME Typed, PicksKept,
           ~(batch.at + 1 <= Len(batch.list) /\ CanSchedule(batch.list[batch.at + 1])),
           UNCHANGED <<config, completed, ran, tracker, executing, pending>>,
           batch'.list = batch.list, batch'.at = batch.at + 1
    PROVE  PicksKept'
<1>0. batch.at \in Nat /\ batch.list \in Seq(Systems)
  BY DEF Typed, TypeOK
<1>1. \A k \in Left' : k \in Left
  BY <1>0 DEF Left
<1>2. \A k \in Left : CanSchedule(batch.list[k]) => k \in Left'
  BY <1>0 DEF Left
<1>3. \A u : CanSchedule(u)' = CanSchedule(u)
  BY DEF CanSchedule, SeqElements, config, registry
<1>4. \A i, j : SortsBefore(i, j)' = SortsBefore(i, j)
  BY DEF SortsBefore, Rank, config, registry
<1>5. PicksDistinct' /\ PicksWait'
  BY <1>1 DEF PicksDistinct, PicksWait, PicksKept
<1>6. PicksSorted'
  BY <1>1, <1>4 DEF PicksSorted, PicksKept
<1>7. PicksComplete'
  BY <1>2, <1>3 DEF PicksComplete, PicksKept
<1>8. QED
  BY <1>5, <1>6, <1>7 DEF PicksKept

\* A batch begins with the whole sorted list left.
LEMMA PicksBegin ==
    ASSUME Typed, QueueDistinct, BatchBegin
    PROVE  PicksKept'
<1>1. PICK list \in SchedulableLists : batch'.list = list /\ batch'.at = 0
  BY DEF BatchBegin, NoBatch
<1>2. PICK f \in [DOMAIN list -> DOMAIN pending] :
          /\ list \in Seq(Systems)
          /\ \A i \in DOMAIN list : list[i] = pending[f[i]]
          /\ \A i, j \in DOMAIN list : f[i] = f[j] => i = j
          /\ \A i, j \in DOMAIN list : i < j => SortsBefore(f[i], f[j])
          /\ \A k \in DOMAIN pending : CanSchedule(pending[k]) => \E i \in DOMAIN list : f[i] = k
  BY SchedulableListsEffect DEF BatchBegin, Typed
<1>3. Left' = DOMAIN list
  <2>1. \A k \in DOMAIN list : k > 0
    BY <1>2
  <2>2. QED
    BY <1>1, <2>1 DEF Left
<1>4. UNCHANGED <<config, completed, ran, tracker, executing, pending>>
  BY DEF BatchBegin
<1>5. \A u : CanSchedule(u)' = CanSchedule(u)
  BY <1>4 DEF CanSchedule, SeqElements, config, registry
<1>6. \A i, j : SortsBefore(i, j)' = SortsBefore(i, j)
  BY <1>4 DEF SortsBefore, Rank, config, registry
<1>7. PicksDistinct' /\ PicksWait'
  BY <1>1, <1>2, <1>3, <1>4 DEF PicksDistinct, PicksWait, QueueDistinct
<1>8. PicksSorted'
  <2> SUFFICES ASSUME NEW k \in DOMAIN list, NEW l \in DOMAIN list, NEW i \in DOMAIN pending, NEW j \in DOMAIN pending,
                      k < l, pending[i] = list[k], pending[j] = list[l]
               PROVE  SortsBefore(i, j)
    BY <1>1, <1>3, <1>4, <1>6 DEF PicksSorted
  <2>1. i = f[k] /\ j = f[l]
    BY <1>2 DEF QueueDistinct
  <2>2. QED
    BY <1>2, <2>1
<1>9. PicksComplete'
  BY <1>1, <1>2, <1>3, <1>4, <1>5 DEF PicksComplete
<1>10. QED
  BY <1>7, <1>8, <1>9 DEF PicksKept

LEMMA PicksStep == Typed /\ QueueDistinct /\ PicksInv /\ [Next]_vars => PicksInv'
<1> SUFFICES ASSUME Typed, QueueDistinct, PicksInv, [Next]_vars, InBatch', strategy' # "WorkStealing"
             PROVE  PicksKept'
  BY DEF PicksInv
<1>1. CASE BatchBegin
  BY <1>1, PicksBegin
<1>2. CASE BatchStep
  <2>1. InBatch /\ strategy # "WorkStealing"
    BY <1>2 DEF BatchStep, InBatch, config, Typed, TypeOK
  <2>2. CurrentLists = {batch.list} /\ PicksKept
    BY <2>1 DEF CurrentLists, PicksInv
  <2>3. UNCHANGED <<config, completed>> /\ batch'.list = batch.list /\ batch'.at = batch.at + 1
    BY <1>2, <2>2 DEF BatchStep, Typed, TypeOK
  <2>4. \/ /\ batch.at + 1 <= Len(batch.list) /\ CanSchedule(batch.list[batch.at + 1])
           /\ Start(batch.list[batch.at + 1])
        \/ /\ ~(batch.at + 1 <= Len(batch.list) /\ CanSchedule(batch.list[batch.at + 1]))
           /\ UNCHANGED <<ran, tracker, executing, pending>>
    BY <1>2, <2>2 DEF BatchStep
  <2>5. batch.at + 1 <= Len(batch.list) => batch.at + 1 \in DOMAIN batch.list
    BY DEF Typed, TypeOK
  <2>6. QED
    BY <2>2, <2>3, <2>4, <2>5, PickStarted, PickSkipped
<1>3. CASE BatchReturn
  BY <1>3 DEF BatchReturn, NoBatch, InBatch
<1>4. CASE UNCHANGED vars
  <2>1. InBatch /\ strategy # "WorkStealing"
    BY <1>4 DEF vars, config, InBatch
  <2>2. PicksKept' = PicksKept
    BY <1>4 DEF PicksKept, PicksDistinct, PicksWait, PicksSorted, PicksComplete, Left, SortsBefore, Rank,
                CanSchedule, SeqElements, vars, config, registry
  <2>3. QED
    BY <2>1, <2>2 DEF PicksInv
<1>5. CASE ~BatchStep /\ ~BatchReturn /\ ~BatchBegin /\ Next
  <2>1. Ready /\ batch' = batch
    BY <1>5 DEF Next, AddSystem, AddSystemWithMetadata, Register, AddDependency, SetSystemPriority,
                SetStrategy, BuildConflictGraph, EnqueueSystem, ScheduleSystem, CompleteSystem,
                BatchUnderflow
  <2>2. QED
    BY <2>1 DEF Ready, InBatch
<1>6. QED
  BY <1>1, <1>2, <1>3, <1>4, <1>5

LEMMA PicksInit == Init => QueueDistinct /\ PicksInv
BY DEF Init, QueueDistinct, PicksInv, InBatch, NoBatch

\* Only the loop of schedule_batch adds to what it returns.
LEMMA PickOf ==
    ASSUME Typed, [Next]_vars, NEW s, BatchStarts(s)
    PROVE  /\ BatchStep
           /\ \E list \in CurrentLists :
                 batch.at + 1 <= Len(list) /\ s = list[batch.at + 1] /\ CanSchedule(s)
<1>1. batch.scheduled \in Seq(Systems)
  BY DEF Typed, TypeOK
<1>2. batch'.scheduled # batch.scheduled /\ batch'.scheduled # <<>>
  BY <1>1 DEF BatchStarts
<1>3. BatchStep
  <2>1. ASSUME UNCHANGED batch PROVE FALSE
    BY <1>2, <2>1
  <2>2. ASSUME BatchBegin PROVE batch'.scheduled = <<>>
    <3>1. PICK list, stop : batch' = [NoBatch EXCEPT !.list = list, !.stop = stop]
      BY <2>2 DEF BatchBegin
    <3>2. batch' = [list |-> list, at |-> 0, stop |-> stop, scheduled |-> <<>>]
      BY <3>1 DEF NoBatch
    <3>3. QED
      BY <3>2
  <2>3. ASSUME BatchReturn PROVE batch'.scheduled = <<>>
    BY <2>3 DEF BatchReturn, NoBatch
  <2>4. QED
    BY <1>2, <2>1, <2>2, <2>3
       DEF Next, AddSystem, AddSystemWithMetadata, Register, AddDependency, SetSystemPriority,
           SetStrategy, BuildConflictGraph, EnqueueSystem, ScheduleSystem, CompleteSystem,
           BatchUnderflow, vars
<1>4. PICK list \in CurrentLists :
          \/ /\ batch.at + 1 <= Len(list) /\ CanSchedule(list[batch.at + 1])
             /\ batch' = [batch EXCEPT !.at = batch.at + 1,
                                       !.scheduled = Append(@, list[batch.at + 1])]
          \/ batch' = [batch EXCEPT !.at = batch.at + 1]
  BY <1>3 DEF BatchStep
<1>5. batch' # [batch EXCEPT !.at = batch.at + 1]
  BY <1>2 DEF Typed, TypeOK
<1>6. batch'.scheduled = Append(batch.scheduled, list[batch.at + 1])
  BY <1>4, <1>5 DEF Typed, TypeOK
<1>7. s = list[batch.at + 1]
  <2>1. \A q, a : q = Append(batch.scheduled, a) => q[Len(batch.scheduled) + 1] = a
    BY <1>1
  <2>2. QED
    BY <1>6, <2>1 DEF BatchStarts
<1>8. QED
  BY <1>3, <1>4, <1>5, <1>7

\* While no name waits twice, a batch never starts what runs or has run before.
THEOREM BatchStartsFreshHolds ==
    ASSUME ~DoubleEnqueue
    PROVE  Spec => BatchStartsFresh
<1>1. Typed /\ PendingInv /\ PicksInv /\ [Next]_vars
        => \A s \in Systems : BatchStarts(s) => s \notin executing \cup completed
  <2> SUFFICES ASSUME Typed, PendingInv, PicksInv, [Next]_vars, NEW s \in Systems, BatchStarts(s)
               PROVE  s \notin executing \cup completed
    OBVIOUS
  <2>1. PICK list \in CurrentLists : batch.at + 1 <= Len(list) /\ s = list[batch.at + 1]
    BY PickOf
  <2>2. batch.at \in Nat /\ batch.list \in Seq(Systems) /\ InBatch
    <3>1. batch.at \in Nat /\ batch.stop \in Nat /\ batch.list \in Seq(Systems)
      BY DEF Typed, TypeOK
    <3>2. batch.at < batch.stop
      BY PickOf DEF BatchStep
    <3>3. QED
      BY <3>1, <3>2 DEF InBatch
  <2>3. \E i \in DOMAIN pending : pending[i] = s
    <3>1. CASE strategy # "WorkStealing"
      <4>1. batch.at + 1 \in Left /\ s = batch.list[batch.at + 1]
        BY <2>1, <2>2, <3>1 DEF CurrentLists, Left
      <4>2. QED
        BY <2>2, <3>1, <4>1 DEF PicksInv, PicksKept, PicksWait
    <3>2. CASE strategy = "WorkStealing"
      <4>1. list \in SchedulableLists
        BY <2>1, <3>2 DEF CurrentLists
      <4>2. list # <<>>
        BY <2>1, <2>2
      <4>3. Cardinality(executing) < MaxConcurrent
        BY <4>1, <4>2, FS_CardinalityType, SchedulerAssumption DEF SchedulableLists, Typed
      <4>4. PICK f \in [DOMAIN list -> DOMAIN pending] :
                list \in Seq(Systems) /\ \A i \in DOMAIN list : list[i] = pending[f[i]]
        BY <4>1, <4>3, SchedulableListsEffect DEF Typed
      <4>5. batch.at + 1 \in DOMAIN list
        BY <2>1, <2>2, <4>4
      <4>6. QED
        BY <2>1, <4>4, <4>5
    <3>3. QED
      BY <3>1, <3>2
  <2>4. QED
    BY <2>3 DEF PendingInv, PendingNeverStarted
<1>2. Init => PendingInv
  BY DEF Init, PendingInv, PendingNeverStarted
<1>3. QED
  BY <1>1, <1>2, PicksInit, TypedInit, TypedStep, PendingStep, DistinctStep, PicksStep, PTL
     DEF Spec, BatchStartsFresh

\* A batch starts nothing while a waiting system that comes earlier in the
\* strategy's order could start, although it walks a list sorted before its
\* first start; WorkStealing, which asks for a new list and goes on at the next
\* index of it, is the exception.
THEOREM StrategyRespectedHolds ==
    ASSUME ~DoubleEnqueue, "WorkStealing" \notin Strategies
    PROVE  Spec => StrategyRespected
<1> DEFINE Usual == strategy \in Strategies
<1>1. Init => Usual
  BY DEF Init
<1>2. Usual /\ [Next]_vars => Usual'
  BY DEF Next, AddSystem, AddSystemWithMetadata, Register, AddDependency, SetSystemPriority,
         SetStrategy, BuildConflictGraph, EnqueueSystem, ScheduleSystem, CompleteSystem,
         BatchBegin, BatchUnderflow, BatchStep, BatchReturn, vars, config
<1>3. Typed => \A u \in Systems : prio[u] \in Int /\ estimate[u] \in Int
  <2>1. 0..3 \subseteq Int /\ 0..NoEstimate \subseteq Int
    BY DEF NoEstimate
  <2>2. QED
    BY <2>1 DEF Typed, TypeOK
<1>4. Typed /\ PendingInv /\ QueueDistinct /\ PicksInv /\ Usual /\ [Next]_vars
        => \A s \in Systems : BatchStarts(s) => FirstInOrder(s)
  <2> SUFFICES ASSUME Typed, PendingInv, QueueDistinct, PicksInv, Usual, [Next]_vars,
                      NEW s \in Systems, BatchStarts(s)
               PROVE  FirstInOrder(s)
    OBVIOUS
  <2>0. strategy # "WorkStealing" /\ strategy \in Strategy
    BY DEF Typed, TypeOK
  <2>1. batch.at \in Nat /\ batch.list \in Seq(Systems) /\ PicksKept
    <3>1. batch.at \in Nat /\ batch.stop \in Nat /\ batch.list \in Seq(Systems)
      BY DEF Typed, TypeOK
    <3>2. batch.at < batch.stop
      BY PickOf DEF BatchStep
    <3>3. QED
      BY <2>0, <3>1, <3>2 DEF InBatch, PicksInv
  <2>2. batch.at + 1 \in Left /\ s = batch.list[batch.at + 1]
    BY <2>0, <2>1, PickOf DEF CurrentLists, Left
  <2>3. PICK i \in DOMAIN pending : pending[i] = s
    BY <2>1, <2>2 DEF PicksKept, PicksWait
  <2>4. ASSUME NEW j \in DOMAIN pending, CanSchedule(pending[j])
        PROVE  /\ ~Outranks(pending[j], s)
               /\ i <= j \/ Outranks(s, pending[j])
    <3>0. i \in Int /\ j \in Int /\ pending[j] \in Systems
      <4>1. pending \in Seq(Systems)
        BY DEF Typed, TypeOK
      <4>2. QED
        BY <4>1
    <3>1. PICK k \in Left : batch.list[k] = pending[j]
      BY <2>1, <2>4 DEF PicksKept, PicksComplete
    <3>2. CASE k = batch.at + 1
      <4>1. i = j /\ pending[j] = s
        BY <2>2, <2>3, <3>1, <3>2 DEF QueueDistinct
      <4>2. prio[s] \in Int /\ estimate[s] \in Int
        BY <1>3
      <4>3. QED
        BY <2>0, <3>0, <4>1, <4>2 DEF Outranks
    <3>3. CASE k # batch.at + 1
      <4>1. batch.at + 1 < k
        BY <2>1, <3>3 DEF Left
      <4>2. SortsBefore(i, j)
        BY <2>1, <2>2, <2>3, <3>1, <4>1 DEF PicksKept, PicksSorted
      <4>3. Rank(s) < Rank(pending[j]) \/ (Rank(s) = Rank(pending[j]) /\ i < j)
        BY <2>3, <4>2 DEF SortsBefore
      <4>4. /\ prio[s] \in Int /\ prio[pending[j]] \in Int
            /\ estimate[s] \in Int /\ estimate[pending[j]] \in Int
        BY <1>3, <3>0
      <4>5. ~ran[s] /\ ~ran[pending[j]]
        BY <2>3 DEF PendingInv, PendingNeverStarted
      <4>6. CASE strategy = "Priority"
        <5>1. Rank(s) = -prio[s] /\ Rank(pending[j]) = -prio[pending[j]]
          BY <4>6 DEF Rank
        <5>2. ~(prio[pending[j]] > prio[s]) /\ (i <= j \/ prio[s] > prio[pending[j]])
          BY <3>0, <4>3, <4>4, <5>1
        <5>3. QED
          BY <4>6, <5>2 DEF Outranks
      <4>7. CASE strategy = "SJF"
        <5>1. Rank(s) = estimate[s] /\ Rank(pending[j]) = estimate[pending[j]]
          BY <4>7 DEF Rank
        <5>2. ~(estimate[pending[j]] < estimate[s]) /\ (i <= j \/ estimate[s] < estimate[pending[j]])
          BY <3>0, <4>3, <4>4, <5>1
        <5>3. QED
          BY <4>7, <5>2 DEF Outranks
      <4>8. CASE strategy \in {"FCFS", "RoundRobin"}
        <5>1. Rank(s) = 0 /\ Rank(pending[j]) = 0
          BY <4>5, <4>8 DEF Rank
        <5>2. QED
          BY <3>0, <4>3, <4>8, <5>1 DEF Outranks
      <4>9. QED
        BY <2>0, <4>6, <4>7, <4>8 DEF Strategy
    <3>4. QED
      BY <3>2, <3>3
  <2>5. QED
    BY <2>3, <2>4 DEF FirstInOrder
<1>5. Init => PendingInv
  BY DEF Init, PendingInv, PendingNeverStarted
<1>6. QED
  BY <1>1, <1>2, <1>4, <1>5, PicksInit, TypedInit, TypedStep, PendingStep, DistinctStep, PicksStep, PTL
     DEF Spec, StrategyRespected

----------------------------------------------------------------------------
(* Grants, and the abstract borrow rules *)

LEMMA GrantsStep ==
    ASSUME ~LateChanges
    PROVE  Typed /\ GrantsMatch /\ [Next]_vars => GrantsMatch'
<1> SUFFICES ASSUME Typed, GrantsMatch, [Next]_vars PROVE GrantsMatch'
  OBVIOUS
<1>0. tracker \in Tracker /\ systems \subseteq Systems /\ claims \in [Systems -> SUBSET Claim]
  BY DEF Typed, TypeOK
<1>1. ASSUME NEW s \in systems, CanSchedule(s), Start(s), UNCHANGED claims PROVE GrantsMatch'
  <2>1. tracker' = Acquire(tracker, s, claims[s]) /\ executing' = executing \cup {s}
    BY <1>1 DEF Start
  <2>2. HeldBy(tracker', s) = HeldBy(tracker, s) \cup claims[s]
        /\ \A u \in Systems \ {s} : HeldBy(tracker', u) = HeldBy(tracker, u)
    BY <1>0, <1>1, <2>1, AcquireGrants DEF CanSchedule
  <2>3. QED
    BY <1>0, <1>1, <2>1, <2>2 DEF GrantsMatch
<1>2. ASSUME NEW s \in systems, CompleteSystem(s), UNCHANGED claims PROVE GrantsMatch'
  <2>1. tracker' = Release(tracker, s, claims[s]) /\ executing' = executing \ {s}
    BY <1>2 DEF CompleteSystem
  <2>2. HeldBy(tracker', s) = HeldBy(tracker, s) \ claims[s]
        /\ \A u \in Systems \ {s} : HeldBy(tracker', u) = HeldBy(tracker, u)
    BY <1>0, <2>1, ReleaseGrants
  <2>3. QED
    BY <1>0, <1>2, <2>1, <2>2 DEF GrantsMatch
<1>3. CASE UNCHANGED <<tracker, executing, claims>>
  BY <1>3 DEF GrantsMatch
<1>4. ASSUME NEW s \in Systems, MayChange(s), UNCHANGED <<tracker, executing>>,
             \A u \in Systems \ {s} : claims'[u] = claims[u]
      PROVE  GrantsMatch'
  <2>1. s \notin executing
    BY <1>4 DEF MayChange
  <2>2. QED
    BY <1>4, <2>1 DEF GrantsMatch
<1>5. QED
  BY <1>1, <1>2, <1>3, <1>4, StepKinds

\* With definitions that do not change once their system has started, the
\* borrow table grants each running system its declared uses, and nobody else
\* anything.
THEOREM GrantsMatchHolds ==
    ASSUME ~LateChanges
    PROVE  Spec => []GrantsMatch
<1>1. Init => GrantsMatch
  BY NoSystemAssumption DEF Init, EmptyTracker, GrantsMatch, HeldBy, Claim
<1>2. Typed /\ GrantsMatch /\ [Next]_vars => GrantsMatch'
  BY GrantsStep
<1>3. QED
  BY <1>1, <1>2, TypedInit, TypedStep, PTL DEF Spec

LEMMA OrderStep ==
    ASSUME ~LateChanges
    PROVE  Typed /\ DependenciesDoneFirst /\ [Next]_vars => DependenciesDoneFirst'
<1> SUFFICES ASSUME Typed, DependenciesDoneFirst, [Next]_vars PROVE DependenciesDoneFirst'
  OBVIOUS
<1>1. ASSUME NEW s \in systems, CanSchedule(s), Start(s), UNCHANGED <<deps, completed>>
      PROVE  DependenciesDoneFirst'
  BY <1>1 DEF CanSchedule, Start, DependenciesDoneFirst, SeqElements
<1>2. ASSUME NEW s \in systems, CompleteSystem(s), UNCHANGED deps PROVE DependenciesDoneFirst'
  BY <1>2 DEF CompleteSystem, DependenciesDoneFirst, SeqElements
<1>3. CASE UNCHANGED <<deps, executing, completed>>
  BY <1>3 DEF DependenciesDoneFirst, SeqElements
<1>4. ASSUME NEW s \in Systems, MayChange(s), UNCHANGED <<executing, completed>>,
             \A u \in Systems \ {s} : deps'[u] = deps[u]
      PROVE  DependenciesDoneFirst'
  <2>1. s \notin executing \cup completed /\ executing \cup completed \subseteq Systems
    BY <1>4 DEF MayChange, Typed, TypeOK
  <2>2. QED
    BY <1>4, <2>1 DEF DependenciesDoneFirst, SeqElements
<1>5. QED
  BY <1>1, <1>2, <1>3, <1>4, StepKinds

\* Nothing starts before all it depends on, through any chain, has completed.
THEOREM DependenciesDoneFirstHolds ==
    ASSUME ~LateChanges
    PROVE  Spec => []DependenciesDoneFirst
<1>1. Init => DependenciesDoneFirst
  BY DEF Init, DependenciesDoneFirst
<1>2. Typed /\ DependenciesDoneFirst /\ [Next]_vars => DependenciesDoneFirst'
  BY OrderStep
<1>3. QED
  BY <1>1, <1>2, TypedInit, TypedStep, PTL DEF Spec

LEMMA RulesStep ==
    ASSUME ~LateChanges
    PROVE  Typed /\ GrantsMatch /\ GrantsMatch' /\ [Next]_vars => [Rules!Next]_(Rules!vars)
<1> SUFFICES ASSUME Typed, GrantsMatch, GrantsMatch', [Next]_vars
             PROVE  Rules!Next \/ UNCHANGED Rules!vars
  OBVIOUS
<1> DEFINE grant == [s \in Systems |-> HeldBy(tracker, s)]
<1>0. tracker \in Tracker /\ systems \subseteq Systems /\ claims \in [Systems -> SUBSET Claim]
  BY DEF Typed, TypeOK
<1>1. ASSUME NEW s \in systems, CanSchedule(s), Start(s), UNCHANGED claims
      PROVE  Rules!Next \/ UNCHANGED Rules!vars
  <2>1. tracker' = Acquire(tracker, s, claims[s]) /\ executing' = executing \cup {s}
    BY <1>1 DEF Start
  <2>2. HeldBy(tracker', s) = claims[s]
    BY <1>0, <1>1, <2>1 DEF GrantsMatch
  <2>3. \A u \in Systems \ {s} : HeldBy(tracker', u) = HeldBy(tracker, u)
    BY <1>0, <1>1, <2>1, AcquireGrants DEF CanSchedule
  <2>4. CASE s \in executing
    <3>1. executing' = executing /\ HeldBy(tracker, s) = claims[s]
      BY <1>0, <2>1, <2>4 DEF GrantsMatch
    <3>2. grant' = grant
      BY <2>2, <2>3, <3>1
    <3>3. QED
      BY <3>1, <3>2 DEF Rules!vars
  <2>5. CASE s \notin executing
    <3>1. grant' = [grant EXCEPT ![s] = claims[s]]
      BY <1>0, <2>2, <2>3
    <3>2. \A u \in Systems \ {s} : Rules!Disjoint(claims[s], HeldBy(tracker, u))
      BY <1>0, <1>1, CheckedIsCompatible DEF CanSchedule, Compatible, Rules!Disjoint, Rules!ReadOnly
    <3>3. claims[s] \in SUBSET Rules!Claim
      BY <1>0 DEF Claim, Access, Rules!Claim
    <3>4. \A u \in Systems \ {s} : Rules!Disjoint(claims[s], grant[u])
      BY <3>2
    <3>5. Rules!Start(s)
      BY <2>1, <2>5, <3>1, <3>3, <3>4 DEF Rules!Start
    <3>6. QED
      BY <1>0, <3>5 DEF Rules!Next
  <2>6. QED
    BY <2>4, <2>5
<1>2. ASSUME NEW s \in systems, CompleteSystem(s) PROVE Rules!Next
  <2>1. tracker' = Release(tracker, s, claims[s]) /\ executing' = executing \ {s} /\ s \in executing
    BY <1>2 DEF CompleteSystem
  <2>2. HeldBy(tracker', s) = {}
    BY <1>0, <2>1 DEF GrantsMatch
  <2>3. \A u \in Systems \ {s} : HeldBy(tracker', u) = HeldBy(tracker, u)
    BY <1>0, <2>1, ReleaseGrants
  <2>4. grant' = [grant EXCEPT ![s] = {}]
    BY <1>0, <2>2, <2>3
  <2>5. Rules!Finish(s)
    BY <2>1, <2>4 DEF Rules!Finish
  <2>6. QED
    BY <1>0, <2>5 DEF Rules!Next
<1>3. CASE UNCHANGED <<tracker, executing>>
  BY <1>3 DEF Rules!vars, HeldBy
<1>4. QED
  BY <1>1, <1>2, <1>3, StepKinds

\* The scheduler implements the abstract borrow rules.
THEOREM SchedulerImplementsBorrowRules ==
    ASSUME ~LateChanges
    PROVE  Spec => ImplementsBorrowRules
<1>1. Init => Rules!Init
  BY NoSystemAssumption DEF Init, EmptyTracker, HeldBy, Claim, Rules!Init
<1>2. Typed /\ GrantsMatch /\ GrantsMatch' /\ [Next]_vars => [Rules!Next]_(Rules!vars)
  BY RulesStep
<1>3. Spec => []GrantsMatch
  BY GrantsMatchHolds
<1>4. QED
  BY <1>1, <1>2, <1>3, TypedInit, TypedStep, PTL DEF Spec, ImplementsBorrowRules, Rules!Spec
============================================================================
