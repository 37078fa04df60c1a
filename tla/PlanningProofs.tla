---------------------------- MODULE PlanningProofs ----------------------------
(***************************************************************************)
(* Theorems about the batches of BatchPlanner, for any list of requests,   *)
(* and about PlanExecutor, for any plans.                                  *)
(***************************************************************************)
EXTENDS BatchPlanner, PlanExecutor, SequenceTheorems, TLAPS

----------------------------------------------------------------------------
(* Batches *)

\* A request may enter a batch if it excludes no system there: the matrix and the
\* second look agree.
LEMMA FitsMeans ==
    ASSUME Requests \subseteq Int, NEW batch \in Seq(Requests), NEW i \in Requests,
           i \notin ToSet(batch), Fits(i, batch)
    PROVE  \A j \in ToSet(batch) : ~Exclude(i, j) /\ ~Exclude(j, i)
BY DEF Fits, Exclude, AccessesConflict

\* And it is kept out only for a system that excludes it.
LEMMA UnfitMeans ==
    ASSUME Requests \subseteq Int, NEW batch \in Seq(Requests), NEW i \in Requests, ~Fits(i, batch)
    PROVE  \E j \in ToSet(batch) : Exclude(i, j)
<1>1. PICK j \in ToSet(batch) :
          \/ HasConflict(i, j)
          \/ \E r \in Uses(i) \cap Uses(j) : AccessesConflict(AccessOf(j, r), AccessOf(i, r))
  BY DEF Fits
<1>2. j \in Requests
  BY DEF ToSet
<1>3. \A a, b : AccessesConflict(a, b) => {a, b} # {"Immutable"} /\ {b, a} # {"Immutable"}
  <2> SUFFICES ASSUME NEW a, NEW b, AccessesConflict(a, b)
               PROVE  {a, b} # {"Immutable"} /\ {b, a} # {"Immutable"}
    OBVIOUS
  <2>1. ASSUME NEW S, a \in S, b \in S PROVE S # {"Immutable"}
    BY <2>1 DEF AccessesConflict
  <2>2. QED
    BY <2>1
<1>4. CASE HasConflict(i, j)
  BY <1>2, <1>3, <1>4 DEF HasConflict, Exclude
<1>5. CASE \E r \in Uses(i) \cap Uses(j) : AccessesConflict(AccessOf(j, r), AccessOf(i, r))
  BY <1>3, <1>5 DEF Exclude
<1>6. QED
  BY <1>1, <1>4, <1>5

\* The batches no request enters any more.
Closed == IF Planning THEN Len(batches) - 1 ELSE Len(batches)

BatchType ==
    /\ requests \in Seq(ToSet(requests))
    /\ batches \in Seq(Seq(Requests)) /\ Len(batches) > 0
    /\ unscheduled \subseteq Requests /\ seen \subseteq unscheduled

PlacedOnce ==
    \A b, c \in DOMAIN batches : \A k \in DOMAIN batches[b], l \in DOMAIN batches[c] :
        batches[b][k] = batches[c][l] => b = c /\ k = l

\* What is no longer to be scheduled is what is in a closed batch.
ClosedOut == \A i \in Requests : i \notin unscheduled <=> \E b \in 1..Closed : i \in ToSet(batches[b])

OpenSeen == Planning => ToSet(batches[Len(batches)]) \subseteq seen

Harmless ==
    \A b \in DOMAIN batches : \A m, n \in DOMAIN batches[b] :
        m # n => ~Exclude(batches[b][m], batches[b][n])

PutOff ==
    \A b \in 1..Closed, i \in Requests :
        (\A c \in 1..b : i \notin ToSet(batches[c])) => \E j \in ToSet(batches[b]) : Exclude(i, j)

\* The part of BatchesExact that a pass over the hash set builds up.
SeenPutOff ==
    Planning => \A i \in seen \ ToSet(batches[Len(batches)]) :
                    \E j \in ToSet(batches[Len(batches)]) : Exclude(i, j)

Planned == PlacedOnce /\ ClosedOut /\ OpenSeen /\ Harmless /\ PutOff /\ SeenPutOff

BatchInv == BatchType /\ Planned

LEMMA BatchInvInit == BatchInit => BatchInv
<1> SUFFICES ASSUME BatchInit PROVE BatchInv
  OBVIOUS
<1>1. requests \in Seq(ToSet(requests))
  BY RequestsAssumption DEF BatchInit
<1>2. batches = <<<<>>>> /\ unscheduled = Requests /\ seen = {}
  BY DEF BatchInit
<1>3. <<>> \in Seq(Requests)
  OBVIOUS
<1>4. batches \in Seq(Seq(Requests)) /\ Len(batches) = 1 /\ batches[1] = <<>> /\ DOMAIN batches = {1}
  BY <1>2, <1>3
<1>5. BatchType
  BY <1>1, <1>2, <1>4 DEF BatchType
<1>6. ToSet(batches[1]) = {} /\ DOMAIN batches[1] = {}
  BY <1>4 DEF ToSet
<1>7. ClosedOut /\ PutOff
  <2>1. CASE Planning
    <3>1. Closed = 0
      BY <1>4, <2>1 DEF Closed
    <3>2. QED
      BY <1>2, <3>1 DEF ClosedOut, PutOff
  <2>2. CASE ~Planning
    BY <1>2, <2>2 DEF Planning, ClosedOut, PutOff
  <2>3. QED
    BY <2>1, <2>2
<1>8. PlacedOnce /\ OpenSeen /\ Harmless /\ SeenPutOff
  BY <1>2, <1>4, <1>6 DEF PlacedOnce, OpenSeen, Harmless, SeenPutOff
<1>9. QED
  BY <1>5, <1>7, <1>8 DEF BatchInv, Planned

\* Who excludes whom is settled by the requests.
LEMMA ExcludeKept ==
    ASSUME UNCHANGED requests
    PROVE  /\ Requests' = Requests
           /\ \A i, j : Exclude(i, j)' = Exclude(i, j)
BY DEF Requests, Exclude, Uses, AccessOf

LEMMA ConsiderStep ==
    ASSUME BatchInv, NEW i \in Requests, Consider(i)
    PROVE  BatchInv'
<1> DEFINE L == Len(batches)
           B == batches[L]
<1>0. /\ Requests' = Requests /\ Requests \subseteq Int
      /\ \A a, b : Exclude(a, b)' = Exclude(a, b)
  <2>1. Requests = 1..Len(requests) /\ Len(requests) \in Nat
    BY DEF BatchInv, BatchType, Requests
  <2>2. QED
    BY <2>1, ExcludeKept DEF Consider
<1>1. /\ L \in Nat \ {0} /\ L \in DOMAIN batches /\ B \in Seq(Requests)
      /\ DOMAIN batches = 1..L /\ \A b \in DOMAIN batches : batches[b] \in Seq(Requests)
  BY DEF BatchInv, BatchType
<1>2. \A b : b \in 1..L - 1 <=> b \in 1..L /\ b # L
  <2>1. \A n \in Nat \ {0} : \A b : b \in 1..n - 1 <=> b \in 1..n /\ b # n
    OBVIOUS
  <2>2. QED
    BY <1>1, <2>1
<1>3. /\ Planning /\ i \in unscheduled \ seen /\ seen' = seen \cup {i}
      /\ UNCHANGED <<requests, unscheduled>>
  BY DEF Consider
<1>4. Planning' /\ Closed = L - 1
  BY <1>3 DEF Planning, Closed
<1>5. i \notin ToSet(B) /\ \A b \in 1..L - 1 : i \notin ToSet(batches[b])
  BY <1>3, <1>4 DEF BatchInv, Planned, OpenSeen, ClosedOut
<1>6. CASE Fits(i, B)
  <2>1. batches' = [batches EXCEPT ![L] = Append(B, i)]
    BY <1>6 DEF Consider, Last
  <2>2. Append(B, i) \in Seq(Requests)
    BY <1>1
  <2>3. batches' \in Seq(Seq(Requests)) /\ Len(batches') = L /\ DOMAIN batches' = 1..L
    BY <1>1, <2>1, <2>2 DEF BatchInv, BatchType
  <2>4. batches'[L] = Append(B, i) /\ \A b \in 1..L - 1 : batches'[b] = batches[b]
    BY <1>1, <1>2, <2>1
  <2>5. /\ DOMAIN Append(B, i) = 1..Len(B) + 1 /\ Len(B) \in Nat /\ DOMAIN B = 1..Len(B)
        /\ Append(B, i)[Len(B) + 1] = i
        /\ \A k \in DOMAIN B : Append(B, i)[k] = B[k]
        /\ \A k \in DOMAIN Append(B, i) : k \in DOMAIN B \/ k = Len(B) + 1
    BY <1>1
  <2>6. ToSet(Append(B, i)) = ToSet(B) \cup {i}
    BY <2>5 DEF ToSet
  <2>7. Closed' = L - 1
    BY <1>4, <2>3 DEF Closed
  <2>8. BatchType'
    BY <1>0, <1>3, <2>3, <1>1 DEF BatchInv, BatchType
  <2>9. PlacedOnce'
    <3> SUFFICES ASSUME NEW b \in 1..L, NEW c \in 1..L,
                        NEW k \in DOMAIN batches'[b], NEW l \in DOMAIN batches'[c],
                        batches'[b][k] = batches'[c][l]
                 PROVE  b = c /\ k = l
      BY <2>3 DEF PlacedOnce
    <3>1. \A d \in 1..L : \A m \in DOMAIN batches'[d] :
              \/ m \in DOMAIN batches[d] /\ batches'[d][m] = batches[d][m] /\ batches[d][m] # i
              \/ d = L /\ m = Len(B) + 1 /\ batches'[d][m] = i
      <4> SUFFICES ASSUME NEW d \in 1..L, NEW m \in DOMAIN batches'[d]
                   PROVE \/ m \in DOMAIN batches[d] /\ batches'[d][m] = batches[d][m] /\ batches[d][m] # i
                         \/ d = L /\ m = Len(B) + 1 /\ batches'[d][m] = i
        OBVIOUS
      <4>1. CASE d = L
        BY <1>5, <2>4, <2>5, <4>1 DEF ToSet
      <4>2. CASE d # L
        <5>1. d \in 1..L - 1
          BY <1>2, <4>2
        <5>2. QED
          BY <1>5, <2>4, <5>1 DEF ToSet
      <4>3. QED
        BY <4>1, <4>2
    <3>2. CASE batches'[b][k] = i
      BY <3>1, <3>2
    <3>3. CASE batches'[b][k] # i
      <4>1. /\ k \in DOMAIN batches[b] /\ batches'[b][k] = batches[b][k]
            /\ l \in DOMAIN batches[c] /\ batches'[c][l] = batches[c][l]
        BY <3>1, <3>3
      <4>2. batches[b][k] = batches[c][l]
        BY <4>1
      <4>3. b \in DOMAIN batches /\ c \in DOMAIN batches
        BY <1>1
      <4>4. QED
        BY <4>1, <4>2, <4>3 DEF BatchInv, Planned, PlacedOnce
    <3>4. QED
      BY <3>2, <3>3
  <2>10. ClosedOut'
    BY <1>0, <1>3, <1>4, <2>4, <2>7 DEF BatchInv, Planned, ClosedOut
  <2>11. OpenSeen'
    BY <1>3, <2>3, <2>4, <2>6 DEF BatchInv, Planned, OpenSeen
  <2>12. Harmless'
    <3> SUFFICES ASSUME NEW b \in 1..L, NEW m \in DOMAIN batches'[b], NEW n \in DOMAIN batches'[b], m # n
                 PROVE  ~Exclude(batches'[b][m], batches'[b][n])
      <4>1. ASSUME NEW b \in DOMAIN batches', NEW m \in DOMAIN batches'[b], NEW n \in DOMAIN batches'[b], m # n
            PROVE  ~Exclude(batches[b][m], batches[b][n])'
        <5>1. PICK x, y : x = batches'[b][m] /\ y = batches'[b][n]
          OBVIOUS
        <5>2. Exclude(x, y)' = Exclude(x, y)
          BY <1>0
        <5>3. QED
          BY <2>3, <4>1, <5>1, <5>2
      <4>2. QED
        BY <4>1 DEF Harmless
    <3>1. CASE b # L
      <4>1. b \in 1..L - 1
        BY <1>2, <3>1
      <4>2. QED
        BY <1>1, <2>4, <4>1 DEF BatchInv, Planned, Harmless
    <3>2. CASE b = L
      <4>1. \A j \in ToSet(B) : ~Exclude(i, j) /\ ~Exclude(j, i)
        BY <1>0, <1>1, <1>5, <1>6, FitsMeans
      <4>2. \A k \in DOMAIN B : B[k] \in ToSet(B)
        BY DEF ToSet
      <4>3. \A k, l \in DOMAIN B : k # l => ~Exclude(B[k], B[l])
        BY <1>1 DEF BatchInv, Planned, Harmless
      <4>4. QED
        BY <2>4, <2>5, <3>2, <4>1, <4>2, <4>3
    <3>3. QED
      BY <3>1, <3>2
  <2>13. PutOff'
    <3>1. ASSUME NEW b \in 1..L - 1, NEW x \in Requests, \A c \in 1..b : x \notin ToSet(batches'[c])
          PROVE  \E j \in ToSet(batches'[b]) : Exclude(x, j)'
      <4>1. \A c \in 1..b : batches'[c] = batches[c]
        BY <1>1, <2>4
      <4>2. \E j \in ToSet(batches[b]) : Exclude(x, j)
        BY <1>4, <3>1, <4>1 DEF BatchInv, Planned, PutOff
      <4>3. QED
        BY <1>0, <4>1, <4>2
    <3>2. QED
      BY <1>0, <2>7, <3>1 DEF PutOff
  <2>14. SeenPutOff'
    <3>1. ASSUME NEW x \in (seen \cup {i}) \ ToSet(Append(B, i))
          PROVE  \E j \in ToSet(Append(B, i)) : Exclude(x, j)'
      BY <1>0, <1>3, <2>6, <3>1 DEF BatchInv, Planned, SeenPutOff
    <3>2. QED
      BY <1>3, <2>3, <2>4, <3>1 DEF SeenPutOff
  <2>15. QED
    BY <2>8, <2>9, <2>10, <2>11, <2>12, <2>13, <2>14 DEF BatchInv, Planned
<1>7. CASE ~Fits(i, B)
  <2>1. UNCHANGED batches
    BY <1>7 DEF Consider, Last
  <2>2. BatchType' /\ Closed' = Closed
    BY <1>0, <1>3, <1>4, <2>1 DEF BatchInv, BatchType, Closed
  <2>3. PlacedOnce' /\ ClosedOut' /\ OpenSeen'
    BY <1>0, <1>3, <2>1, <2>2 DEF BatchInv, Planned, PlacedOnce, ClosedOut, OpenSeen
  <2>4. Harmless' /\ PutOff'
    BY <1>0, <2>1, <2>2 DEF BatchInv, Planned, Harmless, PutOff
  <2>5. \E j \in ToSet(B) : Exclude(i, j)
    BY <1>0, <1>1, <1>7, UnfitMeans
  <2>6. SeenPutOff'
    BY <1>0, <1>3, <2>1, <2>5 DEF BatchInv, Planned, SeenPutOff
  <2>7. QED
    BY <2>2, <2>3, <2>4, <2>6 DEF BatchInv, Planned
<1>8. QED
  BY <1>6, <1>7

\* A pass over the hash set is over: what it put off waits for the next batch.
LEMMA CloseStep ==
    ASSUME BatchInv, CloseBatch
    PROVE  BatchInv'
<1> DEFINE L == Len(batches)
           B == batches[L]
<1>1. /\ Requests' = Requests
      /\ \A a, b : Exclude(a, b)' = Exclude(a, b)
  BY ExcludeKept DEF CloseBatch
<1>2. /\ L \in Nat \ {0} /\ L \in DOMAIN batches /\ B \in Seq(Requests)
      /\ DOMAIN batches = 1..L /\ batches \in Seq(Seq(Requests))
  BY DEF BatchInv, BatchType
<1>3. /\ Planning /\ seen = unscheduled /\ unscheduled' = unscheduled \ ToSet(B) /\ seen' = {}
      /\ UNCHANGED requests
  BY DEF CloseBatch, Last
<1>4. Closed = L - 1 /\ \A b : b \in 1..L <=> b \in 1..L - 1 \/ b = L
  <2>1. \A n \in Nat \ {0} : \A b : b \in 1..n <=> b \in 1..n - 1 \/ b = n
    OBVIOUS
  <2>2. QED
    BY <1>2, <1>3, <2>1 DEF Closed
\* Every closed batch is as before, and the one that was open is closed.
<1>5. /\ Closed' = L /\ DOMAIN batches \subseteq DOMAIN batches'
      /\ \A b \in DOMAIN batches : batches'[b] = batches[b]
      /\ \A b \in DOMAIN batches' : b \in DOMAIN batches \/ batches'[b] = <<>>
      /\ Planning' => batches'[Len(batches')] = <<>>
      /\ batches' \in Seq(Seq(Requests)) /\ Len(batches') > 0
  <2>1. CASE unscheduled' = {}
    <3>1. batches' = batches /\ ~Planning'
      BY <2>1 DEF CloseBatch, Planning
    <3>2. Closed' = Len(batches')
      BY <3>1 DEF Closed
    <3>3. QED
      BY <1>2, <3>1, <3>2
  <2>2. CASE unscheduled' # {}
    <3>1. batches' = Append(batches, <<>>) /\ <<>> \in Seq(Requests)
      BY <2>2 DEF CloseBatch
    <3>2. /\ batches' \in Seq(Seq(Requests)) /\ Len(batches') = L + 1
          /\ DOMAIN batches' = 1..L + 1 /\ batches'[L + 1] = <<>>
          /\ \A b \in 1..L : batches'[b] = batches[b]
      BY <1>2, <3>1
    <3>3. \A b \in 1..L + 1 : b \in 1..L \/ b = L + 1
      BY <1>2
    <3>4. QED
      BY <1>2, <2>2, <3>2, <3>3 DEF Closed, Planning
  <2>3. QED
    BY <2>1, <2>2
<1>6. BatchType'
  BY <1>1, <1>3, <1>5 DEF BatchInv, BatchType
<1>7. DOMAIN <<>> = {} /\ ToSet(<<>>) = {}
  BY DEF ToSet
<1>8. PlacedOnce'
  BY <1>5, <1>7 DEF BatchInv, Planned, PlacedOnce
<1>9. ClosedOut'
  <2>1. \A x \in Requests : (\E b \in 1..L : x \in ToSet(batches[b]))
                            <=> (\E b \in 1..L - 1 : x \in ToSet(batches[b])) \/ x \in ToSet(B)
    BY <1>4
  <2>2. \A x \in Requests : x \notin unscheduled <=> \E b \in 1..L - 1 : x \in ToSet(batches[b])
    BY <1>4 DEF BatchInv, Planned, ClosedOut
  <2>3. \A b \in 1..L : batches'[b] = batches[b]
    BY <1>2, <1>5
  <2>4. QED
    BY <1>1, <1>3, <1>5, <2>1, <2>2, <2>3 DEF ClosedOut
<1>10. OpenSeen' /\ SeenPutOff'
  BY <1>3, <1>5, <1>7 DEF OpenSeen, SeenPutOff
<1>11. Harmless'
  <2> SUFFICES ASSUME NEW b \in DOMAIN batches', NEW m \in DOMAIN batches'[b], NEW n \in DOMAIN batches'[b], m # n
               PROVE  ~Exclude(batches[b][m], batches[b][n])'
    BY DEF Harmless
  <2>1. b \in DOMAIN batches /\ batches'[b] = batches[b]
    BY <1>5, <1>7
  <2>2. PICK x, y : x = batches'[b][m] /\ y = batches'[b][n] /\ x = batches[b][m] /\ y = batches[b][n]
    BY <2>1
  <2>3. ~Exclude(x, y)
    BY <2>1, <2>2 DEF BatchInv, Planned, Harmless
  <2>4. QED
    BY <1>1, <2>2, <2>3
<1>12. PutOff'
  <2> SUFFICES ASSUME NEW b \in 1..L, NEW x \in Requests, \A c \in 1..b : x \notin ToSet(batches'[c])
               PROVE  \E j \in ToSet(batches'[b]) : Exclude(x, j)
    BY <1>1, <1>5 DEF PutOff
  <2>1. b \in DOMAIN batches /\ \A c \in 1..b : c \in DOMAIN batches
    BY <1>2
  <2>2. \A c \in 1..b : x \notin ToSet(batches[c])
    BY <1>5, <2>1
  <2>3. CASE b \in 1..L - 1
    BY <1>4, <1>5, <2>1, <2>2, <2>3 DEF BatchInv, Planned, PutOff
  <2>4. CASE b = L
    <3>1. x \in unscheduled
      BY <1>4, <2>2, <2>4 DEF BatchInv, Planned, ClosedOut
    <3>2. x \notin ToSet(B)
      BY <1>2, <2>2, <2>4
    <3>3. QED
      BY <1>3, <1>5, <2>1, <2>4, <3>1, <3>2 DEF BatchInv, Planned, SeenPutOff
  <2>5. QED
    BY <1>4, <2>3, <2>4
<1>13. QED
  BY <1>6, <1>8, <1>9, <1>10, <1>11, <1>12 DEF BatchInv, Planned

LEMMA BatchInvStep == BatchInv /\ [BatchNext]_batchVars => BatchInv'
<1> SUFFICES ASSUME BatchInv, [BatchNext]_batchVars PROVE BatchInv'
  OBVIOUS
<1>1. CASE UNCHANGED <<requests, unscheduled, seen, batches>>
  <2>1. Requests' = Requests /\ \A a, b : Exclude(a, b)' = Exclude(a, b)
    BY <1>1, ExcludeKept
  <2>2. Planning' = Planning /\ Closed' = Closed
    BY <1>1 DEF Planning, Closed
  <2>3. BatchType' /\ PlacedOnce' /\ ClosedOut' /\ OpenSeen'
    BY <1>1, <2>1, <2>2 DEF BatchInv, Planned, BatchType, PlacedOnce, ClosedOut, OpenSeen
  <2>4. Harmless' /\ PutOff' /\ SeenPutOff'
    BY <1>1, <2>1, <2>2 DEF BatchInv, Planned, Harmless, PutOff, SeenPutOff
  <2>5. QED
    BY <2>3, <2>4 DEF BatchInv, Planned
<1>2. QED
  BY <1>1, ConsiderStep, CloseStep DEF BatchNext, Submit, RecordTaskCompletion, batchVars

\* In whatever order the hash set gives the requests out, they are planned once
\* each, in batches free of conflicts, and none is put off without a reason.
THEOREM BatchesExactHolds == BatchSpec => []BatchesExact
<1>1. BatchInv => BatchesExact
  <2> SUFFICES ASSUME BatchInv PROVE BatchesExact
    OBVIOUS
  <2>1. ASSUME ~Planning, NEW i \in Requests
        PROVE  \E p \in Places : {q \in Places : batches[q[1]][q[2]] = i} = {p}
    <3>1. Closed = Len(batches) /\ DOMAIN batches = 1..Len(batches)
      BY <2>1 DEF BatchInv, BatchType, Closed
    <3>2. PICK b \in DOMAIN batches : i \in ToSet(batches[b])
      BY <2>1, <3>1 DEF BatchInv, Planned, ClosedOut, Planning
    <3>3. PICK k \in DOMAIN batches[b] : batches[b][k] = i
      BY <3>2 DEF ToSet
    <3>4. <<b, k>> \in Places
      BY DEF Places
    <3>5. ASSUME NEW q \in Places, batches[q[1]][q[2]] = i PROVE q = <<b, k>>
      <4>1. PICK c \in DOMAIN batches : \E l \in DOMAIN batches[c] : q = <<c, l>>
        BY DEF Places
      <4>2. QED
        BY <3>3, <3>5, <4>1 DEF BatchInv, Planned, PlacedOnce
    <3>6. QED
      BY <3>3, <3>4, <3>5
  <2>2. QED
    BY <2>1 DEF BatchesExact, BatchInv, Planned, Harmless, PutOff, Closed
<1>2. QED
  BY <1>1, BatchInvInit, BatchInvStep, PTL DEF BatchSpec

----------------------------------------------------------------------------
(* The dependency graph *)

Graph == [tasks : [Names -> SUBSET Nat], readers : [Resources -> SUBSET Nat],
          writer : [Resources -> Nat \cup {NoWriter}], constraints : SUBSET (Nat \X Nat)]

\* The tasks noted for a system are tasks that run it.
TasksKnown ==
    \A n \in Names : \A t \in graph.tasks[n] :
        t \in DOMAIN submitted /\ requests[submitted[t]].name = n

ConstraintsKnown ==
    \A c \in graph.constraints :
        /\ c[1] \in DOMAIN submitted /\ c[2] \in DOMAIN submitted /\ c[1] < c[2]
        /\ requests[submitted[c[1]]].name = requests[submitted[c[2]]].name

WritersAlone == \A r \in Resources : graph.writer[r] # NoWriter => graph.readers[r] = {}

GraphInv ==
    /\ submitted \in Seq(Requests) /\ graph \in Graph
    /\ TasksKnown /\ ConstraintsKnown /\ WritersAlone

LEMMA GraphInvInit == BatchInit => GraphInv
<1> SUFFICES ASSUME BatchInit PROVE GraphInv
  OBVIOUS
<1>1. submitted = <<>> /\ submitted \in Seq(Requests)
  BY DEF BatchInit
<1>2. graph = [tasks |-> [n \in Names |-> {}], readers |-> [r \in Resources |-> {}],
               writer |-> [r \in Resources |-> NoWriter], constraints |-> {}]
  BY DEF BatchInit
<1>3. graph \in Graph /\ TasksKnown /\ ConstraintsKnown /\ WritersAlone
  BY <1>2 DEF Graph, TasksKnown, ConstraintsKnown, WritersAlone
<1>4. QED
  BY <1>1, <1>3 DEF GraphInv

\* A valid request does not read what it writes, so that its claims leave no
\* reader beside a writer.
LEMMA ClaimAlone ==
    ASSUME NEW g \in Graph, NEW task \in Nat, NEW i, Valid(i),
           \A r \in Resources : g.writer[r] # NoWriter => g.readers[r] = {}
    PROVE  LET h == Claim(g, task, i)
           IN  /\ h \in Graph /\ h.tasks = g.tasks /\ h.constraints = g.constraints
               /\ \A r \in Resources : h.writer[r] # NoWriter => h.readers[r] = {}
<1>1. \A r : ~(Reads(i, r) /\ Writes(i, r))
  <2> SUFFICES ASSUME NEW r, Reads(i, r), Writes(i, r) PROVE FALSE
    OBVIOUS
  <2>1. PICK p \in ToSet(requests[i].params) : p[1] = r /\ p[2] # "Immutable"
    BY DEF Writes
  <2>2. <<r, "Immutable">> \in ToSet(requests[i].params)
    BY DEF Reads
  <2>3. QED
    BY <2>1, <2>2 DEF Valid
<1> DEFINE readers == [r \in Resources |-> IF Reads(i, r) /\ g.writer[r] = NoWriter
                                           THEN g.readers[r] \cup {task} ELSE g.readers[r]]
           writer == [r \in Resources |-> IF Writes(i, r) /\ g.writer[r] = NoWriter /\ g.readers[r] = {}
                                          THEN task ELSE g.writer[r]]
<1>2. Claim(g, task, i) = [g EXCEPT !.readers = readers, !.writer = writer]
  BY DEF Claim
<1>3. readers \in [Resources -> SUBSET Nat] /\ writer \in [Resources -> Nat \cup {NoWriter}]
  BY DEF Graph
<1>4. \A r \in Resources : writer[r] # NoWriter => readers[r] = {}
  BY <1>1
<1> HIDE DEF readers, writer
<1>5. QED
  BY <1>2, <1>3, <1>4 DEF Graph

\* The new task follows the latest task of its system, which came before.
LEMMA WithTaskEffect ==
    ASSUME NEW g \in Graph, NEW n \in Names, NEW task \in Nat, NEW h, h = WithTask(g, n, task)
    PROVE  /\ h \in Graph /\ h.readers = g.readers /\ h.writer = g.writer
           /\ h.tasks[n] = g.tasks[n] \cup {task}
           /\ \A m \in Names \ {n} : h.tasks[m] = g.tasks[m]
           /\ \A c \in h.constraints : c \in g.constraints \/ (c[1] \in g.tasks[n] /\ c[2] = task)
<1> DEFINE new == {<<t, task>> : t \in {t \in g.tasks[n] : \A u \in g.tasks[n] : u <= t}}
           tasks == [g.tasks EXCEPT ![n] = g.tasks[n] \cup {task}]
           constraints == g.constraints \cup new
<1>1. h = [g EXCEPT !.tasks = tasks, !.constraints = constraints]
  BY DEF WithTask, Graph
<1>2. /\ tasks \in [Names -> SUBSET Nat]
      /\ tasks[n] = g.tasks[n] \cup {task} /\ \A m \in Names \ {n} : tasks[m] = g.tasks[m]
  BY DEF Graph
<1>3. \A c \in new : c \in Nat \X Nat /\ c[1] \in g.tasks[n] /\ c[2] = task
  BY DEF Graph
<1>4. constraints \in SUBSET (Nat \X Nat) /\ \A c \in constraints : c \in g.constraints \/ c \in new
  BY <1>3 DEF Graph
<1> HIDE DEF tasks, new, constraints
<1>5. /\ h \in Graph /\ h.readers = g.readers /\ h.writer = g.writer
      /\ h.tasks = tasks /\ h.constraints = constraints
  BY <1>1, <1>2, <1>4 DEF Graph
<1>6. QED
  BY <1>2, <1>3, <1>4, <1>5

LEMMA SubmitStep ==
    ASSUME BatchInv, GraphInv, Submit
    PROVE  GraphInv'
<1>1. Requests' = Requests /\ Names' = Names /\ Resources' = Resources /\ Graph' = Graph /\ UNCHANGED requests
  BY DEF Submit, Requests, Names, Resources, Uses, Graph
<1>2. CASE UNCHANGED <<submitted, graph>>
  BY <1>1, <1>2 DEF GraphInv, TasksKnown, ConstraintsKnown, WritersAlone
<1>3. CASE ~UNCHANGED <<submitted, graph>>
  <2> DEFINE i == batches[place[1]][place[2]]
             task == Len(submitted) + 1
             n == requests[i].name
             g == WithTask(graph, n, task)
  <2>1. Valid(i) /\ submitted' = Append(submitted, i) /\ graph' = Claim(g, task, i)
    BY <1>3 DEF Submit
  <2>2. i \in Requests /\ n \in Names
    <3>1. PICK b \in DOMAIN batches : \E k \in DOMAIN batches[b] : place = <<b, k>>
      BY DEF Submit, Places
    <3>2. batches[b] \in Seq(Requests)
      BY DEF BatchInv, BatchType
    <3>3. QED
      BY <3>1, <3>2 DEF Names
  <2>3. graph \in Graph /\ submitted \in Seq(Requests) /\ task \in Nat
    BY DEF GraphInv
  <2> HIDE DEF i
  <2>4. /\ submitted' \in Seq(Requests) /\ DOMAIN submitted' = DOMAIN submitted \cup {task}
        /\ submitted'[task] = i /\ \A t \in DOMAIN submitted : submitted'[t] = submitted[t] /\ t < task
    BY <2>1, <2>2, <2>3
  <2> HIDE DEF n, task
  <2>5. /\ g \in Graph /\ g.readers = graph.readers /\ g.writer = graph.writer
        /\ g.tasks[n] = graph.tasks[n] \cup {task}
        /\ \A m \in Names \ {n} : g.tasks[m] = graph.tasks[m]
        /\ \A c \in g.constraints : c \in graph.constraints \/ (c[1] \in graph.tasks[n] /\ c[2] = task)
    BY <2>2, <2>3, WithTaskEffect
  <2> HIDE DEF g
  <2>6. \A r \in Resources : g.writer[r] # NoWriter => g.readers[r] = {}
    BY <2>5 DEF GraphInv, WritersAlone
  <2>7. /\ graph' \in Graph /\ graph'.tasks = g.tasks /\ graph'.constraints = g.constraints
        /\ \A r \in Resources : graph'.writer[r] # NoWriter => graph'.readers[r] = {}
    BY <2>1, <2>3, <2>5, <2>6, ClaimAlone
  <2>8. \A t \in graph.tasks[n] : t \in DOMAIN submitted /\ requests[submitted[t]].name = n
    BY <2>2 DEF GraphInv, TasksKnown
  <2>9. TasksKnown'
    <3> SUFFICES ASSUME NEW m \in Names, NEW t \in graph'.tasks[m]
                 PROVE  t \in DOMAIN submitted' /\ requests[submitted'[t]].name = m
      BY <1>1 DEF TasksKnown
    <3>1. CASE t \in graph.tasks[m]
      BY <2>4, <3>1 DEF GraphInv, TasksKnown
    <3>2. CASE t \notin graph.tasks[m]
      <4>1. m = n /\ t = task
        BY <2>5, <2>7, <3>2
      <4>2. QED
        BY <2>4, <4>1 DEF n
    <3>3. QED
      BY <3>1, <3>2
  <2>10. ConstraintsKnown'
    <3> SUFFICES ASSUME NEW c \in graph'.constraints
                 PROVE  /\ c[1] \in DOMAIN submitted' /\ c[2] \in DOMAIN submitted' /\ c[1] < c[2]
                        /\ requests[submitted'[c[1]]].name = requests[submitted'[c[2]]].name
      BY <1>1 DEF ConstraintsKnown
    <3>1. CASE c \in graph.constraints
      BY <2>4, <3>1 DEF GraphInv, ConstraintsKnown
    <3>2. CASE c[1] \in graph.tasks[n] /\ c[2] = task
      BY <2>4, <2>8, <3>2 DEF n
    <3>3. QED
      BY <2>5, <2>7, <3>1, <3>2
  <2>11. QED
    BY <1>1, <2>4, <2>7, <2>9, <2>10 DEF GraphInv, WritersAlone
<1>4. QED
  BY <1>2, <1>3

LEMMA RecordStep ==
    ASSUME GraphInv, NEW task \in DOMAIN submitted, RecordTaskCompletion(task)
    PROVE  GraphInv'
<1>1. Requests' = Requests /\ Names' = Names /\ Resources' = Resources /\ Graph' = Graph
      /\ UNCHANGED <<requests, submitted>>
  BY DEF RecordTaskCompletion, Requests, Names, Resources, Uses, Graph
<1> DEFINE n == requests[submitted[task]].name
           tasks == [graph.tasks EXCEPT ![n] = @ \ {task}]
<1>2. graph' = [graph EXCEPT !.tasks = tasks] /\ graph \in Graph
  BY DEF RecordTaskCompletion, GraphInv
<1>3. /\ tasks \in [Names -> SUBSET Nat]
      /\ \A m \in Names : tasks[m] \subseteq graph.tasks[m]
  BY <1>2 DEF Graph
<1> HIDE DEF tasks
<1>4. /\ graph' \in Graph /\ graph'.tasks = tasks /\ graph'.readers = graph.readers
      /\ graph'.writer = graph.writer /\ graph'.constraints = graph.constraints
  BY <1>2, <1>3 DEF Graph
<1>5. QED
  BY <1>1, <1>3, <1>4 DEF GraphInv, TasksKnown, ConstraintsKnown, WritersAlone

LEMMA GraphInvStep == BatchInv /\ GraphInv /\ [BatchNext]_batchVars => GraphInv'
<1> SUFFICES ASSUME BatchInv, GraphInv, [BatchNext]_batchVars PROVE GraphInv'
  OBVIOUS
<1>1. CASE UNCHANGED <<requests, submitted, graph>>
  <2>1. Requests' = Requests /\ Names' = Names /\ Resources' = Resources /\ Graph' = Graph
    BY <1>1 DEF Requests, Names, Resources, Uses, Graph
  <2>2. QED
    BY <1>1, <2>1 DEF GraphInv, TasksKnown, ConstraintsKnown, WritersAlone
<1>2. QED
  BY <1>1, SubmitStep, RecordStep DEF BatchNext, Consider, CloseBatch, batchVars

\* The dependency graph never counts a reader beside a writer, and orders only
\* tasks of one system, the older first.
THEOREM UsageExclusiveHolds == BatchSpec => []UsageExclusive
<1>1. GraphInv => UsageExclusive
  BY DEF GraphInv, ConstraintsKnown, WritersAlone, UsageExclusive
<1>2. QED
  BY <1>1, BatchInvInit, BatchInvStep, GraphInvInit, GraphInvStep, PTL DEF BatchSpec

----------------------------------------------------------------------------
(* Plans *)

\* Positions of the states between Initialize and Complete.
Steps == 2..Len(plan) - 1

Synchronous(x) == x.kind = "ExecuteStatements"
Yields(x) == x.kind \in {"ExecuteQuery", "AwaitSystem"}

IsSeq(q) == \E S : q \in Seq(S)

PlanType ==
    /\ IsSeq(plan) /\ Len(plan) >= 2
    /\ plan[1].kind = "Initialize" /\ plan[Len(plan)].kind = "Complete"
    /\ \A i \in Steps :
           \/ plan[i] \in [kind : {"ExecuteStatements"}, id : {plan[i].id},
                          statement : {plan[i].statement}, done : BOOLEAN]
           \/ Yields(plan[i]) /\ plan[i].next \in Nat
    /\ \A i, j \in Steps : plan[i].id = plan[j].id => i = j

\* A statement that was not executed is not in the trace, and no statement is there twice.
TracedOnce ==
    \A k \in Steps : Synchronous(plan[k]) =>
        /\ ~plan[k].done => \A i \in DOMAIN trace : trace[i] # plan[k].id
        /\ \A i, j \in DOMAIN trace : trace[i] = plan[k].id /\ trace[j] = plan[k].id => i = j

\* How many states are executed when it is the turn of state current.
Reached ==
    IF current = 0 THEN 0
    ELSE IF current = Len(plan) THEN Len(plan) - 2
    ELSE IF Synchronous(State) /\ State.done THEN current ELSE current - 1

\* With successors in order, the trace is the front of the plan, and what lies ahead is not
\* executed.
Following ==
    /\ current <= Len(plan) /\ Len(trace) = Reached
    /\ \A i \in DOMAIN trace : trace[i] = plan[i + 1].id
    /\ \A k \in Steps : k > current + 1 /\ Synchronous(plan[k]) => ~plan[k].done
    /\ held = IF current \in {0, Len(plan)} THEN {} ELSE SystemResources
    /\ outcome = "completed" => current = Len(plan)

Running ==
    /\ PlanType /\ IsSeq(trace) /\ current \in Nat
    /\ TracedOnce
    /\ InOrder(plan) => Following

ExecutorInv == (plan = NoPlan /\ trace = <<>>) \/ Running

LEMMA PlanLength == PlanType => Len(plan) \in Nat /\ DOMAIN plan = 1..Len(plan)
BY DEF PlanType, IsSeq

LEMMA TraceLength == IsSeq(trace) => Len(trace) \in Nat /\ DOMAIN trace = 1..Len(trace)
BY DEF IsSeq

\* Where the executor is, by the kind of the state.
LEMMA PlaceOfState ==
    ASSUME PlanType, current \in Nat, current < Len(plan)
    PROVE  /\ State.kind \in {"ExecuteStatements", "ExecuteQuery", "AwaitSystem"} <=> current + 1 \in Steps
           /\ State.kind = "Initialize" <=> current = 0
           /\ State.kind = "Complete" <=> current = Len(plan) - 1
<1> DEFINE n == Len(plan)
<1>1. n \in Nat /\ n >= 2 /\ plan[1].kind = "Initialize" /\ plan[n].kind = "Complete"
  BY PlanLength DEF PlanType
<1>2. \A i \in 2..n - 1 : plan[i].kind \in {"ExecuteStatements", "ExecuteQuery", "AwaitSystem"}
  BY DEF PlanType, Steps, Yields
<1> HIDE DEF n
<1>3. current < n /\ Steps = 2..n - 1
  BY DEF n, Steps
<1>4. CASE current = 0
  <2>1. State.kind = "Initialize" /\ current + 1 \notin Steps /\ current # n - 1
    BY <1>1, <1>3, <1>4 DEF State
  <2>2. QED
    BY <1>4, <2>1 DEF n
<1>5. CASE current = n - 1
  <2>1. State.kind = "Complete" /\ current + 1 \notin Steps /\ current # 0
    BY <1>1, <1>3, <1>5 DEF State
  <2>2. QED
    BY <1>5, <2>1 DEF n
<1>6. CASE current # 0 /\ current # n - 1
  <2>1. current + 1 \in 2..n - 1
    BY <1>1, <1>3, <1>6
  <2>2. QED
    BY <1>2, <1>3, <1>6, <2>1 DEF State, n
<1>7. QED
  BY <1>4, <1>5, <1>6

LEMMA TraceAppend ==
    ASSUME IsSeq(trace), NEW x, trace' = Append(trace, x)
    PROVE  /\ IsSeq(trace') /\ Len(trace') = Len(trace) + 1
           /\ \A i \in DOMAIN trace : i \in DOMAIN trace' /\ trace'[i] = trace[i]
           /\ trace'[Len(trace) + 1] = x
           /\ \A i \in DOMAIN trace' : i \in DOMAIN trace \/ i = Len(trace) + 1
<1>1. PICK S : trace \in Seq(S)
  BY DEF IsSeq
<1>2. trace \in Seq(S \cup {x})
  BY <1>1
<1>3. /\ trace' \in Seq(S \cup {x}) /\ Len(trace) \in Nat /\ Len(trace') = Len(trace) + 1
      /\ \A i \in 1..Len(trace) : trace'[i] = trace[i]
      /\ trace'[Len(trace) + 1] = x
  BY <1>2
<1>4. DOMAIN trace = 1..Len(trace) /\ DOMAIN trace' = 1..Len(trace) + 1
  BY <1>2, <1>3
<1>5. QED
  BY <1>3, <1>4 DEF IsSeq

\* Executing a statement changes nothing in the plan but that it is done.
LEMMA StateDone ==
    ASSUME PlanType, NEW k \in Steps, Synchronous(plan[k]),
           plan' = [plan EXCEPT ![k].done = TRUE]
    PROVE  /\ PlanType' /\ Len(plan') = Len(plan) /\ Steps' = Steps
           /\ \A i \in Steps : /\ plan'[i].kind = plan[i].kind /\ plan'[i].id = plan[i].id
                               /\ i # k => plan'[i] = plan[i]
           /\ plan'[k].done
<1> DEFINE x == plan[k]
           y == [x EXCEPT !.done = TRUE]
<1>1. Len(plan) \in Nat /\ DOMAIN plan = 1..Len(plan) /\ k \in 1..Len(plan)
      /\ k # 1 /\ k # Len(plan)
  BY PlanLength DEF Steps
<1>2. x \in [kind : {"ExecuteStatements"}, id : {x.id}, statement : {x.statement}, done : BOOLEAN]
  BY DEF PlanType, Synchronous, Yields
<1>3. /\ y \in [kind : {"ExecuteStatements"}, id : {x.id}, statement : {x.statement}, done : BOOLEAN]
      /\ y.kind = x.kind /\ y.id = x.id /\ y.statement = x.statement /\ y.done
  BY <1>2
<1>4. plan' = [plan EXCEPT ![k] = y]
  OBVIOUS
<1> HIDE DEF y
<1>5. PICK S : plan \in Seq(S)
  BY DEF PlanType, IsSeq
<1>6. plan \in Seq(S \cup {y})
  BY <1>5
<1>7. plan' \in Seq(S \cup {y}) /\ Len(plan') = Len(plan)
      /\ \A i \in 1..Len(plan) : plan'[i] = IF i = k THEN y ELSE plan[i]
  <2> DEFINE T == S \cup {y}
             next == [plan EXCEPT ![k] = y]
  <2>1. plan \in Seq(T) /\ y \in T /\ k \in 1..Len(plan)
    BY <1>1, <1>6
  <2> HIDE DEF T
  <2>2. next \in Seq(T) /\ Len(next) = Len(plan)
        /\ \A i \in 1..Len(plan) : next[i] = IF i = k THEN y ELSE plan[i]
    BY <2>1, ExceptSeq
  <2>3. plan' = next
    BY <1>4
  <2> HIDE DEF next
  <2>4. QED
    BY <2>2, <2>3 DEF T
<1>8. Steps' = Steps /\ Steps \subseteq 1..Len(plan)
  BY <1>1, <1>7 DEF Steps
<1>9. \A i \in Steps : /\ plan'[i].kind = plan[i].kind /\ plan'[i].id = plan[i].id
                      /\ i # k => plan'[i] = plan[i]
  BY <1>3, <1>7, <1>8
<1>10. plan'[k] = y /\ plan'[k].done
  BY <1>1, <1>3, <1>7
<1>11. PlanType'
  <2>1. IsSeq(plan') /\ Len(plan') >= 2
    BY <1>7 DEF PlanType, IsSeq
  <2>2. plan'[1].kind = "Initialize" /\ plan'[Len(plan')].kind = "Complete"
    <3>1. plan'[1] = plan[1] /\ plan'[Len(plan)] = plan[Len(plan)]
      BY <1>1, <1>7 DEF PlanType
    <3>2. QED
      BY <1>7, <3>1 DEF PlanType
  <2>3. ASSUME NEW i \in Steps
        PROVE  \/ plan'[i] \in [kind : {"ExecuteStatements"}, id : {plan'[i].id},
                               statement : {plan'[i].statement}, done : BOOLEAN]
               \/ Yields(plan'[i]) /\ plan'[i].next \in Nat
    <3>1. CASE i = k
      BY <1>3, <1>10, <3>1
    <3>2. CASE i # k
      BY <1>9, <3>2 DEF PlanType
    <3>3. QED
      BY <3>1, <3>2
  <2>4. \A i, j \in Steps : plan'[i].id = plan'[j].id => i = j
    BY <1>9 DEF PlanType
  <2>5. QED
    BY <1>8, <2>1, <2>2, <2>3, <2>4 DEF PlanType
<1>12. QED
  BY <1>7, <1>8, <1>9, <1>10, <1>11

LEMMA ExecutorInvInit == ExecutorInit => ExecutorInv
<1> SUFFICES ASSUME NEW p \in Plans, Begin(p), p # NoPlan PROVE Running
  BY DEF ExecutorInit, ExecutorInv, Begin
<1>1. WellMade(plan) /\ current = 0 /\ held = {} /\ trace = <<>> /\ outcome = "new"
  BY PlansAssumption DEF Begin
<1>2. plan \in Seq(ToSet(plan)) /\ Len(plan) >= 2 /\ plan[1] = Initialize /\ plan[Len(plan)] = Complete
  BY <1>1 DEF WellMade
<1>3. ASSUME NEW i \in Steps
      PROVE  /\ \/ plan[i] \in [kind : {"ExecuteStatements"}, id : {plan[i].id},
                               statement : {plan[i].statement}, done : BOOLEAN]
                \/ Yields(plan[i]) /\ plan[i].next \in Nat
             /\ Synchronous(plan[i]) => ~plan[i].done
  <2>1. \/ plan[i].kind = "ExecuteStatements" /\ plan[i] = ExecuteStatements(plan[i].statement)
        \/ plan[i].kind \in {"ExecuteQuery", "AwaitSystem"} /\ plan[i].next \in Nat
    BY <1>1 DEF WellMade, Steps
  <2>2. CASE plan[i].kind = "ExecuteStatements" /\ plan[i] = ExecuteStatements(plan[i].statement)
    <3> DEFINE s == plan[i].statement
    <3>1. plan[i] = [kind |-> "ExecuteStatements", id |-> s.id, statement |-> s, done |-> FALSE]
      BY <2>2 DEF ExecuteStatements
    <3> HIDE DEF s
    <3>2. QED
      BY <3>1
  <2>3. CASE plan[i].kind \in {"ExecuteQuery", "AwaitSystem"} /\ plan[i].next \in Nat
    BY <2>3 DEF Yields, Synchronous
  <2>4. QED
    BY <2>1, <2>2, <2>3
<1>4. PlanType
  BY <1>1, <1>2, <1>3 DEF PlanType, IsSeq, WellMade, Steps, Initialize, Complete
<1>5. IsSeq(trace) /\ DOMAIN trace = {} /\ Len(trace) = 0
  BY <1>1 DEF IsSeq
<1>6. TracedOnce
  BY <1>5 DEF TracedOnce
<1>7. Following
  BY <1>1, <1>2, <1>3, <1>5, PlanLength, <1>4 DEF Following, Reached
<1>8. QED
  BY <1>1, <1>4, <1>5, <1>6, <1>7 DEF Running

\* The trace does not grow, and nothing is executed.
LEMMA MovesOn ==
    ASSUME Running, plan' = plan, trace' = trace, current' \in Nat,
           InOrder(plan) /\ Following => Following'
    PROVE  Running'
<1>1. PlanType' /\ IsSeq(trace')
  BY DEF Running, PlanType, Steps
<1>2. TracedOnce'
  BY DEF Running, TracedOnce, Steps
<1>3. InOrder(plan') => Following'
  BY DEF Running
<1>4. QED
  BY <1>1, <1>2, <1>3 DEF Running

LEMMA StepBetween ==
    ASSUME Running, plan # NoPlan,
           StepInitialize \/ StepStatementsOver \/ StepComplete \/ StepPastEnd
    PROVE  Running'
<1> DEFINE n == Len(plan)
<1>1. PlanType /\ current \in Nat /\ n \in Nat /\ n >= 2 /\ plan' = plan /\ trace' = trace
  BY PlanLength DEF Running, PlanType, StepInitialize, StepStatementsOver, StepComplete, StepPastEnd
<1>2. CASE StepInitialize
  <2>1. current = 0 /\ current' = 1 /\ held' = SystemResources /\ outcome' = "continue"
    BY <1>1, <1>2, PlaceOfState DEF StepInitialize, At
  <2>2. ASSUME Following
        PROVE  Following'
    <3>1. Len(trace) = 0 /\ DOMAIN trace = {}
      BY <1>1, <2>1, <2>2, TraceLength DEF Following, Reached, Running
    <3>2. Synchronous(State') => ~State'.done
      <4>1. CASE 2 \in Steps
        BY <1>1, <2>1, <2>2, <4>1 DEF Following, State
      <4>2. CASE 2 \notin Steps
        BY <1>1, <2>1, <4>2 DEF PlanType, Steps, State, Synchronous
      <4>3. QED
        BY <4>1, <4>2
    <3>3. Reached' = 0
      BY <1>1, <2>1, <3>2 DEF Reached
    <3>4. \A k \in Steps : k > 2 /\ Synchronous(plan[k]) => ~plan[k].done
      BY <1>1, <2>1, <2>2 DEF Following, Steps
    <3>5. QED
      BY <1>1, <2>1, <3>1, <3>3, <3>4 DEF Following, Steps
  <2>3. QED
    BY <1>1, <2>1, <2>2, MovesOn
<1>3. CASE StepStatementsOver
  <2>1. /\ current < n /\ Synchronous(State) /\ State.done /\ current' = current + 1
        /\ held' = held /\ outcome' = "continue"
    BY <1>3 DEF StepStatementsOver, At, Synchronous
  <2>2. current + 1 \in 2..n - 1
    BY <1>1, <2>1, PlaceOfState DEF Synchronous, Steps
  <2>3. ASSUME Following
        PROVE  Following'
    <3>1. Len(trace) = current
      BY <1>1, <2>1, <2>2, <2>3 DEF Following, Reached
    <3>2. Synchronous(State') => ~State'.done
      <4>1. CASE current + 2 \in Steps
        BY <1>1, <2>1, <2>3, <4>1 DEF Following, State
      <4>2. CASE current + 2 \notin Steps
        <5>1. current + 2 = n
          BY <1>1, <2>2, <4>2 DEF Steps
        <5>2. QED
          BY <1>1, <2>1, <5>1 DEF PlanType, State, Synchronous
      <4>3. QED
        BY <4>1, <4>2
    <3>3. Reached' = current
      <4>1. current' # 0 /\ current' # n /\ current' - 1 = current
        BY <1>1, <2>1, <2>2
      <4>2. QED
        BY <1>1, <3>2, <4>1 DEF Reached
    <3>4. \A k \in Steps : k > current + 2 /\ Synchronous(plan[k]) => ~plan[k].done
      BY <1>1, <2>3 DEF Following, Steps
    <3>5. held = SystemResources /\ current' \notin {0, n} /\ current' <= n
      BY <1>1, <2>1, <2>2, <2>3 DEF Following
    <3>6. QED
      BY <1>1, <2>1, <2>3, <3>1, <3>3, <3>4, <3>5 DEF Following, Steps
  <2>4. QED
    BY <1>1, <2>1, <2>3, MovesOn
<1>4. CASE StepComplete
  <2>1. /\ current = n - 1 /\ current' = n /\ held' = held \ SystemResources /\ outcome' = "completed"
        /\ State.kind = "Complete"
    BY <1>1, <1>4, PlaceOfState DEF StepComplete, At
  <2>2. ASSUME Following
        PROVE  Following'
    <3>1. Len(trace) = n - 2 /\ held = SystemResources
      BY <1>1, <2>1, <2>2 DEF Following, Reached, Synchronous
    <3>2. Reached' = n - 2
      BY <1>1, <2>1 DEF Reached
    <3>3. QED
      BY <1>1, <2>1, <2>2, <3>1, <3>2 DEF Following, Steps
  <2>3. QED
    BY <1>1, <2>1, <2>2, MovesOn
<1>5. CASE StepPastEnd
  <2>1. current >= n /\ current' = current /\ held' = held /\ outcome' = "completed"
    BY <1>5 DEF StepPastEnd
  <2>2. ASSUME Following
        PROVE  Following'
    <3>1. current = n /\ Reached' = Reached
      BY <1>1, <2>1, <2>2 DEF Following, Reached, State
    <3>2. QED
      BY <1>1, <2>1, <2>2, <3>1 DEF Following, Steps
  <2>3. QED
    BY <1>1, <2>1, <2>2, MovesOn
<1>6. QED
  BY <1>2, <1>3, <1>4, <1>5

\* A query or an awaited call is noted in the trace, and its successor is next.
LEMMA StepYields ==
    ASSUME Running, NEW k \in Steps, k = current + 1, Yields(plan[k]), plan' = plan,
           current' = plan[k].next, trace' = Append(trace, plan[k].id),
           held' = held, outcome' # "completed"
    PROVE  Running'
<1> DEFINE n == Len(plan)
<1>1. /\ PlanType /\ current \in Nat /\ n \in Nat /\ n >= 2 /\ IsSeq(trace)
      /\ Len(trace) \in Nat /\ DOMAIN trace = 1..Len(trace)
  BY PlanLength, TraceLength DEF Running, PlanType
<1>2. /\ IsSeq(trace') /\ Len(trace') = Len(trace) + 1
      /\ \A i \in DOMAIN trace : i \in DOMAIN trace' /\ trace'[i] = trace[i]
      /\ trace'[Len(trace) + 1] = plan[k].id
      /\ \A i \in DOMAIN trace' : i \in DOMAIN trace \/ i = Len(trace) + 1
  BY <1>1, TraceAppend
<1>3. plan[k].next \in Nat /\ ~Synchronous(plan[k])
  BY <1>1 DEF PlanType, Yields, Synchronous
<1>4. PlanType'
  BY <1>1 DEF PlanType, Steps
<1>5. TracedOnce'
  <2>1. ASSUME NEW s \in Steps, Synchronous(plan[s])
        PROVE  /\ ~plan[s].done => \A i \in DOMAIN trace' : trace'[i] # plan[s].id
               /\ \A i, j \in DOMAIN trace' :
                      trace'[i] = plan[s].id /\ trace'[j] = plan[s].id => i = j
    <3>1. plan[s].id # plan[k].id
      BY <1>1, <1>3, <2>1 DEF PlanType
    <3>2. \A i \in DOMAIN trace' : trace'[i] = plan[s].id => i \in DOMAIN trace /\ trace[i] = plan[s].id
      BY <1>2, <3>1
    <3>3. QED
      BY <2>1, <3>2 DEF Running, TracedOnce
  <2>2. Steps' = Steps
    BY DEF Steps
  <2> HIDE DEF Steps
  <2>3. QED
    BY <2>1, <2>2 DEF TracedOnce, Synchronous
<1>6. ASSUME InOrder(plan)
      PROVE  Following'
  <2>1. Following /\ current' = k
    BY <1>6 DEF Running, InOrder, Yields, Steps
  <2>2. k \in 2..n - 1 /\ k \in Nat
    BY <1>1 DEF Steps
  <2>3. Len(trace) = current - 1
    BY <1>1, <1>3, <2>1, <2>2 DEF Following, Reached, State
  <2>4. Synchronous(State') => ~State'.done
    <3>1. CASE k + 1 \in Steps
      BY <1>1, <2>1, <2>2, <3>1 DEF Following, State
    <3>2. CASE k + 1 \notin Steps
      <4>1. k + 1 = n
        BY <1>1, <2>2, <3>2 DEF Steps
      <4>2. QED
        BY <1>1, <2>1, <4>1 DEF PlanType, State, Synchronous
    <3>3. QED
      BY <3>1, <3>2
  <2>5. Reached' = k - 1
    <3>1. k # 0 /\ k # n
      BY <1>1, <2>2
    <3>2. QED
      BY <2>1, <2>4, <3>1 DEF Reached
  <2>6. \A i \in DOMAIN trace' : trace'[i] = plan[i + 1].id
    <3>1. Len(trace) + 1 + 1 = k
      BY <1>1, <2>3, <2>2
    <3>2. \A i \in DOMAIN trace : trace[i] = plan[i + 1].id
      BY <2>1 DEF Following
    <3>3. QED
      BY <1>2, <3>1, <3>2
  <2>7. \A s \in Steps : s > k + 1 /\ Synchronous(plan[s]) => ~plan[s].done
    BY <1>1, <2>1, <2>2 DEF Following, Steps
  <2>8. held = SystemResources /\ k \notin {0, n} /\ k <= n /\ Len(trace') = k - 1
    BY <1>1, <1>2, <2>1, <2>2, <2>3 DEF Following
  <2>9. QED
    BY <2>1, <2>5, <2>6, <2>7, <2>8 DEF Following, Steps
<1>7. QED
  BY <1>2, <1>3, <1>4, <1>5, <1>6 DEF Running

\* A statement is noted in the trace and is done; it is still its turn.
LEMMA StepExecutes ==
    ASSUME Running, NEW k \in Steps, k = current + 1, Synchronous(plan[k]), ~plan[k].done,
           plan' = [plan EXCEPT ![k].done = TRUE],
           current' = current, trace' = Append(trace, plan[k].id),
           held' = held, outcome' # "completed"
    PROVE  Running'
<1> DEFINE n == Len(plan)
<1>1. /\ PlanType /\ current \in Nat /\ n \in Nat /\ n >= 2 /\ IsSeq(trace)
      /\ Len(trace) \in Nat /\ DOMAIN trace = 1..Len(trace)
  BY PlanLength, TraceLength DEF Running, PlanType
<1>2. /\ IsSeq(trace') /\ Len(trace') = Len(trace) + 1
      /\ \A i \in DOMAIN trace : i \in DOMAIN trace' /\ trace'[i] = trace[i]
      /\ trace'[Len(trace) + 1] = plan[k].id
      /\ \A i \in DOMAIN trace' : i \in DOMAIN trace \/ i = Len(trace) + 1
  BY <1>1, TraceAppend
<1>3. /\ PlanType' /\ Len(plan') = n /\ Steps' = Steps
      /\ \A i \in Steps : /\ plan'[i].kind = plan[i].kind /\ plan'[i].id = plan[i].id
                          /\ i # k => plan'[i] = plan[i]
      /\ plan'[k].done
  BY <1>1, StateDone
<1>4. TracedOnce'
  <2> SUFFICES ASSUME NEW s \in Steps, Synchronous(plan'[s])
               PROVE  /\ ~plan'[s].done => \A i \in DOMAIN trace' : trace'[i] # plan'[s].id
                      /\ \A i, j \in DOMAIN trace' :
                             trace'[i] = plan'[s].id /\ trace'[j] = plan'[s].id => i = j
    BY <1>3 DEF TracedOnce, Synchronous
  <2>1. Synchronous(plan[s]) /\ plan'[s].id = plan[s].id
    BY <1>3 DEF Synchronous
  <2>2. CASE s = k
    <3>1. \A i \in DOMAIN trace : trace[i] # plan[k].id
      BY DEF Running, TracedOnce
    <3>2. \A i \in DOMAIN trace' : trace'[i] = plan[k].id => i = Len(trace) + 1
      BY <1>2, <3>1
    <3>3. QED
      BY <1>3, <2>2, <3>2
  <2>3. CASE s # k
    <3>1. plan[s].id # plan[k].id /\ plan'[s] = plan[s]
      BY <1>1, <1>3, <2>3 DEF PlanType
    <3>2. \A i \in DOMAIN trace' : trace'[i] = plan[s].id => i \in DOMAIN trace /\ trace[i] = plan[s].id
      BY <1>2, <3>1
    <3>3. QED
      BY <2>1, <3>1, <3>2 DEF Running, TracedOnce
  <2>4. QED
    BY <2>2, <2>3
<1>5. ASSUME InOrder(plan')
      PROVE  Following'
  <2>1. Following
    <3>1. ASSUME NEW i \in 2..n - 1, plan[i].kind \in {"ExecuteQuery", "AwaitSystem"}
          PROVE  plan[i].next = i
      <4>1. i \in Steps /\ i # k
        BY <3>1 DEF Steps, Synchronous
      <4>2. plan'[i] = plan[i]
        BY <1>3, <4>1
      <4>3. QED
        BY <1>3, <1>5, <3>1, <4>2 DEF InOrder
    <3>2. InOrder(plan)
      BY <3>1 DEF InOrder
    <3>3. QED
      BY <3>2 DEF Running
  <2>2. k \in 2..n - 1 /\ k \in Nat
    BY <1>1 DEF Steps
  <2>3. Len(trace) = current - 1
    BY <1>1, <2>1, <2>2 DEF Following, Reached, State
  <2>4. Reached' = current
    <3>1. current' # 0 /\ current' # n /\ State' = plan'[k]
      BY <1>1, <2>2 DEF State
    <3>2. Synchronous(State') /\ State'.done
      BY <1>3, <3>1 DEF Synchronous
    <3>3. QED
      BY <1>3, <3>1, <3>2 DEF Reached
  <2>5. \A i \in DOMAIN trace' : trace'[i] = plan'[i + 1].id
    <3>1. Len(trace) + 1 + 1 = k
      BY <1>1, <2>3, <2>2
    <3>2. ASSUME NEW i \in DOMAIN trace
          PROVE  trace[i] = plan'[i + 1].id
      <4>1. trace[i] = plan[i + 1].id
        BY <2>1 DEF Following
      <4>2. i + 1 \in Steps
        BY <1>1, <2>2, <3>1 DEF Steps
      <4>3. QED
        BY <1>3, <4>1, <4>2
    <3>3. QED
      BY <1>2, <1>3, <3>1, <3>2
  <2>6. \A s \in Steps : s > k /\ Synchronous(plan'[s]) => ~plan'[s].done
    BY <1>1, <1>3, <2>1, <2>2 DEF Following, Steps
  <2>7. held = SystemResources /\ current \notin {0, n} /\ current <= n /\ Len(trace') = current
    BY <1>1, <1>2, <2>1, <2>2, <2>3 DEF Following
  <2>8. QED
    BY <1>3, <2>4, <2>5, <2>6, <2>7 DEF Following
<1>6. QED
  BY <1>1, <1>2, <1>3, <1>4, <1>5 DEF Running

\* A statement, a query or a call that fails changes nothing but the outcome.
LEMMA StepFails ==
    ASSUME Running, plan' = plan, trace' = trace, current' = current, held' = held,
           outcome' # "completed"
    PROVE  Running'
<1>1. current \in Nat
  BY DEF Running
<1>2. Following => Following'
  BY DEF Following, Reached, State, Steps, Synchronous
<1>3. QED
  BY <1>1, <1>2, MovesOn

LEMMA ExecutorInvStep == ExecutorInv /\ [ExecutorNext]_executorVars => ExecutorInv'
<1> SUFFICES ASSUME ExecutorInv, ExecutorNext, plan # NoPlan PROVE Running'
  <2>1. UNCHANGED executorVars => (ExecutorInv <=> ExecutorInv')
    BY DEF executorVars, ExecutorInv, Running, PlanType, TracedOnce, Following, Reached, State, Steps, Synchronous
  <2>2. ExecutorNext => plan # NoPlan
    BY DEF ExecutorNext, StepInitialize, StepStatement, StepStatementsOver, StepQuery, StepAwait, StepComplete,
       StepPastEnd, Stepping
  <2>3. QED
    BY <2>1, <2>2 DEF ExecutorInv
<1>1. Running /\ PlanType /\ current \in Nat
  BY DEF ExecutorInv, Running
<1> DEFINE k == current + 1
<1>2. CASE StepInitialize \/ StepStatementsOver \/ StepComplete \/ StepPastEnd
  BY <1>1, <1>2, StepBetween
<1>3. CASE StepStatement
  <2>1. k \in Steps /\ Synchronous(plan[k]) /\ ~plan[k].done
    BY <1>1, <1>3, PlaceOfState DEF StepStatement, At, State, Synchronous
  <2>2. CASE Succeeds(State.statement)
    BY <1>1, <1>3, <2>1, <2>2, StepExecutes DEF StepStatement, State
  <2>3. CASE ~Succeeds(State.statement)
    BY <1>1, <1>3, <2>3, StepFails DEF StepStatement
  <2>4. QED
    BY <2>2, <2>3
<1>4. CASE StepQuery
  <2>1. k \in Steps /\ Yields(plan[k])
    BY <1>1, <1>4, PlaceOfState DEF StepQuery, At, State, Yields
  <2>2. CASE State.table \in RegisteredTables
    BY <1>1, <1>4, <2>1, <2>2, StepYields DEF StepQuery, State
  <2>3. CASE State.table \notin RegisteredTables
    BY <1>1, <1>4, <2>3, StepFails DEF StepQuery
  <2>4. QED
    BY <2>2, <2>3
<1>5. CASE StepAwait
  <2>1. k \in Steps /\ Yields(plan[k])
    BY <1>1, <1>5, PlaceOfState DEF StepAwait, At, State, Yields
  <2>2. QED
    BY <1>1, <1>5, <2>1, StepYields DEF StepAwait, State
<1>6. QED
  BY <1>2, <1>3, <1>4, <1>5 DEF ExecutorNext

\* No plan, whatever its numbers, executes a statement twice (execute_step).
THEOREM StatementsOnceHolds == ExecutorSpec => []StatementsOnce
<1>1. ExecutorInv => StatementsOnce
  <2> SUFFICES ASSUME ExecutorInv, NEW i \in DOMAIN trace, NEW j \in DOMAIN trace, i < j, trace[i] = trace[j],
                      NEW k \in Steps, Synchronous(plan[k]), plan[k].id = trace[i]
               PROVE  FALSE
    BY DEF StatementsOnce, Steps, Synchronous
  <2>1. CASE Running
    <3>1. i = j /\ i \in Nat
      BY <2>1, TraceLength DEF Running, TracedOnce
    <3>2. QED
      BY <3>1
  <2>2. CASE trace = <<>>
    BY <2>2
  <2>3. QED
    BY <2>1, <2>2 DEF ExecutorInv
<1>2. QED
  BY <1>1, ExecutorInvInit, ExecutorInvStep, PTL DEF ExecutorSpec

\* A plan with its successors in order executes its states from front to back, and when it
\* completes all of them, holding nothing (execute_step, Complete).
THEOREM RunsInOrderHolds == ExecutorSpec => []RunsInOrder
<1>1. ExecutorInv => RunsInOrder
  <2> SUFFICES ASSUME Running, InOrder(plan)
               PROVE  /\ \A i \in DOMAIN trace : trace[i] = plan[i + 1].id
                      /\ outcome = "completed" => Len(trace) = Len(plan) - 2 /\ held = {}
    BY DEF ExecutorInv, RunsInOrder
  <2>1. Following /\ Len(plan) \in Nat /\ Len(plan) >= 2
    BY PlanLength DEF Running, PlanType
  <2>2. QED
    BY <2>1 DEF Following, Reached
<1>2. QED
  BY <1>1, ExecutorInvInit, ExecutorInvStep, PTL DEF ExecutorSpec
=============================================================================
