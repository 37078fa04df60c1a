--------------------------- MODULE AsyncTableProofs ---------------------------
(***************************************************************************)
(* Theorems about AsyncTable, for any number of tasks and tables and any   *)
(* batches, and about the futures it gives out, for any number of clones   *)
(* and any timeout.                                                        *)
(***************************************************************************)
EXTENDS AsyncTable, QueryFuture, FiniteSetTheorems, WellFoundedInduction, TLAPS

----------------------------------------------------------------------------
(* Batches *)

Phase == {"idle", "gather", "lock", "start", "read", "release", "accepted", "refused"}
TableList == Seq(Leasable)

CallType ==
    /\ leases \in [Leasable -> Lease \cup {NoLease}]
    /\ call \in [phase : Phase, by : Tasks \cup {NoTask}, batch : Seq(TableList),
                rest : Seq(TableList), passed : Seq(TableList), group : Seq(TableList),
                wanted : TableList, started : Nat]

ReadLease == [task |-> call.by, access |-> "Immutable"]

\* A batch is under way, or was accepted.
Batching == call.batch # <<>> /\ call.phase \in {"gather", "lock", "start", "read", "accepted"}

\* Where the loops are: a pass has a query to look at, and a group is made from all of them.
Loops ==
    /\ call.batch = <<>> => call.phase \notin {"gather", "accepted"} /\ call.passed = <<>>
    /\ In("gather") <=> call.rest # <<>>
    /\ In("accepted") => call.passed = <<>> /\ call.group = <<>>
    /\ call.phase \in {"gather", "lock", "start", "read", "accepted", "refused"} => call.by \in Tasks

\* The tables of a group are read by the task or about to be acquired for all of it.
GroupLocked ==
    Batching => \A q \in ToSet(call.group) : \A r \in Tables(q) :
                    \/ leases[r] = ReadLease
                    \/ call.phase \in {"gather", "lock"} /\ r \in ToSet(call.wanted)

\* So what a query of a batch acquires is read by its task already: it cannot be refused.
QueryLocked == Batching /\ In("read") => \A r \in ToSet(call.wanted) : leases[r] = ReadLease

\* No query is lost or counted twice.
Counted ==
    Batching => Len(call.batch) = Len(call.rest) + Len(call.passed) + Len(call.group)
                                  + call.started + (IF In("read") THEN 1 ELSE 0)

\* A query is in no group yet, or has no future yet, or its tables are read.
Covered ==
    Batching => \A q \in ToSet(call.batch) :
                    \/ q \in ToSet(call.rest) \cup ToSet(call.passed) \cup ToSet(call.group)
                    \/ \A r \in Tables(q) : leases[r] = ReadLease

NothingKept == In("refused") => LeasedTo(leases, call.by) = {}

CallInv == CallType /\ Loops /\ GroupLocked /\ QueryLocked /\ Counted /\ Covered /\ NothingKept

----------------------------------------------------------------------------
(* Elements of sequences. *)

LEMMA TailElements ==
    ASSUME NEW S, NEW q \in Seq(S), q # <<>>
    PROVE  /\ Head(q) \in S /\ Tail(q) \in Seq(S) /\ Len(Tail(q)) = Len(q) - 1
           /\ ToSet(q) = {Head(q)} \cup ToSet(Tail(q))
<1>1. Len(q) \in Nat \ {0} /\ Len(Tail(q)) = Len(q) - 1 /\ Tail(q) \in Seq(S)
      /\ Head(q) = q[1] /\ \A i \in 1..Len(q) - 1 : Tail(q)[i] = q[i + 1]
  OBVIOUS
<1>2. \A i \in DOMAIN q : i = 1 \/ (i - 1 \in DOMAIN Tail(q) /\ q[i] = Tail(q)[i - 1])
  BY <1>1
<1>3. \A i \in DOMAIN Tail(q) : i + 1 \in DOMAIN q /\ Tail(q)[i] = q[i + 1]
  BY <1>1
<1>4. 1 \in DOMAIN q /\ Head(q) = q[1] /\ q[1] \in S
  BY <1>1
<1>5. ToSet(q) \subseteq {Head(q)} \cup ToSet(Tail(q))
  BY <1>2, <1>4 DEF ToSet
<1>6. {Head(q)} \cup ToSet(Tail(q)) \subseteq ToSet(q)
  BY <1>3, <1>4 DEF ToSet
<1>7. QED
  BY <1>1, <1>4, <1>5, <1>6

LEMMA AppendElements ==
    ASSUME NEW S, NEW q \in Seq(S), NEW x \in S
    PROVE  /\ Append(q, x) \in Seq(S) /\ Len(Append(q, x)) = Len(q) + 1
           /\ ToSet(Append(q, x)) = ToSet(q) \cup {x}
<1>1. /\ Append(q, x) \in Seq(S) /\ Len(q) \in Nat /\ Len(Append(q, x)) = Len(q) + 1
      /\ Append(q, x)[Len(q) + 1] = x
      /\ \A i \in 1..Len(q) : Append(q, x)[i] = q[i]
  OBVIOUS
<1>2. \A i \in DOMAIN Append(q, x) : i \in DOMAIN q \/ i = Len(q) + 1
  BY <1>1
<1>3. Len(q) + 1 \in DOMAIN Append(q, x) /\ DOMAIN q \subseteq DOMAIN Append(q, x)
  BY <1>1
<1>4. DOMAIN q = 1..Len(q)
  OBVIOUS
<1>5. ToSet(Append(q, x)) \subseteq ToSet(q) \cup {x}
  BY <1>1, <1>2, <1>4 DEF ToSet
<1>6. ToSet(q) \cup {x} \subseteq ToSet(Append(q, x))
  BY <1>1, <1>3, <1>4 DEF ToSet
<1>7. QED
  BY <1>1, <1>5, <1>6

LEMMA ConcatElements ==
    ASSUME NEW S, NEW q \in Seq(S), NEW p \in Seq(S)
    PROVE  /\ q \o p \in Seq(S)
           /\ ToSet(q) \cup ToSet(p) \subseteq ToSet(q \o p)
<1>1. /\ q \o p \in Seq(S) /\ Len(q) \in Nat /\ Len(p) \in Nat /\ Len(q \o p) = Len(q) + Len(p)
      /\ \A i \in 1..Len(q) : (q \o p)[i] = q[i]
      /\ \A i \in 1..Len(p) : (q \o p)[Len(q) + i] = p[i]
  OBVIOUS
<1>2. /\ DOMAIN q = 1..Len(q) /\ DOMAIN p = 1..Len(p)
      /\ \A i \in 1..Len(q) : i \in DOMAIN (q \o p)
      /\ \A i \in 1..Len(p) : Len(q) + i \in DOMAIN (q \o p)
  BY <1>1
<1>3. QED
  BY <1>1, <1>2 DEF ToSet

\* What KeptAt keeps is what is at the given positions, all of it.
LEMMA KeptElements ==
    ASSUME NEW S, NEW q \in Seq(S), NEW I \in SUBSET DOMAIN q, NEW p \in KeptAt(q, I)
    PROVE  p \in Seq(S) /\ \A i \in I : q[i] \in ToSet(p)
<1>1. IsFiniteSet(I) /\ Cardinality(I) \in Nat
  <2>1. DOMAIN q = 1..Len(q) /\ Len(q) \in Nat
    OBVIOUS
  <2>2. IsFiniteSet(1..Len(q)) /\ I \in SUBSET (1..Len(q))
    BY <2>1, FS_Interval
  <2>3. IsFiniteSet(I)
    BY <2>2, FS_Subset
  <2>4. QED
    BY <2>3, FS_CardinalityType
<1> DEFINE n == Cardinality(I)
<1>2. PICK f \in [1..n -> I] :
          /\ p = [i \in DOMAIN f |-> q[f[i]]]
          /\ \A i, j \in DOMAIN f : i < j => f[i] < f[j]
  BY DEF KeptAt
<1>3. DOMAIN f = 1..n /\ DOMAIN p = 1..n /\ p \in Seq(S)
  <2>1. \A i \in 1..n : q[f[i]] \in S
    OBVIOUS
  <2>2. QED
    BY <1>1, <1>2, <2>1
<1>4. f \in Surjection(1..n, I)
  <2>1. \A i \in 1..n : i \in Int /\ f[i] \in Int
    BY <1>1, <1>3
  <2>2. \A i, j \in 1..n : f[i] = f[j] => i = j
    BY <1>2, <1>3, <2>1
  <2>3. f \in Injection(1..n, I)
    BY <1>3, <2>2 DEF Injection, IsInjective
  <2>4. Cardinality(1..n) = n /\ IsFiniteSet(1..n)
    BY <1>1, FS_Interval
  <2>5. QED
    BY <1>1, <2>3, <2>4, FS_Injection
<1>5. ASSUME NEW k \in I
      PROVE  q[k] \in ToSet(p)
  <2>1. PICK i \in 1..n : f[i] = k
    BY <1>4 DEF Surjection
  <2>2. i \in DOMAIN p /\ p[i] = q[k]
    BY <1>2, <1>3, <2>1
  <2>3. QED
    BY <2>2 DEF ToSet
<1>6. QED
  BY <1>3, <1>5

LEMMA LeastNatural ==
    ASSUME NEW I \in SUBSET Nat, I # {}
    PROVE  \E i \in I : \A j \in I : i <= j
<1> DEFINE R == {ss \in Nat \X Nat : ss[1] < ss[2]}
<1>1. IsWellFoundedOn(R, Nat)
  BY NatLessThanWellFounded DEF OpToRel
<1>2. PICK i \in I : \A j \in I : ~(<<j, i>> \in R)
  <2> HIDE DEF R
  <2>1. QED
    BY <1>1, WFMin
<1>3. \A j \in I : j \in Nat /\ i \in Nat /\ ~(j < i)
  BY <1>2
<1>4. QED
  BY <1>3

\* A query that joins a group brings all its tables.
LEMMA MoreTablesEnough ==
    ASSUME call.wanted \in TableList, NEW query \in TableList, NEW more \in MoreTables(query)
    PROVE  /\ call.wanted \o more \in TableList
           /\ Tables(query) \cup ToSet(call.wanted) \subseteq ToSet(call.wanted \o more)
<1> DEFINE I == {i \in DOMAIN query : query[i] \notin ToSet(call.wanted)
                                      /\ \A j \in 1..i - 1 : query[j] # query[i]}
<1>1. more \in TableList /\ \A i \in I : query[i] \in ToSet(more)
  <2>1. more \in KeptAt(query, I) /\ I \in SUBSET DOMAIN query
    BY DEF MoreTables
  <2> HIDE DEF I
  <2>2. QED
    BY <2>1, KeptElements DEF TableList
<1>2. ASSUME NEW r \in Tables(query), r \notin ToSet(call.wanted)
      PROVE  r \in ToSet(more)
  <2> DEFINE P == {i \in DOMAIN query : query[i] = r}
  <2>1. DOMAIN query \subseteq Nat
    BY DEF TableList
  <2>2. PICK i \in P : \A j \in P : i <= j
    <3>1. P \in SUBSET Nat /\ P # {}
      BY <2>1 DEF Tables, ToSet
    <3> HIDE DEF P
    <3>2. QED
      BY <3>1, LeastNatural
  <2>3. \A j \in 1..i - 1 : query[j] # query[i]
    <3>1. ASSUME NEW j \in 1..i - 1
          PROVE  j \in DOMAIN query /\ ~(i <= j)
      BY DEF TableList
    <3>2. QED
      BY <2>2, <3>1
  <2>4. i \in I /\ query[i] = r
    BY <1>2, <2>2, <2>3
  <2>5. QED
    BY <1>1, <2>4
<1>3. call.wanted \o more \in TableList
      /\ ToSet(call.wanted) \cup ToSet(more) \subseteq ToSet(call.wanted \o more)
  BY <1>1, ConcatElements DEF TableList
<1>4. QED
  BY <1>2, <1>3

----------------------------------------------------------------------------
(* Every step keeps the invariant. *)

LEMMA NoCallType ==
    /\ NoCall \in [phase : Phase, by : Tasks \cup {NoTask}, batch : Seq(TableList),
                   rest : Seq(TableList), passed : Seq(TableList), group : Seq(TableList),
                   wanted : TableList, started : Nat]
    /\ Releasing = [NoCall EXCEPT !.phase = "release"]
<1>1. <<>> \in TableList /\ <<>> \in Seq(TableList)
  BY DEF TableList
<1>2. QED
  BY <1>1 DEF NoCall, Releasing, Phase

\* Between calls nothing is asked of the leases but their type.
LEMMA CallOver ==
    ASSUME leases' \in [Leasable -> Lease \cup {NoLease}], call' \in {NoCall, Releasing}
    PROVE  CallInv'
<1>1. /\ call'.phase \in {"idle", "release"}
      /\ call'.batch = <<>> /\ call'.rest = <<>> /\ call'.passed = <<>>
  BY DEF NoCall, Releasing
<1>2. call' \in [phase : Phase, by : Tasks \cup {NoTask}, batch : Seq(TableList),
                 rest : Seq(TableList), passed : Seq(TableList), group : Seq(TableList),
                 wanted : TableList, started : Nat]
  BY NoCallType DEF Releasing, NoCall, Phase
<1>3. CallType'
  BY <1>2 DEF CallType
<1>4. ~Batching' /\ Loops' /\ NothingKept'
  BY <1>1 DEF Batching, Loops, NothingKept, In
<1>5. QED
  BY <1>3, <1>4 DEF CallInv, GroupLocked, QueryLocked, Counted, Covered

LEMMA CallInvInit == AsyncInit => CallInv
<1> SUFFICES ASSUME AsyncInit PROVE CallInv
  OBVIOUS
<1>1. CallType
  BY NoCallType DEF AsyncInit, CallType
<1>2. call.phase = "idle" /\ call.batch = <<>> /\ call.rest = <<>> /\ call.passed = <<>>
  BY DEF AsyncInit, NoCall
<1>3. QED
  BY <1>1, <1>2 DEF CallInv, Batching, Loops, NothingKept, In, GroupLocked, QueryLocked, Counted, Covered

LEMMA AcquireType ==
    ASSUME CallType, NEW t \in Tasks, NEW r, NEW a \in LeaseAccess, Acquire(t, r, a)
    PROVE  leases' \in [Leasable -> Lease \cup {NoLease}]
BY DEF CallType, Acquire, Lease

\* A task that reads a table goes on reading it when it acquires another one to read.
LEMMA ReadingGoesOn ==
    ASSUME CallType, call.by \in Tasks, NEW r \in Leasable, Acquire(call.by, r, "Immutable"),
           call'.by = call.by
    PROVE  /\ leases' \in [Leasable -> Lease \cup {NoLease}]
           /\ leases'[r] = ReadLease'
           /\ \A s \in Leasable : leases[s] = ReadLease => leases'[s] = ReadLease'
<1>1. leases' \in [Leasable -> Lease \cup {NoLease}]
  BY AcquireType DEF LeaseAccess
<1>2. QED
  BY <1>1 DEF CallType, Acquire, ReadLease

LEMMA OverStep ==
    ASSUME CallInv,
           \/ ReleaseNext \/ ProcessExpired \/ Tick
           \/ \E t \in Tasks, locks \in SUBSET Leasable : EndTransaction(t, locks)
           \/ \E t \in Tasks, r \in Leasable : WriteTable(t, r)
    PROVE  CallInv'
<1> USE DEF CallInv
<1>1. CASE ReleaseNext
  <2>1. leases' \in [Leasable -> Lease \cup {NoLease}]
    BY <1>1 DEF ReleaseNext, ReleaseSet, CallType
  <2>2. call' \in {NoCall, Releasing}
    BY <1>1 DEF ReleaseNext
  <2>3. QED
    BY <2>1, <2>2, CallOver
<1>2. CASE ProcessExpired \/ Tick
  BY <1>2, CallOver DEF ProcessExpired, Tick, CallType
<1>3. ASSUME NEW t \in Tasks, NEW locks \in SUBSET Leasable, EndTransaction(t, locks)
      PROVE  CallInv'
  BY <1>3, CallOver DEF EndTransaction, CallType
<1>4. ASSUME NEW t \in Tasks, NEW r \in Leasable, WriteTable(t, r)
      PROVE  CallInv'
  <2>1. leases' \in [Leasable -> Lease \cup {NoLease}]
    BY <1>4, AcquireType DEF WriteTable, LeaseAccess
  <2>2. QED
    BY <1>4, <2>1, CallOver DEF WriteTable
<1>5. QED
  BY <1>1, <1>2, <1>3, <1>4

LEMMA BeginBatchStep ==
    ASSUME CallInv, NEW t \in Tasks, NEW b \in Batches, BeginBatch(t, b)
    PROVE  CallInv'
<1>1. b \in Seq(TableList) /\ b # <<>>
  <2>1. Seq(Leasable) \ {<<>>} \subseteq TableList
    BY DEF TableList
  <2>2. b \in Seq(Seq(Leasable) \ {<<>>}) /\ b # <<>>
    BY AsyncTableAssumption
  <2>3. QED
    BY <2>1, <2>2
<1>2. call' = [NoCall EXCEPT !.phase = "gather", !.by = t, !.batch = b, !.rest = b] /\ leases' = leases
  BY DEF BeginBatch
<1>3. CallType'
  BY <1>1, <1>2, NoCallType DEF CallInv, CallType, Phase, NoCall
<1>4. /\ call'.phase = "gather" /\ call'.by = t /\ call'.batch = b /\ call'.rest = b
      /\ call'.passed = <<>> /\ call'.group = <<>> /\ call'.started = 0
  BY <1>2 DEF NoCall
<1>5. Loops' /\ QueryLocked' /\ NothingKept'
  BY <1>1, <1>4 DEF Loops, QueryLocked, NothingKept, In
<1>6. ToSet(call'.group) = {}
  BY <1>4 DEF ToSet
<1>7. GroupLocked'
  BY <1>6 DEF GroupLocked
<1>8. Counted' /\ Covered'
  BY <1>1, <1>4 DEF Counted, Covered, In
<1>9. QED
  BY <1>3, <1>5, <1>7, <1>8 DEF CallInv

LEMMA BeginQueryStep ==
    ASSUME CallInv, NEW t \in Tasks, NEW b \in Batches, BeginQuery(t, b[1])
    PROVE  CallInv'
<1>1. <<b[1]>> \in Seq(TableList)
  <2>1. b \in Seq(Seq(Leasable) \ {<<>>}) /\ b # <<>>
    BY AsyncTableAssumption
  <2>2. b[1] \in TableList
    BY <2>1 DEF TableList
  <2>3. QED
    BY <2>2
<1>2. call' = [NoCall EXCEPT !.phase = "start", !.by = t, !.group = <<b[1]>>] /\ leases' = leases
  BY DEF BeginQuery
<1>3. CallType'
  BY <1>1, <1>2, NoCallType DEF CallInv, CallType, Phase, NoCall
<1>4. call'.phase = "start" /\ call'.by = t /\ call'.batch = <<>> /\ call'.rest = <<>>
      /\ call'.passed = <<>>
  BY <1>2 DEF NoCall
<1>5. QED
  BY <1>3, <1>4 DEF CallInv, Batching, Loops, NothingKept, In, GroupLocked, QueryLocked, Counted, Covered

\* A pass takes the first query of the rest into the group, with its tables, or passes it over.
LEMMA GatherStep ==
    ASSUME CallInv, Gather
    PROVE  CallInv'
<1> DEFINE query == Head(call.rest)
           last == Len(call.rest) = 1
<1>1. /\ CallType /\ In("gather") /\ call.batch # <<>> /\ call.rest # <<>> /\ call.by \in Tasks
      /\ leases' = leases
  BY DEF CallInv, Loops, Gather, In
<1>2. /\ query \in TableList /\ Tail(call.rest) \in Seq(TableList)
      /\ Len(Tail(call.rest)) = Len(call.rest) - 1
      /\ ToSet(call.rest) = {query} \cup ToSet(Tail(call.rest))
  BY <1>1, TailElements DEF CallType
<1>3. /\ call' \in [phase : Phase, by : Tasks \cup {NoTask}, batch : Seq(TableList),
                    rest : Seq(TableList), passed : Seq(TableList), group : Seq(TableList),
                    wanted : TableList, started : Nat]
      /\ call'.phase = (IF last THEN "lock" ELSE "gather") /\ call'.rest = Tail(call.rest)
      /\ call'.by = call.by /\ call'.batch = call.batch /\ call'.started = call.started
      /\ \/ /\ call'.group = Append(call.group, query) /\ call'.passed = call.passed
            /\ Tables(query) \cup ToSet(call.wanted) \subseteq ToSet(call'.wanted)
            /\ ToSet(call'.group) = ToSet(call.group) \cup {query}
            /\ Len(call'.group) = Len(call.group) + 1
         \/ /\ call'.group = Append(call.group, query) /\ call'.passed = call.passed
            /\ call.group = <<>> /\ call'.wanted = query
            /\ ToSet(call'.group) = {query}
            /\ Len(call'.group) = Len(call.group) + 1
         \/ /\ call'.group = call.group /\ call'.wanted = call.wanted
            /\ ToSet(call'.passed) = ToSet(call.passed) \cup {query}
            /\ Len(call'.passed) = Len(call.passed) + 1
  <2> DEFINE gathered == [call EXCEPT !.phase = IF last THEN "lock" ELSE "gather", !.rest = Tail(@)]
  <2>1. CASE call.group = <<>>
    <3>1. call' = [gathered EXCEPT !.group = <<query>>, !.wanted = query]
      BY <2>1 DEF Gather
    <3>2. <<query>> = Append(call.group, query) /\ Len(<<query>>) = Len(call.group) + 1
          /\ <<query>> \in Seq(TableList)
      BY <1>2, <2>1
    <3>3. ToSet(<<query>>) = {query}
      BY DEF ToSet
    <3>4. /\ call'.group = <<query>> /\ call'.wanted = query /\ call'.passed = call.passed
          /\ call'.phase = (IF last THEN "lock" ELSE "gather") /\ call'.rest = Tail(call.rest)
          /\ call'.by = call.by /\ call'.batch = call.batch /\ call'.started = call.started
      BY <1>1, <3>1 DEF CallType
    <3>5. call' \in [phase : Phase, by : Tasks \cup {NoTask}, batch : Seq(TableList),
                    rest : Seq(TableList), passed : Seq(TableList), group : Seq(TableList),
                    wanted : TableList, started : Nat]
      BY <1>1, <1>2, <3>1, <3>2 DEF CallType, Phase
    <3>6. QED
      BY <2>1, <3>2, <3>3, <3>4, <3>5
  <2>2. CASE call.group # <<>> /\ Tables(query) \cap ToSet(call.wanted) # {}
    <3>1. PICK more \in MoreTables(query) :
              call' = [gathered EXCEPT !.group = Append(@, query), !.wanted = @ \o more]
      BY <2>2 DEF Gather
    <3>2. /\ call.wanted \o more \in TableList
          /\ Tables(query) \cup ToSet(call.wanted) \subseteq ToSet(call.wanted \o more)
      BY <1>1, <1>2, MoreTablesEnough DEF CallType
    <3>3. /\ Append(call.group, query) \in Seq(TableList)
          /\ Len(Append(call.group, query)) = Len(call.group) + 1
          /\ ToSet(Append(call.group, query)) = ToSet(call.group) \cup {query}
      BY <1>1, <1>2, AppendElements DEF CallType
    <3>4. QED
      BY <1>1, <1>2, <3>1, <3>2, <3>3 DEF CallType, Phase
  <2>3. CASE call.group # <<>> /\ Tables(query) \cap ToSet(call.wanted) = {}
    <3>1. call' = [gathered EXCEPT !.passed = Append(@, query)]
      BY <2>3 DEF Gather
    <3>2. /\ Append(call.passed, query) \in Seq(TableList)
          /\ Len(Append(call.passed, query)) = Len(call.passed) + 1
          /\ ToSet(Append(call.passed, query)) = ToSet(call.passed) \cup {query}
      BY <1>1, <1>2, AppendElements DEF CallType
    <3>3. QED
      BY <1>1, <1>2, <3>1, <3>2 DEF CallType, Phase
  <2>4. QED
    BY <2>1, <2>2, <2>3
<1> HIDE DEF query, last
<1>4. CallType'
  BY <1>1, <1>3 DEF CallType
<1>5. last <=> Tail(call.rest) = <<>>
  <2> DEFINE later == Tail(call.rest)
             n == Len(call.rest)
  <2>1. later \in Seq(TableList) /\ Len(later) = n - 1 /\ n \in Nat
    BY <1>1, <1>2 DEF CallType
  <2>2. last <=> n = 1
    BY DEF last
  <2> HIDE DEF later, n
  <2>3. later = <<>> <=> Len(later) = 0
    BY <2>1
  <2>4. n = 1 <=> later = <<>>
    BY <2>1, <2>3
  <2>5. QED
    BY <2>2, <2>4 DEF later
<1>6. /\ Loops' /\ QueryLocked' /\ NothingKept'
  BY <1>1, <1>3, <1>5 DEF Loops, QueryLocked, NothingKept, In
<1>7. Batching /\ call'.phase \in {"gather", "lock"} /\ ReadLease' = ReadLease
  BY <1>1, <1>3 DEF Batching, In, ReadLease
<1>8. GroupLocked'
  <2> SUFFICES ASSUME NEW q \in ToSet(call'.group), NEW r \in Tables(q)
               PROVE  leases[r] = ReadLease \/ r \in ToSet(call'.wanted)
    BY <1>1, <1>7 DEF GroupLocked
  <2>1. q \in ToSet(call.group) => leases[r] = ReadLease \/ r \in ToSet(call.wanted)
    BY <1>7 DEF CallInv, GroupLocked
  <2>2. QED
    BY <1>3, <2>1 DEF Tables
<1>9. Counted'
  <2>1. ~In("read") /\ ~In("read")'
    BY <1>1, <1>3 DEF In
  <2> DEFINE all == Len(call.batch)
             r1 == Len(call.rest)    r2 == Len(call'.rest)
             p1 == Len(call.passed)  p2 == Len(call'.passed)
             g1 == Len(call.group)   g2 == Len(call'.group)
             n == call.started
  <2>2. {r1, p1, g1, n, r2, p2, g2} \subseteq Nat
    BY <1>1, <1>2, <1>3 DEF CallType
  <2>3. all = r1 + p1 + g1 + n + (IF In("read") THEN 1 ELSE 0)
    BY <1>7 DEF CallInv, Counted
  <2>4. r2 = r1 - 1 /\ ((g2 = g1 + 1 /\ p2 = p1) \/ (g2 = g1 /\ p2 = p1 + 1))
    BY <1>2, <1>3
  <2>5. Counted' <=> (Batching' => all = r2 + p2 + g2 + n + (IF In("read")' THEN 1 ELSE 0))
    BY <1>3 DEF Counted
  <2> HIDE DEF all, r1, r2, p1, p2, g1, g2, n
  <2>6. all = r1 + p1 + g1 + n
    BY <2>1, <2>2, <2>3
  <2>7. all = r2 + p2 + g2 + n + 0
    BY <2>2, <2>4, <2>6
  <2>8. QED
    BY <2>1, <2>5, <2>7
<1>10. Covered'
  <2> SUFFICES ASSUME NEW q \in ToSet(call.batch)
               PROVE  \/ q \in ToSet(call'.rest) \cup ToSet(call'.passed) \cup ToSet(call'.group)
                      \/ \A r \in Tables(q) : leases[r] = ReadLease
    BY <1>1, <1>3, <1>7 DEF Covered
  <2>1. \/ q \in ToSet(call.rest) \cup ToSet(call.passed) \cup ToSet(call.group)
        \/ \A r \in Tables(q) : leases[r] = ReadLease
    BY <1>7 DEF CallInv, Covered
  <2>2. ToSet(call.group) \subseteq ToSet(call'.group)
    <3>1. call.group = <<>> => ToSet(call.group) = {}
      BY DEF ToSet
    <3>2. QED
      BY <1>3, <3>1
  <2>3. ToSet(call.passed) \subseteq ToSet(call'.passed)
    BY <1>3
  <2>4. query \in ToSet(call'.group) \cup ToSet(call'.passed)
    BY <1>3
  <2>5. QED
    BY <1>2, <1>3, <2>1, <2>2, <2>3, <2>4
<1>11. QED
  BY <1>4, <1>6, <1>8, <1>9, <1>10 DEF CallInv

LEMMA QueryTables ==
    ASSUME CallType
    PROVE  \A q \in ToSet(call.batch) \cup ToSet(call.rest) \cup ToSet(call.passed) \cup ToSet(call.group) :
               q \in TableList /\ Tables(q) \subseteq Leasable
<1>1. ASSUME NEW s \in Seq(TableList), NEW q \in ToSet(s)
      PROVE  q \in TableList /\ Tables(q) \subseteq Leasable
  <2>1. q \in TableList
    BY DEF ToSet
  <2>2. \A i \in DOMAIN q : q[i] \in Leasable
    BY <2>1 DEF TableList
  <2>3. QED
    BY <2>1, <2>2 DEF Tables, ToSet
<1>2. QED
  BY <1>1 DEF CallType

\* A table is acquired, for a group or for a query.
LEMMA AcquireStep ==
    ASSUME CallInv, call.phase \in {"lock", "read"}, call.wanted # <<>>,
           Acquire(call.by, Head(call.wanted), "Immutable"),
           call' = [call EXCEPT !.wanted = Tail(@)]
    PROVE  CallInv'
<1> DEFINE r == Head(call.wanted)
<1>1. /\ CallType /\ call.by \in Tasks
      /\ r \in Leasable /\ Tail(call.wanted) \in TableList
      /\ ToSet(call.wanted) = {r} \cup ToSet(Tail(call.wanted))
  <2>1. CallType /\ call.by \in Tasks
    BY DEF CallInv, Loops
  <2>2. QED
    BY <2>1, TailElements DEF CallType, TableList
<1>2. /\ CallType'
      /\ call'.phase = call.phase /\ call'.by = call.by /\ call'.batch = call.batch
      /\ call'.rest = call.rest /\ call'.passed = call.passed /\ call'.group = call.group
      /\ call'.started = call.started /\ call'.wanted = Tail(call.wanted)
  <2>1. /\ call'.phase = call.phase /\ call'.by = call.by /\ call'.batch = call.batch
        /\ call'.rest = call.rest /\ call'.passed = call.passed /\ call'.group = call.group
        /\ call'.started = call.started /\ call'.wanted = Tail(call.wanted)
    BY <1>1 DEF CallType
  <2>2. leases' \in [Leasable -> Lease \cup {NoLease}]
    BY <1>1, <2>1, ReadingGoesOn
  <2>3. QED
    BY <1>1, <2>1, <2>2 DEF CallType
<1>3. /\ leases'[r] = ReadLease'
      /\ \A s \in Leasable : leases[s] = ReadLease => leases'[s] = ReadLease'
  BY <1>1, <1>2, ReadingGoesOn
<1> HIDE DEF r
<1>4. Loops' /\ Counted' /\ NothingKept' /\ (Batching' <=> Batching)
  BY <1>2 DEF CallInv, Loops, Counted, NothingKept, Batching, In
<1>5. GroupLocked'
  <2> SUFFICES ASSUME Batching, NEW q \in ToSet(call.group), NEW s \in Tables(q)
               PROVE  \/ leases'[s] = ReadLease'
                      \/ call.phase \in {"gather", "lock"} /\ s \in ToSet(Tail(call.wanted))
    BY <1>2, <1>4 DEF GroupLocked
  <2>1. leases[s] = ReadLease \/ (call.phase \in {"gather", "lock"} /\ s \in ToSet(call.wanted))
    BY DEF CallInv, GroupLocked
  <2>2. s \in Leasable
    BY <1>1, QueryTables
  <2>3. QED
    BY <1>1, <1>3, <2>1, <2>2
<1>6. QueryLocked'
  <2> SUFFICES ASSUME Batching, In("read"), NEW s \in ToSet(Tail(call.wanted))
               PROVE  leases'[s] = ReadLease'
    BY <1>2, <1>4 DEF QueryLocked, In
  <2>1. leases[s] = ReadLease
    BY <1>1 DEF CallInv, QueryLocked
  <2>2. s \in Leasable
    <3>1. \A i \in DOMAIN Tail(call.wanted) : Tail(call.wanted)[i] \in Leasable
      BY <1>1 DEF TableList
    <3>2. QED
      BY <3>1 DEF ToSet
  <2>3. QED
    BY <1>3, <2>1, <2>2
<1>7. Covered'
  <2> SUFFICES ASSUME Batching, NEW q \in ToSet(call.batch)
               PROVE  \/ q \in ToSet(call.rest) \cup ToSet(call.passed) \cup ToSet(call.group)
                      \/ \A s \in Tables(q) : leases'[s] = ReadLease'
    BY <1>2, <1>4 DEF Covered
  <2>1. \/ q \in ToSet(call.rest) \cup ToSet(call.passed) \cup ToSet(call.group)
        \/ \A s \in Tables(q) : leases[s] = ReadLease
    BY DEF CallInv, Covered
  <2>2. Tables(q) \subseteq Leasable
    BY <1>1, QueryTables
  <2>3. QED
    BY <1>3, <2>1, <2>2
<1>8. QED
  BY <1>2, <1>4, <1>5, <1>6, <1>7 DEF CallInv

LEMMA RefuseStep ==
    ASSUME CallInv, Refuse
    PROVE  CallInv'
<1>1. /\ CallType /\ call.by \in Tasks /\ In("lock") /\ call.rest = <<>>
      /\ call.batch = <<>> => call.passed = <<>>
  BY DEF CallInv, Loops, Refuse, In
<1>2. call' = [call EXCEPT !.phase = "refused"]
      /\ leases' = [r \in Leasable |-> IF r \in LeasedTo(leases, call.by) THEN NoLease ELSE leases[r]]
  BY DEF Refuse, ReleaseAll, ReleaseSet
<1>3. CallType'
  BY <1>1, <1>2 DEF CallType, Phase
<1>4. /\ call'.phase = "refused" /\ call'.by = call.by /\ call'.rest = <<>>
      /\ call'.batch = call.batch /\ call'.passed = call.passed
  BY <1>1, <1>2 DEF CallType
<1>5. LeasedTo(leases', call.by) = {}
  <2>1. \A r \in Leasable : leases'[r].task # call.by
    <3> SUFFICES ASSUME NEW r \in Leasable PROVE leases'[r].task # call.by
      OBVIOUS
    <3>1. CASE r \in LeasedTo(leases, call.by)
      BY <1>1, <1>2, <3>1, AsyncTableAssumption DEF NoLease
    <3>2. CASE r \notin LeasedTo(leases, call.by)
      BY <1>2, <3>2 DEF LeasedTo
    <3>3. QED
      BY <3>1, <3>2
  <2>2. QED
    BY <2>1 DEF LeasedTo
<1>6. NothingKept'
  BY <1>4, <1>5 DEF NothingKept, LeasedTo
<1>7. ~Batching' /\ Loops'
  BY <1>1, <1>4 DEF Batching, Loops, In
<1>8. QED
  BY <1>3, <1>6, <1>7 DEF CallInv, GroupLocked, QueryLocked, Counted, Covered

LEMMA LockedStep ==
    ASSUME CallInv, Locked
    PROVE  CallInv'
<1>1. /\ CallType /\ call.by \in Tasks /\ In("lock") /\ call.rest = <<>> /\ call.wanted = <<>>
      /\ call' = [call EXCEPT !.phase = "start"] /\ leases' = leases
      /\ call.batch = <<>> => call.passed = <<>>
  BY DEF CallInv, Loops, Locked, In
<1>2. /\ CallType'
      /\ call'.phase = "start" /\ call'.by = call.by /\ call'.batch = call.batch
      /\ call'.rest = call.rest /\ call'.passed = call.passed /\ call'.group = call.group
      /\ call'.started = call.started
  BY <1>1 DEF CallType, Phase
<1>3. Loops' /\ QueryLocked' /\ NothingKept' /\ (Batching' <=> Batching) /\ ReadLease' = ReadLease
  BY <1>1, <1>2 DEF Loops, QueryLocked, NothingKept, Batching, In, ReadLease
<1>4. GroupLocked'
  <2>1. ToSet(call.wanted) = {}
    BY <1>1 DEF ToSet
  <2>2. QED
    BY <1>1, <1>2, <1>3, <2>1 DEF CallInv, GroupLocked
<1>5. Counted' /\ Covered'
  BY <1>1, <1>2, <1>3 DEF CallInv, Counted, Covered, In
<1>6. QED
  BY <1>2, <1>3, <1>4, <1>5 DEF CallInv

LEMMA GroupOverStep ==
    ASSUME CallInv, GroupOver
    PROVE  CallInv'
<1>1. /\ CallType /\ call.by \in Tasks /\ In("start") /\ call.rest = <<>> /\ call.group = <<>>
      /\ leases' = leases
      /\ call.batch = <<>> => call.passed = <<>>
  BY DEF CallInv, Loops, GroupOver, In
<1> DEFINE passing == call.passed # <<>>
<1>2. CASE ~passing /\ call.batch = <<>>
  <2>1. call' = NoCall
    BY <1>2 DEF GroupOver
  <2>2. QED
    BY <1>1, <2>1, CallOver DEF CallType
<1>3. CASE passing \/ call.batch # <<>>
  <2>1. call' = IF passing THEN [call EXCEPT !.phase = "gather", !.rest = call.passed, !.passed = <<>>]
                ELSE [call EXCEPT !.phase = "accepted"]
    BY <1>3 DEF GroupOver
  <2>2. /\ CallType'
        /\ call'.phase = (IF passing THEN "gather" ELSE "accepted") /\ call'.by = call.by
        /\ call'.batch = call.batch /\ call'.group = <<>> /\ call'.started = call.started
        /\ call'.passed = <<>> /\ call'.rest = call.passed
    BY <1>1, <2>1 DEF CallType, Phase
  <2>3. /\ Loops' /\ QueryLocked' /\ NothingKept' /\ Batching /\ ReadLease' = ReadLease
    BY <1>1, <1>3, <2>2 DEF Loops, QueryLocked, NothingKept, Batching, In, ReadLease
  <2>4. ToSet(call'.group) = {} /\ ToSet(call.group) = {} /\ ToSet(call.rest) = {}
    BY <1>1, <2>2 DEF ToSet
  <2>5. GroupLocked'
    BY <2>4 DEF GroupLocked
  <2>6. Covered'
    BY <1>1, <2>2, <2>3, <2>4 DEF CallInv, Covered
  <2>7. Counted'
    <3> DEFINE all == Len(call.batch)
               p == Len(call.passed)
               n == call.started
    <3>1. all = 0 + p + 0 + n + 0
      BY <1>1, <2>3 DEF CallInv, Counted, In
    <3>2. Counted' <=> (Batching' => all = p + 0 + 0 + n + 0)
      BY <2>2 DEF Counted, In
    <3>3. p \in Nat /\ n \in Nat
      BY <1>1 DEF CallType
    <3> HIDE DEF all, p, n
    <3>4. QED
      BY <3>1, <3>2, <3>3
  <2>8. QED
    BY <2>2, <2>3, <2>5, <2>6, <2>7 DEF CallInv
<1>4. QED
  BY <1>2, <1>3

\* What a query of a batch asks for was locked with its group.
LEMMA StartQueryStep ==
    ASSUME CallInv, StartQuery
    PROVE  CallInv'
<1> DEFINE query == Head(call.group)
<1>1. /\ CallType /\ call.by \in Tasks /\ In("start") /\ call.rest = <<>> /\ call.group # <<>>
      /\ call' = [call EXCEPT !.phase = "read", !.wanted = query, !.group = Tail(@)]
      /\ leases' = leases
      /\ call.batch = <<>> => call.passed = <<>>
  BY DEF CallInv, Loops, StartQuery, In
<1>2. /\ query \in TableList /\ Tail(call.group) \in Seq(TableList)
      /\ Len(Tail(call.group)) = Len(call.group) - 1
      /\ ToSet(call.group) = {query} \cup ToSet(Tail(call.group))
  BY <1>1, TailElements DEF CallType
<1>3. /\ CallType'
      /\ call'.phase = "read" /\ call'.by = call.by /\ call'.batch = call.batch
      /\ call'.rest = call.rest /\ call'.passed = call.passed /\ call'.group = Tail(call.group)
      /\ call'.wanted = query /\ call'.started = call.started
  BY <1>1, <1>2 DEF CallType, Phase
<1> HIDE DEF query
<1>4. Loops' /\ NothingKept' /\ (Batching' <=> Batching) /\ ReadLease' = ReadLease
  BY <1>1, <1>3 DEF Loops, NothingKept, Batching, In, ReadLease
<1>5. Batching => \A q \in ToSet(call.group) : \A r \in Tables(q) : leases[r] = ReadLease
  BY <1>1 DEF CallInv, GroupLocked, In
<1>6. GroupLocked' /\ QueryLocked'
  BY <1>1, <1>2, <1>3, <1>4, <1>5 DEF GroupLocked, QueryLocked, Tables
<1>7. Covered'
  BY <1>1, <1>2, <1>3, <1>4, <1>5 DEF CallInv, Covered
<1>8. Counted'
  <2> DEFINE all == Len(call.batch)
             p == Len(call.passed)
             g == Len(call.group)
             n == call.started
  <2>1. Batching => all = 0 + p + g + n + 0
    BY <1>1 DEF CallInv, Counted, In
  <2>2. Counted' <=> (Batching => all = 0 + p + (g - 1) + n + 1)
    <3>1. In("read")' /\ Len(call'.rest) = 0 /\ Len(call'.group) = g - 1
      BY <1>1, <1>2, <1>3 DEF In
    <3>2. Len(call'.batch) = all /\ Len(call'.passed) = p /\ call'.started = n
      BY <1>3
    <3> HIDE DEF all, p, g, n
    <3>3. QED
      BY <1>4, <3>1, <3>2 DEF Counted
  <2>3. p \in Nat /\ g \in Nat /\ n \in Nat
    BY <1>1 DEF CallType
  <2> HIDE DEF all, p, g, n
  <2>4. QED
    BY <2>1, <2>2, <2>3
<1>9. QED
  BY <1>3, <1>4, <1>6, <1>7, <1>8 DEF CallInv

\* So it never waits.
LEMMA WaitForTableStep ==
    ASSUME CallInv, WaitForTable
    PROVE  CallInv'
<1>1. /\ CallType /\ call.by \in Tasks /\ In("read") /\ call.wanted # <<>> /\ call.rest = <<>>
      /\ ~Feasible(leases, Head(call.wanted), "Immutable")
      /\ call' = [call EXCEPT !.phase = "start", !.wanted = <<>>] /\ leases' = leases
      /\ call.batch = <<>> => call.passed = <<>>
  BY DEF CallInv, Loops, WaitForTable, In
<1>2. Head(call.wanted) \in ToSet(call.wanted)
  BY <1>1, TailElements DEF CallType, TableList
<1>3. ~Batching
  <2>1. leases[Head(call.wanted)] # ReadLease
    BY <1>1 DEF Feasible, ReadLease
  <2>2. QED
    BY <1>1, <1>2, <2>1 DEF CallInv, QueryLocked
<1>4. call.batch = <<>>
  BY <1>1, <1>3 DEF Batching, In
<1>5. CallType' /\ call'.phase = "start" /\ call'.batch = <<>> /\ call'.rest = <<>>
      /\ call'.by = call.by /\ call'.passed = call.passed
  <2>1. <<>> \in TableList
    BY DEF TableList
  <2>2. QED
    BY <1>1, <1>4, <2>1 DEF CallType, Phase
<1>6. ~Batching' /\ Loops' /\ NothingKept'
  BY <1>1, <1>4, <1>5 DEF Batching, Loops, NothingKept, In
<1>7. QED
  BY <1>5, <1>6 DEF CallInv, GroupLocked, QueryLocked, Counted, Covered

LEMMA QueryStartedStep ==
    ASSUME CallInv, QueryStarted
    PROVE  CallInv'
<1>1. /\ CallType /\ call.by \in Tasks /\ In("read") /\ call.rest = <<>>
      /\ call' = [call EXCEPT !.phase = "start", !.started = @ + 1] /\ leases' = leases
      /\ call.batch = <<>> => call.passed = <<>>
  BY DEF CallInv, Loops, QueryStarted, In
<1>2. /\ CallType'
      /\ call'.phase = "start" /\ call'.by = call.by /\ call'.batch = call.batch
      /\ call'.rest = call.rest /\ call'.passed = call.passed /\ call'.group = call.group
      /\ call'.started = call.started + 1
  <2>1. call.started + 1 \in Nat
    BY <1>1 DEF CallType
  <2>2. CallType'
    BY <1>1, <2>1 DEF CallType, Phase
  <2>3. QED
    BY <1>1, <2>2 DEF CallType
<1>3. Loops' /\ QueryLocked' /\ NothingKept' /\ (Batching' <=> Batching) /\ ReadLease' = ReadLease
  BY <1>1, <1>2 DEF Loops, QueryLocked, NothingKept, Batching, In, ReadLease
<1>4. GroupLocked' /\ Covered'
  BY <1>1, <1>2, <1>3 DEF CallInv, GroupLocked, Covered, In
<1>5. Counted'
  <2> DEFINE all == Len(call.batch)
             p == Len(call.passed)
             g == Len(call.group)
             n == call.started
  <2>1. Batching => all = 0 + p + g + n + 1
    BY <1>1 DEF CallInv, Counted, In
  <2>2. Counted' <=> (Batching => all = 0 + p + g + (n + 1) + 0)
    <3>1. ~In("read")' /\ Len(call'.rest) = 0 /\ call'.started = n + 1
      BY <1>1, <1>2 DEF In
    <3>2. Len(call'.batch) = all /\ Len(call'.passed) = p /\ Len(call'.group) = g
      BY <1>2
    <3> HIDE DEF all, p, g, n
    <3>3. QED
      BY <1>3, <3>1, <3>2 DEF Counted
  <2>3. p \in Nat /\ g \in Nat /\ n \in Nat
    BY <1>1 DEF CallType
  <2> HIDE DEF all, p, g, n
  <2>4. QED
    BY <2>1, <2>2, <2>3
<1>6. QED
  BY <1>2, <1>3, <1>4, <1>5 DEF CallInv

LEMMA CallInvStep == CallInv /\ [AsyncNext]_asyncVars => CallInv'
<1> SUFFICES ASSUME CallInv, [AsyncNext]_asyncVars PROVE CallInv'
  OBVIOUS
<1>1. ASSUME NEW t \in Tasks, Call(t) PROVE CallInv'
  <2>1. CASE \E b \in Batches : BeginBatch(t, b) \/ BeginQuery(t, b[1])
    BY <2>1, BeginBatchStep, BeginQueryStep
  <2>2. CASE \E locks \in SUBSET Leasable : locks # {} /\ EndTransaction(t, locks)
    BY <2>2, OverStep
  <2>3. CASE \E r \in Leasable : WriteTable(t, r)
    BY <2>3, OverStep
  <2>4. QED
    BY <1>1, <2>1, <2>2, <2>3 DEF Call
<1>2. CASE ReleaseNext \/ ProcessExpired \/ Tick
  BY <1>2, OverStep
<1>3. CASE LockTable \/ ReadTable
  <2>1. call.phase \in {"lock", "read"}
    BY <1>3 DEF LockTable, ReadTable, In
  <2>2. QED
    BY <1>3, <2>1, AcquireStep DEF LockTable, ReadTable
<1>4. CASE Gather \/ Refuse \/ Locked \/ GroupOver
  BY <1>4, GatherStep, RefuseStep, LockedStep, GroupOverStep
<1>5. CASE StartQuery \/ WaitForTable \/ QueryStarted
  BY <1>5, StartQueryStep, WaitForTableStep, QueryStartedStep
<1>6. CASE UNCHANGED asyncVars
  BY <1>6 DEF asyncVars, CallInv, CallType, Loops, GroupLocked, QueryLocked, Counted, Covered, NothingKept,
     Batching, ReadLease, In
<1>7. QED
  BY <1>1, <1>2, <1>3, <1>4, <1>5, <1>6 DEF AsyncNext

\* A batch starts every query and reads the tables of all of them, or it keeps no lease,
\* although its groups are locked one after the other and each of its queries acquires its
\* tables again (execute_batch).
THEOREM BatchAllOrNothingHolds == AsyncSpec => []BatchAllOrNothing
<1>1. CallInv => BatchAllOrNothing
  <2> SUFFICES ASSUME CallInv PROVE BatchAllOrNothing
    OBVIOUS
  <2>1. ASSUME In("accepted")
        PROVE  call.started = Len(call.batch) /\ \A q \in ToSet(call.batch) : Reads(call.by, q)
    <3>1. /\ CallType /\ call.rest = <<>> /\ call.passed = <<>> /\ call.group = <<>>
      BY <2>1 DEF CallInv, Loops, In
    <3>2. Batching /\ ~In("read")
      BY <2>1 DEF CallInv, Loops, Batching, In
    <3>3. call.started = Len(call.batch)
      <4>1. Len(call.batch) = 0 + 0 + 0 + call.started + 0
        BY <3>1, <3>2 DEF CallInv, Counted
      <4>2. call.started \in Nat
        BY <3>1 DEF CallType
      <4>3. QED
        BY <4>1, <4>2
    <3>4. ToSet(call.rest) \cup ToSet(call.passed) \cup ToSet(call.group) = {}
      BY <3>1 DEF ToSet
    <3>5. QED
      BY <3>2, <3>3, <3>4 DEF CallInv, Covered, ReadLease, Reads
  <2>2. In("refused") => LeasedTo(leases, call.by) = {}
    BY DEF CallInv, NothingKept
  <2>3. QED
    BY <2>1, <2>2 DEF BatchAllOrNothing
<1>2. QED
  BY <1>1, CallInvInit, CallInvStep, PTL DEF AsyncSpec

----------------------------------------------------------------------------
(* Query futures *)

FuturePlace == {"awake", "store", "asleep", "timeout", "result"}

FutureType ==
    /\ result \in BOOLEAN /\ waker \subseteq Clients
    /\ pc \in [Clients -> FuturePlace]
    /\ completing \in {"no", "stored", "done"}

Has(c) == pc[c] = "result"

\* The one result is not there yet, is there, or is with one clone: before the completion
\* nobody has it, and while it is there nobody has it.
OneHolder ==
    /\ completing = "no" => ~result
    /\ completing = "no" \/ result => \A c \in Clients : ~Has(c)
    /\ \A c, d \in Clients : Has(c) /\ Has(d) => c = d

FutureInv == FutureType /\ OneHolder

LEMMA FutureInvInit == FutureInit => FutureInv
BY DEF FutureInit, FutureInv, FutureType, OneHolder, Has, FuturePlace

LEMMA FutureInvStep == FutureInv /\ [FutureNext]_futureVars => FutureInv'
<1> SUFFICES ASSUME FutureInv, [FutureNext]_futureVars PROVE FutureInv'
  OBVIOUS
<1> USE DEF FutureInv, FutureType, OneHolder, Has, FuturePlace
<1>1. ASSUME NEW c \in Clients, TimesOut(c) PROVE FutureInv'
  BY <1>1 DEF TimesOut, GoesTo
<1>2. ASSUME NEW c \in Clients, TakesResult(c) PROVE FutureInv'
  BY <1>2 DEF TakesResult, GoesTo
<1>3. ASSUME NEW c \in Clients, FindsNothing(c) PROVE FutureInv'
  BY <1>3 DEF FindsNothing, GoesTo
<1>4. ASSUME NEW c \in Clients, StoresWaker(c) PROVE FutureInv'
  BY <1>4 DEF StoresWaker, GoesTo
<1>5. ASSUME NEW c \in Clients, PolledAgain(c) PROVE FutureInv'
  BY <1>5 DEF PolledAgain, GoesTo
<1>6. CASE StoreResult
  BY <1>6 DEF StoreResult
<1>7. CASE Wake
  BY <1>7 DEF Wake
<1>8. CASE TimePasses \/ UNCHANGED futureVars
  BY <1>8 DEF TimePasses, futureVars
<1>9. QED
  BY <1>1, <1>2, <1>3, <1>4, <1>5, <1>6, <1>7, <1>8 DEF FutureNext, Poll

\* However polls, the completion and the timeout interleave, one clone of a future at most
\* gets its result (poll, complete).
THEOREM ResultGivenOnceHolds == FutureSpec => []ResultGivenOnce
<1>1. OneHolder => ResultGivenOnce
  <2> DEFINE G == {c \in Clients : Has(c)}
  <2> SUFFICES ASSUME OneHolder PROVE Cardinality(G) <= 1
    BY DEF ResultGivenOnce, Has
  <2>1. CASE G = {}
    BY <2>1, FS_EmptySet
  <2>2. CASE \E c : G = {c}
    BY <2>2, FS_Singleton
  <2>3. QED
    BY <2>1, <2>2 DEF OneHolder
<1>2. QED
  BY <1>1, FutureInvInit, FutureInvStep, PTL DEF FutureSpec, FutureInv
=============================================================================
