----------------------- MODULE ResourceLifecycleProofs -----------------------
(* Theorems about ResourceLifecycle, for any number of tasks and resources.   *)
EXTENDS ResourceLifecycle, FiniteSetTheorems, SequenceTheorems, WellFoundedInduction, TLAPS

----------------------------------------------------------------------------
(* The queue of timeouts.  *)

\* The order of the natural numbers has least elements.
LEMMA LeastNatural ==
    ASSUME NEW I \in SUBSET Nat, I # {}
    PROVE  \E i \in I : \A j \in I : i <= j
<1> DEFINE R == {ss \in Nat \X Nat : ss[1] < ss[2]}
<1>1. IsWellFoundedOn(R, Nat)
  BY NatLessThanWellFounded DEF OpToRel
<1>2. PICK i \in I : \A j \in I : ~(<<j, i>> \in R)
  <2> HIDE DEF R
  <2>1. QED
    BY <1>1, WFMin
<1>3. \A j \in I : j \in Nat /\ i \in Nat /\ ~(j < i)
  BY <1>2
<1>4. QED
  BY <1>3

\* schedule_timeout finds a place: in front of the first that ends later.
LEMMA PositionFound ==
    ASSUME NEW q \in Seq(Timeout), NEW n \in Nat, NEW place, place = Position(q, n)
    PROVE  /\ place \in 1..Len(q) + 1
           /\ \A j \in 1..place - 1 : q[j].left <= n
           /\ place <= Len(q) => n < q[place].left
<1> DEFINE I == {i \in 1..Len(q) + 1 : i <= Len(q) => n < q[i].left}
<1>1. PICK k \in I : \A j \in I : k <= j
  <2>1. Len(q) \in Nat
    OBVIOUS
  <2>2. Len(q) + 1 \in I /\ I \in SUBSET Nat
    BY <2>1
  <2>3. QED
    BY <2>2, LeastNatural
<1>2. ASSUME NEW j \in 1..k - 1
      PROVE  q[j].left <= n
  <2>1. j \in 1..Len(q) /\ j \notin I
    BY <1>1
  <2>2. q[j] \in Timeout
    BY <2>1
  <2>3. QED
    BY <2>1, <2>2 DEF Timeout
<1>3. /\ k \in 1..Len(q) + 1
      /\ \A j \in 1..k - 1 : q[j].left <= n
      /\ k <= Len(q) => n < q[k].left
  BY <1>1, <1>2
<1>4. QED
  BY <1>3 DEF Position

\* What is scheduled is pushed between the others, which keep their order.
LEMMA ScheduledEffect ==
    ASSUME NEW q \in Seq(Timeout), NEW r \in Leasable, NEW t \in Tasks, NEW n \in Nat,
           NEW p, p = Scheduled(q, r, t, n), NEW place, place = Position(q, n)
    PROVE  /\ p \in Seq(Timeout) /\ Len(p) = Len(q) + 1
           /\ place \in DOMAIN p
           /\ p[place] = [res |-> r, task |-> t, left |-> n]
           /\ \A i \in DOMAIN p : i < place => i \in DOMAIN q /\ p[i] = q[i]
           /\ \A i \in DOMAIN p : i > place => i - 1 \in DOMAIN q /\ p[i] = q[i - 1]
           /\ \A j \in DOMAIN q : \E i \in DOMAIN p : p[i] = q[j]
<1> DEFINE k == Position(q, n)
           e == [res |-> r, task |-> t, left |-> n]
           a == SubSeq(q, 1, k - 1)
           b == SubSeq(q, k, Len(q))
<1>1. k \in 1..Len(q) + 1 /\ Len(q) \in Nat
  BY PositionFound
<1>2. e \in Timeout
  BY DEF Timeout
<1>3. /\ a \in Seq(Timeout) /\ Len(a) = k - 1
      /\ \A i \in 1..k - 1 : a[i] = q[i]
  BY <1>1, SubSeqProperties
<1>4. /\ b \in Seq(Timeout) /\ Len(b) = Len(q) - k + 1
      /\ \A i \in 1..Len(q) - k + 1 : b[i] = q[k + i - 1]
  BY <1>1, SubSeqProperties
<1>5. /\ a \o <<e>> \in Seq(Timeout) /\ Len(a \o <<e>>) = k
      /\ \A i \in 1..k : (a \o <<e>>)[i] = IF i < k THEN q[i] ELSE e
  <2> HIDE DEF k, e, a
  <2>1. <<e>> \in Seq(Timeout) /\ Len(<<e>>) = 1 /\ <<e>>[1] = e
    BY <1>2
  <2>2. /\ a \o <<e>> \in Seq(Timeout)
        /\ Len(a \o <<e>>) = Len(a) + 1
        /\ \A i \in 1..Len(a) + 1 : (a \o <<e>>)[i] = IF i <= Len(a) THEN a[i] ELSE <<e>>[i - Len(a)]
    BY <1>3, <2>1, ConcatProperties
  <2>3. \A i \in 1..k : i <= Len(a) <=> i < k
    BY <1>1, <1>3
  <2>4. \A i \in 1..k : i > Len(a) => i - Len(a) = 1
    BY <1>1, <1>3
  <2>5. Len(a \o <<e>>) = k
    BY <1>1, <1>3, <2>2
  <2>6. \A i \in 1..k : (a \o <<e>>)[i] = IF i < k THEN q[i] ELSE e
    BY <1>1, <1>3, <2>1, <2>2, <2>3, <2>4
  <2>7. QED
    BY <2>2, <2>5, <2>6
<1>6. /\ (a \o <<e>>) \o b \in Seq(Timeout) /\ Len((a \o <<e>>) \o b) = Len(q) + 1
      /\ \A i \in 1..Len(q) + 1 : ((a \o <<e>>) \o b)[i] =
            IF i < k THEN q[i] ELSE IF i = k THEN e ELSE q[i - 1]
  <2> HIDE DEF k, e, a, b
  <2> DEFINE c == a \o <<e>>
  <2>1. c \in Seq(Timeout) /\ Len(c) = k /\ \A i \in 1..k : c[i] = IF i < k THEN q[i] ELSE e
    BY <1>5
  <2> HIDE DEF c
  <2>2. /\ c \o b \in Seq(Timeout)
        /\ Len(c \o b) = Len(c) + Len(b)
        /\ \A i \in 1..Len(c) + Len(b) : (c \o b)[i] = IF i <= Len(c) THEN c[i] ELSE b[i - Len(c)]
    BY <1>4, <2>1, ConcatProperties
  <2>3. Len(c \o b) = Len(q) + 1
    BY <1>1, <1>4, <2>1, <2>2
  <2>4. ASSUME NEW i \in 1..Len(q) + 1, i > k
        PROVE  (c \o b)[i] = q[i - 1]
    BY <1>1, <1>4, <2>1, <2>2, <2>4
  <2>5. ASSUME NEW i \in 1..Len(q) + 1, i <= k
        PROVE  (c \o b)[i] = IF i < k THEN q[i] ELSE e
    BY <1>1, <1>4, <2>1, <2>2, <2>5
  <2>6. /\ c \o b \in Seq(Timeout) /\ Len(c \o b) = Len(q) + 1
        /\ \A i \in 1..Len(q) + 1 : (c \o b)[i] =
              IF i < k THEN q[i] ELSE IF i = k THEN e ELSE q[i - 1]
    BY <1>1, <2>2, <2>3, <2>4, <2>5
  <2>7. QED
    BY <2>6 DEF c
<1>7. Scheduled(q, r, t, n) = (a \o <<e>>) \o b
  BY DEF Scheduled, InsertAt
<1>8. QED
  <2> HIDE DEF k, e, a, b
  <2>1. /\ p \in Seq(Timeout) /\ Len(p) = Len(q) + 1
        /\ \A i \in 1..Len(q) + 1 : p[i] = IF i < k THEN q[i] ELSE IF i = k THEN e ELSE q[i - 1]
    BY <1>6, <1>7
  <2>2. DOMAIN p = 1..Len(q) + 1 /\ DOMAIN q = 1..Len(q)
    BY <2>1
  <2>3. /\ k \in DOMAIN p
        /\ p[k] = e
        /\ \A i \in DOMAIN p : i < k => i \in DOMAIN q /\ p[i] = q[i]
        /\ \A i \in DOMAIN p : i > k => i - 1 \in DOMAIN q /\ p[i] = q[i - 1]
    BY <1>1, <2>1, <2>2
  <2>4. ASSUME NEW j \in DOMAIN q
        PROVE  \E i \in DOMAIN p : p[i] = q[j]
    <3>1. CASE j < k
      <4>1. j \in DOMAIN p /\ p[j] = q[j]
        BY <1>1, <2>1, <2>2, <3>1
      <4>2. QED
        BY <4>1
    <3>2. CASE ~(j < k)
      <4>1. j + 1 \in DOMAIN p /\ p[j + 1] = q[j]
        BY <1>1, <2>1, <2>2, <3>2
      <4>2. QED
        BY <4>1
    <3>3. QED
      BY <3>1, <3>2
  <2>5. QED
    BY <2>1, <2>3, <2>4 DEF k, e

\* retain keeps what is at the given positions, all of it, and in order.
LEMMA KeptAtEffect ==
    ASSUME NEW q \in Seq(Timeout), NEW I \in SUBSET DOMAIN q, NEW p \in KeptAt(q, I)
    PROVE  \E f \in [DOMAIN p -> I] :
              /\ p \in Seq(Timeout)
              /\ \A i \in DOMAIN p : p[i] = q[f[i]]
              /\ \A i, j \in DOMAIN p : i < j => f[i] < f[j]
              /\ \A k \in I : \E i \in DOMAIN p : f[i] = k
<1>1. IsFiniteSet(I) /\ Cardinality(I) \in Nat
  <2>1. DOMAIN q = 1..Len(q) /\ Len(q) \in Nat
    OBVIOUS
  <2>2. IsFiniteSet(1..Len(q)) /\ I \in SUBSET (1..Len(q))
    BY <2>1, FS_Interval
  <2>3. IsFiniteSet(I)
    BY <2>2, FS_Subset
  <2>4. QED
    BY <2>3, FS_CardinalityType
<1>2. PICK f \in [1..Cardinality(I) -> I] :
          /\ p = [i \in DOMAIN f |-> q[f[i]]]
          /\ \A i, j \in DOMAIN f : i < j => f[i] < f[j]
  BY DEF KeptAt
<1>3. DOMAIN p = 1..Cardinality(I) /\ p \in Seq(Timeout)
  <2>1. \A i \in 1..Cardinality(I) : q[f[i]] \in Timeout
    OBVIOUS
  <2>2. QED
    BY <1>1, <1>2, <2>1
<1>4. \A i, j \in DOMAIN p : f[i] = f[j] => i = j
  <2>1. \A i \in DOMAIN p : i \in Int /\ f[i] \in Int
    BY <1>1, <1>3
  <2>2. QED
    BY <1>2, <1>3, <2>1
<1>5. f \in Surjection(1..Cardinality(I), I)
  <2>1. f \in Injection(1..Cardinality(I), I)
    BY <1>3, <1>4 DEF Injection, IsInjective
  <2>2. Cardinality(1..Cardinality(I)) = Cardinality(I)
    BY <1>1, FS_Interval
  <2>3. QED
    BY <1>1, <2>1, <2>2, FS_Injection
<1>6. \A k \in I : \E i \in DOMAIN p : f[i] = k
  BY <1>3, <1>5 DEF Surjection
<1>7. QED
  BY <1>2, <1>3, <1>6

\* cancel_timeout takes the timeouts of the resource and the task, and nothing else.
LEMMA OthersKeptEffect ==
    ASSUME NEW q \in Seq(Timeout), NEW r, NEW t, NEW p \in OthersKept(q, r, t)
    PROVE  \E f \in [DOMAIN p -> DOMAIN q] :
              /\ p \in Seq(Timeout)
              /\ \A i \in DOMAIN p : p[i] = q[f[i]] /\ ~(p[i].res = r /\ p[i].task = t)
              /\ \A i, j \in DOMAIN p : i < j => f[i] < f[j]
              /\ \A k \in DOMAIN q : (q[k].res = r /\ q[k].task = t) \/ \E i \in DOMAIN p : f[i] = k
<1> DEFINE I == {i \in DOMAIN q : ~(q[i].res = r /\ q[i].task = t)}
<1>1. PICK f \in [DOMAIN p -> I] :
              /\ p \in Seq(Timeout)
              /\ \A i \in DOMAIN p : p[i] = q[f[i]]
              /\ \A i, j \in DOMAIN p : i < j => f[i] < f[j]
              /\ \A k \in I : \E i \in DOMAIN p : f[i] = k
  <2>1. p \in KeptAt(q, I) /\ I \in SUBSET DOMAIN q
    BY DEF OthersKept
  <2> HIDE DEF I
  <2>2. QED
    BY <2>1, KeptAtEffect
<1>2. f \in [DOMAIN p -> DOMAIN q]
  BY <1>1
<1>3. \A i \in DOMAIN p : p[i] = q[f[i]] /\ ~(p[i].res = r /\ p[i].task = t)
  <2>1. \A i \in DOMAIN p : f[i] \in I
    BY <1>1
  <2>2. QED
    BY <1>1, <2>1
<1>4. \A k \in DOMAIN q : (q[k].res = r /\ q[k].task = t) \/ \E i \in DOMAIN p : f[i] = k
  BY <1>1
<1>5. QED
  BY <1>1, <1>2, <1>3, <1>4

\* The reaper pops a front part of the queue, which is not empty.
LEMMA ExpiredFront ==
    ASSUME NEW q \in Seq(Timeout), Expired(q) # {}
    PROVE  Cardinality(Expired(q)) \in 1..Len(q)
<1>1. DOMAIN q = 1..Len(q) /\ Len(q) \in Nat
  OBVIOUS
<1>2. Expired(q) \in SUBSET (1..Len(q))
  BY <1>1 DEF Expired
<1>3. IsFiniteSet(1..Len(q)) /\ Cardinality(1..Len(q)) = Len(q)
  BY <1>1, FS_Interval
<1>4. IsFiniteSet(Expired(q)) /\ Cardinality(Expired(q)) <= Len(q)
  BY <1>2, <1>3, FS_Subset
<1>5. Cardinality(Expired(q)) \in Nat /\ Cardinality(Expired(q)) # 0
  BY <1>4, FS_CardinalityType, FS_EmptySet
<1>6. QED
  BY <1>1, <1>4, <1>5

\* Behind the first job the others move up.
LEMMA TailEffect ==
    ASSUME NEW q \in Seq(Leasable \X Tasks), Len(q) # 0
    PROVE  /\ \A i \in DOMAIN Tail(q) : i \in Nat \ {0} /\ i + 1 \in DOMAIN q /\ Tail(q)[i] = q[i + 1]
           /\ \A i \in DOMAIN q : i # 1 => i - 1 \in DOMAIN Tail(q) /\ Tail(q)[i - 1] = q[i]
<1>1. q # <<>>
  OBVIOUS
<1>2. /\ Tail(q) \in Seq(Leasable \X Tasks)
      /\ Len(Tail(q)) = Len(q) - 1
      /\ \A i \in 1..Len(Tail(q)) : Tail(q)[i] = q[i + 1]
  BY <1>1, HeadTailProperties
<1>3. DOMAIN q = 1..Len(q) /\ DOMAIN Tail(q) = 1..Len(Tail(q)) /\ Len(q) \in Nat
  BY <1>2
<1>4. \A i \in DOMAIN Tail(q) : i \in Nat \ {0} /\ i + 1 \in DOMAIN q /\ Tail(q)[i] = q[i + 1]
  BY <1>2, <1>3
<1>5. ASSUME NEW i \in DOMAIN q, i # 1
      PROVE  i - 1 \in DOMAIN Tail(q) /\ Tail(q)[i - 1] = q[i]
  <2>1. i - 1 \in 1..Len(Tail(q)) /\ (i - 1) + 1 = i
    BY <1>2, <1>3, <1>5
  <2>2. QED
    BY <1>2, <1>3, <2>1
<1>6. QED
  BY <1>4, <1>5

\* So do the timeouts behind those that the reaper pops.
LEMMA PoppedEffect ==
    ASSUME NEW q \in Seq(Timeout), NEW n \in 1..Len(q)
    PROVE  LET p == SubSeq(q, n + 1, Len(q))
           IN  /\ p \in Seq(Timeout)
               /\ \A i \in DOMAIN p : i + n \in DOMAIN q /\ p[i] = q[i + n]
               /\ \A i \in DOMAIN q : i > n => i - n \in DOMAIN p /\ p[i - n] = q[i]
<1> DEFINE p == SubSeq(q, n + 1, Len(q))
<1>1. Len(q) \in Nat /\ n \in Nat /\ n <= Len(q) /\ DOMAIN q = 1..Len(q)
  OBVIOUS
<1>2. \A i \in n + 1..Len(q) : q[i] \in Timeout
  BY <1>1
<1>3. /\ p \in Seq(Timeout) /\ Len(p) = Len(q) - n
      /\ \A i \in 1..Len(q) - n : p[i] = q[n + i]
  <2>1. PICK m \in Int : m = n + 1
    BY <1>1
  <2>2. /\ SubSeq(q, m, Len(q)) \in Seq(Timeout)
        /\ Len(SubSeq(q, m, Len(q))) = IF m <= Len(q) THEN Len(q) - m + 1 ELSE 0
        /\ \A i \in 1..Len(q) - m + 1 : SubSeq(q, m, Len(q))[i] = q[m + i - 1]
    BY <1>1, <1>2, <2>1, SubSeqProperties
  <2>3. p = SubSeq(q, m, Len(q))
    BY <2>1
  <2> HIDE DEF p
  <2>4. Len(p) = Len(q) - n
    <3>1. Len(p) = IF m <= Len(q) THEN Len(q) - m + 1 ELSE 0
      BY <2>2, <2>3, Zenon
    <3>2. n \in Nat /\ Len(q) \in Nat /\ n <= Len(q) /\ m = n + 1
      BY <1>1, <2>1
    <3>3. QED
      BY <3>1, <3>2
  <2>5. ASSUME NEW i \in 1..Len(q) - n
        PROVE  p[i] = q[n + i]
    <3>1. i \in 1..Len(q) - m + 1 /\ m + i - 1 = n + i
      BY <1>1, <2>1
    <3>2. QED
      BY <2>2, <2>3, <3>1
  <2>6. QED
    BY <2>2, <2>3, <2>4, <2>5
<1> HIDE DEF p
<1>4. DOMAIN p = 1..Len(q) - n
  BY <1>1, <1>3
<1>5. \A i \in DOMAIN p : i + n \in DOMAIN q /\ p[i] = q[i + n]
  BY <1>1, <1>3, <1>4
<1>6. ASSUME NEW i \in DOMAIN q, i > n
      PROVE  i - n \in DOMAIN p /\ p[i - n] = q[i]
  <2>1. i - n \in 1..Len(q) - n /\ n + (i - n) = i
    BY <1>1, <1>6
  <2>2. QED
    BY <1>3, <1>4, <2>1
<1>7. QED
  BY <1>3, <1>5, <1>6 DEF p

\* Time moves no timeout and changes no resource and no task.
LEMMA LaterEffect ==
    ASSUME NEW q \in Seq(Timeout)
    PROVE  /\ Later(q) \in Seq(Timeout) /\ DOMAIN Later(q) = DOMAIN q
           /\ \A i \in DOMAIN q :
                 /\ Later(q)[i].res = q[i].res /\ Later(q)[i].task = q[i].task
                 /\ Later(q)[i].left = IF q[i].left > 0 THEN q[i].left - 1 ELSE 0
<1>1. \A i \in DOMAIN q : q[i] \in Timeout
  OBVIOUS
<1>2. DOMAIN Later(q) = DOMAIN q
  BY DEF Later
<1>3. \A i \in DOMAIN q :
          /\ Later(q)[i] \in Timeout
          /\ Later(q)[i].res = q[i].res /\ Later(q)[i].task = q[i].task
          /\ Later(q)[i].left = IF q[i].left > 0 THEN q[i].left - 1 ELSE 0
  BY <1>1 DEF Later, Timeout
<1>4. Later(q) \in [1..Len(q) -> Timeout]
  <2>1. DOMAIN q = 1..Len(q) /\ Later(q) = [i \in DOMAIN q |-> Later(q)[i]]
    BY DEF Later
  <2>2. QED
    BY <1>3, <2>1
<1>5. Later(q) \in Seq(Timeout)
  BY <1>4
<1>6. QED
  BY <1>2, <1>3, <1>5

----------------------------------------------------------------------------
(* Invariants, for calls by any number of threads.  *)

\* A call goes on exactly as long as it has something to deal with.
CallsHaveJobs ==
    \A w \in Workers : /\ In(w, "idle") <=> jobs[w] = <<>>
                       /\ In(w, "insert") \/ In(w, "schedule") => w \in Tasks

FewLeased == IsFiniteSet({r \in Leasable : leases[r] # NoLease})

Typed == LeaseTypeOK /\ CallsHaveJobs /\ FewLeased

----------------------------------------------------------------------------
(* Invariants when calls are serial.  *)

OneCall == \A v, w \in Workers : ~In(v, "idle") /\ ~In(w, "idle") => v = w

\* Between the check and the insertion no other lease is granted, and between the
\* insertion and its timeout the lease is the caller's and has none.
Acquiring ==
    \A t \in Tasks :
        /\ In(t, "insert") \/ In(t, "schedule") => Len(jobs[t]) = 1 /\ For(t) = t
        /\ In(t, "insert") => Feasible(leases, Res(t), wants[t].access)
        /\ In(t, "schedule") =>
              /\ leases[Res(t)] = [task |-> t, access |-> wants[t].access]
              /\ Res(t) \notin disturbed => \A i \in DOMAIN timeouts : timeouts[i].res # Res(t)

\* What the reaper has yet to release is leased to the task it releases it for,
\* where nothing was disturbed.
Reaping ==
    In(Reaper, "remove") \/ In(Reaper, "cancel") =>
        \A i \in DOMAIN jobs[Reaper] : jobs[Reaper][i][1] \notin disturbed =>
            /\ \A j \in DOMAIN jobs[Reaper] : jobs[Reaper][i][1] = jobs[Reaper][j][1] => i = j
            /\ (In(Reaper, "remove") \/ i # 1) =>
                  leases[jobs[Reaper][i][1]].task = jobs[Reaper][i][2]

\* Between the two halves of a release the resource is free.
Freed == \A w \in Workers : In(w, "cancel") => leases[Res(w)] = NoLease

\* No undisturbed resource has two timeouts, and each is that of the lease, or the
\* one that is being cancelled.
TimeoutsLeased ==
    \A i \in DOMAIN timeouts : timeouts[i].res \notin disturbed =>
        /\ \A j \in DOMAIN timeouts : timeouts[i].res = timeouts[j].res => i = j
        /\ \/ leases[timeouts[i].res].task = timeouts[i].task
           \/ \E w \in Workers : /\ In(w, "cancel")
                                /\ Res(w) = timeouts[i].res /\ For(w) = timeouts[i].task

\* A lease has its timeout, is about to get it, or is one the reaper releases.
LeasesTimed ==
    \A r \in Leasable \ disturbed : leases[r] # NoLease =>
        \/ \E i \in DOMAIN timeouts : timeouts[i].res = r
        \/ \E t \in Tasks : In(t, "schedule") /\ Res(t) = r
        \/ \E i \in DOMAIN jobs[Reaper] : jobs[Reaper][i][1] = r

\* A task has the lease it believes to have.
BelievedLeased ==
    \A t \in Tasks : \A c \in believes[t] :
        c[1] \notin disturbed => leases[c[1]] = [task |-> t, access |-> c[2]]

SerialInv == OneCall /\ Acquiring /\ Reaping /\ Freed /\ TimeoutsLeased /\ LeasesTimed /\ BelievedLeased

----------------------------------------------------------------------------
(* What holds on any number of threads.  *)

\* A worker that has a job has its first one.
LEMMA JobType ==
    ASSUME Typed, NEW w \in Workers, ~In(w, "idle")
    PROVE  /\ jobs[w] \in Seq(Leasable \X Tasks) /\ Len(jobs[w]) \in Nat \ {0}
           /\ Head(jobs[w]) = jobs[w][1] /\ jobs[w][1] \in Leasable \X Tasks
           /\ Res(w) \in Leasable /\ For(w) \in Tasks
           /\ Head(jobs[w]) = <<Res(w), For(w)>>
<1>1. jobs[w] \in Seq(Leasable \X Tasks) /\ jobs[w] # <<>>
  BY DEF Typed, LeaseTypeOK, CallsHaveJobs
<1>2. Head(jobs[w]) = jobs[w][1] /\ Len(jobs[w]) \in Nat \ {0}
  BY <1>1
<1>3. jobs[w][1] \in Leasable \X Tasks
  BY <1>1, <1>2
<1>4. QED
  BY <1>1, <1>2, <1>3 DEF Res, For

LEMMA TypedInit == LeaseInit => Typed
<1> SUFFICES ASSUME LeaseInit PROVE Typed
  OBVIOUS
<1>1. LeaseTypeOK
  BY LifecycleAssumption DEF LeaseInit, LeaseTypeOK, LeaseAccess, Place, NoWant
<1>2. CallsHaveJobs
  BY DEF LeaseInit, CallsHaveJobs, In
<1>3. {r \in Leasable : leases[r] # NoLease} = {}
  BY DEF LeaseInit
<1>4. QED
  BY <1>1, <1>2, <1>3, FS_EmptySet DEF Typed, FewLeased

LEMMA TypedStep == Typed /\ [LeaseNext]_leaseVars => Typed'
<1> SUFFICES ASSUME Typed, [LeaseNext]_leaseVars PROVE Typed'
  OBVIOUS
<1> USE LifecycleAssumption DEF Workers
<1>0. LeaseTypeOK /\ CallsHaveJobs /\ FewLeased
  BY DEF Typed
<1>1. ASSUME NEW t \in Tasks, NEW r \in Leasable, NEW a \in Accesses, NEW n \in Durations,
             AcquireCheck(t, r, a, n)
      PROVE  Typed'
  <2>1. <<<<r, t>>>> \in Seq(Leasable \X Tasks) /\ <<<<r, t>>>> # <<>>
    OBVIOUS
  <2>2. a \in LeaseAccess /\ n \in Nat
    OBVIOUS
  <2>3. LeaseTypeOK'
    BY <1>0, <1>1, <2>1, <2>2 DEF LeaseTypeOK, AcquireCheck, GoesTo, Place
  <2>4. CallsHaveJobs'
    BY <1>0, <1>1, <2>1 DEF LeaseTypeOK, CallsHaveJobs, AcquireCheck, In, GoesTo
  <2>5. QED
    BY <1>0, <1>1, <2>3, <2>4 DEF Typed, FewLeased, AcquireCheck
<1>2. ASSUME NEW t \in Tasks, AcquireInsert(t)
      PROVE  Typed'
  <2>1. Res(t) \in Leasable
    BY <1>2, JobType DEF AcquireInsert, In
  <2>2. LeaseTypeOK'
    BY <1>0, <1>2, <2>1 DEF LeaseTypeOK, AcquireInsert, GoesTo, Place, Lease
  <2>3. CallsHaveJobs'
    BY <1>0, <1>2 DEF LeaseTypeOK, CallsHaveJobs, AcquireInsert, In, GoesTo
  <2>4. IsFiniteSet({r \in Leasable : leases[r] # NoLease} \cup {Res(t)})
    BY <1>0, FS_AddElement DEF FewLeased
  <2>5. {r \in Leasable : leases'[r] # NoLease} \in SUBSET ({r \in Leasable : leases[r] # NoLease} \cup {Res(t)})
    BY <1>0, <1>2 DEF LeaseTypeOK, AcquireInsert
  <2>6. FewLeased'
    BY <2>4, <2>5, FS_Subset DEF FewLeased
  <2>7. QED
    BY <2>2, <2>3, <2>6 DEF Typed
<1>3. ASSUME NEW t \in Tasks, AcquireTimeout(t)
      PROVE  Typed'
  <2>1. Res(t) \in Leasable
    BY <1>3, JobType DEF AcquireTimeout, In
  <2>2. wants[t].span \in Nat /\ wants[t].access \in LeaseAccess
    BY <1>0 DEF LeaseTypeOK
  <2>3. timeouts' \in Seq(Timeout)
    <3>1. timeouts \in Seq(Timeout) /\ timeouts' = Scheduled(timeouts, Res(t), t, wants[t].span)
      BY <1>0, <1>3 DEF LeaseTypeOK, AcquireTimeout
    <3>2. PICK k : k = Position(timeouts, wants[t].span)
      OBVIOUS
    <3>3. QED
      BY <2>1, <2>2, <3>1, <3>2, ScheduledEffect
  <2>4. <<>> \in Seq(Leasable \X Tasks)
    OBVIOUS
  <2>5. LeaseTypeOK'
    BY <1>0, <1>3, <2>1, <2>2, <2>3, <2>4 DEF LeaseTypeOK, AcquireTimeout, GoesTo, Place, NoWant, LeaseAccess
  <2>6. CallsHaveJobs'
    BY <1>0, <1>3 DEF LeaseTypeOK, CallsHaveJobs, AcquireTimeout, In, GoesTo
  <2>7. QED
    BY <1>0, <1>3, <2>5, <2>6 DEF Typed, FewLeased, AcquireTimeout
<1>4. ASSUME NEW t \in Tasks, NEW r \in Leasable, ReleaseResource(t, r)
      PROVE  Typed'
  <2>1. <<<<r, t>>>> \in Seq(Leasable \X Tasks) /\ <<<<r, t>>>> # <<>>
    OBVIOUS
  <2>2. LeaseTypeOK'
    BY <1>0, <1>4, <2>1 DEF LeaseTypeOK, ReleaseResource, GoesTo, Place
  <2>3. CallsHaveJobs'
    BY <1>0, <1>4, <2>1 DEF LeaseTypeOK, CallsHaveJobs, ReleaseResource, In, GoesTo
  <2>4. QED
    BY <1>0, <1>4, <2>2, <2>3 DEF Typed, FewLeased, ReleaseResource
<1>5. ASSUME NEW t \in Tasks, ReleaseAllTaskResources(t)
      PROVE  Typed'
  <2>1. PICK order \in SetToSeqs(LeasedTo(leases, t)) :
            jobs' = [jobs EXCEPT ![t] = [i \in DOMAIN order |-> <<order[i], t>>]]
    BY <1>5 DEF ReleaseAllTaskResources
  <2> DEFINE n == Cardinality(LeasedTo(leases, t))
             q == [i \in DOMAIN order |-> <<order[i], t>>]
  <2>2. n \in Nat \ {0}
    <3>1. LeasedTo(leases, t) \in SUBSET {r \in Leasable : leases[r] # NoLease}
      BY DEF LeasedTo, NoLease
    <3>2. IsFiniteSet(LeasedTo(leases, t))
      BY <1>0, <3>1, FS_Subset DEF FewLeased
    <3>3. LeasedTo(leases, t) # {}
      BY <1>5 DEF ReleaseAllTaskResources
    <3>4. QED
      BY <3>2, <3>3, FS_CardinalityType, FS_EmptySet
  <2>3. order \in [1..n -> Leasable]
    BY DEF SetToSeqs, LeasedTo
  <2>4. q \in Seq(Leasable \X Tasks) /\ Len(q) = n
    <3> HIDE DEF n
    <3>1. q \in [1..n -> Leasable \X Tasks]
      BY <2>3
    <3>2. QED
      BY <2>2, <3>1
  <2>5. q # <<>>
    BY <2>2, <2>4
  <2> HIDE DEF q, n
  <2>6. jobs' = [jobs EXCEPT ![t] = q]
    BY <2>1 DEF q
  <2>7. LeaseTypeOK'
    BY <1>0, <1>5, <2>4, <2>6 DEF LeaseTypeOK, ReleaseAllTaskResources, GoesTo, Place
  <2>8. CallsHaveJobs'
    BY <1>0, <1>5, <2>5, <2>6 DEF LeaseTypeOK, CallsHaveJobs, ReleaseAllTaskResources, In, GoesTo
  <2>9. QED
    BY <1>0, <1>5, <2>7, <2>8 DEF Typed, FewLeased, ReleaseAllTaskResources
<1>6. CASE ProcessExpiredLeases
  <2> DEFINE n == Cardinality(Expired(timeouts))
             q == [i \in 1..n |-> <<timeouts[i].res, timeouts[i].task>>]
  <2>1. timeouts \in Seq(Timeout) /\ Len(timeouts) \in Nat
    BY <1>0 DEF LeaseTypeOK
  <2>2. n \in 1..Len(timeouts)
    BY <1>6, <2>1, ExpiredFront DEF ProcessExpiredLeases
  <2>3. jobs' = [jobs EXCEPT ![Reaper] = q] /\ timeouts' = SubSeq(timeouts, n + 1, Len(timeouts))
    BY <1>6 DEF ProcessExpiredLeases
  <2> HIDE DEF n
  <2>4. \A i \in 1..n : timeouts[i] \in Timeout
    BY <2>1, <2>2
  <2>5. q \in [1..n -> Leasable \X Tasks]
    BY <2>4 DEF Timeout
  <2>6. q \in Seq(Leasable \X Tasks) /\ Len(q) = n /\ q # <<>>
    <3> HIDE DEF q
    <3>1. q \in Seq(Leasable \X Tasks) /\ Len(q) = n
      BY <2>2, <2>5
    <3>2. n # 0
      BY <2>1, <2>2
    <3>3. QED
      BY <3>1, <3>2
  <2>7. timeouts' \in Seq(Timeout)
    BY <2>1, <2>2, <2>3, PoppedEffect
  <2> HIDE DEF q
  <2>8. LeaseTypeOK'
    <3>1. jobs' \in [Workers -> Seq(Leasable \X Tasks)]
      BY <1>0, <2>3, <2>6 DEF LeaseTypeOK
    <3>2. pc' \in [Workers -> Place]
      BY <1>0, <1>6 DEF LeaseTypeOK, ProcessExpiredLeases, GoesTo, Place
    <3>3. QED
      BY <1>0, <1>6, <2>7, <3>1, <3>2 DEF LeaseTypeOK, ProcessExpiredLeases
  <2>9. CallsHaveJobs'
    BY <1>0, <1>6, <2>3, <2>6 DEF LeaseTypeOK, CallsHaveJobs, ProcessExpiredLeases, In, GoesTo
  <2>10. QED
    BY <1>0, <1>6, <2>8, <2>9 DEF Typed, FewLeased, ProcessExpiredLeases
<1>7. ASSUME NEW w \in Workers, RemoveLease(w)
      PROVE  Typed'
  <2>1. Res(w) \in Leasable /\ For(w) \in Tasks
    BY <1>7, JobType DEF RemoveLease, In
  <2>2. <<>> \in Seq(Leasable \X Tasks)
    OBVIOUS
  <2>3. jobs' \in [Workers -> Seq(Leasable \X Tasks)] /\ pc' \in [Workers -> Place]
    <3>1. jobs' = jobs \/ jobs' = [jobs EXCEPT ![w] = <<>>]
      BY <1>7 DEF RemoveLease
    <3>2. pc' = [pc EXCEPT ![w] = "cancel"] \/ pc' = [pc EXCEPT ![w] = "idle"]
      BY <1>7 DEF RemoveLease, GoesTo
    <3>3. jobs' \in [Workers -> Seq(Leasable \X Tasks)]
      <4>1. jobs \in [Workers -> Seq(Leasable \X Tasks)]
        BY <1>0 DEF LeaseTypeOK
      <4>2. QED
        BY <2>2, <3>1, <4>1
    <3>4. pc' \in [Workers -> Place]
      BY <1>0, <3>2 DEF LeaseTypeOK, Place
    <3>5. QED
      BY <3>3, <3>4
  <2>4. LeaseTypeOK'
    <3>1. Skipped(w) \subseteq Leasable
      <4>1. jobs[w] \in Seq(Leasable \X Tasks)
        BY <1>0 DEF LeaseTypeOK
      <4>2. \A i \in 2..Len(jobs[w]) : jobs[w][i] \in Leasable \X Tasks
        BY <4>1
      <4>3. QED
        BY <4>2 DEF Skipped
    <3>2. disturbed' \subseteq Leasable
      BY <1>0, <1>7, <2>1, <3>1 DEF LeaseTypeOK, RemoveLease
    <3>3. believes' \in [Tasks -> SUBSET (Leasable \X LeaseAccess)]
      BY <1>0, <1>7 DEF LeaseTypeOK, RemoveLease
    <3>4. leases' \in [Leasable -> Lease \cup {NoLease}] /\ UNCHANGED <<timeouts, wants>>
      BY <1>0, <1>7, <2>1 DEF LeaseTypeOK, RemoveLease
    <3>5. QED
      BY <1>0, <2>3, <3>2, <3>3, <3>4 DEF LeaseTypeOK
  <2>5. CallsHaveJobs'
    BY <1>0, <1>7 DEF LeaseTypeOK, CallsHaveJobs, RemoveLease, In, GoesTo
  <2>6. {r \in Leasable : leases'[r] # NoLease} \in SUBSET {r \in Leasable : leases[r] # NoLease}
    BY <1>0, <1>7 DEF LeaseTypeOK, RemoveLease
  <2>7. FewLeased'
    BY <1>0, <2>6, FS_Subset DEF FewLeased
  <2>8. QED
    BY <2>4, <2>5, <2>7 DEF Typed
<1>8. ASSUME NEW w \in Workers, CancelTimeout(w)
      PROVE  Typed'
  <2>1. jobs[w] \in Seq(Leasable \X Tasks) /\ Len(jobs[w]) \in Nat \ {0}
    BY <1>8, JobType DEF CancelTimeout, In
  <2>2. /\ Tail(jobs[w]) \in Seq(Leasable \X Tasks)
        /\ Tail(jobs[w]) = <<>> <=> Len(jobs[w]) = 1
    <3>1. jobs[w] # <<>>
      BY <2>1
    <3>2. Tail(jobs[w]) \in Seq(Leasable \X Tasks) /\ Len(Tail(jobs[w])) = Len(jobs[w]) - 1
      BY <2>1, <3>1, HeadTailProperties
    <3>3. Tail(jobs[w]) = <<>> <=> Len(Tail(jobs[w])) = 0
      BY <3>2, EmptySeq
    <3>4. QED
      BY <2>1, <3>2, <3>3
  <2>3. timeouts' \in Seq(Timeout)
    BY <1>0, <1>8, OthersKeptEffect DEF LeaseTypeOK, CancelTimeout
  <2>4. LeaseTypeOK'
    BY <1>0, <1>8, <2>2, <2>3 DEF LeaseTypeOK, CancelTimeout, GoesTo, Place
  <2>5. CallsHaveJobs'
    BY <1>0, <1>8, <2>2 DEF LeaseTypeOK, CallsHaveJobs, CancelTimeout, In, GoesTo
  <2>6. QED
    BY <1>0, <1>8, <2>4, <2>5 DEF Typed, FewLeased, CancelTimeout
<1>9. CASE Tick
  <2>1. timeouts \in Seq(Timeout) /\ timeouts' = Later(timeouts)
    BY <1>0, <1>9 DEF LeaseTypeOK, Tick
  <2>2. timeouts' \in Seq(Timeout)
    BY <2>1, LaterEffect
  <2>3. LeaseTypeOK'
    BY <1>0, <1>9, <2>2 DEF LeaseTypeOK, Tick, calls
  <2>4. QED
    BY <1>0, <1>9, <2>3 DEF Typed, FewLeased, CallsHaveJobs, In, Tick, calls
<1>10. CASE UNCHANGED leaseVars
  BY <1>0, <1>10 DEF Typed, LeaseTypeOK, FewLeased, CallsHaveJobs, In, leaseVars, calls
<1>11. QED
  BY <1>1, <1>2, <1>3, <1>4, <1>5, <1>6, <1>7, <1>8, <1>9, <1>10 DEF LeaseNext, Goes

\* The variables keep their types, a call has jobs as long as it goes on, and
\* finitely many resources are leased (release_all_task_resources lists them).
THEOREM TypeCorrect == LeaseSpec => []LeaseTypeOK
<1>1. Typed => LeaseTypeOK
  BY DEF Typed
<1>2. QED
  BY <1>1, TypedInit, TypedStep, PTL DEF LeaseSpec

LEMMA InFrontStep == Typed /\ ExpiredInFront /\ [LeaseNext]_leaseVars => ExpiredInFront'
<1> SUFFICES ASSUME Typed, ExpiredInFront, [LeaseNext]_leaseVars PROVE ExpiredInFront'
  OBVIOUS
<1> USE LifecycleAssumption DEF Workers
<1>0. /\ timeouts \in Seq(Timeout)
      /\ \A i \in DOMAIN timeouts : i \in Int /\ timeouts[i].left \in Nat
  <2>1. timeouts \in Seq(Timeout)
    BY DEF Typed, LeaseTypeOK
  <2>2. \A i \in DOMAIN timeouts : i \in Int /\ timeouts[i] \in Timeout
    BY <2>1
  <2>3. QED
    BY <2>1, <2>2 DEF Timeout
<1>1. ASSUME NEW t \in Tasks, AcquireTimeout(t)
      PROVE  ExpiredInFront'
  <2> DEFINE n == wants[t].span
  <2> PICK k : k = Position(timeouts, n)
    OBVIOUS
  <2>1. Res(t) \in Leasable
    BY <1>1, JobType DEF AcquireTimeout, In
  <2>2. n \in Nat
    BY DEF Typed, LeaseTypeOK
  <2>3. timeouts' = Scheduled(timeouts, Res(t), t, n)
    BY <1>1 DEF AcquireTimeout
  <2> HIDE DEF n
  <2>4. /\ k \in 1..Len(timeouts) + 1
        /\ \A j \in 1..k - 1 : timeouts[j].left <= n
        /\ k <= Len(timeouts) => n < timeouts[k].left
    BY <1>0, <2>2, PositionFound
  <2>5. /\ timeouts' \in Seq(Timeout) /\ k \in DOMAIN timeouts'
        /\ timeouts'[k] = [res |-> Res(t), task |-> t, left |-> n]
        /\ \A i \in DOMAIN timeouts' : i < k => i \in DOMAIN timeouts /\ timeouts'[i] = timeouts[i]
        /\ \A i \in DOMAIN timeouts' : i > k => i - 1 \in DOMAIN timeouts /\ timeouts'[i] = timeouts[i - 1]
    BY <1>0, <2>1, <2>2, <2>3, ScheduledEffect
  <2>6. k \in Int /\ Len(timeouts) \in Nat /\ DOMAIN timeouts = 1..Len(timeouts)
    BY <1>0, <2>4
  <2>7. \A i \in DOMAIN timeouts' : i \in Nat /\ i >= 1
    BY <2>5
  <2>8. ASSUME NEW i \in DOMAIN timeouts', i < k
        PROVE  timeouts'[i].left <= n
    <3>1. i \in 1..k - 1 /\ timeouts'[i] = timeouts[i]
      BY <2>5, <2>6, <2>7, <2>8
    <3>2. QED
      BY <2>4, <3>1
  <2>9. ASSUME NEW i \in DOMAIN timeouts', i > k
        PROVE  n <= timeouts'[i].left
    <3>1. i - 1 \in DOMAIN timeouts /\ timeouts'[i] = timeouts[i - 1] /\ i - 1 >= k
      BY <2>5, <2>6, <2>7, <2>9
    <3>2. k \in DOMAIN timeouts /\ n < timeouts[k].left
      BY <2>4, <2>6, <3>1
    <3>3. timeouts[k].left <= timeouts[i - 1].left
      BY <1>0, <2>6, <3>1, <3>2 DEF ExpiredInFront
    <3>4. timeouts[i - 1].left \in Nat /\ timeouts[k].left \in Nat
      BY <1>0, <3>1, <3>2
    <3>5. QED
      BY <2>2, <3>1, <3>2, <3>3, <3>4
  <2>10. ASSUME NEW i \in DOMAIN timeouts', NEW j \in DOMAIN timeouts', i < j
         PROVE  timeouts'[i].left <= timeouts'[j].left
    <3>1. /\ timeouts'[i].left \in Nat /\ timeouts'[j].left \in Nat
      <4>1. timeouts'[i] \in Timeout /\ timeouts'[j] \in Timeout
        BY <2>5
      <4>2. QED
        BY <4>1 DEF Timeout
    <3>2. CASE i <= k /\ k <= j
      BY <2>2, <2>5, <2>6, <2>7, <2>8, <2>9, <2>10, <3>1, <3>2
    <3>3. CASE j < k
      BY <2>5, <2>6, <2>7, <2>10, <3>3 DEF ExpiredInFront
    <3>4. CASE i > k
      <4>1. /\ i - 1 \in DOMAIN timeouts /\ timeouts'[i] = timeouts[i - 1]
            /\ j - 1 \in DOMAIN timeouts /\ timeouts'[j] = timeouts[j - 1]
            /\ i - 1 < j - 1
        BY <2>5, <2>6, <2>7, <2>10, <3>4
      <4>2. QED
        BY <4>1 DEF ExpiredInFront
    <3>5. QED
      BY <2>6, <2>7, <2>10, <3>2, <3>3, <3>4
  <2>11. QED
    BY <2>10 DEF ExpiredInFront
<1>2. CASE ProcessExpiredLeases
  <2>1. PICK n \in 1..Len(timeouts) : timeouts' = SubSeq(timeouts, n + 1, Len(timeouts))
    BY <1>0, <1>2, ExpiredFront DEF ProcessExpiredLeases
  <2>2. /\ timeouts' \in Seq(Timeout)
        /\ \A i \in DOMAIN timeouts' : i + n \in DOMAIN timeouts /\ timeouts'[i] = timeouts[i + n]
    BY <1>0, <2>1, PoppedEffect
  <2>3. \A i, j \in DOMAIN timeouts' : i < j => i + n < j + n
    BY <1>0, <2>2
  <2>4. QED
    BY <2>2, <2>3 DEF ExpiredInFront
<1>3. ASSUME NEW w \in Workers, CancelTimeout(w)
      PROVE  ExpiredInFront'
  <2>1. timeouts' \in OthersKept(timeouts, Res(w), For(w))
    BY <1>3 DEF CancelTimeout
  <2>2. PICK f \in [DOMAIN timeouts' -> DOMAIN timeouts] :
            /\ \A i \in DOMAIN timeouts' : timeouts'[i] = timeouts[f[i]]
            /\ \A i, j \in DOMAIN timeouts' : i < j => f[i] < f[j]
    BY <1>0, <2>1, OthersKeptEffect
  <2>3. QED
    BY <2>2 DEF ExpiredInFront
<1>4. CASE Tick
  <2>1. timeouts' = Later(timeouts)
    BY <1>4 DEF Tick
  <2>2. /\ DOMAIN timeouts' = DOMAIN timeouts
        /\ \A i \in DOMAIN timeouts :
              timeouts'[i].left = IF timeouts[i].left > 0 THEN timeouts[i].left - 1 ELSE 0
    BY <1>0, <2>1, LaterEffect
  <2>3. QED
    BY <1>0, <2>2 DEF ExpiredInFront
<1>5. CASE UNCHANGED timeouts
  BY <1>5 DEF ExpiredInFront
<1>6. QED
  BY <1>1, <1>2, <1>3, <1>4, <1>5
     DEF LeaseNext, Goes, AcquireCheck, AcquireInsert, ReleaseResource, ReleaseAllTaskResources, RemoveLease, leaseVars

\* Leases of any lengths, granted and given back by any number of threads: what
\* ends first stays in front, where get_expired_timeouts looks.
THEOREM ExpiredInFrontHolds == LeaseSpec => []ExpiredInFront
<1>1. LeaseInit => ExpiredInFront
  BY DEF LeaseInit, ExpiredInFront
<1>2. QED
  BY <1>1, TypedInit, TypedStep, InFrontStep, PTL DEF LeaseSpec

----------------------------------------------------------------------------
(* What holds when calls are serial.  *)

LEMMA AllIdle ==
    ASSUME Typed, Serial, NEW w \in Workers, Free(w)
    PROVE  \A v \in Workers : In(v, "idle") /\ jobs[v] = <<>>
BY DEF Typed, CallsHaveJobs, Free

LEMMA OthersIdle ==
    ASSUME Typed, OneCall, NEW w \in Workers, ~In(w, "idle")
    PROVE  \A v \in Workers : v # w => In(v, "idle") /\ jobs[v] = <<>>
BY DEF Typed, CallsHaveJobs, OneCall

\* A worker is at one place.
LEMMA OnePlace ==
    \A w \in Workers : /\ In(w, "idle") => ~In(w, "insert") /\ ~In(w, "schedule") /\ ~In(w, "remove") /\ ~In(w, "cancel")
                       /\ In(w, "insert") => ~In(w, "schedule") /\ ~In(w, "remove") /\ ~In(w, "cancel")
                       /\ In(w, "schedule") => ~In(w, "remove") /\ ~In(w, "cancel")
                       /\ In(w, "remove") => ~In(w, "cancel")
BY DEF In

\* One worker moves and the others are idle.
LEMMA Moves ==
    ASSUME Typed, NEW w \in Workers, NEW place, GoesTo(w, place),
           \A v \in Workers : v # w => In(v, "idle")
    PROVE  /\ OneCall'
           /\ pc'[w] = place
           /\ \A v \in Workers : v # w => pc'[v] = "idle"
BY DEF Typed, LeaseTypeOK, OneCall, GoesTo, In

\* Nobody is leased a free resource.
LEMMA FreeLease == NoLease.task = NoTask /\ NoTask \notin Tasks
BY LifecycleAssumption DEF NoLease

LEMMA SerialStep ==
    ASSUME Serial, Typed, SerialInv, [LeaseNext]_leaseVars
    PROVE  SerialInv'
<1> USE LifecycleAssumption DEF Workers
<1>0. /\ OneCall /\ Acquiring /\ Reaping /\ Freed /\ TimeoutsLeased /\ LeasesTimed /\ BelievedLeased
      /\ LeaseTypeOK /\ CallsHaveJobs
  BY DEF SerialInv, Typed
<1>a. /\ leases \in [Leasable -> Lease \cup {NoLease}]
      /\ timeouts \in Seq(Timeout)
      /\ pc \in [Workers -> Place]
      /\ jobs \in [Workers -> Seq(Leasable \X Tasks)]
      /\ wants \in [Tasks -> [access : LeaseAccess, span : Nat]]
      /\ believes \in [Tasks -> SUBSET (Leasable \X LeaseAccess)]
      /\ disturbed \subseteq Leasable
  BY <1>0 DEF LeaseTypeOK
<1>b. \A i \in DOMAIN timeouts : timeouts[i].res \in Leasable /\ timeouts[i].task \in Tasks
  <2>1. \A i \in DOMAIN timeouts : timeouts[i] \in Timeout
    BY <1>a
  <2>2. QED
    BY <2>1 DEF Timeout
<1>d. \A u \in Tasks : \A c \in believes[u] : c[1] \in Leasable
  <2>1. \A u \in Tasks : believes[u] \subseteq Leasable \X LeaseAccess
    BY <1>a
  <2>2. QED
    BY <2>1
<1>e. timeouts \in Seq(Timeout)
  BY <1>a
\* As long as nobody cancels, every timeout is that of a lease.
<1>c. ASSUME \A w \in Workers : ~In(w, "cancel")
      PROVE  \A i \in DOMAIN timeouts :
                timeouts[i].res \notin disturbed => leases[timeouts[i].res].task = timeouts[i].task
  BY <1>0, <1>c DEF TimeoutsLeased
<1>1. ASSUME NEW t \in Tasks, NEW r \in Leasable, NEW a \in Accesses, NEW n \in Durations,
             AcquireCheck(t, r, a, n)
      PROVE  SerialInv'
  <2>1. \A v \in Workers : In(v, "idle") /\ jobs[v] = <<>>
    BY <1>1, AllIdle DEF AcquireCheck
  <2>2. OneCall' /\ pc'[t] = "insert" /\ \A v \in Workers : v # t => pc'[v] = "idle"
    BY <1>1, <2>1, Moves DEF AcquireCheck
  <2>3. jobs'[t] = <<<<r, t>>>> /\ \A v \in Workers : v # t => jobs'[v] = <<>>
    BY <1>a, <1>1, <2>1 DEF AcquireCheck
  <2>4. Feasible(leases, r, a) /\ wants'[t].access = a
    BY <1>a, <1>1 DEF AcquireCheck
  <2>5. UNCHANGED <<leases, timeouts, believes, disturbed>>
    BY <1>1 DEF AcquireCheck
  <2>6. Len(jobs'[t]) = 1 /\ Head(jobs'[t]) = <<r, t>>
    BY <2>3
  <2>7. Res(t)' = r /\ For(t)' = t
    BY <2>6 DEF Res, For
  <2>8. Acquiring'
    <3>1. Feasible(leases, r, a)'
      BY <2>4, <2>5 DEF Feasible
    <3>2. QED
      BY <2>2, <2>4, <2>5, <2>6, <2>7, <3>1 DEF Acquiring, In, Feasible
  <2>9. Reaping' /\ Freed'
    BY <2>2 DEF Reaping, Freed, In
  <2>10. TimeoutsLeased'
    BY <1>0, <1>c, <2>1, <2>5, OnePlace DEF TimeoutsLeased
  <2>11. LeasesTimed'
    BY <1>0, <2>1, <2>5, OnePlace DEF LeasesTimed
  <2>12. BelievedLeased'
    BY <1>0, <2>5 DEF BelievedLeased
  <2>13. QED
    BY <2>2, <2>8, <2>9, <2>10, <2>11, <2>12 DEF SerialInv
<1>2. ASSUME NEW t \in Tasks, AcquireInsert(t)
      PROVE  SerialInv'
  <2>1. In(t, "insert") /\ ~In(t, "idle")
    BY <1>2, OnePlace DEF AcquireInsert
  <2>2. \A v \in Workers : v # t => In(v, "idle") /\ jobs[v] = <<>>
    BY <1>0, <2>1, OthersIdle
  <2>3. OneCall' /\ pc'[t] = "schedule" /\ \A v \in Workers : v # t => pc'[v] = "idle"
    BY <1>2, <2>2, Moves DEF AcquireInsert
  <2>4. Res(t) \in Leasable /\ For(t) = t /\ Len(jobs[t]) = 1 /\ Feasible(leases, Res(t), wants[t].access)
    BY <1>0, <2>1, JobType DEF Acquiring
  <2>5. UNCHANGED <<timeouts, jobs, wants, believes>> /\ Res(t)' = Res(t) /\ For(t)' = For(t)
    BY <1>2 DEF AcquireInsert, Res, For
  <2>6. /\ leases'[Res(t)] = [task |-> t, access |-> wants[t].access]
        /\ \A r \in Leasable : r # Res(t) => leases'[r] = leases[r]
    BY <1>a, <1>2, <2>4 DEF AcquireInsert
  <2>7. \A w \in Workers : ~In(w, "cancel")
    BY <2>1, <2>2, OnePlace
  <2>8. disturbed \subseteq disturbed' /\ (Res(t) \notin disturbed' => leases[Res(t)] = NoLease)
    BY <1>2, <2>4 DEF AcquireInsert, Feasible
  <2>9. \A i \in DOMAIN timeouts : Res(t) \notin disturbed' => timeouts[i].res # Res(t)
    BY <1>b, <1>c, <2>7, <2>8, FreeLease
  <2>10. Acquiring'
    BY <2>3, <2>4, <2>5, <2>6, <2>9 DEF Acquiring, In
  <2>11. Reaping' /\ Freed'
    BY <2>3 DEF Reaping, Freed, In
  <2>12. TimeoutsLeased'
    <3>1. ASSUME NEW i \in DOMAIN timeouts, timeouts[i].res \notin disturbed'
          PROVE  /\ leases'[timeouts[i].res].task = timeouts[i].task
                 /\ \A j \in DOMAIN timeouts : timeouts[i].res = timeouts[j].res => i = j
      <4>1. timeouts[i].res \notin disturbed /\ timeouts[i].res # Res(t)
        BY <2>8, <2>9, <3>1
      <4>2. leases[timeouts[i].res].task = timeouts[i].task
        BY <1>c, <2>7, <4>1
      <4>3. leases'[timeouts[i].res] = leases[timeouts[i].res]
        BY <1>b, <2>6, <4>1
      <4>4. QED
        BY <1>0, <4>1, <4>2, <4>3 DEF TimeoutsLeased
    <3>2. QED
      BY <2>5, <3>1 DEF TimeoutsLeased
  <2>13. LeasesTimed'
    <3>1. In(t, "schedule")'
      BY <2>3 DEF In
    <3>2. \A r \in Leasable \ disturbed : r # Res(t) /\ leases[r] # NoLease =>
              \E i \in DOMAIN timeouts : timeouts[i].res = r
      BY <1>0, <2>1, <2>2, OnePlace DEF LeasesTimed
    <3>3. QED
      BY <2>5, <2>6, <2>8, <3>1, <3>2 DEF LeasesTimed
  <2>14. BelievedLeased'
    <3>1. ASSUME NEW u \in Tasks, NEW c \in believes[u], c[1] \notin disturbed'
          PROVE  leases'[c[1]] = [task |-> u, access |-> c[2]]
      <4>1. leases[c[1]] = [task |-> u, access |-> c[2]]
        BY <1>0, <2>8, <3>1 DEF BelievedLeased
      <4>2. leases[c[1]].task # NoLease.task
        BY <4>1, FreeLease
      <4>3. c[1] # Res(t) /\ c[1] \in Leasable
        BY <1>d, <2>8, <3>1, <4>2
      <4>4. QED
        BY <2>6, <4>1, <4>3
    <3>2. QED
      BY <2>5, <3>1 DEF BelievedLeased
  <2>15. QED
    BY <2>3, <2>10, <2>11, <2>12, <2>13, <2>14 DEF SerialInv
<1>3. ASSUME NEW t \in Tasks, AcquireTimeout(t)
      PROVE  SerialInv'
  <2>1. In(t, "schedule") /\ ~In(t, "idle")
    BY <1>3, OnePlace DEF AcquireTimeout
  <2>2. \A v \in Workers : v # t => In(v, "idle") /\ jobs[v] = <<>>
    BY <1>0, <2>1, OthersIdle
  <2>3. OneCall' /\ \A v \in Workers : pc'[v] = "idle"
    <3>1. GoesTo(t, "idle") /\ t \in Workers
      BY <1>3 DEF AcquireTimeout
    <3>2. QED
      BY <2>2, <3>1, Moves
  <2>4. /\ Res(t) \in Leasable /\ leases[Res(t)] = [task |-> t, access |-> wants[t].access]
        /\ Res(t) \notin disturbed => \A i \in DOMAIN timeouts : timeouts[i].res # Res(t)
    BY <1>0, <2>1, JobType DEF Acquiring
  <2>5. /\ leases' = leases /\ disturbed' = disturbed
        /\ believes' = [believes EXCEPT ![t] = @ \cup {<<Res(t), wants[t].access>>}]
    BY <1>3 DEF AcquireTimeout
  <2>6. PICK n \in Nat : timeouts' = Scheduled(timeouts, Res(t), t, n)
    BY <1>a, <1>3 DEF AcquireTimeout
  <2> PICK k : k = Position(timeouts, n)
    OBVIOUS
  <2>7. /\ timeouts' \in Seq(Timeout) /\ k \in DOMAIN timeouts'
        /\ timeouts'[k] = [res |-> Res(t), task |-> t, left |-> n]
        /\ \A i \in DOMAIN timeouts' : i < k => i \in DOMAIN timeouts /\ timeouts'[i] = timeouts[i]
        /\ \A i \in DOMAIN timeouts' : i > k => i - 1 \in DOMAIN timeouts /\ timeouts'[i] = timeouts[i - 1]
        /\ \A j \in DOMAIN timeouts : \E i \in DOMAIN timeouts' : timeouts'[i] = timeouts[j]
    BY <1>e, <2>4, <2>6, ScheduledEffect
  <2>8. timeouts'[k].res = Res(t) /\ timeouts'[k].task = t
    BY <2>7
  <2>9. Acquiring' /\ Reaping' /\ Freed'
    BY <2>3 DEF Acquiring, Reaping, Freed, In
  <2>10. TimeoutsLeased'
    <3>1. \A i \in DOMAIN timeouts' : i \in Int
      BY <2>7
    <3>2. \A i \in DOMAIN timeouts' : i # k => \E j \in DOMAIN timeouts : timeouts'[i] = timeouts[j]
      <4>1. \A i \in DOMAIN timeouts' : i # k => i < k \/ i > k
        BY <2>7, <3>1
      <4>2. QED
        BY <2>7, <4>1
    <3>3. ASSUME NEW i \in DOMAIN timeouts', NEW j \in DOMAIN timeouts', timeouts'[i].res \notin disturbed,
                 timeouts'[i].res = timeouts'[j].res, i # k, j # k
          PROVE  i = j
      <4>1. CASE i < k /\ j < k
        BY <1>0, <2>7, <3>3, <4>1 DEF TimeoutsLeased
      <4>2. CASE i > k /\ j > k
        <5>1. i - 1 \in DOMAIN timeouts /\ j - 1 \in DOMAIN timeouts
              /\ timeouts'[i] = timeouts[i - 1] /\ timeouts'[j] = timeouts[j - 1]
          BY <2>7, <4>2
        <5>2. i - 1 = j - 1
          BY <1>0, <3>3, <5>1 DEF TimeoutsLeased
        <5>3. QED
          BY <3>1, <5>2
      <4>3. CASE i < k /\ j > k
        <5>1. i \in DOMAIN timeouts /\ j - 1 \in DOMAIN timeouts
              /\ timeouts'[i] = timeouts[i] /\ timeouts'[j] = timeouts[j - 1]
          BY <2>7, <4>3
        <5>2. i = j - 1
          BY <1>0, <3>3, <5>1 DEF TimeoutsLeased
        <5>3. QED
          BY <2>7, <3>1, <4>3, <5>2
      <4>4. CASE i > k /\ j < k
        <5>1. i - 1 \in DOMAIN timeouts /\ j \in DOMAIN timeouts
              /\ timeouts'[i] = timeouts[i - 1] /\ timeouts'[j] = timeouts[j]
          BY <2>7, <4>4
        <5>2. i - 1 = j
          BY <1>0, <3>3, <5>1 DEF TimeoutsLeased
        <5>3. QED
          BY <2>7, <3>1, <4>4, <5>2
      <4>5. QED
        BY <2>7, <3>1, <3>3, <4>1, <4>2, <4>3, <4>4
    <3>4. \A i \in DOMAIN timeouts' : i # k /\ Res(t) \notin disturbed => timeouts'[i].res # Res(t)
      BY <2>4, <3>2
    <3>5. ASSUME NEW i \in DOMAIN timeouts', NEW j \in DOMAIN timeouts', timeouts'[i].res \notin disturbed,
                 timeouts'[i].res = timeouts'[j].res
          PROVE  i = j
      BY <2>8, <3>3, <3>4, <3>5
    <3>6. \A w \in Workers : ~In(w, "cancel")
      BY <2>1, <2>2, OnePlace
    <3>7. ASSUME NEW i \in DOMAIN timeouts', timeouts'[i].res \notin disturbed
          PROVE  leases'[timeouts'[i].res].task = timeouts'[i].task
      BY <1>c, <2>4, <2>5, <2>8, <3>2, <3>6, <3>7
    <3>8. QED
      BY <2>5, <3>5, <3>7 DEF TimeoutsLeased
  <2>11. LeasesTimed'
    <3>1. \A r \in Leasable \ disturbed : r # Res(t) /\ leases[r] # NoLease =>
              \E i \in DOMAIN timeouts : timeouts[i].res = r
      BY <1>0, <2>2, OnePlace DEF LeasesTimed
    <3>2. \A r \in Leasable \ disturbed : leases'[r] # NoLease => \E i \in DOMAIN timeouts' : timeouts'[i].res = r
      BY <2>5, <2>7, <2>8, <3>1
    <3>3. QED
      BY <2>5, <3>2 DEF LeasesTimed
  <2>12. BelievedLeased'
    <3>1. ASSUME NEW u \in Tasks, NEW c \in believes'[u], c[1] \notin disturbed
          PROVE  leases'[c[1]] = [task |-> u, access |-> c[2]]
      <4>1. c \in believes[u] \/ (u = t /\ c = <<Res(t), wants[t].access>>)
        <5>1. believes'[t] = believes[t] \cup {<<Res(t), wants[t].access>>}
          BY <1>a, <2>5
        <5>2. \A v \in Tasks : v # t => believes'[v] = believes[v]
          BY <1>a, <2>5
        <5>3. QED
          BY <3>1, <5>1, <5>2
      <4>2. CASE c \in believes[u]
        BY <1>0, <2>5, <3>1, <4>2 DEF BelievedLeased
      <4>3. CASE u = t /\ c = <<Res(t), wants[t].access>>
        BY <2>4, <2>5, <4>3
      <4>4. QED
        BY <4>1, <4>2, <4>3
    <3>2. QED
      BY <2>5, <3>1 DEF BelievedLeased
  <2>13. QED
    BY <2>3, <2>9, <2>10, <2>11, <2>12 DEF SerialInv
<1>4. ASSUME NEW t \in Tasks, \/ \E r \in Leasable : ReleaseResource(t, r)
                              \/ ReleaseAllTaskResources(t)
      PROVE  SerialInv'
  <2>1. \A v \in Workers : In(v, "idle") /\ jobs[v] = <<>>
    BY <1>4, AllIdle DEF ReleaseResource, ReleaseAllTaskResources
  <2>2. OneCall' /\ pc'[t] = "remove" /\ \A v \in Workers : v # t => pc'[v] = "idle"
    BY <1>4, <2>1, Moves DEF ReleaseResource, ReleaseAllTaskResources
  <2>3. UNCHANGED <<leases, timeouts, believes, disturbed>>
    BY <1>4 DEF ReleaseResource, ReleaseAllTaskResources
  <2>4. Acquiring' /\ Reaping' /\ Freed'
    BY <2>2 DEF Acquiring, Reaping, Freed, In
  <2>5. TimeoutsLeased'
    BY <1>0, <1>c, <2>1, <2>3, OnePlace DEF TimeoutsLeased
  <2>6. LeasesTimed'
    BY <1>0, <2>1, <2>3, OnePlace DEF LeasesTimed
  <2>7. BelievedLeased'
    BY <1>0, <2>3 DEF BelievedLeased
  <2>8. QED
    BY <2>2, <2>4, <2>5, <2>6, <2>7 DEF SerialInv
<1>6. CASE ProcessExpiredLeases
  <2>1. \A v \in Workers : In(v, "idle") /\ jobs[v] = <<>>
    BY <1>6, AllIdle DEF ProcessExpiredLeases
  <2>2. OneCall' /\ pc'[Reaper] = "remove" /\ \A v \in Workers : v # Reaper => pc'[v] = "idle"
    BY <1>6, <2>1, Moves DEF ProcessExpiredLeases
  <2>3. PICK n \in 1..Len(timeouts) :
            /\ timeouts' = SubSeq(timeouts, n + 1, Len(timeouts))
            /\ jobs' = [jobs EXCEPT ![Reaper] = [i \in 1..n |-> <<timeouts[i].res, timeouts[i].task>>]]
    BY <1>a, <1>6, ExpiredFront DEF ProcessExpiredLeases
  <2>4. /\ timeouts' \in Seq(Timeout)
        /\ \A i \in DOMAIN timeouts' : i + n \in DOMAIN timeouts /\ timeouts'[i] = timeouts[i + n]
        /\ \A i \in DOMAIN timeouts : i > n => i - n \in DOMAIN timeouts' /\ timeouts'[i - n] = timeouts[i]
    BY <1>a, <2>3, PoppedEffect
  <2>5. jobs'[Reaper] = [i \in 1..n |-> <<timeouts[i].res, timeouts[i].task>>]
    BY <1>a, <2>3
  <2>6. UNCHANGED <<leases, disturbed>> /\ \A t \in Tasks : believes'[t] \subseteq believes[t]
    BY <1>6 DEF ProcessExpiredLeases
  <2>7. \A i \in DOMAIN timeouts : timeouts[i].res \notin disturbed => leases[timeouts[i].res].task = timeouts[i].task
    BY <1>c, <2>1, OnePlace
  <2>8. /\ Len(timeouts) \in Nat /\ n \in Nat /\ n <= Len(timeouts)
        /\ DOMAIN timeouts = 1..Len(timeouts) /\ \A i \in 1..n : i \in DOMAIN timeouts
    BY <1>a
  <2>9. Reaping'
    <3>1. \A i \in DOMAIN jobs'[Reaper] :
              /\ i \in DOMAIN timeouts
              /\ jobs'[Reaper][i][1] = timeouts[i].res /\ jobs'[Reaper][i][2] = timeouts[i].task
      BY <2>5, <2>8
    <3>2. \A i, j \in DOMAIN jobs'[Reaper] :
              jobs'[Reaper][i][1] \notin disturbed /\ jobs'[Reaper][i][1] = jobs'[Reaper][j][1] => i = j
      BY <1>0, <3>1 DEF TimeoutsLeased
    <3>3. QED
      BY <2>2, <2>6, <2>7, <3>1, <3>2 DEF Reaping, In
  <2>10. Acquiring' /\ Freed'
    BY <2>2 DEF Acquiring, Freed, In
  <2>11. TimeoutsLeased'
    <3>1. \A i \in DOMAIN timeouts' : timeouts'[i].res \notin disturbed =>
              leases'[timeouts'[i].res].task = timeouts'[i].task
      BY <2>4, <2>6, <2>7
    <3>2. ASSUME NEW i \in DOMAIN timeouts', NEW j \in DOMAIN timeouts', timeouts'[i].res \notin disturbed,
                 timeouts'[i].res = timeouts'[j].res
          PROVE  i = j
      <4>1. i + n = j + n
        BY <1>0, <2>4, <3>2 DEF TimeoutsLeased
      <4>2. i \in Int /\ j \in Int
        BY <2>4
      <4>3. QED
        BY <2>8, <4>1, <4>2
    <3>3. QED
      BY <2>6, <3>1, <3>2 DEF TimeoutsLeased
  <2>12. LeasesTimed'
    <3>1. ASSUME NEW r \in Leasable \ disturbed, leases[r] # NoLease
          PROVE  \/ \E i \in DOMAIN timeouts' : timeouts'[i].res = r
                 \/ \E i \in DOMAIN jobs'[Reaper] : jobs'[Reaper][i][1] = r
      <4>1. PICK i \in DOMAIN timeouts : timeouts[i].res = r
        BY <1>0, <2>1, <3>1, OnePlace DEF LeasesTimed
      <4>2. CASE i > n
        BY <2>4, <4>1, <4>2
      <4>3. CASE ~(i > n)
        <5>1. i \in 1..n
          BY <2>8, <4>1, <4>3
        <5>2. i \in DOMAIN jobs'[Reaper] /\ jobs'[Reaper][i][1] = r
          BY <2>5, <4>1, <5>1
        <5>3. QED
          BY <5>2
      <4>4. QED
        BY <4>2, <4>3
    <3>2. QED
      BY <2>6, <3>1 DEF LeasesTimed
  <2>13. BelievedLeased'
    BY <1>0, <2>6 DEF BelievedLeased
  <2>14. QED
    BY <2>2, <2>9, <2>10, <2>11, <2>12, <2>13 DEF SerialInv
<1>7. ASSUME NEW w \in Workers, RemoveLease(w)
      PROVE  SerialInv'
  <2>1. In(w, "remove") /\ ~In(w, "idle")
    BY <1>7, OnePlace DEF RemoveLease
  <2>2. \A v \in Workers : v # w => In(v, "idle") /\ jobs[v] = <<>>
    BY <1>0, <2>1, OthersIdle
  <2>3. /\ Res(w) \in Leasable /\ For(w) \in Tasks
        /\ jobs[w] \in Seq(Leasable \X Tasks) /\ Len(jobs[w]) \in Nat \ {0}
        /\ jobs[w][1] = <<Res(w), For(w)>> /\ 1 \in DOMAIN jobs[w]
    BY <2>1, JobType
  <2>4. leases'[Res(w)] = NoLease /\ \A r \in Leasable : r # Res(w) => leases'[r] = leases[r]
    BY <1>a, <1>7, <2>3 DEF RemoveLease
  <2>5. /\ UNCHANGED <<timeouts, wants>> /\ disturbed \subseteq disturbed'
        /\ believes' = [believes EXCEPT ![For(w)] = {c \in @ : c[1] # Res(w)}]
    BY <1>7 DEF RemoveLease
  <2>6. \/ leases[Res(w)].task = For(w) /\ GoesTo(w, "cancel") /\ UNCHANGED <<jobs, disturbed>>
        \/ /\ leases[Res(w)].task # For(w) /\ GoesTo(w, "idle")
           /\ jobs' = [jobs EXCEPT ![w] = <<>>]
           /\ Skipped(w) \subseteq disturbed'
           /\ Res(w) \notin disturbed' => leases[Res(w)] = NoLease
    BY <1>7 DEF RemoveLease
  <2>7. PICK place \in {"idle", "cancel"} : GoesTo(w, place)
    BY <2>6
  <2>8. OneCall' /\ pc'[w] = place /\ \A v \in Workers : v # w => pc'[v] = "idle"
    BY <2>2, <2>7, Moves
  <2>9. Acquiring'
    BY <2>8 DEF Acquiring, In
  <2>10. \A i \in DOMAIN timeouts : timeouts[i].res \notin disturbed => leases[timeouts[i].res].task = timeouts[i].task
    BY <1>c, <2>1, <2>2, OnePlace
  <2>11. \A i \in DOMAIN timeouts : timeouts[i].res \notin disturbed /\ timeouts[i].res # Res(w) =>
              leases'[timeouts[i].res].task = timeouts[i].task
    BY <1>b, <2>4, <2>10
  <2>12. BelievedLeased'
    <3>1. ASSUME NEW u \in Tasks, NEW c \in believes'[u], c[1] \notin disturbed'
          PROVE  leases'[c[1]] = [task |-> u, access |-> c[2]]
      <4>1. c \in believes[u] /\ (u = For(w) => c[1] # Res(w)) /\ c[1] \in Leasable
        BY <1>a, <1>d, <2>3, <2>5
      <4>2. leases[c[1]] = [task |-> u, access |-> c[2]]
        BY <1>0, <2>5, <3>1, <4>1 DEF BelievedLeased
      <4>3. leases[c[1]].task = u /\ u # NoLease.task
        BY <4>2, FreeLease
      <4>4. c[1] # Res(w)
        BY <2>6, <3>1, <4>1, <4>3
      <4>5. QED
        BY <2>4, <4>1, <4>2, <4>4
    <3>2. QED
      BY <3>1 DEF BelievedLeased
  <2>13. CASE leases[Res(w)].task = For(w)
    <3>1. GoesTo(w, "cancel") /\ UNCHANGED <<jobs, disturbed>>
      BY <2>6, <2>13
    <3>2. pc'[w] = "cancel" /\ Res(w)' = Res(w) /\ For(w)' = For(w)
      <4>1. pc'[w] = "cancel"
        BY <1>a, <3>1 DEF GoesTo
      <4>2. QED
        BY <3>1, <4>1 DEF Res, For
    <3>3. Freed'
      BY <2>4, <2>8, <3>2 DEF Freed, In
    <3>4. Reaping'
      <4>1. CASE w = Reaper
        <5>1. ASSUME NEW i \in DOMAIN jobs[w], jobs[w][i][1] \notin disturbed
              PROVE  /\ \A j \in DOMAIN jobs[w] : jobs[w][i][1] = jobs[w][j][1] => i = j
                     /\ i # 1 => leases'[jobs[w][i][1]].task = jobs[w][i][2]
          <6>1. /\ \A j \in DOMAIN jobs[w] : jobs[w][i][1] = jobs[w][j][1] => i = j
                /\ leases[jobs[w][i][1]].task = jobs[w][i][2]
            BY <1>0, <2>1, <4>1, <5>1 DEF Reaping
          <6>2. jobs[w][i][1] \in Leasable
            BY <2>3
          <6>3. i # 1 => jobs[w][i][1] # Res(w)
            BY <2>3, <6>1
          <6>4. QED
            BY <2>4, <6>1, <6>2, <6>3
        <5>2. QED
          BY <3>1, <3>2, <4>1, <5>1 DEF Reaping, In
      <4>2. CASE w # Reaper
        BY <2>8, <4>2 DEF Reaping, In
      <4>3. QED
        BY <4>1, <4>2
    <3>5. TimeoutsLeased'
      <4>1. In(w, "cancel")'
        BY <3>2 DEF In
      <4>2. \A i \in DOMAIN timeouts :
                timeouts[i].res \notin disturbed /\ timeouts[i].res = Res(w) => timeouts[i].task = For(w)
        BY <2>10, <2>13
      <4>3. QED
        BY <1>0, <2>5, <2>11, <3>1, <3>2, <4>1, <4>2 DEF TimeoutsLeased
    <3>6. LeasesTimed'
      BY <1>0, <2>1, <2>2, <2>4, <2>5, <3>1, OnePlace DEF LeasesTimed
    <3>7. QED
      BY <2>8, <2>9, <2>12, <3>3, <3>4, <3>5, <3>6 DEF SerialInv
  <2>14. CASE leases[Res(w)].task # For(w)
    <3>1. /\ GoesTo(w, "idle") /\ jobs' = [jobs EXCEPT ![w] = <<>>]
          /\ Skipped(w) \subseteq disturbed'
          /\ Res(w) \notin disturbed' => leases[Res(w)] = NoLease
      BY <2>6, <2>14
    <3>2. \A v \in Workers : pc'[v] = "idle"
      BY <1>a, <2>8, <3>1 DEF GoesTo
    <3>3. Freed' /\ Reaping'
      BY <3>2 DEF Freed, Reaping, In
    <3>4. TimeoutsLeased'
      <4>1. ASSUME NEW i \in DOMAIN timeouts, timeouts[i].res \notin disturbed'
            PROVE  leases'[timeouts[i].res].task = timeouts[i].task
        <5>1. leases[timeouts[i].res].task = timeouts[i].task /\ timeouts[i].task \in Tasks
          BY <1>b, <2>5, <2>10, <4>1
        <5>2. timeouts[i].res # Res(w)
          BY <3>1, <4>1, <5>1, FreeLease
        <5>3. QED
          BY <2>5, <2>11, <4>1, <5>2
      <4>2. QED
        BY <1>0, <2>5, <4>1 DEF TimeoutsLeased
    <3>5. LeasesTimed'
      <4>1. ASSUME NEW r \in Leasable \ disturbed', leases'[r] # NoLease
            PROVE  \E i \in DOMAIN timeouts : timeouts[i].res = r
        <5>1. r # Res(w) /\ leases[r] # NoLease /\ r \notin disturbed
          BY <2>4, <2>5, <4>1
        <5>2. CASE \E i \in DOMAIN jobs[Reaper] : jobs[Reaper][i][1] = r
          <6>1. PICK i \in DOMAIN jobs[Reaper] : jobs[Reaper][i][1] = r
            BY <5>2
          <6>2. Reaper = w
            BY <2>2, <6>1
          <6>3. i \in 2..Len(jobs[w])
            BY <2>3, <5>1, <6>1, <6>2
          <6>4. r \in Skipped(w)
            BY <6>1, <6>2, <6>3 DEF Skipped
          <6>5. QED
            BY <3>1, <4>1, <6>4
        <5>3. QED
          BY <1>0, <2>1, <2>2, <5>1, <5>2, OnePlace DEF LeasesTimed
      <4>2. QED
        BY <2>5, <4>1 DEF LeasesTimed
    <3>6. QED
      BY <2>8, <2>9, <2>12, <3>3, <3>4, <3>5 DEF SerialInv
  <2>15. QED
    BY <2>13, <2>14
<1>8. ASSUME NEW w \in Workers, CancelTimeout(w)
      PROVE  SerialInv'
  <2>1. In(w, "cancel") /\ ~In(w, "idle")
    BY <1>8, OnePlace DEF CancelTimeout
  <2>2. \A v \in Workers : v # w => In(v, "idle") /\ jobs[v] = <<>>
    BY <1>0, <2>1, OthersIdle
  <2>3. /\ Res(w) \in Leasable /\ For(w) \in Tasks
        /\ jobs[w] \in Seq(Leasable \X Tasks) /\ Len(jobs[w]) \in Nat \ {0}
        /\ jobs[w][1] = <<Res(w), For(w)>>
    BY <2>1, JobType
  <2>4. leases[Res(w)] = NoLease
    BY <1>0, <2>1 DEF Freed
  <2>5. UNCHANGED <<leases, believes, disturbed>> /\ timeouts' \in OthersKept(timeouts, Res(w), For(w))
    BY <1>8 DEF CancelTimeout
  <2>6. PICK place \in {"idle", "remove"} : GoesTo(w, place)
    BY <1>8 DEF CancelTimeout
  <2>7. OneCall' /\ pc'[w] \in {"idle", "remove"} /\ \A v \in Workers : v # w => pc'[v] = "idle"
    BY <2>2, <2>6, Moves
  <2>8. jobs'[w] = Tail(jobs[w]) /\ \A v \in Workers : v # w => jobs'[v] = <<>>
    BY <1>a, <1>8, <2>2 DEF CancelTimeout
  <2>9. /\ \A i \in DOMAIN jobs'[w] : i \in Nat \ {0} /\ i + 1 \in DOMAIN jobs[w] /\ jobs'[w][i] = jobs[w][i + 1]
        /\ \A i \in DOMAIN jobs[w] : i # 1 => i - 1 \in DOMAIN jobs'[w] /\ jobs'[w][i - 1] = jobs[w][i]
    BY <2>3, <2>8, TailEffect
  <2>10. PICK f \in [DOMAIN timeouts' -> DOMAIN timeouts] :
              /\ timeouts' \in Seq(Timeout)
              /\ \A i \in DOMAIN timeouts' : /\ timeouts'[i] = timeouts[f[i]]
                                             /\ ~(timeouts'[i].res = Res(w) /\ timeouts'[i].task = For(w))
              /\ \A i, j \in DOMAIN timeouts' : i < j => f[i] < f[j]
              /\ \A k \in DOMAIN timeouts : \/ timeouts[k].res = Res(w) /\ timeouts[k].task = For(w)
                                            \/ \E i \in DOMAIN timeouts' : f[i] = k
    BY <1>e, <2>5, OthersKeptEffect
  <2>11. Reaping'
    <3>1. CASE w = Reaper
      <4>1. ASSUME NEW i \in DOMAIN jobs'[w], jobs'[w][i][1] \notin disturbed
            PROVE  /\ leases'[jobs'[w][i][1]].task = jobs'[w][i][2]
                   /\ \A j \in DOMAIN jobs'[w] : jobs'[w][i][1] = jobs'[w][j][1] => i = j
        <5>1. i \in Nat \ {0} /\ i + 1 # 1 /\ i + 1 \in DOMAIN jobs[w] /\ jobs'[w][i] = jobs[w][i + 1]
          BY <2>9
        <5>2. /\ leases[jobs[w][i + 1][1]].task = jobs[w][i + 1][2]
              /\ \A j \in DOMAIN jobs[w] : jobs[w][i + 1][1] = jobs[w][j][1] => i + 1 = j
          BY <1>0, <2>1, <3>1, <4>1, <5>1 DEF Reaping
        <5>3. ASSUME NEW j \in DOMAIN jobs'[w], jobs'[w][i][1] = jobs'[w][j][1]
              PROVE  i = j
          <6>1. j \in Nat /\ j + 1 \in DOMAIN jobs[w] /\ jobs'[w][j] = jobs[w][j + 1]
            BY <2>9
          <6>2. i + 1 = j + 1
            BY <5>1, <5>2, <5>3, <6>1
          <6>3. QED
            BY <5>1, <6>1, <6>2
        <5>4. QED
          BY <2>5, <5>1, <5>2, <5>3
      <4>2. QED
        BY <2>5, <2>7, <3>1, <4>1 DEF Reaping, In
    <3>2. CASE w # Reaper
      BY <2>7, <3>2 DEF Reaping, In
    <3>3. QED
      BY <3>1, <3>2
  <2>12. Acquiring' /\ Freed'
    BY <2>7 DEF Acquiring, Freed, In
  <2>13. TimeoutsLeased'
    <3>1. ASSUME NEW i \in DOMAIN timeouts', timeouts'[i].res \notin disturbed
          PROVE  leases'[timeouts'[i].res].task = timeouts'[i].task
      <4>1. f[i] \in DOMAIN timeouts /\ timeouts'[i] = timeouts[f[i]]
        BY <2>10
      <4>2. ASSUME NEW v \in Workers, In(v, "cancel"), Res(v) = timeouts'[i].res, For(v) = timeouts'[i].task
            PROVE  FALSE
        <5>1. v = w
          BY <2>2, <4>2, OnePlace
        <5>2. QED
          BY <2>10, <4>2, <5>1
      <4>3. QED
        BY <1>0, <2>5, <3>1, <4>1, <4>2 DEF TimeoutsLeased
    <3>2. ASSUME NEW i \in DOMAIN timeouts', NEW j \in DOMAIN timeouts', timeouts'[i].res \notin disturbed,
                 timeouts'[i].res = timeouts'[j].res
          PROVE  i = j
      <4>1. f[i] \in DOMAIN timeouts /\ f[j] \in DOMAIN timeouts
            /\ timeouts'[i] = timeouts[f[i]] /\ timeouts'[j] = timeouts[f[j]]
        BY <2>10
      <4>2. f[i] = f[j] /\ f[i] \in Int
        BY <1>0, <1>a, <3>2, <4>1 DEF TimeoutsLeased
      <4>3. i \in Int /\ j \in Int
        BY <2>10
      <4>4. QED
        BY <2>10, <4>2, <4>3
    <3>3. QED
      BY <2>5, <3>1, <3>2 DEF TimeoutsLeased
  <2>14. LeasesTimed'
    <3>1. ASSUME NEW r \in Leasable \ disturbed, leases[r] # NoLease
          PROVE  \/ \E i \in DOMAIN timeouts' : timeouts'[i].res = r
                 \/ \E i \in DOMAIN jobs'[Reaper] : jobs'[Reaper][i][1] = r
      <4>1. r # Res(w)
        BY <2>4, <3>1
      <4>2. ~\E t \in Tasks : In(t, "schedule")
        BY <2>1, <2>2, OnePlace
      <4>3. CASE \E k \in DOMAIN timeouts : timeouts[k].res = r
        BY <2>10, <4>1, <4>3
      <4>4. CASE \E i \in DOMAIN jobs[Reaper] : jobs[Reaper][i][1] = r
        <5>1. PICK i \in DOMAIN jobs[Reaper] : jobs[Reaper][i][1] = r
          BY <4>4
        <5>2. Reaper = w
          BY <2>2, <5>1
        <5>3. i # 1
          BY <2>3, <4>1, <5>1, <5>2
        <5>4. QED
          BY <2>9, <5>1, <5>2, <5>3
      <4>5. QED
        BY <1>0, <3>1, <4>2, <4>3, <4>4 DEF LeasesTimed
    <3>2. QED
      BY <2>5, <3>1 DEF LeasesTimed
  <2>15. BelievedLeased'
    BY <1>0, <2>5 DEF BelievedLeased
  <2>16. QED
    BY <2>7, <2>11, <2>12, <2>13, <2>14, <2>15 DEF SerialInv
<1>9. CASE Tick
  <2>1. timeouts' = Later(timeouts) /\ UNCHANGED <<leases, pc, jobs, wants, believes, disturbed>>
    BY <1>9 DEF Tick, calls
  <2>2. /\ DOMAIN timeouts' = DOMAIN timeouts
        /\ \A i \in DOMAIN timeouts : timeouts'[i].res = timeouts[i].res /\ timeouts'[i].task = timeouts[i].task
    BY <1>a, <2>1, LaterEffect
  <2>3. OneCall' /\ Reaping' /\ Freed' /\ BelievedLeased'
    <3>1. OneCall' /\ BelievedLeased'
      BY <1>0, <2>1 DEF OneCall, BelievedLeased, In
    <3>2. Reaping' /\ Freed'
      BY <1>0, <2>1 DEF Reaping, Freed, In, Res
    <3>3. QED
      BY <3>1, <3>2
  <2>4. Acquiring'
    BY <1>0, <2>1, <2>2 DEF Acquiring, In, Res, For, Feasible
  <2>5. TimeoutsLeased' /\ LeasesTimed'
    BY <1>0, <2>1, <2>2 DEF TimeoutsLeased, LeasesTimed, In, Res, For
  <2>6. QED
    BY <2>3, <2>4, <2>5 DEF SerialInv
<1>10. CASE UNCHANGED leaseVars
  BY <1>0, <1>10 DEF leaseVars, calls, SerialInv, OneCall, Acquiring, Reaping, Freed, TimeoutsLeased, LeasesTimed,
                     BelievedLeased, In, Res, For, Feasible
<1>11. QED
  BY <1>1, <1>2, <1>3, <1>4, <1>6, <1>7, <1>8, <1>9, <1>10 DEF LeaseNext, Goes

LEMMA SerialInit == LeaseInit => SerialInv
<1> SUFFICES ASSUME LeaseInit PROVE SerialInv
  OBVIOUS
<1>1. \A w \in Workers : pc[w] = "idle" /\ jobs[w] = <<>>
  BY DEF LeaseInit
<1>2. OneCall /\ Acquiring /\ Reaping /\ Freed
  BY <1>1 DEF OneCall, Acquiring, Reaping, Freed, In, Workers
<1>3. TimeoutsLeased
  BY DEF LeaseInit, TimeoutsLeased
<1>4. LeasesTimed /\ BelievedLeased
  BY DEF LeaseInit, LeasesTimed, BelievedLeased
<1>5. QED
  BY <1>2, <1>3, <1>4 DEF SerialInv

\* The reaper's pass is cut short (the ? in process_expired_leases) only at a resource
\* that was disturbed before: an error stays with whom it has hit.
THEOREM PassesMeetTheirLeases ==
    ASSUME Serial
    PROVE  LeaseSpec => [](In(Reaper, "remove") /\ Res(Reaper) \notin disturbed
                          => leases[Res(Reaper)].task = For(Reaper))
<1> DEFINE Meets == In(Reaper, "remove") /\ Res(Reaper) \notin disturbed
                          => leases[Res(Reaper)].task = For(Reaper)
<1>1. Typed /\ SerialInv => Meets
  <2> SUFFICES ASSUME Typed, SerialInv, In(Reaper, "remove"), Res(Reaper) \notin disturbed
               PROVE  leases[Res(Reaper)].task = For(Reaper)
    OBVIOUS
  <2>1. Reaper \in Workers
    BY DEF Workers
  <2>2. jobs[Reaper][1] = <<Res(Reaper), For(Reaper)>> /\ 1 \in DOMAIN jobs[Reaper]
    BY <2>1, JobType, OnePlace
  <2>3. leases[jobs[Reaper][1][1]].task = jobs[Reaper][1][2]
    BY <2>2 DEF SerialInv, Reaping
  <2>4. QED
    BY <2>2, <2>3
<1>2. Typed /\ SerialInv /\ [LeaseNext]_leaseVars => SerialInv'
  BY SerialStep
<1>3. QED
  BY <1>1, <1>2, TypedInit, TypedStep, SerialInit, PTL DEF LeaseSpec

\* Writers exclude each other on every resource that is not disturbed, through
\* readers, late releases and leases of any lengths, if each call runs to its end
\* before the next.
THEOREM UndisturbedExclusiveHolds ==
    ASSUME Serial
    PROVE  LeaseSpec => []UndisturbedExclusive
<1>1. SerialInv => UndisturbedExclusive
  <2> SUFFICES ASSUME SerialInv, NEW r \in Leasable \ disturbed, NEW t \in Tasks, NEW u \in Tasks,
                      NEW c \in believes[t], NEW d \in believes[u], c[1] = r, d[1] = r
               PROVE  t = u
    BY DEF UndisturbedExclusive, ExclusiveOn
  <2>1. /\ leases[r] = [task |-> t, access |-> c[2]]
        /\ leases[r] = [task |-> u, access |-> d[2]]
    BY DEF SerialInv, BelievedLeased
  <2>2. leases[r].task = t /\ leases[r].task = u
    BY <2>1
  <2>3. QED
    BY <2>2
<1>2. Typed /\ SerialInv /\ [LeaseNext]_leaseVars => SerialInv'
  BY SerialStep
<1>3. QED
  BY <1>1, <1>2, TypedInit, TypedStep, SerialInit, PTL DEF LeaseSpec

\* Between calls each undisturbed lease has the one timeout that ends it, and no
\* timeout is left over for the next lease on the resource.
THEOREM TimeoutsMatchLeasesHolds ==
    ASSUME Serial
    PROVE  LeaseSpec => []TimeoutsMatchLeases
<1>1. Typed /\ SerialInv /\ ExpiredInFront => TimeoutsMatchLeases
  <2> SUFFICES ASSUME Typed, SerialInv, \A w \in Workers : In(w, "idle"), NEW r \in Leasable \ disturbed
               PROVE  /\ \A i, j \in DOMAIN timeouts : timeouts[i].res = r /\ timeouts[j].res = r => i = j
                      /\ leases[r] # NoLease <=>
                            \E i \in DOMAIN timeouts : timeouts[i].res = r /\ timeouts[i].task = leases[r].task
    BY DEF TimeoutsMatchLeases
  <2> USE LifecycleAssumption DEF Workers
  <2>1. \A w \in Workers : jobs[w] = <<>>
    BY DEF Typed, CallsHaveJobs
  <2>2. \A i \in DOMAIN timeouts : timeouts[i].res = r => leases[r].task = timeouts[i].task
    BY OnePlace DEF SerialInv, TimeoutsLeased
  <2>3. \A i \in DOMAIN timeouts : timeouts[i].task \in Tasks
    <3>1. timeouts \in Seq(Timeout)
      BY DEF Typed, LeaseTypeOK
    <3>2. \A i \in DOMAIN timeouts : timeouts[i] \in Timeout
      BY <3>1
    <3>3. QED
      BY <3>2 DEF Timeout
  <2>4. leases[r] # NoLease => \E i \in DOMAIN timeouts : timeouts[i].res = r
    BY <2>1, OnePlace DEF SerialInv, LeasesTimed
  <2>5. ASSUME NEW i \in DOMAIN timeouts, timeouts[i].res = r
        PROVE  leases[r] # NoLease /\ timeouts[i].task = leases[r].task
    BY <2>2, <2>3, <2>5, FreeLease
  <2>6. \A i, j \in DOMAIN timeouts : timeouts[i].res = r /\ timeouts[j].res = r => i = j
    BY DEF SerialInv, TimeoutsLeased
  <2>7. QED
    BY <2>4, <2>5, <2>6
<1>2. Typed /\ SerialInv /\ [LeaseNext]_leaseVars => SerialInv'
  BY SerialStep
<1>3. LeaseInit => ExpiredInFront
  BY DEF LeaseInit, ExpiredInFront
<1>4. QED
  BY <1>1, <1>2, <1>3, TypedInit, TypedStep, SerialInit, InFrontStep, PTL DEF LeaseSpec
==============================================================================
