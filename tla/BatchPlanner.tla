---------------------------- MODULE BatchPlanner ----------------------------
(***************************************************************************)
(* schedule_systems of the integrated scheduler                            *)
(* (async_scheduler_integration.rs): requests are sorted into batches free *)
(* of conflicts, looked at in the arbitrary order of a hash set; then each *)
(* is submitted, and the dependency graph notes its task and its use of    *)
(* resources.  Tasks are numbered as they are submitted, so the tasks of a *)
(* system need no order of their own.  Left out: the queues of tasks that  *)
(* wait for a resource, which nothing reads.                               *)
(***************************************************************************)
EXTENDS Integers, Sequences, FiniteSets, SequencesExt

CONSTANTS RequestLists,   \* sequences of [name |-> n, params |-> sequence of <<resource, access>>]
          NoWriter

\* The requests of a list are numbered from one.
ASSUME RequestsAssumption == \A q \in RequestLists : q \in Seq(ToSet(q))

VARIABLES requests,
          unscheduled, \* requests in no batch yet
          seen,        \* of these, the ones this pass has looked at
          batches,     \* the batches, the last one open while unscheduled # {}
          place,       \* the batch and the place in it that is submitted next
          submitted,   \* tasks: the requests they run, in order
          refused,     \* the safety scheduler refused a request
          ended,       \* tasks whose completion is recorded
          graph        \* [tasks, readers, writer, constraints]

batchVars == <<requests, unscheduled, seen, batches, place, submitted, refused, ended, graph>>

Requests == DOMAIN requests
Names == {requests[i].name : i \in Requests}
Resources == UNION {{p[1] : p \in ToSet(requests[i].params)} : i \in Requests}

----------------------------------------------------------------------------
(* Conflicts *)

\* extract_system_resources: a map, in which the last parameter of a name counts.
AccessOf(i, r) ==
    LET ps == requests[i].params
    IN  ps[CHOOSE k \in DOMAIN ps : ps[k][1] = r /\ \A l \in DOMAIN ps : ps[l][1] = r => l <= k][2]
Uses(i) == {p[1] : p \in ToSet(requests[i].params)}

\* Mutant of AccessesConflict: a write that is followed by a read is missed.
AccessesConflictReadFirst(a, b) == b # "Immutable"

\* determine_conflict_type
AccessesConflict(a, b) == a # "Immutable" \/ b # "Immutable"

\* build_conflict_matrix: a pair is analyzed once, the lower index first.
HasConflict(i, j) ==
    LET l == IF i < j THEN i ELSE j
        h == IF i < j THEN j ELSE i
    IN  i # j /\ \E r \in Uses(l) \cap Uses(h) : AccessesConflict(AccessOf(l, r), AccessOf(h, r))

----------------------------------------------------------------------------
(* resolve_conflicts_and_batch *)

Planning == unscheduled # {}

\* Both looks at a batch: by the matrix, then by the accesses taken so far.
Fits(i, batch) ==
    /\ \A j \in ToSet(batch) : ~HasConflict(i, j)
    /\ \A j \in ToSet(batch) : \A r \in Uses(i) \cap Uses(j) :
           ~AccessesConflict(AccessOf(j, r), AccessOf(i, r))

Consider(i) ==
    /\ Planning /\ i \in unscheduled \ seen
    /\ seen' = seen \cup {i}
    /\ IF Fits(i, Last(batches))
       THEN batches' = [batches EXCEPT ![Len(batches)] = Append(@, i)]
       ELSE UNCHANGED batches
    /\ UNCHANGED <<requests, unscheduled, place, submitted, refused, ended, graph>>

CloseBatch ==
    /\ Planning /\ seen = unscheduled
    /\ unscheduled' = unscheduled \ ToSet(Last(batches))
    /\ seen' = {}
    /\ batches' = IF unscheduled' = {} THEN batches ELSE Append(batches, <<>>)
    /\ UNCHANGED <<requests, place, submitted, refused, ended, graph>>

----------------------------------------------------------------------------
(* schedule_single_system, update_dependency_graph, record_task_completion *)

\* The safety scheduler takes a definition that names each resource in one way.
Valid(i) == \A p, q \in ToSet(requests[i].params) : p[1] = q[1] => p[2] = q[2]

Reads(i, r) == <<r, "Immutable">> \in ToSet(requests[i].params)
Writes(i, r) == \E p \in ToSet(requests[i].params) : p[1] = r /\ p[2] # "Immutable"

\* Mutant of Claim: a writer looks only at the writer.
ClaimBesideReaders(g, task, i) ==
    [g EXCEPT
       !.readers = [r \in Resources |-> IF Reads(i, r) /\ g.writer[r] = NoWriter THEN @[r] \cup {task} ELSE @[r]],
       !.writer = [r \in Resources |-> IF Writes(i, r) /\ g.writer[r] = NoWriter THEN task ELSE @[r]]]

\* The uses of a valid request: a reader enters unless there is a writer, a writer
\* unless there is anyone; who waits, waits for ever, as nothing promotes.
Claim(g, task, i) ==
    [g EXCEPT
       !.readers = [r \in Resources |-> IF Reads(i, r) /\ g.writer[r] = NoWriter THEN @[r] \cup {task} ELSE @[r]],
       !.writer = [r \in Resources |-> IF Writes(i, r) /\ g.writer[r] = NoWriter /\ g.readers[r] = {}
                                       THEN task ELSE @[r]]]

\* A task of a system that has one already must follow the latest.
WithTask(g, n, task) ==
    LET latest == {t \in g.tasks[n] : \A u \in g.tasks[n] : u <= t}
    IN  [g EXCEPT !.tasks[n] = @ \cup {task},
                  !.constraints = @ \cup {<<t, task>> : t \in latest}]

Places == UNION {{<<b, k>> : k \in DOMAIN batches[b]} : b \in DOMAIN batches}

\* The two loops of schedule_systems, batch by batch.
NextPlace == IF place[2] < Len(batches[place[1]]) THEN <<place[1], place[2] + 1>> ELSE <<place[1] + 1, 1>>

Submit ==
    /\ ~Planning /\ ~refused /\ place \in Places
    /\ LET i == batches[place[1]][place[2]]
           task == Len(submitted) + 1
       IN  IF Valid(i)
           THEN /\ submitted' = Append(submitted, i)
                /\ graph' = Claim(WithTask(graph, requests[i].name, task), task, i)
                /\ place' = NextPlace
                /\ UNCHANGED refused
           ELSE refused' = TRUE /\ UNCHANGED <<submitted, graph, place>>
    /\ UNCHANGED <<requests, unscheduled, seen, batches, ended>>

\* A task ends and its completion is drained and recorded.
RecordTaskCompletion(task) ==
    /\ task \in DOMAIN submitted \ ended
    /\ ended' = ended \cup {task}
    /\ graph' = [graph EXCEPT !.tasks[requests[submitted[task]].name] = @ \ {task}]
    /\ UNCHANGED <<requests, unscheduled, seen, batches, place, submitted, refused>>

BatchInit ==
    /\ requests \in RequestLists
    /\ unscheduled = Requests /\ seen = {} /\ batches = <<<<>>>>
    /\ place = <<1, 1>> /\ submitted = <<>> /\ refused = FALSE /\ ended = {}
    /\ graph = [tasks |-> [n \in Names |-> {}], readers |-> [r \in Resources |-> {}],
                writer |-> [r \in Resources |-> NoWriter], constraints |-> {}]

BatchNext ==
    \/ \E i \in Requests : Consider(i)
    \/ CloseBatch
    \/ Submit
    \/ \E task \in DOMAIN submitted : RecordTaskCompletion(task)

BatchSpec == BatchInit /\ [][BatchNext]_batchVars

----------------------------------------------------------------------------
(* Properties *)

Exclude(i, j) ==
    \E r \in Uses(i) \cap Uses(j) : {AccessOf(i, r), AccessOf(j, r)} # {"Immutable"}

\* In whatever order the hash set gives them out, every request is in one batch, the systems
\* of a batch do not exclude each other, and a request is put off only for one that excludes it.
BatchesExact ==
    LET closed == IF Planning THEN Len(batches) - 1 ELSE Len(batches)
    IN  /\ \A b \in DOMAIN batches : \A m, n \in DOMAIN batches[b] :
               m # n => ~Exclude(batches[b][m], batches[b][n])
        /\ ~Planning => \A i \in Requests : \E p \in Places :
               {q \in Places : batches[q[1]][q[2]] = i} = {p}
        /\ \A b \in 1..closed, i \in Requests :
               (\A c \in 1..b : i \notin ToSet(batches[c]))
               => \E j \in ToSet(batches[b]) : Exclude(i, j)

\* The dependency graph never counts a reader beside a writer of a resource
\* (update_dependency_graph), and orders only tasks of one system, the older first.
UsageExclusive ==
    /\ \A r \in Resources : graph.writer[r] # NoWriter => graph.readers[r] = {}
    /\ \A c \in graph.constraints :
           c[1] < c[2] /\ requests[submitted[c[1]]].name = requests[submitted[c[2]]].name
=============================================================================
