-------------------------- MODULE ResourceTracker --------------------------
(***************************************************************************)
(* The borrow table of the scheduler (scheduler.rs, ResourceTracker): who  *)
(* reads, who writes and who owns each resource.  A tracker is a value, so *)
(* that every component that keeps one (the scheduler, the async runtime)  *)
(* uses the same operators on a variable of its own.                       *)
(*                                                                         *)
(* The three hash maps are total functions here: a resource that is no key *)
(* of immutable_borrows maps to {}, one that is no key of the other two to *)
(* NoSystem.  The code removes an entry whose set gets empty, so the two   *)
(* readings agree.                                                         *)
(***************************************************************************)
EXTENDS FiniteSets

CONSTANTS Systems,    \* names of systems, the holders of borrows
          Resources,  \* names of resource parameters
          NoSystem    \* the absent entry of a map

ASSUME NoSystemAssumption == NoSystem \notin Systems

Access == {"Immutable", "Mutable", "Owned"}

\* A declared use of a resource; a system's definition yields a set of them.
Claim == Resources \X Access

Tracker == [immutable : [Resources -> SUBSET Systems],
            mutable   : [Resources -> Systems \cup {NoSystem}],
            owned     : [Resources -> Systems \cup {NoSystem}]]

EmptyTracker == [immutable |-> [r \in Resources |-> {}],
                 mutable   |-> [r \in Resources |-> NoSystem],
                 owned     |-> [r \in Resources |-> NoSystem]]

----------------------------------------------------------------------------
FreeFor(holder, s) == holder \in {NoSystem, s}

\* Mutant of CanAccess: a writer does not look for readers.
CanAccessPastReaders(t, r, s, a) ==
    \/ /\ a \in {"Immutable", "Mutable"}
       /\ FreeFor(t.mutable[r], s)
       /\ FreeFor(t.owned[r], s)
    \/ /\ a = "Owned"
       /\ t.immutable[r] = {}
       /\ t.mutable[r] = NoSystem
       /\ FreeFor(t.owned[r], s)

\* Mutant of CanAccess: a reader does not look for the writer.
CanAccessPastWriter(t, r, s, a) ==
    \/ a = "Immutable" /\ FreeFor(t.owned[r], s)
    \/ /\ a \in {"Mutable", "Owned"}
       /\ t.immutable[r] \subseteq {s}
       /\ FreeFor(t.mutable[r], s)
       /\ FreeFor(t.owned[r], s)

CanAccess(t, r, s, a) ==
    \/ /\ a = "Immutable"
       /\ FreeFor(t.mutable[r], s)
       /\ FreeFor(t.owned[r], s)
    \/ /\ a = "Mutable"
       /\ t.immutable[r] \subseteq {s}
       /\ FreeFor(t.mutable[r], s)
       /\ FreeFor(t.owned[r], s)
    \/ /\ a = "Owned"
       /\ t.immutable[r] = {}
       /\ t.mutable[r] = NoSystem
       /\ FreeFor(t.owned[r], s)

\* add_access for every claim in C: each has passed CanAccess, and the claims
\* of a definition name different resources, so no order of them matters.
Acquire(t, s, C) ==
    [immutable |-> [r \in Resources |-> IF <<r, "Immutable">> \in C
                                        THEN t.immutable[r] \cup {s}
                                        ELSE t.immutable[r]],
     mutable   |-> [r \in Resources |-> IF <<r, "Mutable">> \in C THEN s ELSE t.mutable[r]],
     owned     |-> [r \in Resources |-> IF <<r, "Owned">> \in C THEN s ELSE t.owned[r]]]

\* Mutants of Release: only the writers, or only the readers, are taken out.
ReleaseWriters(t, s, C) ==
    [t EXCEPT !.mutable = [r \in Resources |-> IF <<r, "Mutable">> \in C /\ @[r] = s
                                               THEN NoSystem ELSE @[r]]]
ReleaseReaders(t, s, C) ==
    [t EXCEPT !.immutable = [r \in Resources |-> IF <<r, "Immutable">> \in C
                                                 THEN @[r] \ {s} ELSE @[r]]]

\* remove_access for every claim in C: only what s itself holds is given back.
Release(t, s, C) ==
    [immutable |-> [r \in Resources |-> IF <<r, "Immutable">> \in C
                                        THEN t.immutable[r] \ {s}
                                        ELSE t.immutable[r]],
     mutable   |-> [r \in Resources |-> IF <<r, "Mutable">> \in C /\ t.mutable[r] = s
                                        THEN NoSystem ELSE t.mutable[r]],
     owned     |-> [r \in Resources |-> IF <<r, "Owned">> \in C /\ t.owned[r] = s
                                        THEN NoSystem ELSE t.owned[r]]]

----------------------------------------------------------------------------
\* What s holds, as the claims it was granted.
HeldBy(t, s) ==
    {c \in Claim : \/ c[2] = "Immutable" /\ s \in t.immutable[c[1]]
                   \/ c[2] = "Mutable" /\ t.mutable[c[1]] = s
                   \/ c[2] = "Owned" /\ t.owned[c[1]] = s}

\* Two claims may be held at once only on different resources, or both to read.
Compatible(c, d) == c[1] = d[1] => c[2] = "Immutable" /\ d[2] = "Immutable"

\* Rust's aliasing rule, between different systems.
BorrowSafe(t) ==
    \A r \in Resources :
        /\ t.mutable[r] # NoSystem => /\ t.immutable[r] \subseteq {t.mutable[r]}
                                      /\ t.owned[r] \in {NoSystem, t.mutable[r]}
        /\ t.owned[r] # NoSystem => t.immutable[r] \subseteq {t.owned[r]}
============================================================================
