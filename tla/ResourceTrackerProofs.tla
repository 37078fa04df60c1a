------------------------ MODULE ResourceTrackerProofs ------------------------
(* What granting and giving back claims does to a borrow table, for any number *)
(* of systems and resources: the lemmas of every component that keeps one.     *)
EXTENDS ResourceTracker, TLAPS

\* The table stays a table when claims are added or given back.
LEMMA TrackerType ==
    ASSUME NEW t \in Tracker, NEW s \in Systems, NEW C \in SUBSET Claim
    PROVE  Acquire(t, s, C) \in Tracker /\ Release(t, s, C) \in Tracker
BY DEF Tracker, Acquire, Release

\* Granting claims that all pass the check keeps the aliasing rule.
LEMMA AcquireSafe ==
    ASSUME NEW t \in Tracker, NEW s \in Systems, NEW C \in SUBSET Claim,
           BorrowSafe(t), \A c \in C : CanAccess(t, c[1], s, c[2])
    PROVE  BorrowSafe(Acquire(t, s, C))
<1> SUFFICES ASSUME NEW r \in Resources
             PROVE  LET u == Acquire(t, s, C)
                    IN /\ u.mutable[r] # NoSystem => /\ u.immutable[r] \subseteq {u.mutable[r]}
                                                     /\ u.owned[r] \in {NoSystem, u.mutable[r]}
                       /\ u.owned[r] # NoSystem => u.immutable[r] \subseteq {u.owned[r]}
  BY DEF BorrowSafe
<1>1. /\ <<r, "Immutable">> \in C => CanAccess(t, r, s, "Immutable")
      /\ <<r, "Mutable">> \in C => CanAccess(t, r, s, "Mutable")
      /\ <<r, "Owned">> \in C => CanAccess(t, r, s, "Owned")
  OBVIOUS
<1>2. QED
  BY <1>1, NoSystemAssumption DEF Acquire, CanAccess, FreeFor, BorrowSafe, Tracker

\* Giving claims back keeps it too.
LEMMA ReleaseSafe ==
    ASSUME NEW t \in Tracker, NEW s \in Systems, NEW C \in SUBSET Claim, BorrowSafe(t)
    PROVE  BorrowSafe(Release(t, s, C))
BY NoSystemAssumption DEF Release, BorrowSafe, Tracker

\* Claims that pass the check are added to what s holds, and cost nobody theirs.
LEMMA AcquireGrants ==
    ASSUME NEW t \in Tracker, NEW s \in Systems, NEW C \in SUBSET Claim,
           \A c \in C : CanAccess(t, c[1], s, c[2])
    PROVE  /\ HeldBy(Acquire(t, s, C), s) = HeldBy(t, s) \cup C
           /\ \A u \in Systems \ {s} : HeldBy(Acquire(t, s, C), u) = HeldBy(t, u)
<1>1. \A c \in Claim : c = <<c[1], c[2]>> /\ c[1] \in Resources /\ c[2] \in Access
  BY DEF Claim
<1>2. ASSUME NEW c \in Claim
      PROVE  c \in HeldBy(Acquire(t, s, C), s) <=> c \in HeldBy(t, s) \/ c \in C
  BY <1>1, NoSystemAssumption DEF HeldBy, Acquire, CanAccess, FreeFor, Tracker, Access
<1>3. ASSUME NEW u \in Systems \ {s}, NEW c \in Claim
      PROVE  c \in HeldBy(Acquire(t, s, C), u) <=> c \in HeldBy(t, u)
  <2>1. c[1] \in Resources
    BY <1>1
  <2>2. <<c[1], "Mutable">> \in C => t.mutable[c[1]] # u
    BY NoSystemAssumption DEF CanAccess, FreeFor
  <2>3. <<c[1], "Owned">> \in C => t.owned[c[1]] # u
    BY NoSystemAssumption DEF CanAccess, FreeFor
  <2>4. QED
    BY <2>1, <2>2, <2>3 DEF HeldBy, Acquire
<1>4. QED
  BY <1>2, <1>3 DEF HeldBy

\* Only what is released goes, and only from its holder.
LEMMA ReleaseGrants ==
    ASSUME NEW t \in Tracker, NEW s \in Systems, NEW C \in SUBSET Claim
    PROVE  /\ HeldBy(Release(t, s, C), s) = HeldBy(t, s) \ C
           /\ \A u \in Systems \ {s} : HeldBy(Release(t, s, C), u) = HeldBy(t, u)
<1>1. \A c \in Claim : c = <<c[1], c[2]>> /\ c[1] \in Resources /\ c[2] \in Access
  BY DEF Claim
<1>2. ASSUME NEW c \in Claim
      PROVE  c \in HeldBy(Release(t, s, C), s) <=> c \in HeldBy(t, s) /\ c \notin C
  BY <1>1, NoSystemAssumption DEF HeldBy, Release, Tracker, Access
<1>3. ASSUME NEW u \in Systems \ {s}, NEW c \in Claim
      PROVE  c \in HeldBy(Release(t, s, C), u) <=> c \in HeldBy(t, u)
  BY <1>1, NoSystemAssumption DEF HeldBy, Release, Tracker
<1>4. QED
  BY <1>2, <1>3 DEF HeldBy

\* The aliasing rule is about systems: what two of them hold is compatible.
LEMMA SafeIsCompatible ==
    ASSUME NEW t \in Tracker, BorrowSafe(t), NEW s \in Systems, NEW u \in Systems \ {s},
           NEW c \in HeldBy(t, s), NEW d \in HeldBy(t, u)
    PROVE  Compatible(c, d)
<1>1. c[1] \in Resources /\ c[2] \in Access /\ d[1] \in Resources /\ d[2] \in Access
  BY DEF HeldBy, Claim
<1>2. QED
  BY <1>1, NoSystemAssumption DEF HeldBy, Compatible, BorrowSafe, Access

\* Claims that pass the check are compatible with all that the others hold.
LEMMA CheckedIsCompatible ==
    ASSUME NEW t \in Tracker, NEW s \in Systems, NEW u \in Systems \ {s}, NEW C \in SUBSET Claim,
           \A c \in C : CanAccess(t, c[1], s, c[2]),
           NEW c \in C, NEW d \in HeldBy(t, u)
    PROVE  Compatible(c, d)
<1>1. CanAccess(t, c[1], s, c[2]) /\ c[1] \in Resources /\ u # NoSystem
  BY NoSystemAssumption DEF Claim
<1>2. QED
  BY <1>1 DEF CanAccess, FreeFor, HeldBy, Compatible
==============================================================================
