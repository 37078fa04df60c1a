--------------------------- MODULE MCAsyncRuntime ---------------------------
(* Small instances of AsyncRuntime for TLC. *)
EXTENDS AsyncRuntime, TLC

CONSTANTS t1, t2, t3, s1, s2, s3, r1, r2

\* Each task runs a system of its own.
OwnSystem == [t \in Tasks |-> CHOOSE s \in Systems : <<t, s>> \in {<<t1, s1>>, <<t2, s2>>, <<t3, s3>>}]

\* A reader of one resource beside a writer that reads it before it writes another.
Sharing == [s \in Systems |-> IF s = s1 THEN <<<<r2, "Immutable">>>>
                                        ELSE <<<<r1, "Mutable">>, <<r2, "Mutable">>>>]

ReadersOnly == [s \in Systems |-> <<<<r1, "Immutable">>>>]

TickersAlike == Permutations(Tickers)
============================================================================
