-------------------------- MODULE MCTableServices --------------------------
(***************************************************************************)
(* What answers queries: the executor, the asynchronous runtime and its    *)
(* futures.  They share no state, so a behaviour is one of one of them.    *)
(***************************************************************************)
EXTENDS MCQueryExecutor, AsyncTable, QueryFuture

CONSTANTS t1, t2, ra, rb

\* Batches that overlap late, that do not overlap, and that join a table with itself.
MCBatches == {<<<<ra>>, <<rb>>>>, <<<<ra>>, <<rb>>, <<rb, ra>>>>, <<<<ra, ra>>>>}

VARIABLE service

idleExecutor == db = [n \in {} |-> NewTable] /\ flags = None /\ query = None /\ plan = None /\ answer = None

servicesVars == <<queryVars, asyncVars, futureVars, service>>

ServicesInit ==
    /\ AsyncInit /\ FutureInit
    /\ \/ service = "executor" /\ QueryInit
       \/ service \in {"async", "future"} /\ idleExecutor

ServicesNext ==
    \/ service = "executor" /\ QueryNext /\ UNCHANGED <<asyncVars, futureVars, service>>
    \/ service = "async" /\ AsyncNext /\ UNCHANGED <<queryVars, futureVars, service>>
    \/ service = "future" /\ FutureNext /\ UNCHANGED <<queryVars, asyncVars, service>>

ServicesSpec == ServicesInit /\ [][ServicesNext]_servicesVars
=============================================================================
