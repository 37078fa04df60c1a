--------------------------- MODULE MCRuntimeTables ---------------------------
(***************************************************************************)
(* The asynchronous runtime, and a table with computed columns that its    *)
(* systems may use.  The two share no state in the models, so a behaviour  *)
(* is one of one of them, and fairness is that of AsyncRuntime.            *)
(***************************************************************************)
EXTENDS MCAsyncRuntime, MCComputedColumns

VARIABLE part

RuntimeTablesInit == part \in {"runtime", "table"} /\ Init /\ ComputedInit

RuntimeTablesNext ==
    \/ part = "runtime" /\ Next /\ UNCHANGED <<computedVars, part>>
    \/ part = "table" /\ ComputedNext /\ UNCHANGED <<vars, part>>

RuntimeTablesSpec ==
    /\ RuntimeTablesInit /\ [][RuntimeTablesNext]_<<vars, computedVars, part>>
    /\ \A j \in Tickers : WF_vars(part = "runtime" /\ TickerStep(j))
    /\ \A t \in Tasks :
          /\ WF_vars(part = "runtime" /\ Client(t))
          /\ WF_vars(part = "runtime" /\ CancelRest(t))
==============================================================================
