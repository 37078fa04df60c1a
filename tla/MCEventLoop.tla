---------------------------- MODULE MCEventLoop ----------------------------
(* Small instances of EventLoop for TLC. *)
EXTENDS EventLoop, TLC

CONSTANT sys

\* Requests are built with the normal priority (main.rs).
AllNormal == [t \in Systems |-> Normal]

LateEvents == {[kind |-> k, task |-> sys] : k \in {"Yield", "Available"}}
============================================================================
