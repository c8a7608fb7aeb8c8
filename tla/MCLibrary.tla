------------------------------ MODULE MCLibrary ------------------------------
(***************************************************************************)
(* An instance of Monitor for TLC: a process with two threads, and the     *)
(* monitor.                                                                *)
(***************************************************************************)
EXTENDS Monitor

\* Runtimes that differ from each other and from every id.
Runtimes == [t \in Threads |-> 10 * t]

==============================================================================
