----------------------------- MODULE MCThreads -------------------------------
(***************************************************************************)
(* The instances of MCScheduler, for the runs about attached threads.      *)
(***************************************************************************)
EXTENDS MCScheduler, ThreadClaims

==============================================================================
