----------------------------- MODULE MCDaemon --------------------------------
(***************************************************************************)
(* Instances of RetifDaemon for TLC, over one plugin on one or two cores:  *)
(* what the daemon does with reservations depends on the plugin only in    *)
(* that a request is granted or refused.  FP grants every request.         *)
(***************************************************************************)
EXTENDS RetifDaemon

FpOne    == <<[id |-> 1, kind |-> "FP", name |-> "FP", cpulist |-> <<0>>,
               prio_min |-> 1, prio_max |-> 99]>>
FpParams == {[runtime |-> 0, des_runtime |-> 0, period |-> 0, deadline |-> 0, priority |-> 50,
              sched_plugin |-> NoPlugin, ignore_admission |-> FALSE]}

\* An EDF plugin on one core; a task of half a CPU, and one of two CPUs: refused.
EdfOne    == <<[FpOne[1] EXCEPT !.kind = "EDF", !.name = "EDF"]>>
EdfParams == [runtime : {6, 24}, des_runtime : {0}, period : {12}, deadline : {12}, priority : {50},
              sched_plugin : {NoPlugin}, ignore_admission : {FALSE}]

\* FP on two cores.
FpTwo    == <<[FpOne[1] EXCEPT !.cpulist = <<0, 1>>]>>

\* A modify request whose bytes name reservation 1 (see rsvid).
Modify1  == {[p EXCEPT !.runtime = Word] : p \in FpParams}

==============================================================================
