------------------------------- MODULE Kernel --------------------------------
(***************************************************************************)
(* The part of the operating system the plugins call: the scheduling       *)
(* policy, priority and affinity of each thread.  External to the          *)
(* repository; modelled from how plugins/sched_*.c use it.                 *)
(***************************************************************************)
EXTENDS Integers

CONSTANTS Cpus,        \* the CPUs of the machine, 0 .. get_nprocs2() - 1
          Tids         \* the client threads that may be attached, all > 0

ASSUME KernelAssumption == Cpus \subseteq Nat /\ Tids \subseteq Nat \ {0}

Self    == 0           \* tid 0 names the calling thread, the daemon itself
Threads == Tids \cup {Self}

Policies == {"OTHER", "FIFO", "RR", "DEADLINE"}
Gone     == "gone"     \* the thread has exited: every call on it fails

ThreadType == [policy : Policies \cup {Gone}, prio : Int, cpus : SUBSET Cpus]

Normal == [policy |-> "OTHER", prio |-> 0, cpus |-> Cpus]
Exited == [policy |-> Gone, prio |-> 0, cpus |-> {}]

RtPrios == 1..99       \* sched_get_priority_min .. max of SCHED_FIFO, SCHED_RR

(***************************************************************************)
(* What the system answers to the two calls an attach makes: both succeed, *)
(* the affinity is refused, or the policy is refused.                      *)
(***************************************************************************)
SysOutcomes == {"ok", "noaffinity", "nopolicy"}

AffinityFails(k, tid, sys) == k[tid].policy = Gone \/ sys = "noaffinity"

PolicyFails(policy, prio, sys) ==
  sys = "nopolicy" \/ (policy # "DEADLINE" /\ prio \notin RtPrios)

(***************************************************************************)
(* sched_setaffinity followed by sched_setscheduler / sched_setattr: the   *)
(* affinity stays changed when only the second call fails.                 *)
(***************************************************************************)
Pinned(k, tid, cpu) == [k EXCEPT ![tid].cpus = {cpu}]

MadeRealTime(k, tid, cpu, policy, prio) ==
  [k EXCEPT ![tid] = [policy |-> policy, prio |-> prio, cpus |-> {cpu}]]

(***************************************************************************)
(* Back to SCHED_OTHER on every CPU; nothing happens to a dead thread.     *)
(***************************************************************************)
MadeNormal(k, tid) ==
  IF k[tid].policy = Gone THEN k ELSE [k EXCEPT ![tid] = Normal]

==============================================================================
