----------------------------- MODULE RetifPlugin -----------------------------
(***************************************************************************)
(* What the four scheduling plugins share: the state the daemon keeps for  *)
(* a plugin (struct rtf_plugin and the static arrays of its .so), the      *)
(* helpers every sched_*.c repeats, and the thread calls of attach,        *)
(* detach and release.                                                     *)
(*                                                                         *)
(* A plugin's configuration g is a record                                  *)
(*   [id, kind, name, cpulist, prio_min, prio_max]                         *)
(* and its state pl a record                                               *)
(*   free[c]    util_free_percpu, in parts of Unit                         *)
(*   count[c]   task_count_percpu                                          *)
(*   tasks[c]   the plugin's own sorted list of the tasks on CPU c         *)
(*   dist[c]    dist_prio, an unsigned int                                 *)
(*   nper[c][p] n_per_prio, the tasks on c that declared priority p        *)
(* The code indexes all of them by CPU number, and sizes free, count and   *)
(* tasks by the length of cpulist.                                         *)
(***************************************************************************)
EXTENDS RetifTask, Kernel, Sequences, FiniteSets, SequencesExt

CONSTANTS Prios,       \* the priorities a client may declare
          Word         \* 2^32 in the code: where an unsigned int wraps

ASSUME PluginAssumption ==
  /\ Prios \subseteq Nat
  /\ Word \in Nat \ {0, 1}

(***************************************************************************)
(* A reservation (struct rtf_task).  pluginid is the index of the plugin   *)
(* that holds it; tid is 0 until a thread is attached.                     *)
(***************************************************************************)
NewTask(tp, ppid) ==
  [ptid |-> ppid, tid |-> Self, pluginid |-> 0, cpu |-> 0, schedprio |-> 0,
   acceptedt |-> 0, acceptedu |-> 0, params |-> tp]

(***************************************************************************)
(* Static preference test, the same in every plugin.                       *)
(***************************************************************************)
has_another_preference(g, p) == p.sched_plugin \notin {NoPlugin, g.name}

(***************************************************************************)
(* The CPU the loop of least_loaded_cpu returns.  The loop compares every  *)
(* CPU with the first of cpulist only: the best value is never updated, so *)
(* the last CPU better than the first one wins.                            *)
(***************************************************************************)
LastBetterThanFirst(g, Better(_, _)) ==
  LET better == {i \in 2..Len(g.cpulist) : Better(g.cpulist[i], g.cpulist[1])}
  IN  IF better = {} THEN g.cpulist[1] ELSE g.cpulist[Max(better)]

\* Mutants: the comparison is the wrong way round.
MutByUtil(g, pl)  == LastBetterThanFirst(g, LAMBDA c, d : pl.free[c] < pl.free[d])
MutByCount(g, pl) == LastBetterThanFirst(g, LAMBDA c, d : pl.count[c] > pl.count[d])

(***************************************************************************)
(* sched_EDF.c and sched_RM.c: the CPU with the most free utilisation.     *)
(***************************************************************************)
least_loaded_by_util(g, pl) ==
  LastBetterThanFirst(g, LAMBDA c, d : pl.free[c] > pl.free[d])

(***************************************************************************)
(* sched_RR.c and sched_FP.c: the CPU with the fewest tasks.               *)
(***************************************************************************)
least_loaded_by_count(g, pl) ==
  LastBetterThanFirst(g, LAMBDA c, d : pl.count[c] < pl.count[d])

(***************************************************************************)
(* How much utilisation is missing for a task to fit on some CPU.          *)
(***************************************************************************)
eval_util_missing(g, pl, util) ==
  IF \E i \in 1..Len(g.cpulist) : util <= pl.free[g.cpulist[i]]
  THEN 0
  ELSE util - pl.free[least_loaded_by_util(g, pl)]

utilization_test(g, pl, util) ==
  IF eval_util_missing(g, pl, util) = 0 THEN RTF_OK ELSE RTF_NO

(***************************************************************************)
(* list_add_sorted: the new element goes before the first element it does  *)
(* not exceed, hence before its equals.                                    *)
(***************************************************************************)
SortedPosition(s, Exceeds(_)) ==
  LET stops == {i \in 1..Len(s) : ~Exceeds(s[i])}
  IN  IF stops = {} THEN Len(s) + 1 ELSE Min(stops)

(***************************************************************************)
(* rtf_plg_task_attach with an already computed policy and priority.       *)
(***************************************************************************)
AttachResult(t, k, policy, sys) ==
  IF AffinityFails(k, t.tid, sys) \/ PolicyFails(policy, t.schedprio, sys)
  THEN RTF_ERROR ELSE RTF_OK

AttachThread(t, k, policy, sys) ==
  IF AffinityFails(k, t.tid, sys) THEN k
  ELSE IF PolicyFails(policy, t.schedprio, sys) THEN Pinned(k, t.tid, t.cpu)
  ELSE MadeRealTime(k, t.tid, t.cpu, policy,
                    IF policy = "DEADLINE" THEN 0 ELSE t.schedprio)

(***************************************************************************)
(* rtf_plg_task_detach.                                                    *)
(***************************************************************************)
DetachThread(t, k) == MadeNormal(k, t.tid)

DetachResult(t, k) == IF k[t.tid].policy = Gone THEN RTF_ERROR ELSE RTF_OK

\* Mutant: the policy test is negated.
MutReleaseThread(t, k, policy) ==
  IF k[t.tid].policy = policy THEN k ELSE DetachThread(t, k)

(***************************************************************************)
(* The end of rtf_plg_task_release: a thread found under the plugin's own  *)
(* policy is taken to be attached, and is detached.                        *)
(***************************************************************************)
ReleaseThread(t, k, policy) ==
  IF k[t.tid].policy # policy THEN k ELSE DetachThread(t, k)

==============================================================================
