------------------------------ MODULE SchedEDF -------------------------------
(***************************************************************************)
(* plugins/sched_EDF.c: partitioned EDF on SCHED_DEADLINE.                 *)
(***************************************************************************)
EXTENDS RetifPlugin

Policy == "DEADLINE"

least_loaded_cpu(g, pl) == least_loaded_by_util(g, pl)

desired_utilization_test(g, pl, util, des_util) ==
  IF eval_util_missing(g, pl, des_util) = 0 THEN RTF_OK
  ELSE IF eval_util_missing(g, pl, util) = 0 THEN RTF_PARTIAL
  ELSE RTF_NO

(***************************************************************************)
(* rtf_plg_task_accept: the admission test for parameters p.               *)
(***************************************************************************)
rtf_plg_task_accept(g, pl, p) ==
  IF p.ignore_admission \/ p.period = 0 \/ get_util(p) = NoUtil
  THEN RTF_NO
  ELSE LET test == IF get_des_util(p) = NoUtil
                   THEN utilization_test(g, pl, get_util(p))
                   ELSE desired_utilization_test(g, pl, get_util(p), get_des_util(p))
       IN  IF has_another_preference(g, p) /\ test = RTF_OK THEN RTF_PARTIAL ELSE test

(***************************************************************************)
(* rtf_plg_task_change: the same test, without the task's own utilisation  *)
(* when the plugin already holds the task.                                 *)
(***************************************************************************)
rtf_plg_task_change(g, pl, t) ==
  IF t.pluginid = g.id
  THEN rtf_plg_task_accept(g, [pl EXCEPT !.free[t.cpu] = @ + t.acceptedu], t.params)
  ELSE rtf_plg_task_accept(g, pl, t.params)

\* Mutant: a desired runtime that does not fit is booked all the same.
MutGranted(g, pl, p) ==
  IF get_des_util(p) = NoUtil THEN [t |-> p.runtime, u |-> get_util(p)]
  ELSE [t |-> p.des_runtime, u |-> get_des_util(p)]

(***************************************************************************)
(* What rtf_plg_task_schedule grants: the runtime and the utilisation it   *)
(* books.  A desired runtime that fits is granted, yet only the minimum    *)
(* utilisation is booked; one that does not fit gets what is left.         *)
(***************************************************************************)
Granted(g, pl, p) ==
  LET min  == get_min_declared(p)
      left == (pl.free[least_loaded_cpu(g, pl)] * min) \div Unit
  IN  IF get_des_util(p) = NoUtil
      THEN [t |-> p.runtime, u |-> get_util(p)]
      ELSE IF desired_utilization_test(g, pl, get_util(p), get_des_util(p)) = RTF_OK
      THEN [t |-> p.des_runtime, u |-> get_util(p)]
      ELSE [t |-> left, u |-> (left * Unit) \div min]

\* Mutant: the minimum utilisation is taken, whatever is granted.
MutSchedule(g, pl, task, id) ==
  LET cpu   == least_loaded_cpu(g, pl)
      grant == Granted(g, pl, task[id].params)
  IN  [pl   |-> [pl EXCEPT !.free[cpu] = @ - get_util(task[id].params), !.count[cpu] = @ + 1],
       task |-> [task EXCEPT ![id] = [@ EXCEPT !.cpu = cpu, !.pluginid = g.id,
                                      !.acceptedt = grant.t, !.acceptedu = grant.u]]]

(***************************************************************************)
(* rtf_plg_task_schedule: the new plugin state and task table.             *)
(***************************************************************************)
rtf_plg_task_schedule(g, pl, task, id) ==
  LET cpu   == least_loaded_cpu(g, pl)
      grant == Granted(g, pl, task[id].params)
  IN  [pl   |-> [pl EXCEPT !.free[cpu] = @ - grant.u, !.count[cpu] = @ + 1],
       task |-> [task EXCEPT ![id] = [@ EXCEPT !.cpu = cpu, !.pluginid = g.id,
                                      !.acceptedt = grant.t, !.acceptedu = grant.u]]]

rtf_plg_task_release(g, pl, task, id) ==
  LET t == task[id]
  IN  [pl EXCEPT !.free[t.cpu] = @ + t.acceptedu, !.count[t.cpu] = @ - 1]

==============================================================================
