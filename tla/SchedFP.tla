------------------------------- MODULE SchedFP -------------------------------
(***************************************************************************)
(* plugins/sched_FP.c: fixed priorities on SCHED_FIFO.                     *)
(***************************************************************************)
EXTENDS RetifPlugin

Policy == "FIFO"

least_loaded_cpu(g, pl) == least_loaded_by_count(g, pl)

prio_remap(g, prio) ==
  g.prio_min + ((g.prio_max - g.prio_min) * (prio - 1)) \div 98

rtf_plg_task_accept(g, pl, p) ==
  IF (~p.ignore_admission /\ p.priority = 0) \/ has_another_preference(g, p)
  THEN RTF_PARTIAL ELSE RTF_OK

rtf_plg_task_change(g, pl, t) == rtf_plg_task_accept(g, pl, t.params)

\* Mutant: the task is not told which plugin holds it.
MutSchedule(g, pl, task, id) ==
  LET cpu == least_loaded_cpu(g, pl)
  IN  [pl   |-> [pl EXCEPT !.count[cpu] = @ + 1],
       task |-> [task EXCEPT ![id] = [@ EXCEPT !.cpu = cpu, !.schedprio = g.prio_min]]]

rtf_plg_task_schedule(g, pl, task, id) ==
  LET cpu == least_loaded_cpu(g, pl)
      p   == task[id].params
  IN  [pl   |-> [pl EXCEPT !.count[cpu] = @ + 1],
       task |-> [task EXCEPT ![id] = [@ EXCEPT !.cpu = cpu, !.pluginid = g.id,
                   !.schedprio = IF p.priority = 0 THEN g.prio_min
                                 ELSE prio_remap(g, p.priority)]]]

\* Mutant: the task is still counted.
MutRelease(g, pl, task, id) == pl

rtf_plg_task_release(g, pl, task, id) == [pl EXCEPT !.count[task[id].cpu] = @ - 1]

==============================================================================
