------------------------------- MODULE SchedRR -------------------------------
(***************************************************************************)
(* plugins/sched_RR.c: fixed priorities on SCHED_RR.  The plugin keeps,    *)
(* for each CPU, its tasks sorted by ascending declared priority, and the  *)
(* number of tasks at each declared priority.                              *)
(***************************************************************************)
EXTENDS RetifPlugin

Policy == "RR"

least_loaded_cpu(g, pl) == least_loaded_by_count(g, pl)

(***************************************************************************)
(* prio_remap: scale the POSIX range 1..99 onto the plugin's window.  The  *)
(* difference prio - 1 is unsigned: priority 0 wraps around.               *)
(***************************************************************************)
prio_remap(g, prio) ==
  g.prio_min + ((g.prio_max - g.prio_min + 1) * ((prio - 1) % Word)) \div 99

Level(list, task, i) ==
  Cardinality({j \in 2..i : task[list[j]].params.priority
                              # task[list[j - 1]].params.priority})

assign_priorities(g, list, dist, task) ==
  LET wide     == dist > g.prio_max - g.prio_min + 1
      prio(x)  == IF wide THEN prio_remap(g, task[x].params.priority)
                  ELSE g.prio_min
                       + Level(list, task, CHOOSE i \in 1..Len(list) : list[i] = x)
  IN  [x \in DOMAIN task |->
        IF x \in ToSet(list) THEN [task[x] EXCEPT !.schedprio = prio(x)] ELSE task[x]]

rtf_plg_task_accept(g, pl, p) ==
  IF (~p.ignore_admission /\ p.priority = 0) \/ has_another_preference(g, p)
  THEN RTF_PARTIAL ELSE RTF_OK

rtf_plg_task_change(g, pl, t) == rtf_plg_task_accept(g, pl, t.params)

(***************************************************************************)
(* rtf_plg_task_schedule: insert into the CPU's list.  The first task of a *)
(* priority makes all priorities of the CPU be assigned anew; another one  *)
(* copies the real priority of the node it was inserted before.            *)
(***************************************************************************)
PlaceOf(g, pl, task, id) ==
  SortedPosition(pl.tasks[least_loaded_cpu(g, pl)],
                 LAMBDA x : cmp_priority_asc(task[id].params, task[x].params) > 0)

FirstOfPriority(g, pl, task, id) ==
  pl.nper[least_loaded_cpu(g, pl)][task[id].params.priority] + 1 = 1

rtf_plg_task_schedule(g, pl, task, id) ==
  LET cpu    == least_loaded_cpu(g, pl)
      prio   == task[id].params.priority
      at     == PlaceOf(g, pl, task, id)
      first  == FirstOfPriority(g, pl, task, id)
      list   == InsertAt(pl.tasks[cpu], at, id)
      dist   == IF first THEN (pl.dist[cpu] + 1) % Word ELSE pl.dist[cpu]
      booked == [task EXCEPT ![id] = [@ EXCEPT !.cpu = cpu, !.pluginid = g.id]]
  IN  [pl    |-> [pl EXCEPT !.tasks[cpu] = list, !.dist[cpu] = dist,
                            !.nper[cpu][prio] = @ + 1, !.count[cpu] = @ + 1],
       task  |-> IF first THEN assign_priorities(g, list, dist, booked)
                 ELSE IF at > Len(pl.tasks[cpu]) THEN booked
                 ELSE [booked EXCEPT ![id].schedprio = task[list[at + 1]].schedprio]]

(***************************************************************************)
(* That copy does not ask whether there is a next node: the code           *)
(* dereferences NULL, and dies, when the task went to the end of the list. *)
(***************************************************************************)
next_is_null(g, pl, task, id) ==
  /\ ~FirstOfPriority(g, pl, task, id)
  /\ PlaceOf(g, pl, task, id) > Len(pl.tasks[least_loaded_cpu(g, pl)])

\* Mutant: dist_prio is not decremented.
MutReleaseDist(g, pl, task, id) ==
  LET t == task[id]
  IN  [pl EXCEPT !.count[t.cpu] = @ - 1, !.nper[t.cpu][t.params.priority] = @ - 1,
                 !.tasks[t.cpu] = RemoveFirst(@, id)]

rtf_plg_task_release(g, pl, task, id) ==
  LET t    == task[id]
      nper == pl.nper[t.cpu][t.params.priority] - 1
  IN  [pl EXCEPT !.count[t.cpu] = @ - 1,
                 !.nper[t.cpu][t.params.priority] = nper,
                 !.dist[t.cpu]  = IF nper = 0 THEN (@ - 1) % Word ELSE @,
                 !.tasks[t.cpu] = RemoveFirst(@, id)]

==============================================================================
