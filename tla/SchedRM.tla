------------------------------- MODULE SchedRM -------------------------------
(***************************************************************************)
(* plugins/sched_RM.c: partitioned Rate Monotonic on SCHED_FIFO.  The      *)
(* plugin keeps, for each CPU, its tasks sorted by descending period, and  *)
(* gives them rising priorities along that list.                           *)
(***************************************************************************)
EXTENDS RetifPlugin

Policy == "FIFO"

least_loaded_cpu(g, pl) == least_loaded_by_util(g, pl)

(***************************************************************************)
(* prio_remap: the float slope times prio, truncated.                      *)
(***************************************************************************)
prio_remap(g, dist, prio) ==
  g.prio_min + ((g.prio_max - g.prio_min + 1) * prio) \div (dist - 1)

(***************************************************************************)
(* assign_priorities walks the list of a CPU.  Each change of period along *)
(* it is the next level: consecutive priorities from prio_min while the    *)
(* counter dist_prio says they fit the window, remapped ones otherwise.    *)
(***************************************************************************)
Level(list, task, i) ==
  Cardinality({j \in 2..i : task[list[j]].params.period # task[list[j - 1]].params.period})

assign_priorities(g, list, dist, task) ==
  LET wide     == dist > g.prio_max - g.prio_min + 1
      prio(i)  == IF wide THEN prio_remap(g, dist, Level(list, task, i))
                  ELSE g.prio_min + Level(list, task, i)
      place(x) == CHOOSE i \in 1..Len(list) : list[i] = x
  IN  [x \in DOMAIN task |->
        IF x \in ToSet(list) THEN [task[x] EXCEPT !.schedprio = prio(place(x))]
        ELSE task[x]]

rtf_plg_task_accept(g, pl, p) ==
  IF p.period = 0 THEN RTF_NO
  ELSE IF ~p.ignore_admission /\ utilization_test(g, pl, get_util(p)) # RTF_OK
  THEN RTF_NO
  ELSE IF has_another_preference(g, p) THEN RTF_PARTIAL ELSE RTF_OK

rtf_plg_task_change(g, pl, t) ==
  IF t.pluginid = g.id
  THEN rtf_plg_task_accept(g, [pl EXCEPT !.free[t.cpu] = @ + t.acceptedu], t.params)
  ELSE rtf_plg_task_accept(g, pl, t.params)

\* What is booked: nothing for a task without a runtime.
BookedUtil(p) == IF get_util(p) = NoUtil THEN 0 ELSE get_util(p)

(***************************************************************************)
(* rtf_plg_task_schedule: insert into the CPU's list; share the priority   *)
(* of the next task when it has the same period, else count one more       *)
(* distinct period and assign all priorities of the CPU anew.              *)
(***************************************************************************)
rtf_plg_task_schedule(g, pl, task, id) ==
  LET cpu    == least_loaded_cpu(g, pl)
      p      == task[id].params
      old    == pl.tasks[cpu]
      at     == SortedPosition(old, LAMBDA x : cmp_period_dsc(p, task[x].params) > 0)
      list   == InsertAt(old, at, id)
      shares == at <= Len(old) /\ task[old[at]].params.period = p.period
      dist   == IF shares THEN pl.dist[cpu] ELSE (pl.dist[cpu] + 1) % Word
      util   == BookedUtil(p)
      booked == [task EXCEPT ![id] = [@ EXCEPT !.cpu = cpu, !.pluginid = g.id,
                                      !.acceptedt = p.runtime, !.acceptedu = util]]
  IN  [pl   |-> [pl EXCEPT !.tasks[cpu] = list, !.dist[cpu] = dist,
                           !.free[cpu] = @ - util, !.count[cpu] = @ + 1],
       task |-> IF shares
                THEN [booked EXCEPT ![id].schedprio = task[old[at]].schedprio]
                ELSE assign_priorities(g, list, dist, booked)]

\* Mutants: the task stays in the list; the utilisation is not given back.
MutReleaseKeeps(g, pl, task, id) ==
  LET t == task[id]
  IN  [pl EXCEPT !.free[t.cpu] = @ + t.acceptedu, !.count[t.cpu] = @ - 1]

MutReleaseLeaks(g, pl, task, id) ==
  LET t == task[id]
  IN  [pl EXCEPT !.tasks[t.cpu] = RemoveFirst(@, id), !.count[t.cpu] = @ - 1]

(***************************************************************************)
(* rtf_plg_task_release: dist_prio is decremented when ANOTHER task of the *)
(* CPU has the released task's period; the counter is unsigned.            *)
(***************************************************************************)
rtf_plg_task_release(g, pl, task, id) ==
  LET t      == task[id]
      list   == pl.tasks[t.cpu]
      shared == \E i \in 1..Len(list) :
                  list[i] # id /\ task[list[i]].params.period = t.params.period
  IN  [pl EXCEPT !.tasks[t.cpu] = RemoveFirst(list, id),
                 !.dist[t.cpu]  = IF shared THEN (@ - 1) % Word ELSE @,
                 !.free[t.cpu]  = @ + t.acceptedu,
                 !.count[t.cpu] = @ - 1]

==============================================================================
