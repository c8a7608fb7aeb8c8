--------------------------- MODULE RetifScheduler ----------------------------
(***************************************************************************)
(* daemon/retif_scheduler.c: the table of reservations, the plugins asked  *)
(* in configuration order, and the calls the daemon makes for its clients. *)
(* The daemon is one thread, so each call is one step, except              *)
(* rtf_scheduler_delete: its loop removes one reservation per step, since  *)
(* client threads may exit meanwhile.                                      *)
(***************************************************************************)
EXTENDS RetifPlugin, Enumeration

CONSTANTS Plugins,       \* sequence of plugin configurations, in file order
          CreateParams,  \* parameters clients create reservations with
          ModifyParams,  \* parameters clients send in a modify request
          Pids,          \* client processes
          OobFree,       \* what util_free_percpu[c] may hold beyond its end
          OobCount,      \* what task_count_percpu[c] may hold beyond its end
          WildLists,     \* the <<plugin, CPU>> whose list, beyond the end of tasks,
                         \* the heap has filled with a pointer to nowhere
          MaxTaskId      \* BOUND on last_task_id

EDF == INSTANCE SchedEDF
RM  == INSTANCE SchedRM
RR  == INSTANCE SchedRR
FP  == INSTANCE SchedFP

Kinds == {"EDF", "RM", "RR", "FP"}
Index == 1..Len(Plugins)

(***************************************************************************)
(* What rtf_plugins_init gets from a configuration file whose numbers fit  *)
(* an int and whose cores are below MAX_CPU.  A plugin's kind stands for   *)
(* the .so it is loaded from.                                              *)
(***************************************************************************)
ASSUME SchedulerAssumption ==
  /\ Plugins \in Seq([id : Nat, kind : Kinds, name : STRING, cpulist : Seq(Cpus),
                      prio_min : Nat, prio_max : Nat])
  /\ \A i \in Index : Plugins[i].id = i /\ Plugins[i].prio_min <= Plugins[i].prio_max
  /\ CreateParams \cup ModifyParams \subseteq ParamsType
  /\ \A p \in CreateParams : p.priority \in Prios
  /\ Pids \subseteq Nat \ {0}
  /\ OobFree \subseteq Int /\ OobFree # {}
  /\ OobCount \subseteq Int /\ OobCount # {}
  /\ WildLists \subseteq Index \X Cpus
  /\ MaxTaskId \in Nat
  /\ 0 \in Cpus

(***************************************************************************)
(* Every plugin has a core.  No check of the configuration sees to that: a *)
(* core list that cannot be read is taken as an empty one (see Acceptable  *)
(* in Configuration), and the plugins then read cpulist[0] of an array     *)
(* without entries.                                                        *)
(***************************************************************************)
ASSUME CoresAssumption == \A i \in Index : Plugins[i].cpulist # <<>>

VARIABLES
  taskset,       \* s->taskset: reservation ids, newest first
  task,          \* the reservations themselves, by id
  plugin,        \* s->plugin: the state of each plugin
  last_task_id,  \* s->last_task_id
  kern,          \* the threads, as the kernel schedules them
  deleting,      \* the pid rtf_scheduler_delete is working on, or NoPid
  status         \* "up", "crashed" (an invalid memory access) or "stopped"

vars == <<taskset, task, plugin, last_task_id, kern, deleting, status>>

NoPid == -1
Ids   == 1..MaxTaskId

StatusType == {"up", "crashed", "stopped"}

TaskType ==
  [ptid : Pids \cup {0}, tid : Threads, pluginid : Index, cpu : Cpus, schedprio : Int,
   acceptedt : Int, acceptedu : Int, params : CreateParams]

PluginType ==
  [free : [Cpus -> Int], count : [Cpus -> Int], tasks : [Cpus -> Seq(Ids)],
   dist : [Cpus -> 0..Word - 1], nper : [Cpus -> [Prios -> Int]]]

(***************************************************************************)
(* Dispatch through the function pointers of struct rtf_plugin.            *)
(***************************************************************************)
Policy(i) ==
  CASE Plugins[i].kind = "EDF" -> EDF!Policy
    [] Plugins[i].kind = "RM"  -> RM!Policy
    [] Plugins[i].kind = "RR"  -> RR!Policy
    [] Plugins[i].kind = "FP"  -> FP!Policy

Accept(i, p) ==
  CASE Plugins[i].kind = "EDF" -> EDF!rtf_plg_task_accept(Plugins[i], plugin[i], p)
    [] Plugins[i].kind = "RM"  -> RM!rtf_plg_task_accept(Plugins[i], plugin[i], p)
    [] Plugins[i].kind = "RR"  -> RR!rtf_plg_task_accept(Plugins[i], plugin[i], p)
    [] Plugins[i].kind = "FP"  -> FP!rtf_plg_task_accept(Plugins[i], plugin[i], p)

Change(i, t) ==
  CASE Plugins[i].kind = "EDF" -> EDF!rtf_plg_task_change(Plugins[i], plugin[i], t)
    [] Plugins[i].kind = "RM"  -> RM!rtf_plg_task_change(Plugins[i], plugin[i], t)
    [] Plugins[i].kind = "RR"  -> RR!rtf_plg_task_change(Plugins[i], plugin[i], t)
    [] Plugins[i].kind = "FP"  -> FP!rtf_plg_task_change(Plugins[i], plugin[i], t)

Schedule(i, pl, tk, id) ==
  CASE Plugins[i].kind = "EDF" -> EDF!rtf_plg_task_schedule(Plugins[i], pl, tk, id)
    [] Plugins[i].kind = "RM"  -> RM!rtf_plg_task_schedule(Plugins[i], pl, tk, id)
    [] Plugins[i].kind = "RR"  -> RR!rtf_plg_task_schedule(Plugins[i], pl, tk, id)
    [] Plugins[i].kind = "FP"  -> FP!rtf_plg_task_schedule(Plugins[i], pl, tk, id)

Release(i, id) ==
  CASE Plugins[i].kind = "EDF" -> EDF!rtf_plg_task_release(Plugins[i], plugin[i], task, id)
    [] Plugins[i].kind = "RM"  -> RM!rtf_plg_task_release(Plugins[i], plugin[i], task, id)
    [] Plugins[i].kind = "RR"  -> RR!rtf_plg_task_release(Plugins[i], plugin[i], task, id)
    [] Plugins[i].kind = "FP"  -> FP!rtf_plg_task_release(Plugins[i], plugin[i], task, id)

(***************************************************************************)
(* RM and RR follow the list of a CPU, tasks[c], without a look at cputot, *)
(* the number of lists there are.                                          *)
(***************************************************************************)
Wild(i, c) ==
  /\ Plugins[i].kind \in {"RM", "RR"}
  /\ c >= Len(Plugins[i].cpulist)
  /\ <<i, c>> \in WildLists

(***************************************************************************)
(* The schedule call follows a wild list, of the CPU it chooses, or a null *)
(* pointer; or the release before it did, of the CPU the task was on (CPU  *)
(* 0, which has a list in every plugin, for a task that is new).           *)
(***************************************************************************)
Crashes(i, pl, tk, id) ==
  \/ Wild(i, tk[id].cpu) \/ Wild(i, Schedule(i, pl, tk, id).task[id].cpu)
  \/ Plugins[i].kind = "RR" /\ RR!next_is_null(Plugins[i], pl, tk, id)

(***************************************************************************)
(* The plugin test_and_assign and test_and_modify settle on: the first     *)
(* that answers RTF_OK, else the first that answers RTF_PARTIAL, else none.*)
(***************************************************************************)
Answering(res, answer) == {i \in Index : res[i] = answer}

Chosen(res) ==
  IF Answering(res, RTF_OK) # {} THEN Min(Answering(res, RTF_OK))
  ELSE IF Answering(res, RTF_PARTIAL) # {} THEN Min(Answering(res, RTF_PARTIAL))
  ELSE 0

Outcome(res) == IF Chosen(res) = 0 THEN RTF_NO ELSE res[Chosen(res)]

-----------------------------------------------------------------------------
(***************************************************************************)
(* rtf_plugins_init: every CPU starts all free, with no task.  The arrays  *)
(* of plugin i have cputot entries and are indexed by CPU number, so an    *)
(* entry beyond them is whatever the heap holds: one of the values oob.  A *)
(* list there is empty, where the heap is zero, or wild (see Wild).        *)
(***************************************************************************)
InitArray(i, v, oob) ==
  {a \in [Cpus -> {v} \cup oob] :
     \A c \in Cpus : IF c < Len(Plugins[i].cpulist) THEN a[c] = v ELSE a[c] \in oob}

InitPlugin(i) ==
  {[free |-> f, count |-> n, tasks |-> [c \in Cpus |-> <<>>],
    dist |-> [c \in Cpus |-> 0], nper |-> [c \in Cpus |-> [p \in Prios |-> 0]]] :
     f \in InitArray(i, Unit, OobFree), n \in InitArray(i, 0, OobCount)}

Init ==
  /\ taskset = <<>>
  /\ task = <<>>
  /\ plugin \in [Index -> UNION {InitPlugin(i) : i \in Index}]
  /\ \A i \in Index : plugin[i] \in InitPlugin(i)
  /\ last_task_id = 0
  /\ kern = [t \in Threads |-> Normal]
  /\ deleting = NoPid
  /\ status = "up"

Idle == status = "up" /\ deleting = NoPid

(***************************************************************************)
(* The plugins once plugin i is in state new.  dist_prio and n_per_prio    *)
(* are static variables of sched_RM.c and sched_RR.c, so every plugin that *)
(* is loaded from the same .so has the same ones.                          *)
(***************************************************************************)
SameStatics(i, j) == Plugins[i].kind = Plugins[j].kind /\ Plugins[i].kind \in {"RM", "RR"}

SetPlugin(i, new) ==
  [j \in Index |-> IF j = i THEN new
                   ELSE IF SameStatics(i, j)
                   THEN [plugin[j] EXCEPT !.dist = new.dist, !.nper = new.nper]
                   ELSE plugin[j]]

(***************************************************************************)
(* Set plugin i and the task table to the outcome of a schedule call.      *)
(***************************************************************************)
Place(i, pl, tk, id) ==
  /\ plugin' = SetPlugin(i, Schedule(i, pl, tk, id).pl)
  /\ task' = Schedule(i, pl, tk, id).task
  /\ status' = IF Crashes(i, pl, tk, id) THEN "crashed" ELSE status

(***************************************************************************)
(* rtf_scheduler_task_create.  A refused task is forgotten (and its memory *)
(* leaked), but its id stays used.                                         *)
(***************************************************************************)
CreateTests(tp) == [i \in Index |-> Accept(i, tp)]

CreateResult(tp) == Outcome(CreateTests(tp))

TaskCreate(tp, ppid) ==
  LET id == last_task_id + 1
      i  == Chosen(CreateTests(tp))
  IN  /\ Idle
      /\ last_task_id < MaxTaskId
      /\ last_task_id' = id
      /\ UNCHANGED <<kern, deleting>>
      /\ \/ i = 0 /\ UNCHANGED <<taskset, task, plugin, status>>
         \/ /\ i # 0
            /\ taskset' = <<id>> \o taskset
            /\ Place(i, plugin[i],
                     [x \in DOMAIN task \cup {id} |->
                        IF x = id THEN NewTask(tp, ppid) ELSE task[x]], id)

(***************************************************************************)
(* rtf_scheduler_task_change tests the task's OLD parameters again (tp is  *)
(* never copied), releases the task in the plugin that ACCEPTS it, whoever *)
(* holds it, and schedules it there.                                       *)
(***************************************************************************)
ChangeTests(id) == [i \in Index |-> Change(i, task[id])]

ChangeResult(id) ==
  IF id \notin DOMAIN task THEN RTF_ERROR ELSE Outcome(ChangeTests(id))

TaskChange(id) ==
  LET i == Chosen(ChangeTests(id))
  IN  /\ Idle
      /\ UNCHANGED <<taskset, last_task_id, deleting>>
      /\ \/ id \notin DOMAIN task /\ UNCHANGED <<task, plugin, kern, status>>
         \/ id \in DOMAIN task /\ i = 0 /\ UNCHANGED <<task, plugin, kern, status>>
         \/ /\ id \in DOMAIN task
            /\ i # 0
            /\ kern' = IF Wild(i, task[id].cpu) THEN kern
                       ELSE ReleaseThread(task[id], kern, Policy(i))
            /\ Place(i, Release(i, id), task, id)

(***************************************************************************)
(* The id req_task_modify passes: ids.rsvid overlays the upper half of     *)
(* param.runtime in the request union, and the library sends no id.        *)
(***************************************************************************)
rsvid(tp) == tp.runtime \div Word

(***************************************************************************)
(* rtf_scheduler_task_attach records the thread first, and keeps it        *)
(* recorded when the plugin fails.                                         *)
(***************************************************************************)
TaskAttach(id, tid, sys) ==
  LET t == [task[id] EXCEPT !.tid = tid]
  IN  /\ Idle
      /\ UNCHANGED <<taskset, plugin, last_task_id, deleting, status>>
      /\ \/ id \notin DOMAIN task /\ UNCHANGED <<task, kern>>
         \/ /\ id \in DOMAIN task
            /\ task' = [task EXCEPT ![id] = t]
            /\ kern' = AttachThread(t, kern, Policy(t.pluginid), sys)

(***************************************************************************)
(* rtf_scheduler_task_detach: the task keeps the tid it had.               *)
(***************************************************************************)
TaskDetach(id) ==
  /\ Idle
  /\ UNCHANGED <<taskset, task, plugin, last_task_id, deleting, status>>
  /\ \/ id \notin DOMAIN task /\ UNCHANGED kern
     \/ id \in DOMAIN task /\ kern' = DetachThread(task[id], kern)

\* Mutant: the task is freed and released, and its list node stays.
MutRemoveTask(id) ==
  LET i == task[id].pluginid
  IN  /\ taskset' = taskset
      /\ plugin' = SetPlugin(i, Release(i, id))
      /\ kern' = ReleaseThread(task[id], kern, Policy(i))
      /\ task' = [x \in DOMAIN task \ {id} |-> task[x]]

(***************************************************************************)
(* Take task id out of the set, release it in its plugin and free it.      *)
(***************************************************************************)
RemoveTask(id) ==
  LET i == task[id].pluginid
  IN  /\ taskset' = RemoveFirst(taskset, id)
      /\ plugin' = SetPlugin(i, Release(i, id))
      /\ kern' = ReleaseThread(task[id], kern, Policy(i))
      /\ task' = [x \in DOMAIN task \ {id} |-> task[x]]

TaskDestroy(id) ==
  /\ Idle
  /\ UNCHANGED <<last_task_id, deleting, status>>
  /\ \/ id \notin DOMAIN task /\ UNCHANGED <<taskset, task, plugin, kern>>
     \/ id \in DOMAIN task /\ RemoveTask(id)

(***************************************************************************)
(* rtf_scheduler_delete: while a task of that process is found, remove it. *)
(***************************************************************************)
Owned(pid) == {i \in 1..Len(taskset) : task[taskset[i]].ptid = pid}

DeleteBegin(pid) ==
  /\ Idle
  /\ deleting' = pid
  /\ UNCHANGED <<taskset, task, plugin, last_task_id, kern, status>>

DeleteStep ==
  /\ status = "up"
  /\ deleting # NoPid
  /\ UNCHANGED <<last_task_id, status>>
  /\ \/ /\ Owned(deleting) # {}
        /\ RemoveTask(taskset[Min(Owned(deleting))])
        /\ UNCHANGED deleting
     \/ /\ Owned(deleting) = {}
        /\ deleting' = NoPid
        /\ UNCHANGED <<taskset, task, plugin, kern>>

(***************************************************************************)
(* A client thread exits, at any time.                                     *)
(***************************************************************************)
ThreadExit(tid) ==
  /\ kern[tid].policy # Gone
  /\ kern' = [kern EXCEPT ![tid] = Exited]
  /\ UNCHANGED <<taskset, task, plugin, last_task_id, deleting, status>>

Next ==
  \/ \E tp \in CreateParams, pid \in Pids : TaskCreate(tp, pid)
  \/ \E tp \in ModifyParams : TaskChange(rsvid(tp))
  \/ \E id \in Ids, tid \in Tids, sys \in SysOutcomes : TaskAttach(id, tid, sys)
  \/ \E id \in Ids : TaskDetach(id)
  \/ \E id \in Ids : TaskDestroy(id)
  \/ \E pid \in Pids : DeleteBegin(pid)
  \/ DeleteStep
  \/ \E tid \in Tids : ThreadExit(tid)

Spec == Init /\ [][Next]_vars

-----------------------------------------------------------------------------
(***************************************************************************)
(* Properties.                                                             *)
(***************************************************************************)

Held(i, c) == {id \in DOMAIN task : task[id].pluginid = i /\ task[id].cpu = c}
Cores(i)   == ToSet(Plugins[i].cpulist)
OfKind(ks) == {i \in Index : Plugins[i].kind \in ks}

(***************************************************************************)
(* TypeOK: every variable has its type, every reservation of the set has a *)
(* record and a plugin (pluginid is never the code's -1 between calls).    *)
(***************************************************************************)
TypeOK ==
  /\ taskset \in Seq(Ids)
  /\ DOMAIN task \subseteq 1..last_task_id
  /\ task \in [DOMAIN task -> TaskType]
  /\ plugin \in [Index -> PluginType]
  /\ last_task_id \in 0..MaxTaskId
  /\ kern \in [Threads -> ThreadType]
  /\ deleting \in Pids \cup {0, NoPid}
  /\ status \in StatusType

(***************************************************************************)
(* The set lists each live reservation once: rtf_taskset_search and the    *)
(* removals of retif_scheduler.c find all of them and nothing freed.       *)
(***************************************************************************)
TasksetExact == Enumerates(taskset, DOMAIN task)

(***************************************************************************)
(* CapacityConserved: on every core of an EDF or RM plugin, what is free   *)
(* plus what the reservations there were booked with is one whole CPU: no  *)
(* sequence of create, change, destroy and disconnect leaks capacity or    *)
(* gives it away twice (schedule and release of sched_EDF.c, sched_RM.c).  *)
(***************************************************************************)
CapacityConserved ==
  \A i \in OfKind({"EDF", "RM"}) : \A c \in Cores(i) :
    plugin[i].free[c] + SumFunctionOnSet([id \in DOMAIN task |-> task[id].acceptedu], Held(i, c))
      = Unit

(***************************************************************************)
(* CountsExact: task_count_percpu, which drives the allocation of RR and   *)
(* FP and is shown by the monitor, is the number of reservations there.    *)
(***************************************************************************)
CountsExact ==
  \A i \in Index : \A c \in Cores(i) : plugin[i].count[c] = Cardinality(Held(i, c))

(***************************************************************************)
(* FreeNonNegative: the free utilisation of an EDF core never goes below   *)
(* zero, so a negative amount is never turned into a granted runtime.      *)
(***************************************************************************)
FreeNonNegative ==
  \A i \in OfKind({"EDF"}) : \A c \in Cores(i) : plugin[i].free[c] >= 0

(***************************************************************************)
(* PluginListsExact: the per-CPU lists of RM and RR hold exactly the       *)
(* reservations the plugin has on that CPU, each once: they never keep a   *)
(* pointer to a freed task, never lose one, and are where tasks[] is.      *)
(***************************************************************************)
PluginListsExact ==
  \A i \in OfKind({"RM", "RR"}) : \A c \in Cores(i) :
    ~Wild(i, c) /\ Enumerates(plugin[i].tasks[c], Held(i, c))

(***************************************************************************)
(* RMNoInversion: on a core of an RM plugin a reservation with a shorter   *)
(* period never has a lower real priority than one with a longer period,   *)
(* and equal periods have equal priorities (assign_priorities and the      *)
(* shortcut of schedule agree, whatever happened to dist_prio).            *)
(***************************************************************************)
RMNoInversion ==
  \A i \in OfKind({"RM"}) : \A c \in Cores(i) : \A x, y \in Held(i, c) :
    task[x].params.period <= task[y].params.period => task[x].schedprio >= task[y].schedprio

(***************************************************************************)
(* RRPrioritiesSound: on a core of an RR plugin real priorities follow the *)
(* declared ones, stay in the plugin's window, and dist_prio counts the    *)
(* declared priorities present (n_per_prio keeps it exact).                *)
(***************************************************************************)
RRPrioritiesSound ==
  \A i \in OfKind({"RR"}) : \A c \in Cores(i) :
    /\ plugin[i].dist[c] = Cardinality({task[x].params.priority : x \in Held(i, c)})
    /\ \A x \in Held(i, c) : task[x].schedprio \in Plugins[i].prio_min..Plugins[i].prio_max
    /\ \A x, y \in Held(i, c) :
         task[x].params.priority <= task[y].params.priority
           => task[x].schedprio <= task[y].schedprio

(***************************************************************************)
(* WorstFit: a reservation is put on a core no other core of the plugin    *)
(* beats: in free utilisation for EDF and RM, in task count for RR and FP. *)
(***************************************************************************)
WorstFit ==
  [][\A id \in DOMAIN task' \ DOMAIN task :
       LET i == task'[id].pluginid
           c == task'[id].cpu
       IN  \A d \in Cores(i) :
             IF i \in OfKind({"EDF", "RM"}) THEN plugin[i].free[d] <= plugin[i].free[c]
             ELSE plugin[i].count[d] >= plugin[i].count[c]]_vars

(***************************************************************************)
(* ReleaseDemotes: when a reservation goes, by a destroy or because its    *)
(* client disconnected, the thread it records does not go on under the     *)
(* real-time policy of its plugin (release of the four plugins).           *)
(***************************************************************************)
ReleaseDemotes ==
  [][\A id \in DOMAIN task \ DOMAIN task' :
       kern'[task[id].tid].policy # Policy(task[id].pluginid)]_vars

(***************************************************************************)
(* NoCrash: no call makes the daemon follow a null pointer or a wild one.  *)
(***************************************************************************)
NoCrash == status = "up"

==============================================================================
