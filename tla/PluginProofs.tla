---------------------------- MODULE PluginProofs ----------------------------
(***************************************************************************)
(* What the schedule and release calls of the four plugins preserve.       *)
(***************************************************************************)
EXTENDS RetifScheduler, SequenceFacts

(***************************************************************************)
(* A reservation before it is scheduled for the first time has no plugin.  *)
(***************************************************************************)
UnplacedType ==
  [ptid : Pids \cup {0}, tid : Threads, pluginid : Index \cup {0}, cpu : Cpus,
   schedprio : Int, acceptedt : Int, acceptedu : Int, params : CreateParams]

(***************************************************************************)
(* What the assumptions say of one plugin and of one request.              *)
(***************************************************************************)
LEMMA PluginConfig ==
  ASSUME NEW i \in Index
  PROVE  /\ Plugins[i].id = i
         /\ Plugins[i].kind \in Kinds
         /\ Plugins[i].cpulist \in Seq(Cpus)
         /\ Plugins[i].cpulist # <<>>
         /\ Plugins[i].prio_min \in Nat
         /\ Plugins[i].prio_max \in Nat
         /\ Plugins[i].prio_min <= Plugins[i].prio_max
<1>1. Plugins[i] \in [id : Nat, kind : Kinds, name : STRING, cpulist : Seq(Cpus),
                       prio_min : Nat, prio_max : Nat]
  BY SchedulerAssumption, ElementOfSeq DEF Index
<1>2. Plugins[i].id = i /\ Plugins[i].cpulist # <<>> /\ Plugins[i].prio_min <= Plugins[i].prio_max
  BY SchedulerAssumption, CoresAssumption
<1> QED  BY <1>1, <1>2

LEMMA ParamTypes ==
  ASSUME NEW p \in CreateParams
  PROVE  p \in ParamsType /\ p.priority \in Prios
BY SchedulerAssumption

(***************************************************************************)
(* The loop of least_loaded_cpu returns a CPU of the plugin, in each of    *)
(* the four plugins.                                                       *)
(***************************************************************************)
LEMMA LeastLoadedIsCore ==
  ASSUME NEW i \in Index, NEW pl
  PROVE  /\ EDF!least_loaded_cpu(Plugins[i], pl) \in Cores(i)
         /\ RM!least_loaded_cpu(Plugins[i], pl) \in Cores(i)
         /\ RR!least_loaded_cpu(Plugins[i], pl) \in Cores(i)
         /\ FP!least_loaded_cpu(Plugins[i], pl) \in Cores(i)
<1> DEFINE cl == Plugins[i].cpulist
<1>1. cl \in Seq(Cpus) /\ cl # <<>>  BY PluginConfig
<1> HIDE DEF cl
<1>2. Len(cl) \in Nat /\ Len(cl) >= 1 /\ DOMAIN cl = 1..Len(cl)  BY <1>1
<1>3. \A n \in 1..Len(cl) : cl[n] \in ToSet(cl)  BY <1>2 DEF ToSet
<1>4. ASSUME NEW B \in SUBSET (2..Len(cl)), B # {} PROVE cl[Max(B)] \in ToSet(cl)
  <2>1. B \in SUBSET (0..Len(cl))  BY <1>2
  <2>2. Max(B) \in B  BY <1>2, <1>4, <2>1, MaxIn
  <2>3. B \subseteq 1..Len(cl)  BY <1>2, <1>4
  <2> QED  BY <1>3, <2>2, <2>3
<1>5. cl[1] \in ToSet(cl)  BY <1>2, <1>3
<1>6. Cores(i) = ToSet(cl)  BY DEF Cores, cl
<1> DEFINE U == {n \in 2..Len(cl) : pl.free[cl[n]] > pl.free[cl[1]]}
           C == {n \in 2..Len(cl) : pl.count[cl[n]] < pl.count[cl[1]]}
<1>7. (IF U = {} THEN cl[1] ELSE cl[Max(U)]) \in Cores(i)  BY <1>4, <1>5, <1>6
<1>8. (IF C = {} THEN cl[1] ELSE cl[Max(C)]) \in Cores(i)  BY <1>4, <1>5, <1>6
<1>9. EDF!least_loaded_cpu(Plugins[i], pl) \in Cores(i)
  BY <1>7 DEF cl, Max, EDF!least_loaded_cpu, EDF!least_loaded_by_util, EDF!LastBetterThanFirst, EDF!Max
<1>10. RM!least_loaded_cpu(Plugins[i], pl) \in Cores(i)
  BY <1>7 DEF cl, Max, RM!least_loaded_cpu, RM!least_loaded_by_util, RM!LastBetterThanFirst, RM!Max
<1>11. RR!least_loaded_cpu(Plugins[i], pl) \in Cores(i)
  BY <1>8 DEF cl, Max, RR!least_loaded_cpu, RR!least_loaded_by_count, RR!LastBetterThanFirst, RR!Max
<1>12. FP!least_loaded_cpu(Plugins[i], pl) \in Cores(i)
  BY <1>8 DEF cl, Max, FP!least_loaded_cpu, FP!least_loaded_by_count, FP!LastBetterThanFirst, FP!Max
<1> QED  BY <1>9, <1>10, <1>11, <1>12

(***************************************************************************)
(* EDF and RM book utilisation, and look for the core with most of it.     *)
(***************************************************************************)
Books(i) == Plugins[i].kind \in {"EDF", "RM"}

LeastLoaded(i, pl) ==
  IF Books(i) THEN least_loaded_by_util(Plugins[i], pl) ELSE least_loaded_by_count(Plugins[i], pl)

LEMMA LeastLoadedIs ==
  ASSUME NEW i \in Index, NEW pl
  PROVE  /\ Plugins[i].kind = "EDF" => EDF!least_loaded_cpu(Plugins[i], pl) = LeastLoaded(i, pl)
         /\ Plugins[i].kind = "RM" => RM!least_loaded_cpu(Plugins[i], pl) = LeastLoaded(i, pl)
         /\ Plugins[i].kind = "RR" => RR!least_loaded_cpu(Plugins[i], pl) = LeastLoaded(i, pl)
         /\ Plugins[i].kind = "FP" => FP!least_loaded_cpu(Plugins[i], pl) = LeastLoaded(i, pl)
<1> DEFINE cl == Plugins[i].cpulist
           U == {n \in 2..Len(cl) : pl.free[cl[n]] > pl.free[cl[1]]}
           C == {n \in 2..Len(cl) : pl.count[cl[n]] < pl.count[cl[1]]}
           byUtil  == IF U = {} THEN cl[1] ELSE cl[Max(U)]
           byCount == IF C = {} THEN cl[1] ELSE cl[Max(C)]
<1>1. least_loaded_by_util(Plugins[i], pl) = byUtil
  BY DEF least_loaded_by_util, LastBetterThanFirst
<1>2. least_loaded_by_count(Plugins[i], pl) = byCount
  BY DEF least_loaded_by_count, LastBetterThanFirst
<1>3. EDF!least_loaded_cpu(Plugins[i], pl) = byUtil
  BY DEF Max, EDF!least_loaded_cpu, EDF!least_loaded_by_util, EDF!LastBetterThanFirst, EDF!Max
<1>4. RM!least_loaded_cpu(Plugins[i], pl) = byUtil
  BY DEF Max, RM!least_loaded_cpu, RM!least_loaded_by_util, RM!LastBetterThanFirst, RM!Max
<1>5. RR!least_loaded_cpu(Plugins[i], pl) = byCount
  BY DEF Max, RR!least_loaded_cpu, RR!least_loaded_by_count, RR!LastBetterThanFirst, RR!Max
<1>6. FP!least_loaded_cpu(Plugins[i], pl) = byCount
  BY DEF Max, FP!least_loaded_cpu, FP!least_loaded_by_count, FP!LastBetterThanFirst, FP!Max
<1> HIDE DEF byUtil, byCount
<1> QED  BY <1>1, <1>2, <1>3, <1>4, <1>5, <1>6 DEF LeastLoaded, Books

LEMMA CoresAreCpus == \A i \in Index : Cores(i) \subseteq Cpus
BY PluginConfig DEF Cores, ToSet

(***************************************************************************)
(* What scheduling a reservation in plugin i comes to, for the types: the  *)
(* reservation gets plugin i and one of its cores, the others keep theirs. *)
(***************************************************************************)
Placed(i, D, tk, id, r) ==
  /\ r.pl \in PluginType
  /\ r.task \in [D -> UnplacedType]
  /\ r.task[id].pluginid = i
  /\ r.task[id].cpu \in Cores(i)
  /\ \A x \in D \ {id} : r.task[x].pluginid = tk[x].pluginid /\ r.task[x].cpu = tk[x].cpu

(***************************************************************************)
(* What it comes to, for the accounts: the least loaded core has one       *)
(* reservation more, EDF and RM book what the reservation was granted, RR  *)
(* counts one more of its priority, and the others keep what they had.     *)
(***************************************************************************)
Booked(i, pl, D, tk, id, r) ==
  /\ r.task[id].cpu = LeastLoaded(i, pl)
  /\ r.pl.count = [pl.count EXCEPT ![r.task[id].cpu] = @ + 1]
  /\ Books(i) => r.pl.free = [pl.free EXCEPT ![r.task[id].cpu] = @ - r.task[id].acceptedu]
  /\ Plugins[i].kind = "RR" =>
       r.pl.nper = [pl.nper EXCEPT ![r.task[id].cpu][tk[id].params.priority] = @ + 1]
  /\ \A x \in D \ {id} : r.task[x].acceptedu = tk[x].acceptedu
  /\ \A x \in D : r.task[x].params = tk[x].params

\* Releasing undoes it.
Unbooked(i, t, pl, r) ==
  /\ r.count = [pl.count EXCEPT ![t.cpu] = @ - 1]
  /\ Books(i) => r.free = [pl.free EXCEPT ![t.cpu] = @ + t.acceptedu]
  /\ Plugins[i].kind = "RR" =>
       r.nper = [pl.nper EXCEPT ![t.cpu][t.params.priority] = @ - 1]

(***************************************************************************)
(* Taking a plugin's state apart and putting it together.                  *)
(***************************************************************************)
LEMMA PluginFields ==
  ASSUME NEW pl \in PluginType
  PROVE  /\ pl.free \in [Cpus -> Int] /\ pl.count \in [Cpus -> Int]
         /\ pl.tasks \in [Cpus -> Seq(Ids)] /\ pl.dist \in [Cpus -> 0..Word - 1]
         /\ pl.nper \in [Cpus -> [Prios -> Int]]
         /\ pl = [free |-> pl.free, count |-> pl.count, tasks |-> pl.tasks,
                  dist |-> pl.dist, nper |-> pl.nper]
BY DEF PluginType

LEMMA MakePlugin ==
  ASSUME NEW f \in [Cpus -> Int], NEW n \in [Cpus -> Int], NEW l \in [Cpus -> Seq(Ids)],
         NEW d \in [Cpus -> 0..Word - 1], NEW q \in [Cpus -> [Prios -> Int]]
  PROVE  [free |-> f, count |-> n, tasks |-> l, dist |-> d, nper |-> q] \in PluginType
BY DEF PluginType

(***************************************************************************)
(* Integer utilisations.                                                   *)
(***************************************************************************)
LEMMA DivInt == \A a \in Int, b \in Nat \ {0} : a \div b \in Int
OBVIOUS

LEMMA UtilTypes ==
  ASSUME NEW p \in ParamsType
  PROVE  /\ get_min_declared(p) \in Nat
         /\ get_util(p) \in Int
         /\ get_des_util(p) \in Int
         /\ get_des_util(p) # NoUtil => get_min_declared(p) # 0
<1>1. get_min_declared(p) \in Nat  BY DEF get_min_declared, ParamsType
<1>2. p.runtime * Unit \in Int /\ p.des_runtime * Unit \in Int /\ NoUtil \in Int
  BY UnitAssumption DEF ParamsType, NoUtil
<1>3. get_util(p) \in Int  BY <1>1, <1>2, DivInt DEF get_util
<1>4. get_des_util(p) \in Int  BY <1>1, <1>2, DivInt DEF get_des_util
<1>5. get_des_util(p) # NoUtil => get_min_declared(p) # 0  BY DEF get_des_util
<1> QED  BY <1>1, <1>3, <1>4, <1>5

(***************************************************************************)
(* The plugins' own copies of the functions of retif_task.c.               *)
(***************************************************************************)
LEMMA SameFunctions ==
  ASSUME NEW p
  PROVE  /\ EDF!get_min_declared(p) = get_min_declared(p)
         /\ EDF!get_util(p) = get_util(p)
         /\ EDF!get_des_util(p) = get_des_util(p)
         /\ EDF!NoUtil = NoUtil
         /\ RM!get_util(p) = get_util(p)
         /\ RM!NoUtil = NoUtil
BY DEF EDF!get_min_declared, EDF!get_util, EDF!get_des_util, EDF!NoUtil, RM!get_util,
       RM!get_min_declared, RM!NoUtil, get_min_declared, get_util, get_des_util, NoUtil

(***************************************************************************)
(* What sched_EDF.c grants is an integer amount.                           *)
(***************************************************************************)
LEMMA GrantedTypes ==
  ASSUME NEW i \in Index, NEW pl \in PluginType, NEW p \in CreateParams
  PROVE  /\ EDF!Granted(Plugins[i], pl, p).t \in Int
         /\ EDF!Granted(Plugins[i], pl, p).u \in Int
<1> DEFINE cpu  == EDF!least_loaded_cpu(Plugins[i], pl)
           min  == get_min_declared(p)
           left == (pl.free[cpu] * min) \div Unit
<1>1. p \in ParamsType  BY ParamTypes
<1>2. cpu \in Cpus  BY LeastLoadedIsCore, CoresAreCpus
<1>3. pl.free[cpu] \in Int  BY <1>2 DEF PluginType
<1>4. min \in Nat /\ get_util(p) \in Int /\ (get_des_util(p) # NoUtil => min # 0)
  BY <1>1, UtilTypes
<1>5. p.runtime \in Int /\ p.des_runtime \in Int  BY <1>1 DEF ParamsType
<1> HIDE DEF cpu, min
<1>6. left \in Int  BY <1>3, <1>4, UnitAssumption, DivInt
<1>7. min # 0 => (left * Unit) \div min \in Int
  <2> HIDE DEF left
  <2> QED  BY <1>4, <1>6, UnitAssumption, DivInt
<1>8. EDF!Granted(Plugins[i], pl, p) =
        IF get_des_util(p) = NoUtil THEN [t |-> p.runtime, u |-> get_util(p)]
        ELSE IF EDF!desired_utilization_test(Plugins[i], pl, get_util(p), get_des_util(p)) = EDF!RTF_OK
        THEN [t |-> p.des_runtime, u |-> get_util(p)]
        ELSE [t |-> left, u |-> (left * Unit) \div min]
  BY SameFunctions DEF EDF!Granted, cpu, min
<1> HIDE DEF left
<1> QED  BY <1>4, <1>5, <1>6, <1>7, <1>8

LEMMA EDFSchedule ==
  ASSUME NEW i \in Index, Plugins[i].kind = "EDF", NEW pl \in PluginType,
         NEW D, NEW id \in D, NEW tk \in [D -> UnplacedType]
  PROVE  /\ Placed(i, D, tk, id, Schedule(i, pl, tk, id))
         /\ Booked(i, pl, D, tk, id, Schedule(i, pl, tk, id))
<1> DEFINE r     == Schedule(i, pl, tk, id)
           cpu   == EDF!least_loaded_cpu(Plugins[i], pl)
           grant == EDF!Granted(Plugins[i], pl, tk[id].params)
<1>1. cpu \in Cores(i) /\ cpu \in Cpus  BY LeastLoadedIsCore, CoresAreCpus
<1>2. tk[id] \in UnplacedType /\ tk[id].params \in CreateParams  BY DEF UnplacedType
<1>3. grant.t \in Int /\ grant.u \in Int  BY <1>2, GrantedTypes
<1>4. Plugins[i].id = i  BY PluginConfig
<1>5. r = [pl   |-> [pl EXCEPT !.free[cpu] = @ - grant.u, !.count[cpu] = @ + 1],
           task |-> [tk EXCEPT ![id] = [@ EXCEPT !.cpu = cpu, !.pluginid = i,
                                          !.acceptedt = grant.t, !.acceptedu = grant.u]]]
  BY <1>4 DEF Schedule, EDF!rtf_plg_task_schedule
<1> HIDE DEF r, cpu, grant
<1>6. r.pl \in PluginType /\ r.pl.free = [pl.free EXCEPT ![cpu] = @ - grant.u]
      /\ r.pl.count = [pl.count EXCEPT ![cpu] = @ + 1]
  <2>1. /\ pl.free \in [Cpus -> Int] /\ pl.count \in [Cpus -> Int]
        /\ pl.tasks \in [Cpus -> Seq(Ids)] /\ pl.dist \in [Cpus -> 0..Word - 1]
        /\ pl.nper \in [Cpus -> [Prios -> Int]]
    BY PluginFields
  <2> DEFINE f == [pl.free EXCEPT ![cpu] = @ - grant.u]
             n == [pl.count EXCEPT ![cpu] = @ + 1]
  <2>2. r.pl = [free |-> f, count |-> n, tasks |-> pl.tasks, dist |-> pl.dist, nper |-> pl.nper]
    BY <1>5 DEF PluginType
  <2>3. f \in [Cpus -> Int] /\ n \in [Cpus -> Int]  BY <1>1, <1>3, <2>1
  <2> HIDE DEF f, n
  <2>4. [free |-> f, count |-> n, tasks |-> pl.tasks, dist |-> pl.dist, nper |-> pl.nper]
          \in PluginType
    BY <2>1, <2>3, MakePlugin, Zenon
  <2> QED  BY <2>2, <2>4 DEF f, n
<1>7. r.task \in [D -> UnplacedType]  BY <1>1, <1>2, <1>3, <1>5 DEF UnplacedType
<1>8. /\ r.task[id].pluginid = i /\ r.task[id].cpu = cpu /\ r.task[id].acceptedu = grant.u
      /\ r.task[id].params = tk[id].params
  BY <1>2, <1>5 DEF UnplacedType
<1>9. \A x \in D \ {id} : r.task[x] = tk[x]  BY <1>5
<1>10. Booked(i, pl, D, tk, id, r)  BY <1>6, <1>8, <1>9, LeastLoadedIs DEF Booked, cpu
<1> QED  BY <1>1, <1>6, <1>7, <1>8, <1>9, <1>10 DEF Placed, r

LEMMA FPSchedule ==
  ASSUME NEW i \in Index, Plugins[i].kind = "FP", NEW pl \in PluginType,
         NEW D, NEW id \in D, NEW tk \in [D -> UnplacedType]
  PROVE  /\ Placed(i, D, tk, id, Schedule(i, pl, tk, id))
         /\ Booked(i, pl, D, tk, id, Schedule(i, pl, tk, id))
<1> DEFINE r    == Schedule(i, pl, tk, id)
           cpu  == FP!least_loaded_cpu(Plugins[i], pl)
           p    == tk[id].params
           prio == IF p.priority = 0 THEN Plugins[i].prio_min
                   ELSE FP!prio_remap(Plugins[i], p.priority)
<1>1. cpu \in Cores(i) /\ cpu \in Cpus  BY LeastLoadedIsCore, CoresAreCpus
<1>2. tk[id] \in UnplacedType /\ p \in CreateParams  BY DEF UnplacedType
<1>3. prio \in Int
  <2>1. p.priority \in Int  BY <1>2, ParamTypes DEF ParamsType
  <2>2. Plugins[i].prio_min \in Int /\ Plugins[i].prio_max \in Int  BY PluginConfig
  <2>3. (Plugins[i].prio_max - Plugins[i].prio_min) * (p.priority - 1) \in Int  BY <2>1, <2>2
  <2> QED  BY <2>1, <2>2, <2>3, DivInt DEF FP!prio_remap
<1>4. Plugins[i].id = i  BY PluginConfig
<1>5. r = [pl   |-> [pl EXCEPT !.count[cpu] = @ + 1],
           task |-> [tk EXCEPT ![id] = [@ EXCEPT !.cpu = cpu, !.pluginid = i,
                                                 !.schedprio = prio]]]
  BY <1>4 DEF Schedule, FP!rtf_plg_task_schedule
<1> HIDE DEF r, cpu, p, prio
<1>6. r.pl \in PluginType /\ r.pl.count = [pl.count EXCEPT ![cpu] = @ + 1]
  <2> DEFINE n == [pl.count EXCEPT ![cpu] = @ + 1]
  <2>1. /\ pl.free \in [Cpus -> Int] /\ pl.count \in [Cpus -> Int]
        /\ pl.tasks \in [Cpus -> Seq(Ids)] /\ pl.dist \in [Cpus -> 0..Word - 1]
        /\ pl.nper \in [Cpus -> [Prios -> Int]]
    BY PluginFields
  <2>2. r.pl = [free |-> pl.free, count |-> n, tasks |-> pl.tasks, dist |-> pl.dist,
                nper |-> pl.nper]
    BY <1>5 DEF PluginType
  <2>3. n \in [Cpus -> Int]  BY <1>1, <2>1
  <2> HIDE DEF n
  <2>4. [free |-> pl.free, count |-> n, tasks |-> pl.tasks, dist |-> pl.dist, nper |-> pl.nper]
          \in PluginType
    BY <2>1, <2>3, MakePlugin, Zenon
  <2> QED  BY <2>2, <2>4 DEF n
<1>7. r.task \in [D -> UnplacedType]  BY <1>1, <1>2, <1>3, <1>5 DEF UnplacedType
<1>8. r.task[id].pluginid = i /\ r.task[id].cpu = cpu /\ r.task[id].params = tk[id].params
  BY <1>2, <1>5 DEF UnplacedType
<1>9. \A x \in D \ {id} : r.task[x] = tk[x]  BY <1>5
<1>10. Booked(i, pl, D, tk, id, r)  BY <1>6, <1>8, <1>9, LeastLoadedIs DEF Booked, Books, cpu
<1> QED  BY <1>1, <1>6, <1>7, <1>8, <1>9, <1>10 DEF Placed, r

-----------------------------------------------------------------------------
(***************************************************************************)
(* The position list_add_sorted inserts at.                                *)
(***************************************************************************)
LEMMA Position ==
  ASSUME NEW n \in Nat, NEW B \in SUBSET (1..n)
  PROVE  (IF B = {} THEN n + 1 ELSE Min(B)) \in 1..n + 1
<1>1. CASE B = {}  BY <1>1
<1>2. CASE B # {}
  <2>1. B \in SUBSET Nat  OBVIOUS
  <2>2. Min(B) \in B  BY <1>2, <2>1, MinIn
  <2>3. \A b \in B : b \in 1..n + 1  OBVIOUS
  <2> QED  BY <1>2, <2>2, <2>3
<1> QED  BY <1>1, <1>2

(***************************************************************************)
(* The number of levels below a list position is a natural number.         *)
(***************************************************************************)
LEMMA CountBelow ==
  ASSUME NEW n \in Nat, NEW B \in SUBSET (2..n)
  PROVE  Cardinality(B) \in Nat
<1>1. IsFiniteSet(2..n)  BY FS_Interval
<1>2. IsFiniteSet(B)  BY <1>1, FS_Subset
<1> QED  BY <1>2, FS_CardinalityType

(***************************************************************************)
(* assign_priorities of sched_RM.c and sched_RR.c changes schedprio only.  *)
(***************************************************************************)
SameButPrio(D, tk, new) ==
  /\ new \in [D -> UnplacedType]
  /\ \A x \in D :
       /\ new[x].pluginid = tk[x].pluginid
       /\ new[x].cpu = tk[x].cpu
       /\ new[x].acceptedu = tk[x].acceptedu
       /\ new[x].params = tk[x].params

LEMMA RMAssign ==
  ASSUME NEW i \in Index, NEW list \in Seq(Ids), NEW dist \in 0..Word - 1,
         NEW D, NEW tk \in [D -> UnplacedType]
  PROVE  SameButPrio(D, tk, RM!assign_priorities(Plugins[i], list, dist, tk))
<1> DEFINE g        == Plugins[i]
           wide     == dist > g.prio_max - g.prio_min + 1
           prio(k)  == IF wide THEN RM!prio_remap(g, dist, RM!Level(list, tk, k))
                       ELSE g.prio_min + RM!Level(list, tk, k)
           place(x) == CHOOSE k \in 1..Len(list) : list[k] = x
           new      == RM!assign_priorities(Plugins[i], list, dist, tk)
<1>1. /\ DOMAIN new = D
      /\ \A x \in D : new[x] = IF x \in ToSet(list) THEN [tk[x] EXCEPT !.schedprio = prio(place(x))]
                               ELSE tk[x]
  BY DEF RM!assign_priorities, RM!ToSet, ToSet
<1>2. new = [x \in D |-> new[x]]  BY <1>1 DEF RM!assign_priorities
<1>3. \A x \in ToSet(list) : place(x) \in 1..Len(list)  BY DEF ToSet
<1>4. ASSUME NEW k \in 1..Len(list) PROVE RM!Level(list, tk, k) \in Nat
  <2> DEFINE B == {j \in 2..k : tk[list[j]].params.period # tk[list[j - 1]].params.period}
  <2>1. k \in Nat /\ B \in SUBSET (2..k)  OBVIOUS
  <2>2. RM!Level(list, tk, k) = Cardinality(B)  BY Zenon DEF RM!Level, RM!Cardinality, Cardinality
  <2> HIDE DEF B
  <2> QED  BY <2>1, <2>2, CountBelow
<1>5. ASSUME NEW k \in 1..Len(list) PROVE prio(k) \in Int
  <2>1. g.prio_min \in Nat /\ g.prio_max \in Nat /\ g.prio_min <= g.prio_max  BY PluginConfig
  <2>2. RM!Level(list, tk, k) \in Nat  BY <1>4
  <2>3. wide => dist - 1 \in Nat \ {0}  BY <2>1, PluginAssumption
  <2>4. (g.prio_max - g.prio_min + 1) * RM!Level(list, tk, k) \in Int  BY <2>1, <2>2
  <2> QED  BY <2>1, <2>2, <2>3, <2>4, DivInt DEF RM!prio_remap
<1> HIDE DEF new, prio, place
<1>6. ASSUME NEW x \in D
      PROVE  /\ new[x] \in UnplacedType
             /\ new[x].pluginid = tk[x].pluginid /\ new[x].cpu = tk[x].cpu
             /\ new[x].acceptedu = tk[x].acceptedu /\ new[x].params = tk[x].params
  <2>1. CASE x \in ToSet(list)
    <3>1. prio(place(x)) \in Int  BY <1>3, <1>5, <2>1
    <3>2. new[x] = [tk[x] EXCEPT !.schedprio = prio(place(x))]  BY <1>1, <2>1
    <3> QED  BY <3>1, <3>2 DEF UnplacedType
  <2>2. CASE x \notin ToSet(list)  BY <1>1, <2>2
  <2> QED  BY <2>1, <2>2
<1> QED  BY <1>2, <1>6 DEF SameButPrio, new

LEMMA RRAssign ==
  ASSUME NEW i \in Index, NEW list \in Seq(Ids), NEW dist,
         NEW D, NEW tk \in [D -> UnplacedType]
  PROVE  SameButPrio(D, tk, RR!assign_priorities(Plugins[i], list, dist, tk))
<1> DEFINE g        == Plugins[i]
           wide     == dist > g.prio_max - g.prio_min + 1
           place(x) == CHOOSE k \in 1..Len(list) : list[k] = x
           prio(x)  == IF wide THEN RR!prio_remap(g, tk[x].params.priority)
                       ELSE g.prio_min + RR!Level(list, tk, place(x))
           new      == RR!assign_priorities(Plugins[i], list, dist, tk)
<1>1. /\ DOMAIN new = D
      /\ \A x \in D : new[x] = IF x \in ToSet(list) THEN [tk[x] EXCEPT !.schedprio = prio(x)]
                               ELSE tk[x]
  BY DEF RR!assign_priorities, RR!ToSet, ToSet
<1>2. new = [x \in D |-> new[x]]  BY <1>1 DEF RR!assign_priorities
<1>3. \A x \in ToSet(list) : place(x) \in 1..Len(list)  BY DEF ToSet
<1>4. ASSUME NEW k \in 1..Len(list) PROVE RR!Level(list, tk, k) \in Nat
  <2> DEFINE B == {j \in 2..k : tk[list[j]].params.priority # tk[list[j - 1]].params.priority}
  <2>1. k \in Nat /\ B \in SUBSET (2..k)  OBVIOUS
  <2>2. RR!Level(list, tk, k) = Cardinality(B)  BY Zenon DEF RR!Level, RR!Cardinality, Cardinality
  <2> HIDE DEF B
  <2> QED  BY <2>1, <2>2, CountBelow
<1>5. ASSUME NEW x \in D, x \in ToSet(list) PROVE prio(x) \in Int
  <2>1. g.prio_min \in Nat /\ g.prio_max \in Nat /\ g.prio_min <= g.prio_max  BY PluginConfig
  <2>2. RR!Level(list, tk, place(x)) \in Nat  BY <1>3, <1>4, <1>5
  <2>3. tk[x].params.priority \in Nat
    <3>1. tk[x].params \in CreateParams  BY DEF UnplacedType
    <3> QED  BY <3>1, ParamTypes DEF ParamsType
  <2>4. (tk[x].params.priority - 1) % Word \in Int  BY <2>3, PluginAssumption
  <2>5. (g.prio_max - g.prio_min + 1) * ((tk[x].params.priority - 1) % Word) \in Int  BY <2>1, <2>4
  <2>6. RR!prio_remap(g, tk[x].params.priority) \in Int  BY <2>1, <2>5, DivInt DEF RR!prio_remap
  <2> QED  BY <2>1, <2>2, <2>6
<1> HIDE DEF new, prio, place
<1>6. ASSUME NEW x \in D
      PROVE  /\ new[x] \in UnplacedType
             /\ new[x].pluginid = tk[x].pluginid /\ new[x].cpu = tk[x].cpu
             /\ new[x].acceptedu = tk[x].acceptedu /\ new[x].params = tk[x].params
  <2>1. CASE x \in ToSet(list)
    <3>1. prio(x) \in Int  BY <1>5, <2>1
    <3>2. new[x] = [tk[x] EXCEPT !.schedprio = prio(x)]  BY <1>1, <2>1
    <3> QED  BY <3>1, <3>2 DEF UnplacedType
  <2>2. CASE x \notin ToSet(list)  BY <1>1, <2>2
  <2> QED  BY <2>1, <2>2
<1> QED  BY <1>2, <1>6 DEF SameButPrio, new

(***************************************************************************)
(* The reservations of plugin i on CPU c, and those of them other than id. *)
(***************************************************************************)
On(i, D, tk, c) == {x \in D : tk[x].pluginid = i /\ tk[x].cpu = c}

ListsHold(i, D, tk, pl) == \A c \in Cores(i) : Enumerates(pl.tasks[c], On(i, D, tk, c))

(***************************************************************************)
(* Inserting the placed reservation into the list of its CPU keeps the     *)
(* lists of the plugin exact.                                              *)
(***************************************************************************)
LEMMA ListsAfterInsert ==
  ASSUME NEW i \in Index, NEW pl \in PluginType, NEW D \in SUBSET Ids, NEW id \in D, NEW tk,
         ListsHold(i, D \ {id}, tk, pl), NEW r, Placed(i, D, tk, id, r),
         NEW cpu \in Cores(i), r.task[id].cpu = cpu, NEW at \in 1..Len(pl.tasks[cpu]) + 1,
         r.pl.tasks = [pl.tasks EXCEPT ![cpu] = InsertAt(pl.tasks[cpu], at, id)]
  PROVE  ListsHold(i, D, r.task, r.pl)
<1> SUFFICES ASSUME NEW c \in Cores(i) PROVE Enumerates(r.pl.tasks[c], On(i, D, r.task, c))
  BY DEF ListsHold
<1>1. c \in Cpus /\ cpu \in Cpus  BY CoresAreCpus
<1>2. pl.tasks \in [Cpus -> Seq(Ids)]  BY PluginFields
<1>3. CASE c = cpu
  <2>1. On(i, D, r.task, c) = On(i, D \ {id}, tk, c) \cup {id}  BY <1>3 DEF Placed, On
  <2>2. r.pl.tasks[c] = InsertAt(pl.tasks[c], at, id)  BY <1>1, <1>2, <1>3
  <2>3. Enumerates(pl.tasks[c], On(i, D \ {id}, tk, c))  BY DEF ListsHold
  <2>4. pl.tasks[c] \in Seq(Ids) /\ id \in Ids /\ id \notin On(i, D \ {id}, tk, c)
    BY <1>1, <1>2 DEF On
  <2>5. at \in 1..Len(pl.tasks[c]) + 1  BY <1>3
  <2>6. Enumerates(InsertAt(pl.tasks[c], at, id), On(i, D \ {id}, tk, c) \cup {id})
    BY <2>3, <2>4, <2>5, InsertEnumerates
  <2> QED  BY <2>1, <2>2, <2>6
<1>4. CASE c # cpu
  <2>1. On(i, D, r.task, c) = On(i, D \ {id}, tk, c)  BY <1>4 DEF Placed, On
  <2>2. r.pl.tasks[c] = pl.tasks[c]  BY <1>1, <1>2, <1>4
  <2> QED  BY <2>1, <2>2 DEF ListsHold
<1> QED  BY <1>3, <1>4

LEMMA RMSchedule ==
  ASSUME NEW i \in Index, Plugins[i].kind = "RM", NEW pl \in PluginType,
         NEW D \in SUBSET Ids, NEW id \in D, NEW tk \in [D -> UnplacedType],
         ListsHold(i, D \ {id}, tk, pl)
  PROVE  /\ Placed(i, D, tk, id, Schedule(i, pl, tk, id))
         /\ ListsHold(i, D, Schedule(i, pl, tk, id).task, Schedule(i, pl, tk, id).pl)
         /\ Booked(i, pl, D, tk, id, Schedule(i, pl, tk, id))
<1> DEFINE r      == Schedule(i, pl, tk, id)
           cpu    == RM!least_loaded_cpu(Plugins[i], pl)
           p      == tk[id].params
           old    == pl.tasks[cpu]
           stops  == {k \in 1..Len(old) : ~(RM!cmp_period_dsc(p, tk[old[k]].params) > 0)}
           at     == IF stops = {} THEN Len(old) + 1 ELSE Min(stops)
           list   == InsertAt(old, at, id)
           shares == at <= Len(old) /\ tk[old[at]].params.period = p.period
           dist   == IF shares THEN pl.dist[cpu] ELSE (pl.dist[cpu] + 1) % Word
           util   == IF get_util(p) = NoUtil THEN 0 ELSE get_util(p)
           booked == [tk EXCEPT ![id] = [@ EXCEPT !.cpu = cpu, !.pluginid = i,
                                           !.acceptedt = p.runtime, !.acceptedu = util]]
<1>1. cpu \in Cores(i) /\ cpu \in Cpus  BY LeastLoadedIsCore, CoresAreCpus
<1>2. tk[id] \in UnplacedType /\ p \in CreateParams /\ p \in ParamsType
  BY ParamTypes DEF UnplacedType
<1>3. /\ pl.free \in [Cpus -> Int] /\ pl.count \in [Cpus -> Int]
      /\ pl.tasks \in [Cpus -> Seq(Ids)] /\ pl.dist \in [Cpus -> 0..Word - 1]
      /\ pl.nper \in [Cpus -> [Prios -> Int]]
  BY PluginFields
<1>4. old \in Seq(Ids) /\ Len(old) \in Nat  BY <1>1, <1>3
<1>5. at \in 1..Len(old) + 1
  <2>1. stops \in SUBSET (1..Len(old))  OBVIOUS
  <2> HIDE DEF stops
  <2> QED  BY <1>4, <2>1, Position
<1>6. list \in Seq(Ids)
  <2> HIDE DEF old, at
  <2> QED  BY <1>4, <1>5, InsertAtElements
<1>7. util \in Int /\ p.runtime \in Int  BY <1>2, UtilTypes DEF ParamsType
<1>8. dist \in 0..Word - 1
  <2>1. pl.dist[cpu] \in 0..Word - 1  BY <1>1, <1>3
  <2>2. (pl.dist[cpu] + 1) % Word \in 0..Word - 1  BY <2>1, PluginAssumption
  <2> QED  BY <2>1, <2>2
<1>9. booked \in [D -> UnplacedType]  BY <1>1, <1>2, <1>7 DEF UnplacedType
<1>10. /\ booked[id].pluginid = i /\ booked[id].cpu = cpu
       /\ booked[id].acceptedu = util /\ booked[id].params = tk[id].params
       /\ \A x \in D \ {id} : booked[x] = tk[x]
  BY <1>2 DEF UnplacedType
<1>11. Plugins[i].id = i  BY PluginConfig
<1>12. r = [pl   |-> [pl EXCEPT !.tasks[cpu] = list, !.dist[cpu] = dist,
                                !.free[cpu] = @ - util, !.count[cpu] = @ + 1],
            task |-> IF shares THEN [booked EXCEPT ![id].schedprio = tk[old[at]].schedprio]
                     ELSE RM!assign_priorities(Plugins[i], list, dist, booked)]
  <2>1. Schedule(i, pl, tk, id) = RM!rtf_plg_task_schedule(Plugins[i], pl, tk, id)
    BY DEF Schedule
  <2>2. RM!SortedPosition(old, LAMBDA x : RM!cmp_period_dsc(p, tk[x].params) > 0) = at
    BY Zenon DEF RM!SortedPosition, RM!Min, Min
  <2>3. RM!InsertAt(old, at, id) = list  BY Zenon DEF RM!InsertAt, InsertAt
  <2>4. RM!BookedUtil(p) = util  BY SameFunctions DEF RM!BookedUtil
  <2> QED  BY <1>11, <2>1, <2>2, <2>3, <2>4, Zenon DEF RM!rtf_plg_task_schedule
<1>13. shares => tk[old[at]].schedprio \in Int
  <2> SUFFICES ASSUME at <= Len(old) PROVE tk[old[at]].schedprio \in Int
    OBVIOUS
  <2>1. ToSet(old) = On(i, D \ {id}, tk, cpu)  BY <1>1 DEF ListsHold, Enumerates
  <2> HIDE DEF old, at, cpu
  <2>2. at \in 1..Len(old)  BY <1>4, <1>5
  <2>3. old[at] \in ToSet(old)  BY <1>4, <2>2 DEF ToSet
  <2>4. old[at] \in D  BY <2>1, <2>3 DEF On
  <2> QED  BY <2>4 DEF UnplacedType
<1> HIDE DEF r, cpu, p, old, at, list, shares, dist, util, booked
<1>14. SameButPrio(D, booked, r.task)
  <2>1. CASE shares
    <3>1. r.task = [booked EXCEPT ![id].schedprio = tk[old[at]].schedprio]  BY <1>12, <2>1
    <3>2. tk[old[at]].schedprio \in Int  BY <1>13, <2>1
    <3> QED  BY <1>9, <3>1, <3>2 DEF SameButPrio, UnplacedType
  <2>2. CASE ~shares
    <3>1. r.task = RM!assign_priorities(Plugins[i], list, dist, booked)  BY <1>12, <2>2
    <3> QED  BY <1>6, <1>8, <1>9, <3>1, RMAssign
  <2> QED  BY <2>1, <2>2
<1>15. /\ r.pl \in PluginType /\ r.pl.tasks = [pl.tasks EXCEPT ![cpu] = list]
       /\ r.pl.free = [pl.free EXCEPT ![cpu] = @ - util]
       /\ r.pl.count = [pl.count EXCEPT ![cpu] = @ + 1]
  <2> DEFINE f == [pl.free EXCEPT ![cpu] = @ - util]
             n == [pl.count EXCEPT ![cpu] = @ + 1]
             l == [pl.tasks EXCEPT ![cpu] = list]
             d == [pl.dist EXCEPT ![cpu] = dist]
  <2>1. r.pl = [free |-> f, count |-> n, tasks |-> l, dist |-> d, nper |-> pl.nper]
    BY <1>12 DEF PluginType
  <2>2. f \in [Cpus -> Int] /\ n \in [Cpus -> Int]  BY <1>1, <1>3, <1>7
  <2>3. l \in [Cpus -> Seq(Ids)] /\ d \in [Cpus -> 0..Word - 1]  BY <1>1, <1>3, <1>6, <1>8
  <2> HIDE DEF f, n, l, d
  <2>4. [free |-> f, count |-> n, tasks |-> l, dist |-> d, nper |-> pl.nper] \in PluginType
    BY <1>3, <2>2, <2>3, MakePlugin, Zenon
  <2> QED  BY <2>1, <2>4 DEF f, n, l
<1>16. r.task[id].cpu = cpu  BY <1>10, <1>14 DEF SameButPrio
<1>17. Placed(i, D, tk, id, r)  BY <1>1, <1>10, <1>14, <1>15 DEF Placed, SameButPrio
<1>18. ListsHold(i, D, r.task, r.pl)
  BY <1>1, <1>5, <1>15, <1>16, <1>17, ListsAfterInsert DEF list, old
<1>19. r.task[id].acceptedu = util  BY <1>10, <1>14 DEF SameButPrio
<1>20. \A x \in D \ {id} : r.task[x].acceptedu = tk[x].acceptedu
  BY <1>10, <1>14 DEF SameButPrio
<1>21. \A x \in D : r.task[x].params = tk[x].params  BY <1>10, <1>14 DEF SameButPrio
<1>22. Booked(i, pl, D, tk, id, r)
  BY <1>15, <1>16, <1>19, <1>20, <1>21, LeastLoadedIs DEF Booked, cpu
<1> QED  BY <1>17, <1>18, <1>22 DEF r

LEMMA RRSchedule ==
  ASSUME NEW i \in Index, Plugins[i].kind = "RR", NEW pl \in PluginType,
         NEW D \in SUBSET Ids, NEW id \in D, NEW tk \in [D -> UnplacedType],
         ListsHold(i, D \ {id}, tk, pl)
  PROVE  /\ Placed(i, D, tk, id, Schedule(i, pl, tk, id))
         /\ ListsHold(i, D, Schedule(i, pl, tk, id).task, Schedule(i, pl, tk, id).pl)
         /\ Booked(i, pl, D, tk, id, Schedule(i, pl, tk, id))
<1> DEFINE r      == Schedule(i, pl, tk, id)
           cpu    == RR!least_loaded_cpu(Plugins[i], pl)
           p      == tk[id].params
           old    == pl.tasks[cpu]
           stops  == {k \in 1..Len(old) : ~(RR!cmp_priority_asc(p, tk[old[k]].params) > 0)}
           at     == IF stops = {} THEN Len(old) + 1 ELSE Min(stops)
           first  == RR!FirstOfPriority(Plugins[i], pl, tk, id)
           list   == InsertAt(old, at, id)
           dist   == IF first THEN (pl.dist[cpu] + 1) % Word ELSE pl.dist[cpu]
           booked == [tk EXCEPT ![id] = [@ EXCEPT !.cpu = cpu, !.pluginid = i]]
<1>1. cpu \in Cores(i) /\ cpu \in Cpus  BY LeastLoadedIsCore, CoresAreCpus
<1>2. tk[id] \in UnplacedType /\ p \in CreateParams /\ p.priority \in Prios
  BY ParamTypes DEF UnplacedType
<1>3. /\ pl.free \in [Cpus -> Int] /\ pl.count \in [Cpus -> Int]
      /\ pl.tasks \in [Cpus -> Seq(Ids)] /\ pl.dist \in [Cpus -> 0..Word - 1]
      /\ pl.nper \in [Cpus -> [Prios -> Int]]
  BY PluginFields
<1>4. old \in Seq(Ids) /\ Len(old) \in Nat  BY <1>1, <1>3
<1>5. at \in 1..Len(old) + 1
  <2>1. stops \in SUBSET (1..Len(old))  OBVIOUS
  <2> HIDE DEF stops
  <2> QED  BY <1>4, <2>1, Position
<1>6. list \in Seq(Ids)
  <2> HIDE DEF old, at
  <2> QED  BY <1>4, <1>5, InsertAtElements
<1>7. dist \in 0..Word - 1
  <2>1. pl.dist[cpu] \in 0..Word - 1  BY <1>1, <1>3
  <2>2. (pl.dist[cpu] + 1) % Word \in 0..Word - 1  BY <2>1, PluginAssumption
  <2> QED  BY <2>1, <2>2
<1>8. booked \in [D -> UnplacedType]  BY <1>1, <1>2 DEF UnplacedType
<1>9. /\ booked[id].pluginid = i /\ booked[id].cpu = cpu
      /\ booked[id].params = tk[id].params
      /\ \A x \in D \ {id} : booked[x] = tk[x]
  BY <1>2 DEF UnplacedType
<1>10. Plugins[i].id = i  BY PluginConfig
<1>11. r = [pl   |-> [pl EXCEPT !.tasks[cpu] = list, !.dist[cpu] = dist,
                                !.nper[cpu][p.priority] = @ + 1, !.count[cpu] = @ + 1],
            task |-> IF first THEN RR!assign_priorities(Plugins[i], list, dist, booked)
                     ELSE IF at > Len(old) THEN booked
                     ELSE [booked EXCEPT ![id].schedprio = tk[list[at + 1]].schedprio]]
  <2>1. Schedule(i, pl, tk, id) = RR!rtf_plg_task_schedule(Plugins[i], pl, tk, id)
    BY DEF Schedule
  <2>2. RR!PlaceOf(Plugins[i], pl, tk, id) = at
    BY Zenon DEF RR!PlaceOf, RR!SortedPosition, RR!Min, Min
  <2>3. RR!InsertAt(old, at, id) = list  BY Zenon DEF RR!InsertAt, InsertAt
  <2> QED  BY <1>10, <2>1, <2>2, <2>3, Zenon DEF RR!rtf_plg_task_schedule
<1>12. at <= Len(old) => tk[list[at + 1]].schedprio \in Int
  <2> SUFFICES ASSUME at <= Len(old) PROVE tk[list[at + 1]].schedprio \in Int
    OBVIOUS
  <2>1. ToSet(old) = On(i, D \ {id}, tk, cpu)  BY <1>1 DEF ListsHold, Enumerates
  <2> HIDE DEF old, at, cpu
  <2>2. at \in 1..Len(old)  BY <1>4, <1>5
  <2>3. list[at + 1] = old[at]  BY <1>4, <1>5, <2>2, InsertAtElements
  <2>4. old[at] \in ToSet(old)  BY <1>4, <2>2 DEF ToSet
  <2>5. old[at] \in D  BY <2>1, <2>4 DEF On
  <2> QED  BY <2>3, <2>5 DEF UnplacedType
<1> HIDE DEF r, cpu, p, old, at, first, list, dist, booked
<1>13. SameButPrio(D, booked, r.task)
  <2>1. CASE first
    <3>1. r.task = RR!assign_priorities(Plugins[i], list, dist, booked)  BY <1>11, <2>1
    <3> QED  BY <1>6, <1>8, <3>1, RRAssign
  <2>2. CASE ~first /\ at > Len(old)
    <3>1. r.task = booked  BY <1>11, <2>2
    <3> QED  BY <1>8, <3>1 DEF SameButPrio
  <2>3. CASE ~first /\ at <= Len(old)
    <3>1. r.task = [booked EXCEPT ![id].schedprio = tk[list[at + 1]].schedprio]
      <4>1. ~(at > Len(old))  BY <1>4, <1>5, <2>3
      <4> QED  BY <1>11, <2>3, <4>1
    <3>2. tk[list[at + 1]].schedprio \in Int  BY <1>12, <2>3
    <3> QED  BY <1>8, <3>1, <3>2 DEF SameButPrio, UnplacedType
  <2>4. at > Len(old) \/ at <= Len(old)  BY <1>4, <1>5
  <2> QED  BY <2>1, <2>2, <2>3, <2>4
<1>14. /\ r.pl \in PluginType /\ r.pl.tasks = [pl.tasks EXCEPT ![cpu] = list]
       /\ r.pl.count = [pl.count EXCEPT ![cpu] = @ + 1]
       /\ r.pl.nper = [pl.nper EXCEPT ![cpu][p.priority] = @ + 1]
  <2> DEFINE n == [pl.count EXCEPT ![cpu] = @ + 1]
             l == [pl.tasks EXCEPT ![cpu] = list]
             d == [pl.dist EXCEPT ![cpu] = dist]
             q == [pl.nper EXCEPT ![cpu][p.priority] = @ + 1]
  <2>1. r.pl = [free |-> pl.free, count |-> n, tasks |-> l, dist |-> d, nper |-> q]
    BY <1>11 DEF PluginType
  <2>2. n \in [Cpus -> Int]  BY <1>1, <1>3
  <2>3. l \in [Cpus -> Seq(Ids)] /\ d \in [Cpus -> 0..Word - 1]  BY <1>1, <1>3, <1>6, <1>7
  <2>4. q \in [Cpus -> [Prios -> Int]]  BY <1>1, <1>2, <1>3
  <2> HIDE DEF n, l, d, q
  <2>5. [free |-> pl.free, count |-> n, tasks |-> l, dist |-> d, nper |-> q] \in PluginType
    BY <1>3, <2>2, <2>3, <2>4, MakePlugin, Zenon
  <2> QED  BY <2>1, <2>5 DEF n, l, q
<1>15. r.task[id].cpu = cpu  BY <1>9, <1>13 DEF SameButPrio
<1>16. Placed(i, D, tk, id, r)  BY <1>1, <1>9, <1>13, <1>14 DEF Placed, SameButPrio
<1>17. ListsHold(i, D, r.task, r.pl)
  BY <1>1, <1>5, <1>14, <1>15, <1>16, ListsAfterInsert DEF list, old
<1>18. \A x \in D \ {id} : r.task[x].acceptedu = tk[x].acceptedu
  BY <1>9, <1>13 DEF SameButPrio
<1>19. \A x \in D : r.task[x].params = tk[x].params  BY <1>9, <1>13 DEF SameButPrio
<1>20. Booked(i, pl, D, tk, id, r)
  BY <1>14, <1>15, <1>18, <1>19, LeastLoadedIs DEF Booked, Books, p, cpu
<1> QED  BY <1>16, <1>17, <1>20 DEF r

(***************************************************************************)
(* The four schedule calls together.  Only RM and RR keep lists.           *)
(***************************************************************************)
KeepsLists(i) == Plugins[i].kind \in {"RM", "RR"}

LEMMA ScheduleFacts ==
  ASSUME NEW i \in Index, NEW pl \in PluginType,
         NEW D \in SUBSET Ids, NEW id \in D, NEW tk \in [D -> UnplacedType],
         KeepsLists(i) => ListsHold(i, D \ {id}, tk, pl)
  PROVE  /\ Placed(i, D, tk, id, Schedule(i, pl, tk, id))
         /\ KeepsLists(i)
              => ListsHold(i, D, Schedule(i, pl, tk, id).task, Schedule(i, pl, tk, id).pl)
         /\ Booked(i, pl, D, tk, id, Schedule(i, pl, tk, id))
<1>1. CASE Plugins[i].kind = "EDF"  BY <1>1, EDFSchedule DEF KeepsLists
<1>2. CASE Plugins[i].kind = "RM"   BY <1>2, RMSchedule DEF KeepsLists
<1>3. CASE Plugins[i].kind = "RR"   BY <1>3, RRSchedule DEF KeepsLists
<1>4. CASE Plugins[i].kind = "FP"   BY <1>4, FPSchedule DEF KeepsLists
<1> QED  BY <1>1, <1>2, <1>3, <1>4, PluginConfig DEF Kinds

(***************************************************************************)
(* The plugins' own copies of the removal from a list.                     *)
(***************************************************************************)
LEMMA SameRemoval ==
  ASSUME NEW s, NEW e
  PROVE  RM!RemoveFirst(s, e) = RemoveFirst(s, e) /\ RR!RemoveFirst(s, e) = RemoveFirst(s, e)
BY Zenon DEF RM!RemoveFirst, RM!RemoveAt, RM!SelectInSeq, RM!Min, RR!RemoveFirst, RR!RemoveAt,
             RR!SelectInSeq, RR!Min, RemoveFirst, RemoveAt, SelectInSeq, Min

LEMMA ListsAfterRemoval ==
  ASSUME NEW i \in Index, NEW pl \in PluginType, NEW D \in SUBSET Ids, NEW id \in D, NEW tk,
         ListsHold(i, D, tk, pl), tk[id].pluginid = i,
         NEW cpu \in Cores(i), tk[id].cpu = cpu,
         NEW l, l = [pl.tasks EXCEPT ![cpu] = RemoveFirst(pl.tasks[cpu], id)]
  PROVE  /\ l \in [Cpus -> Seq(Ids)]
         /\ \A c \in Cores(i) : Enumerates(l[c], On(i, D \ {id}, tk, c))
<1>1. pl.tasks \in [Cpus -> Seq(Ids)]  BY PluginFields
<1>2. cpu \in Cpus  BY CoresAreCpus
<1>3. id \in On(i, D, tk, cpu)  BY DEF On
<1>4. Enumerates(pl.tasks[cpu], On(i, D, tk, cpu))  BY DEF ListsHold
<1>5. pl.tasks[cpu] \in Seq(Ids)  BY <1>1, <1>2
<1>6. /\ RemoveFirst(pl.tasks[cpu], id) \in Seq(Ids)
      /\ Enumerates(RemoveFirst(pl.tasks[cpu], id), On(i, D, tk, cpu) \ {id})
  BY <1>3, <1>4, <1>5, RemoveEnumerates
<1>7. l \in [Cpus -> Seq(Ids)]  BY <1>1, <1>6
<1>8. ASSUME NEW c \in Cores(i) PROVE Enumerates(l[c], On(i, D \ {id}, tk, c))
  <2>1. c \in Cpus  BY CoresAreCpus
  <2>2. CASE c = cpu
    <3>1. On(i, D \ {id}, tk, c) = On(i, D, tk, cpu) \ {id}  BY <2>2 DEF On
    <3>2. l[c] = RemoveFirst(pl.tasks[cpu], id)  BY <1>1, <1>2, <2>2
    <3> QED  BY <1>6, <3>1, <3>2
  <2>3. CASE c # cpu
    <3>1. On(i, D \ {id}, tk, c) = On(i, D, tk, c)  BY <2>3 DEF On
    <3>2. l[c] = pl.tasks[c]  BY <1>1, <2>1, <2>3
    <3> QED  BY <3>1, <3>2 DEF ListsHold
  <2> QED  BY <2>2, <2>3
<1> QED  BY <1>7, <1>8

(***************************************************************************)
(* Releasing a reservation in the plugin that holds it.  RM and RR take it *)
(* off its list, and RR counts one priority less with the last of it.      *)
(***************************************************************************)
Unlisted(i, id, t, pl, r) ==
  /\ KeepsLists(i) => r.tasks = [pl.tasks EXCEPT ![t.cpu] = RemoveFirst(pl.tasks[t.cpu], id)]
  /\ Plugins[i].kind = "RR" =>
       r.dist = [pl.dist EXCEPT ![t.cpu] = IF pl.nper[t.cpu][t.params.priority] - 1 = 0
                                           THEN (@ - 1) % Word ELSE @]

LEMMA ReleaseFacts ==
  ASSUME NEW i \in Index, plugin[i] \in PluginType, DOMAIN task \in SUBSET Ids,
         task \in [DOMAIN task -> TaskType], NEW id \in DOMAIN task,
         task[id].pluginid = i, task[id].cpu \in Cores(i),
         KeepsLists(i) => ListsHold(i, DOMAIN task, task, plugin[i])
  PROVE  /\ Release(i, id) \in PluginType
         /\ KeepsLists(i) => ListsHold(i, DOMAIN task \ {id}, task, Release(i, id))
         /\ Unbooked(i, task[id], plugin[i], Release(i, id))
         /\ Unlisted(i, id, task[id], plugin[i], Release(i, id))
<1> DEFINE pl   == plugin[i]
           t    == task[id]
           cpu  == task[id].cpu
           prio == task[id].params.priority
           r    == Release(i, id)
<1>0. /\ pl \in PluginType /\ task[id].cpu = cpu
      /\ KeepsLists(i) => ListsHold(i, DOMAIN task, task, pl)
  OBVIOUS
<1>1. t \in TaskType /\ t.acceptedu \in Int /\ t.params \in CreateParams  BY DEF TaskType
<1>2. cpu \in Cpus /\ prio \in Prios /\ cpu \in Cores(i)  BY <1>1, CoresAreCpus, ParamTypes
<1>3. /\ pl.free \in [Cpus -> Int] /\ pl.count \in [Cpus -> Int]
      /\ pl.tasks \in [Cpus -> Seq(Ids)] /\ pl.dist \in [Cpus -> 0..Word - 1]
      /\ pl.nper \in [Cpus -> [Prios -> Int]]
  BY PluginFields
<1>4. [pl.count EXCEPT ![cpu] = @ - 1] \in [Cpus -> Int]
  <2> HIDE DEF pl, cpu
  <2> QED  BY <1>2, <1>3
<1>5. [pl.free EXCEPT ![cpu] = @ + t.acceptedu] \in [Cpus -> Int]
  <2> HIDE DEF pl, cpu, t
  <2> QED  BY <1>1, <1>2, <1>3
<1>6. \A d \in 0..Word - 1 : (d - 1) % Word \in 0..Word - 1  BY PluginAssumption
<1>7. CASE Plugins[i].kind = "EDF"
  <2> DEFINE f == [pl.free EXCEPT ![cpu] = @ + t.acceptedu]
             n == [pl.count EXCEPT ![cpu] = @ - 1]
  <2>1. r = [free |-> f, count |-> n, tasks |-> pl.tasks, dist |-> pl.dist, nper |-> pl.nper]
    BY <1>7 DEF Release, EDF!rtf_plg_task_release, PluginType
  <2>2. f \in [Cpus -> Int] /\ n \in [Cpus -> Int]  BY <1>4, <1>5
  <2> HIDE DEF f, n, pl
  <2>3. [free |-> f, count |-> n, tasks |-> pl.tasks, dist |-> pl.dist, nper |-> pl.nper]
          \in PluginType
    BY <1>3, <2>2, MakePlugin, Zenon
  <2>4. Unbooked(i, t, pl, r)  BY <1>7, <2>1 DEF Unbooked, f, n
  <2>5. Unlisted(i, id, t, pl, r)  BY <1>7 DEF Unlisted, KeepsLists
  <2> QED  BY <1>7, <2>1, <2>3, <2>4, <2>5 DEF KeepsLists, pl
<1>8. CASE Plugins[i].kind = "FP"
  <2> DEFINE n == [pl.count EXCEPT ![cpu] = @ - 1]
  <2>1. r = [free |-> pl.free, count |-> n, tasks |-> pl.tasks, dist |-> pl.dist, nper |-> pl.nper]
    BY <1>8 DEF Release, FP!rtf_plg_task_release, PluginType
  <2>2. n \in [Cpus -> Int]  BY <1>4
  <2> HIDE DEF n, pl
  <2>3. [free |-> pl.free, count |-> n, tasks |-> pl.tasks, dist |-> pl.dist, nper |-> pl.nper]
          \in PluginType
    BY <1>3, <2>2, MakePlugin, Zenon
  <2>4. Unbooked(i, t, pl, r)  BY <1>8, <2>1 DEF Unbooked, Books, n
  <2>5. Unlisted(i, id, t, pl, r)  BY <1>8 DEF Unlisted, KeepsLists
  <2> QED  BY <1>8, <2>1, <2>3, <2>4, <2>5 DEF KeepsLists, pl
<1>9. CASE Plugins[i].kind = "RM"
  <2> DEFINE shared == \E k \in 1..Len(pl.tasks[cpu]) :
                         /\ pl.tasks[cpu][k] # id
                         /\ task[pl.tasks[cpu][k]].params.period = t.params.period
             f == [pl.free EXCEPT ![cpu] = @ + t.acceptedu]
             n == [pl.count EXCEPT ![cpu] = @ - 1]
             l == [pl.tasks EXCEPT ![cpu] = RemoveFirst(pl.tasks[cpu], id)]
             d == [pl.dist EXCEPT ![cpu] = IF shared THEN (@ - 1) % Word ELSE @]
  <2>1. r = [free |-> f, count |-> n, tasks |-> l, dist |-> d, nper |-> pl.nper]
    <3>1. r = RM!rtf_plg_task_release(Plugins[i], pl, task, id)  BY <1>9 DEF Release
    <3>2. RM!RemoveFirst(pl.tasks[cpu], id) = RemoveFirst(pl.tasks[cpu], id)  BY SameRemoval
    <3>3. r = [pl EXCEPT !.tasks[cpu] = RemoveFirst(pl.tasks[cpu], id),
                         !.dist[cpu]  = IF shared THEN (@ - 1) % Word ELSE @,
                         !.free[cpu]  = @ + t.acceptedu,
                         !.count[cpu] = @ - 1]
      BY <3>1, <3>2, Zenon DEF RM!rtf_plg_task_release
    <3> HIDE DEF shared
    <3> QED  BY <3>3 DEF PluginType
  <2>2. KeepsLists(i)  BY <1>9 DEF KeepsLists
  <2>3. f \in [Cpus -> Int] /\ n \in [Cpus -> Int]  BY <1>4, <1>5
  <2>4. d \in [Cpus -> 0..Word - 1]
    <3> HIDE DEF shared
    <3> QED  BY <1>2, <1>3, <1>6
  <2>5. r.tasks = l  BY <2>1
  <2>6. l \in [Cpus -> Seq(Ids)] /\ ListsHold(i, DOMAIN task \ {id}, task, r)
    <3>0. l = [pl.tasks EXCEPT ![cpu] = RemoveFirst(pl.tasks[cpu], id)]  OBVIOUS
    <3> HIDE DEF r, pl, cpu, l
    <3>1. ListsHold(i, DOMAIN task, task, pl)  BY <1>0, <2>2
    <3>2. /\ l \in [Cpus -> Seq(Ids)]
          /\ \A c \in Cores(i) : Enumerates(l[c], On(i, DOMAIN task \ {id}, task, c))
      BY <1>0, <1>2, <3>0, <3>1, ListsAfterRemoval, Zenon
    <3> QED  BY <2>5, <3>2 DEF ListsHold
  <2> HIDE DEF f, n, l, d, pl
  <2>7. [free |-> f, count |-> n, tasks |-> l, dist |-> d, nper |-> pl.nper] \in PluginType
    BY <1>3, <2>3, <2>4, <2>6, MakePlugin, Zenon
  <2>8. Unbooked(i, t, pl, r)  BY <1>9, <2>1 DEF Unbooked, f, n
  <2>9. Unlisted(i, id, t, pl, r)  BY <1>9, <2>5 DEF Unlisted, l
  <2> QED  BY <2>1, <2>6, <2>7, <2>8, <2>9 DEF pl
<1>10. CASE Plugins[i].kind = "RR"
  <2> DEFINE k == pl.nper[cpu][prio] - 1
             n == [pl.count EXCEPT ![cpu] = @ - 1]
             l == [pl.tasks EXCEPT ![cpu] = RemoveFirst(pl.tasks[cpu], id)]
             d == [pl.dist EXCEPT ![cpu] = IF k = 0 THEN (@ - 1) % Word ELSE @]
             q == [pl.nper EXCEPT ![cpu][prio] = k]
  <2>1. r = [free |-> pl.free, count |-> n, tasks |-> l, dist |-> d, nper |-> q]
    <3>1. r = RR!rtf_plg_task_release(Plugins[i], pl, task, id)  BY <1>10 DEF Release
    <3>2. RR!RemoveFirst(pl.tasks[cpu], id) = RemoveFirst(pl.tasks[cpu], id)  BY SameRemoval
    <3>3. r = [pl EXCEPT !.count[cpu] = @ - 1,
                         !.nper[cpu][prio] = k,
                         !.dist[cpu]  = IF k = 0 THEN (@ - 1) % Word ELSE @,
                         !.tasks[cpu] = RR!RemoveFirst(@, id)]
      BY <3>1, Zenon DEF RR!rtf_plg_task_release
    <3> HIDE DEF r, pl, cpu, prio, k
    <3> QED  BY <1>0, <3>2, <3>3 DEF PluginType
  <2>2. KeepsLists(i)  BY <1>10 DEF KeepsLists
  <2>3. n \in [Cpus -> Int]  BY <1>4
  <2>4. d \in [Cpus -> 0..Word - 1]
    <3> HIDE DEF k
    <3> QED  BY <1>2, <1>3, <1>6
  <2>5. q \in [Cpus -> [Prios -> Int]]
    <3>1. k \in Int  BY <1>2, <1>3
    <3> HIDE DEF pl, cpu, prio, k
    <3> QED  BY <1>2, <1>3, <3>1
  <2>6. r.tasks = l  BY <2>1
  <2>7. l \in [Cpus -> Seq(Ids)] /\ ListsHold(i, DOMAIN task \ {id}, task, r)
    <3>0. l = [pl.tasks EXCEPT ![cpu] = RemoveFirst(pl.tasks[cpu], id)]  OBVIOUS
    <3> HIDE DEF r, pl, cpu, l
    <3>1. ListsHold(i, DOMAIN task, task, pl)  BY <1>0, <2>2
    <3>2. /\ l \in [Cpus -> Seq(Ids)]
          /\ \A c \in Cores(i) : Enumerates(l[c], On(i, DOMAIN task \ {id}, task, c))
      BY <1>0, <1>2, <3>0, <3>1, ListsAfterRemoval, Zenon
    <3> QED  BY <2>6, <3>2 DEF ListsHold
  <2> HIDE DEF n, l, d, q, pl
  <2>8. [free |-> pl.free, count |-> n, tasks |-> l, dist |-> d, nper |-> q] \in PluginType
    BY <1>3, <2>3, <2>4, <2>5, <2>7, MakePlugin, Zenon
  <2>9. Unbooked(i, t, pl, r)  BY <1>10, <2>1 DEF Unbooked, Books, n, q
  <2>10. r.dist = d  BY <2>1
  <2>11. Unlisted(i, id, t, pl, r)
    <3>1. d = [pl.dist EXCEPT ![t.cpu] = IF pl.nper[t.cpu][t.params.priority] - 1 = 0
                                         THEN (@ - 1) % Word ELSE @]
      BY DEF d
    <3>2. l = [pl.tasks EXCEPT ![t.cpu] = RemoveFirst(pl.tasks[t.cpu], id)]  BY DEF l
    <3> HIDE DEF r, t, cpu, prio
    <3> QED  BY <2>6, <2>10, <3>1, <3>2 DEF Unlisted
  <2> QED  BY <2>1, <2>7, <2>8, <2>9, <2>11 DEF pl
<1> QED  BY <1>7, <1>8, <1>9, <1>10, PluginConfig DEF Kinds

-----------------------------------------------------------------------------
(***************************************************************************)
(* The accounts of plugin i for the reservations D: on each of its cores   *)
(* the number of them, for RR the number of each priority, and for EDF and *)
(* RM a whole CPU shared between what is free and what they were granted.  *)
(* The first and the last need every core number to be below the length of *)
(* the arrays, which are as long as the core list: what lies beyond starts *)
(* as garbage.  The second needs the plugin to have static variables of    *)
(* its own: no other plugin is loaded from its .so.                        *)
(***************************************************************************)
ArraysInBounds == \A i \in Index : \A c \in Cores(i) : c < Len(Plugins[i].cpulist)

OwnStatics == \A i, j \in Index : SameStatics(i, j) => i = j

Grants(D, tk) == [x \in D |-> tk[x].acceptedu]

At(i, D, tk, c, p) == {x \in On(i, D, tk, c) : tk[x].params.priority = p}

CountHolds(i, D, tk, pl) == \A c \in Cores(i) : pl.count[c] = Cardinality(On(i, D, tk, c))

NperHolds(i, D, tk, pl) ==
  \A c \in Cores(i), p \in Prios : pl.nper[c][p] = Cardinality(At(i, D, tk, c, p))

FreeHolds(i, D, tk, pl) ==
  \A c \in Cores(i) :
    pl.free[c] + SumFunctionOnSet(Grants(D, tk), On(i, D, tk, c)) = Unit

Accounts(i, D, tk, pl) ==
  /\ ArraysInBounds => CountHolds(i, D, tk, pl)
  /\ Plugins[i].kind = "RR" /\ OwnStatics => NperHolds(i, D, tk, pl)
  /\ Books(i) /\ ArraysInBounds => FreeHolds(i, D, tk, pl)

\* There are finitely many reservations.
LEMMA FiniteOn ==
  ASSUME NEW D \in SUBSET Ids, NEW S \in SUBSET D
  PROVE  IsFiniteSet(S) /\ Cardinality(S) \in Nat
<1>1. IsFiniteSet(Ids)  BY SchedulerAssumption, FS_Interval DEF Ids
<1>2. IsFiniteSet(S)  BY <1>1, FS_Subset
<1> QED  BY <1>2, FS_CardinalityType

(***************************************************************************)
(* Accounts depend on the free utilisations and the counters of the plugin *)
(* and on the core, the grant and the priority of its reservations only.   *)
(***************************************************************************)
LEMMA SameAccounts ==
  ASSUME NEW i \in Index, NEW pl, NEW q, q.free = pl.free, q.count = pl.count,
         OwnStatics => q.nper = pl.nper, NEW D \in SUBSET Ids, NEW tk,
         \A x \in D : tk[x] \in UnplacedType,
         NEW E \in SUBSET Ids, NEW new,
         \A c : On(i, E, new, c) = On(i, D, tk, c),
         \A c : \A x \in On(i, D, tk, c) : /\ new[x].acceptedu = tk[x].acceptedu
                                           /\ new[x].params = tk[x].params,
         Accounts(i, D, tk, pl)
  PROVE  Accounts(i, E, new, q)
<1>1. ASSUME ArraysInBounds PROVE CountHolds(i, E, new, q)  BY <1>1 DEF Accounts, CountHolds
<1>2. ASSUME Plugins[i].kind = "RR", OwnStatics PROVE NperHolds(i, E, new, q)
  <2>1. \A c, p : At(i, E, new, c, p) = At(i, D, tk, c, p)  BY DEF At
  <2> QED  BY <1>2, <2>1 DEF Accounts, NperHolds
<1>3. ASSUME FreeHolds(i, D, tk, pl) PROVE FreeHolds(i, E, new, q)
  <2> SUFFICES ASSUME NEW c \in Cores(i)
               PROVE  q.free[c] + SumFunctionOnSet(Grants(E, new), On(i, E, new, c)) = Unit
    BY DEF FreeHolds
  <2> DEFINE S == On(i, D, tk, c)
             f == Grants(D, tk)
             g == Grants(E, new)
  <2>1. S \in SUBSET D /\ S \in SUBSET E /\ On(i, E, new, c) = S
    <3>1. On(i, E, new, c) \subseteq E  BY DEF On
    <3> QED  BY <3>1 DEF On
  <2>2. \A x \in S : f[x] \in Int /\ g[x] = f[x]
    BY <2>1 DEF Grants, UnplacedType
  <2>3. IsFiniteSet(S)  BY <2>1, FiniteOn
  <2> HIDE DEF S, f, g
  <2>4. SumFunctionOnSet(g, S) = SumFunctionOnSet(f, S)  BY <2>2, <2>3, SumSame
  <2>5. pl.free[c] + SumFunctionOnSet(f, S) = Unit  BY <1>3 DEF FreeHolds, S, f
  <2> QED  BY <2>1, <2>4, <2>5 DEF g
<1> QED  BY <1>1, <1>2, <1>3 DEF Accounts

(***************************************************************************)
(* A schedule call keeps the accounts.                                     *)
(***************************************************************************)
LEMMA AccountsAfterSchedule ==
  ASSUME NEW i \in Index, NEW pl \in PluginType, NEW D \in SUBSET Ids, NEW id \in D,
         NEW tk \in [D -> UnplacedType], NEW r, Placed(i, D, tk, id, r),
         Booked(i, pl, D, tk, id, r), Accounts(i, D \ {id}, tk, pl)
  PROVE  Accounts(i, D, r.task, r.pl)
<1> DEFINE cpu == r.task[id].cpu
           E   == D \ {id}
           prio == tk[id].params.priority
<1>1. cpu \in Cores(i) /\ cpu \in Cpus /\ Cores(i) \subseteq Cpus
  BY CoresAreCpus DEF Placed
<1>2. pl.free \in [Cpus -> Int] /\ pl.count \in [Cpus -> Int] /\ pl.nper \in [Cpus -> [Prios -> Int]]
  BY PluginFields
<1>3. On(i, D, r.task, cpu) = On(i, E, tk, cpu) \cup {id}  BY DEF Placed, On
<1>4. \A c : c # cpu => On(i, D, r.task, c) = On(i, E, tk, c)  BY DEF Placed, On
<1>5. \A c : On(i, E, tk, c) \in SUBSET E /\ E \in SUBSET Ids /\ id \notin On(i, E, tk, c)
  BY DEF On
<1>6. prio \in Prios /\ tk[id] \in UnplacedType /\ tk[id].params \in CreateParams
  BY ParamTypes DEF UnplacedType
<1>7. /\ r.pl.count = [pl.count EXCEPT ![cpu] = @ + 1]
      /\ \A x \in E : r.task[x].acceptedu = tk[x].acceptedu
      /\ \A x \in D : r.task[x].params = tk[x].params
      /\ r.task \in [D -> UnplacedType]
  BY DEF Booked, Placed
<1>8. ArraysInBounds => CountHolds(i, E, tk, pl)  BY DEF Accounts
<1> HIDE DEF cpu, E, prio
<1>9. ASSUME ArraysInBounds PROVE CountHolds(i, D, r.task, r.pl)
  <2> SUFFICES ASSUME NEW c \in Cores(i)
               PROVE  r.pl.count[c] = Cardinality(On(i, D, r.task, c))
    BY DEF CountHolds
  <2>1. c \in Cpus /\ pl.count[c] = Cardinality(On(i, E, tk, c))
    BY <1>1, <1>8, <1>9 DEF CountHolds
  <2>2. CASE c = cpu
    <3>1. IsFiniteSet(On(i, E, tk, c))  BY <1>5, FiniteOn
    <3>2. Cardinality(On(i, E, tk, c) \cup {id}) = Cardinality(On(i, E, tk, c)) + 1
      BY <1>5, <3>1, FS_AddElement
    <3> QED  BY <1>2, <1>3, <1>7, <2>1, <2>2, <3>2
  <2>3. CASE c # cpu  BY <1>2, <1>4, <1>7, <2>1, <2>3
  <2> QED  BY <2>2, <2>3
<1>10. ASSUME Plugins[i].kind = "RR", OwnStatics PROVE NperHolds(i, D, r.task, r.pl)
  <2>1. r.pl.nper = [pl.nper EXCEPT ![cpu][prio] = @ + 1]  BY <1>10 DEF Booked, cpu, prio
  <2>2. NperHolds(i, E, tk, pl)  BY <1>10 DEF Accounts, E
  <2> SUFFICES ASSUME NEW c \in Cores(i), NEW p \in Prios
               PROVE  r.pl.nper[c][p] = Cardinality(At(i, D, r.task, c, p))
    BY DEF NperHolds
  <2>3. c \in Cpus /\ pl.nper[c][p] = Cardinality(At(i, E, tk, c, p))
    BY <1>1, <2>2 DEF NperHolds
  <2>4. \A x \in On(i, E, tk, c) : x \in D /\ r.task[x].params = tk[x].params
    BY <1>5, <1>7 DEF E
  <2>5. CASE c = cpu /\ p = prio
    <3>1. At(i, D, r.task, c, p) = At(i, E, tk, c, p) \cup {id}
      BY <1>3, <1>7, <2>4, <2>5 DEF At, prio
    <3>2. At(i, E, tk, c, p) \in SUBSET E /\ id \notin At(i, E, tk, c, p)  BY <1>5 DEF At
    <3>3. IsFiniteSet(At(i, E, tk, c, p))  BY <1>5, <3>2, FiniteOn
    <3>4. Cardinality(At(i, E, tk, c, p) \cup {id}) = Cardinality(At(i, E, tk, c, p)) + 1
      BY <3>2, <3>3, FS_AddElement
    <3>5. r.pl.nper[c][p] = pl.nper[c][p] + 1  BY <1>1, <1>2, <1>6, <2>1, <2>5
    <3> QED  BY <2>3, <3>1, <3>4, <3>5
  <2>6. CASE c = cpu /\ p # prio
    <3>1. At(i, D, r.task, c, p) = At(i, E, tk, c, p)
      BY <1>3, <1>7, <2>4, <2>6 DEF At, prio
    <3>2. r.pl.nper[c][p] = pl.nper[c][p]  BY <1>1, <1>2, <1>6, <2>1, <2>6
    <3> QED  BY <2>3, <3>1, <3>2
  <2>7. CASE c # cpu
    <3>1. At(i, D, r.task, c, p) = At(i, E, tk, c, p)  BY <1>4, <2>4, <2>7 DEF At
    <3>2. r.pl.nper[c][p] = pl.nper[c][p]  BY <1>2, <2>1, <2>3, <2>7
    <3> QED  BY <2>3, <3>1, <3>2
  <2> QED  BY <2>5, <2>6, <2>7
<1>11. ASSUME Books(i), FreeHolds(i, E, tk, pl) PROVE FreeHolds(i, D, r.task, r.pl)
  <2>1. r.pl.free = [pl.free EXCEPT ![cpu] = @ - r.task[id].acceptedu]
    BY <1>11 DEF Booked, cpu
  <2> SUFFICES ASSUME NEW c \in Cores(i)
               PROVE  r.pl.free[c] + SumFunctionOnSet(Grants(D, r.task), On(i, D, r.task, c)) = Unit
    BY DEF FreeHolds
  <2> DEFINE S == On(i, E, tk, c)
             f == Grants(E, tk)
             g == Grants(D, r.task)
  <2>2. S \in SUBSET E /\ id \notin S /\ IsFiniteSet(S)
    BY <1>5, FiniteOn
  <2>3. \A x \in S : f[x] \in Int /\ g[x] = f[x]
    <3>1. E \subseteq D  BY DEF E
    <3> QED  BY <1>7, <2>2, <3>1 DEF Grants, UnplacedType
  <2>4. g[id] = r.task[id].acceptedu /\ g[id] \in Int  BY <1>7 DEF Grants, UnplacedType
  <2>5. c \in Cpus /\ pl.free[c] + SumFunctionOnSet(f, S) = Unit  BY <1>1, <1>11 DEF FreeHolds
  <2> HIDE DEF S, f, g
  <2>6. SumFunctionOnSet(g, S) = SumFunctionOnSet(f, S) /\ SumFunctionOnSet(f, S) \in Int
    BY <2>2, <2>3, SumSame, SumInt
  <2>7. CASE c = cpu
    <3>1. On(i, D, r.task, c) = S \cup {id}  BY <1>3, <2>7 DEF S
    <3>2. SumFunctionOnSet(g, S \cup {id}) = g[id] + SumFunctionOnSet(g, S)
      <4>1. \A x \in S \cup {id} : g[x] \in Int  BY <2>3, <2>4
      <4> QED  BY <2>2, <4>1, SumAdd
    <3>3. r.pl.free[c] = pl.free[c] - g[id]  BY <1>2, <2>1, <2>4, <2>5, <2>7
    <3>4. r.pl.free[c] + SumFunctionOnSet(g, S \cup {id}) = Unit
      BY <1>2, <2>4, <2>5, <2>6, <3>2, <3>3
    <3> QED  BY <3>1, <3>4 DEF g
  <2>8. CASE c # cpu
    <3>1. On(i, D, r.task, c) = S  BY <1>4, <2>8 DEF S
    <3>2. r.pl.free[c] = pl.free[c]  BY <1>2, <2>1, <2>5, <2>8
    <3> QED  BY <2>5, <2>6, <3>1, <3>2 DEF g
  <2> QED  BY <2>7, <2>8
<1> QED  BY <1>9, <1>10, <1>11 DEF Accounts, E

(***************************************************************************)
(* A release keeps the accounts.                                           *)
(***************************************************************************)
LEMMA AccountsAfterRelease ==
  ASSUME NEW i \in Index, NEW pl \in PluginType, NEW D \in SUBSET Ids, NEW id \in D,
         NEW tk \in [D -> UnplacedType], tk[id].pluginid = i, tk[id].cpu \in Cores(i),
         NEW r, Unbooked(i, tk[id], pl, r), Accounts(i, D, tk, pl)
  PROVE  Accounts(i, D \ {id}, tk, r)
<1> DEFINE cpu == tk[id].cpu
           E   == D \ {id}
           prio == tk[id].params.priority
<1>1. cpu \in Cores(i) /\ cpu \in Cpus /\ Cores(i) \subseteq Cpus
  BY CoresAreCpus
<1>2. pl.free \in [Cpus -> Int] /\ pl.count \in [Cpus -> Int] /\ pl.nper \in [Cpus -> [Prios -> Int]]
  BY PluginFields
<1>3. On(i, E, tk, cpu) = On(i, D, tk, cpu) \ {id} /\ id \in On(i, D, tk, cpu)  BY DEF On
<1>4. \A c : c # cpu => On(i, E, tk, c) = On(i, D, tk, c)  BY DEF On
<1>5. \A c : On(i, D, tk, c) \in SUBSET D  BY DEF On
<1>6. prio \in Prios /\ tk[id] \in UnplacedType /\ tk[id].acceptedu \in Int
  BY ParamTypes DEF UnplacedType
<1>7. r.count = [pl.count EXCEPT ![cpu] = @ - 1]  BY DEF Unbooked
<1>8. ArraysInBounds => CountHolds(i, D, tk, pl)  BY DEF Accounts
<1>9. \A c : \A S \in SUBSET On(i, D, tk, c) : IsFiniteSet(S) /\ Cardinality(S) \in Nat
  BY <1>5, FiniteOn
<1> HIDE DEF cpu, E, prio
<1>10. ASSUME NEW S, IsFiniteSet(S), id \in S PROVE Cardinality(S \ {id}) = Cardinality(S) - 1
  BY <1>10, FS_RemoveElement
<1>11. ASSUME ArraysInBounds PROVE CountHolds(i, E, tk, r)
  <2> SUFFICES ASSUME NEW c \in Cores(i) PROVE r.count[c] = Cardinality(On(i, E, tk, c))
    BY DEF CountHolds
  <2>1. c \in Cpus /\ pl.count[c] = Cardinality(On(i, D, tk, c))
    BY <1>1, <1>8, <1>11 DEF CountHolds
  <2>2. CASE c = cpu  BY <1>2, <1>3, <1>7, <1>9, <1>10, <2>1, <2>2
  <2>3. CASE c # cpu  BY <1>2, <1>4, <1>7, <2>1, <2>3
  <2> QED  BY <2>2, <2>3
<1>12. ASSUME Plugins[i].kind = "RR", OwnStatics PROVE NperHolds(i, E, tk, r)
  <2>1. r.nper = [pl.nper EXCEPT ![cpu][prio] = @ - 1]  BY <1>12 DEF Unbooked, cpu, prio
  <2>2. NperHolds(i, D, tk, pl)  BY <1>12 DEF Accounts
  <2> SUFFICES ASSUME NEW c \in Cores(i), NEW p \in Prios
               PROVE  r.nper[c][p] = Cardinality(At(i, E, tk, c, p))
    BY DEF NperHolds
  <2>3. c \in Cpus /\ pl.nper[c][p] = Cardinality(At(i, D, tk, c, p))
    BY <1>1, <2>2 DEF NperHolds
  <2>4. At(i, D, tk, c, p) \subseteq On(i, D, tk, c)  BY DEF At
  <2>5. CASE c = cpu /\ p = prio
    <3>1. At(i, E, tk, c, p) = At(i, D, tk, c, p) \ {id} /\ id \in At(i, D, tk, c, p)
      BY <1>3, <2>5 DEF At, prio
    <3>2. r.nper[c][p] = pl.nper[c][p] - 1  BY <1>1, <1>2, <1>6, <2>1, <2>5
    <3> QED  BY <1>9, <1>10, <2>3, <2>4, <3>1, <3>2
  <2>6. CASE c = cpu /\ p # prio
    <3>1. At(i, E, tk, c, p) = At(i, D, tk, c, p)  BY <1>3, <2>6 DEF At, prio
    <3>2. r.nper[c][p] = pl.nper[c][p]  BY <1>1, <1>2, <1>6, <2>1, <2>6
    <3> QED  BY <2>3, <3>1, <3>2
  <2>7. CASE c # cpu
    <3>1. At(i, E, tk, c, p) = At(i, D, tk, c, p)  BY <1>4, <2>7 DEF At
    <3>2. r.nper[c][p] = pl.nper[c][p]  BY <1>2, <2>1, <2>3, <2>7
    <3> QED  BY <2>3, <3>1, <3>2
  <2> QED  BY <2>5, <2>6, <2>7
<1>13. ASSUME Books(i), FreeHolds(i, D, tk, pl) PROVE FreeHolds(i, E, tk, r)
  <2>1. r.free = [pl.free EXCEPT ![cpu] = @ + tk[id].acceptedu]
    BY <1>13 DEF Unbooked, cpu
  <2> SUFFICES ASSUME NEW c \in Cores(i)
               PROVE  r.free[c] + SumFunctionOnSet(Grants(E, tk), On(i, E, tk, c)) = Unit
    BY DEF FreeHolds
  <2> DEFINE S == On(i, D, tk, c)
             T == On(i, E, tk, c)
             f == Grants(D, tk)
             g == Grants(E, tk)
  <2>2. S \in SUBSET D /\ IsFiniteSet(S) /\ T \subseteq S /\ T \subseteq E
    BY <1>5, <1>9 DEF On, E
  <2>3. \A x \in S : f[x] \in Int  BY <2>2 DEF Grants, UnplacedType
  <2>4. \A x \in T : g[x] = f[x]  BY <2>2 DEF Grants, E
  <2>5. f[id] = tk[id].acceptedu  BY DEF Grants
  <2>6. c \in Cpus /\ pl.free[c] + SumFunctionOnSet(f, S) = Unit  BY <1>1, <1>13 DEF FreeHolds
  <2>7. IsFiniteSet(T)  BY <2>2, FS_Subset
  <2>8. c = cpu => T = S \ {id} /\ id \in S  BY <1>3
  <2>9. c # cpu => T = S  BY <1>4
  <2> HIDE DEF S, T, f, g
  <2>10. SumFunctionOnSet(g, T) = SumFunctionOnSet(f, T) /\ SumFunctionOnSet(f, T) \in Int
    BY <2>2, <2>3, <2>4, <2>7, SumSame, SumInt
  <2>11. CASE c = cpu
    <3>1. SumFunctionOnSet(f, S) = f[id] + SumFunctionOnSet(f, T)
      BY <2>2, <2>3, <2>8, <2>11, SumRemove
    <3>2. r.free[c] = pl.free[c] + f[id]  BY <1>2, <2>1, <2>5, <2>6, <2>11
    <3>3. f[id] \in Int /\ pl.free[c] \in Int  BY <1>2, <1>6, <2>5, <2>6
    <3>4. r.free[c] + SumFunctionOnSet(g, T) = Unit  BY <2>6, <2>10, <3>1, <3>2, <3>3
    <3> QED  BY <3>4 DEF g, T
  <2>12. CASE c # cpu
    <3>1. r.free[c] = pl.free[c]  BY <1>2, <2>1, <2>6, <2>12
    <3> QED  BY <2>6, <2>9, <2>10, <2>12, <3>1 DEF g, T
  <2> QED  BY <2>11, <2>12
<1> QED  BY <1>11, <1>12, <1>13 DEF Accounts, E

(***************************************************************************)
(* A schedule call follows no list beyond the end of tasks, and the copy   *)
(* of a real priority in rtf_plg_task_schedule of sched_RR.c has a node to *)
(* copy from: a priority that is counted is in the list.                   *)
(***************************************************************************)
LEMMA NextIsThere ==
  ASSUME ArraysInBounds, OwnStatics,
         NEW i \in Index, NEW pl \in PluginType, NEW D \in SUBSET Ids, NEW id \in D,
         NEW tk \in [D -> UnplacedType], tk[id].cpu \in Cores(i) \cup {0},
         Accounts(i, D \ {id}, tk, pl), KeepsLists(i) => ListsHold(i, D \ {id}, tk, pl)
  PROVE  ~Crashes(i, pl, tk, id)
<1>0. ~Wild(i, tk[id].cpu) /\ ~Wild(i, Schedule(i, pl, tk, id).task[id].cpu)
  <2>1. \A c \in Cores(i) : c < Len(Plugins[i].cpulist) /\ c \in Cpus
    BY CoresAreCpus DEF ArraysInBounds
  <2>2. 0 < Len(Plugins[i].cpulist)
    <3>1. Plugins[i].cpulist \in Seq(Cpus) /\ Plugins[i].cpulist # <<>>  BY PluginConfig
    <3> QED  BY <3>1
  <2>3. Schedule(i, pl, tk, id).task[id].cpu \in Cores(i)  BY ScheduleFacts DEF Placed
  <2>4. Cpus \subseteq Nat /\ Len(Plugins[i].cpulist) \in Nat  BY KernelAssumption, PluginConfig
  <2> DEFINE n == Len(Plugins[i].cpulist)
  <2>5. ASSUME NEW c \in Cores(i) \cup {0} PROVE ~(c >= n)
    <3>1. n \in Nat /\ 0 < n /\ (c \in Cores(i) => c < n /\ c \in Nat)  BY <2>1, <2>2, <2>4
    <3> HIDE DEF n
    <3>2. CASE c = 0  BY <3>1, <3>2
    <3>3. CASE c \in Cores(i)  BY <3>1, <3>3
    <3> QED  BY <2>5, <3>2, <3>3
  <2>6. \A c \in Cores(i) \cup {0} : ~Wild(i, c)  BY <2>5 DEF Wild
  <2> QED  BY <2>3, <2>6, Zenon
<1> SUFFICES ASSUME Plugins[i].kind = "RR", RR!next_is_null(Plugins[i], pl, tk, id)
             PROVE  FALSE
  BY <1>0 DEF Crashes
<1> DEFINE cpu   == RR!least_loaded_cpu(Plugins[i], pl)
           prio  == tk[id].params.priority
           old   == pl.tasks[cpu]
           E     == D \ {id}
           stops == {k \in 1..Len(old) : ~(RR!cmp_priority_asc(tk[id].params, tk[old[k]].params) > 0)}
<1>1. cpu \in Cores(i) /\ cpu \in Cpus  BY LeastLoadedIsCore, CoresAreCpus
<1>2. prio \in Prios /\ prio \in Nat
  <2>1. tk[id].params \in CreateParams  BY DEF UnplacedType
  <2> QED  BY <2>1, ParamTypes DEF ParamsType
<1>3. /\ pl.nper[cpu][prio] + 1 # 1
      /\ (IF stops = {} THEN Len(old) + 1 ELSE Min(stops)) > Len(old)
  <2>1. RR!PlaceOf(Plugins[i], pl, tk, id) = IF stops = {} THEN Len(old) + 1 ELSE Min(stops)
    BY Zenon DEF RR!PlaceOf, RR!SortedPosition, RR!Min, Min
  <2> QED  BY <2>1 DEF RR!next_is_null, RR!FirstOfPriority
<1>4. old \in Seq(Ids) /\ Len(old) \in Nat  BY <1>1, PluginFields
<1>5. Enumerates(old, On(i, E, tk, cpu))  BY <1>1 DEF KeepsLists, ListsHold
<1>6. pl.nper[cpu][prio] = Cardinality(At(i, E, tk, cpu, prio))
  BY <1>1, <1>2 DEF Accounts, NperHolds
<1>7. At(i, E, tk, cpu, prio) # {}
  <2>1. Cardinality({}) = 0  BY FS_EmptySet
  <2>2. pl.nper[cpu][prio] # 0  BY <1>3
  <2> QED  BY <1>6, <2>1, <2>2
<1>8. PICK x \in On(i, E, tk, cpu) : tk[x].params.priority = prio  BY <1>7 DEF At
<1>9. PICK k \in 1..Len(old) : old[k] = x
  <2>1. x \in ToSet(old)  BY <1>5 DEF Enumerates
  <2> QED  BY <1>4, <2>1 DEF ToSet
<1>10. k \in stops  BY <1>2, <1>8, <1>9 DEF RR!cmp_priority_asc
<1>11. stops \in SUBSET Nat /\ stops \subseteq 1..Len(old)  BY <1>4
<1>12. Min(stops) \in stops
  <2> HIDE DEF stops
  <2> QED  BY <1>10, <1>11, MinIn
<1>13. stops # {} /\ Min(stops) > Len(old)  BY <1>3, <1>10
<1>14. Min(stops) \in 1..Len(old)  BY <1>11, <1>12
<1> HIDE DEF stops, old
<1>15. \A a \in 1..Len(old) : ~(a > Len(old))  BY <1>4
<1> QED  BY <1>13, <1>14, <1>15

-----------------------------------------------------------------------------
(***************************************************************************)
(* What the division of whole numbers does.                                *)
(***************************************************************************)
LEMMA DivBounds ==
  ASSUME NEW a \in Nat, NEW b \in Nat \ {0}
  PROVE  a \div b \in Nat /\ (a \div b) * b <= a /\ a < (a \div b + 1) * b
<1> DEFINE q == a \div b
<1>1. q \in Int /\ a % b \in 0..b - 1 /\ a = b * q + (a % b)  BY Z3
<1> HIDE DEF q
<1>2. q * b <= a /\ a < (q + 1) * b  BY <1>1
<1>3. q >= 0
  <2> SUFFICES ASSUME q < 0 PROVE FALSE  BY <1>1
  <2>1. q + 1 <= 0  BY <1>1
  <2>2. (q + 1) * b <= 0  BY <1>1, <2>1
  <2> QED  BY <1>1, <1>2, <2>2
<1> QED  BY <1>1, <1>2, <1>3 DEF q

LEMMA DivLeast ==
  ASSUME NEW a \in Nat, NEW b \in Nat \ {0}, NEW c \in Nat, a < (c + 1) * b
  PROVE  a \div b <= c
<1> DEFINE q == a \div b
<1>1. q \in Nat /\ q * b <= a  BY DivBounds
<1> HIDE DEF q
<1> SUFFICES ASSUME q >= c + 1 PROVE FALSE  BY <1>1 DEF q
<1>2. q * b >= (c + 1) * b  BY <1>1
<1>3. q * b \in Nat /\ (c + 1) * b \in Nat  BY <1>1
<1> QED  BY <1>1, <1>2, <1>3

LEMMA DivMonotone ==
  ASSUME NEW a \in Nat, NEW c \in Nat, a <= c, NEW b \in Nat \ {0}
  PROVE  a \div b <= c \div b
<1> DEFINE q == c \div b
<1>1. q \in Nat /\ c < (q + 1) * b  BY DivBounds
<1> HIDE DEF q
<1>2. (q + 1) * b \in Nat  BY <1>1
<1>3. a < (q + 1) * b  BY <1>1, <1>2
<1>4. a \div b <= q  BY <1>1, <1>3, DivLeast
<1> QED  BY <1>4 DEF q

-----------------------------------------------------------------------------
(***************************************************************************)
(* The order of the lists and of the real priorities.  RM sorts by         *)
(* descending period and RR by ascending declared priority; with the       *)
(* period negated both lists ascend, and real priorities follow the key.   *)
(***************************************************************************)
KeyOf(i, p) == IF Plugins[i].kind = "RM" THEN -p.period ELSE p.priority

Keys(i, D, tk) == [x \in Ids |-> IF x \in D THEN KeyOf(i, tk[x].params) ELSE 0]

Follows(i, D, tk, c) ==
  \A x, y \in On(i, D, tk, c) :
    KeyOf(i, tk[x].params) <= KeyOf(i, tk[y].params) => tk[x].schedprio <= tk[y].schedprio

Ordered(i, D, tk, pl) ==
  \A c \in Cores(i) : Ascending(pl.tasks[c], Keys(i, D, tk)) /\ Follows(i, D, tk, c)

LEMMA KeyTypes ==
  ASSUME NEW i \in Index, NEW D \in SUBSET Ids, NEW tk, \A x \in D : tk[x] \in UnplacedType
  PROVE  /\ Keys(i, D, tk) \in [Ids -> Int]
         /\ \A x \in D : /\ Keys(i, D, tk)[x] = KeyOf(i, tk[x].params)
                         /\ KeyOf(i, tk[x].params) \in Int
                         /\ tk[x].params.period \in Nat /\ tk[x].params.priority \in Prios
                         /\ tk[x].schedprio \in Int
<1>1. ASSUME NEW x \in D
      PROVE  /\ tk[x].params.period \in Nat /\ tk[x].params.priority \in Nat
             /\ tk[x].params.priority \in Prios /\ tk[x].schedprio \in Int
  <2>1. tk[x].params \in CreateParams /\ tk[x].schedprio \in Int  BY DEF UnplacedType
  <2> QED  BY <2>1, ParamTypes DEF ParamsType
<1>2. \A x \in D : KeyOf(i, tk[x].params) \in Int  BY <1>1 DEF KeyOf
<1>3. \A x \in D : Keys(i, D, tk)[x] = KeyOf(i, tk[x].params)  BY DEF Keys
<1>4. Keys(i, D, tk) \in [Ids -> Int]  BY <1>2 DEF Keys
<1> QED  BY <1>1, <1>2, <1>3, <1>4

\* A list is as sorted for other tasks with the same keys.
LEMMA SameAscending ==
  ASSUME NEW S, NEW s \in Seq(S), NEW k, NEW new, \A x \in ToSet(s) : new[x] = k[x], Ascending(s, k)
  PROVE  Ascending(s, new)
<1>1. \A a \in 1..Len(s) : new[s[a]] = k[s[a]]  BY DEF ToSet
<1> QED  BY <1>1 DEF Ascending

\* The orders depend on core, key and real priority only.
LEMMA SameOrdered ==
  ASSUME NEW i \in Index, KeepsLists(i), NEW pl \in PluginType, NEW D, NEW tk, NEW E, NEW new,
         ListsHold(i, D, tk, pl),
         \A c : On(i, E, new, c) = On(i, D, tk, c),
         \A c : \A x \in On(i, D, tk, c) : /\ new[x].schedprio = tk[x].schedprio
                                           /\ new[x].params = tk[x].params,
         Ordered(i, D, tk, pl)
  PROVE  Ordered(i, E, new, pl)
<1> SUFFICES ASSUME NEW c \in Cores(i)
             PROVE  Ascending(pl.tasks[c], Keys(i, E, new)) /\ Follows(i, E, new, c)
  BY DEF Ordered
<1>1. pl.tasks[c] \in Seq(Ids)  BY PluginFields, CoresAreCpus
<1>2. ToSet(pl.tasks[c]) = On(i, D, tk, c)  BY DEF ListsHold, Enumerates
<1>3. \A x \in ToSet(pl.tasks[c]) : x \in D /\ x \in E
  <2>1. On(i, D, tk, c) \subseteq D /\ On(i, E, new, c) \subseteq E  BY DEF On
  <2> QED  BY <1>2, <2>1
<1>4. ToSet(pl.tasks[c]) \subseteq Ids  BY <1>1 DEF ToSet
<1>5. \A x \in ToSet(pl.tasks[c]) : Keys(i, E, new)[x] = Keys(i, D, tk)[x]
  BY <1>2, <1>3, <1>4 DEF Keys
<1>6. Ascending(pl.tasks[c], Keys(i, D, tk))  BY DEF Ordered
<1>7. Ascending(pl.tasks[c], Keys(i, E, new))  BY <1>1, <1>5, <1>6, SameAscending
<1>8. Follows(i, E, new, c)  BY DEF Ordered, Follows
<1> QED  BY <1>7, <1>8

(***************************************************************************)
(* A schedule call keeps the lists sorted and, where it sees to it that    *)
(* real priorities follow on the core it chose, they do everywhere.        *)
(***************************************************************************)
InsertsAt(pl, k, id, r, cpu, B, at) ==
  /\ B \in SUBSET (1..Len(pl.tasks[cpu]))
  /\ \A a \in 1..Len(pl.tasks[cpu]) : a \in B <=> ~(k[id] > k[pl.tasks[cpu][a]])
  /\ at = IF B = {} THEN Len(pl.tasks[cpu]) + 1 ELSE Min(B)
  /\ r.pl.tasks = [pl.tasks EXCEPT ![cpu] = InsertAt(pl.tasks[cpu], at, id)]

Reranks(i, D, tk, k, id, r, cpu) ==
  /\ \A x \in D : r.task[x].params = tk[x].params
  /\ \A x \in D \ {id} :
       x \notin On(i, D \ {id}, tk, cpu) => r.task[x].schedprio = tk[x].schedprio
  /\ Ascending(r.pl.tasks[cpu], k) => Follows(i, D, r.task, cpu)

LEMMA OrderAfterInsert ==
  ASSUME NEW i \in Index, NEW pl \in PluginType, NEW D \in SUBSET Ids, NEW id \in D,
         NEW tk \in [D -> UnplacedType], ListsHold(i, D \ {id}, tk, pl),
         Ordered(i, D \ {id}, tk, pl),
         NEW r, Placed(i, D, tk, id, r), NEW cpu \in Cores(i), r.task[id].cpu = cpu,
         NEW B, NEW at, InsertsAt(pl, Keys(i, D, tk), id, r, cpu, B, at),
         Reranks(i, D, tk, Keys(i, D, tk), id, r, cpu)
  PROVE  Ordered(i, D, r.task, r.pl)
<1> USE DEF InsertsAt, Reranks
<1> DEFINE k == Keys(i, D, tk)
<1>0. /\ B \in SUBSET (1..Len(pl.tasks[cpu]))
      /\ \A a \in 1..Len(pl.tasks[cpu]) : a \in B <=> ~(k[id] > k[pl.tasks[cpu][a]])
      /\ at = IF B = {} THEN Len(pl.tasks[cpu]) + 1 ELSE Min(B)
  OBVIOUS
<1> DEFINE E == D \ {id}
           old == pl.tasks[cpu]
<1>1. Cores(i) \subseteq Cpus /\ pl.tasks \in [Cpus -> Seq(Ids)]  BY CoresAreCpus, PluginFields
<1>2. old \in Seq(Ids) /\ id \in Ids  BY <1>1
<1>3. k \in [Ids -> Int]  BY KeyTypes
<1>4. Keys(i, D, r.task) = k  BY DEF Keys
<1>5. ASSUME NEW c \in Cores(i) PROVE Ascending(pl.tasks[c], k)
  <2>1. pl.tasks[c] \in Seq(Ids)  BY <1>1
  <2>2. ToSet(pl.tasks[c]) = On(i, E, tk, c)  BY DEF ListsHold, Enumerates
  <2>3. \A x \in ToSet(pl.tasks[c]) : x \in E  BY <2>2 DEF On
  <2>4. \A x \in E : k[x] = Keys(i, E, tk)[x]  BY DEF Keys
  <2>5. Ascending(pl.tasks[c], Keys(i, E, tk))  BY DEF Ordered
  <2> HIDE DEF E, k
  <2>6. \A x \in ToSet(pl.tasks[c]) : k[x] = Keys(i, E, tk)[x]  BY <2>3, <2>4
  <2> QED  BY <2>1, <2>5, <2>6, SameAscending
<1>6. Ascending(InsertAt(old, at, id), k)
  <2>1. Ascending(old, k)  BY <1>5
  <2>2. /\ B \in SUBSET (1..Len(old)) /\ \A a \in 1..Len(old) : a \in B <=> ~(k[id] > k[old[a]])
        /\ at = IF B = {} THEN Len(old) + 1 ELSE Min(B)
    BY <1>0
  <2> HIDE DEF old, k
  <2>3. /\ at \in 1..Len(old) + 1
        /\ \A a \in 1..at - 1 : k[old[a]] < k[id]
        /\ at <= Len(old) => k[id] <= k[old[at]]
    BY <1>2, <1>3, <2>2, StopsBetween, Zenon
  <2> QED  BY <1>2, <1>3, <2>1, <2>3, InsertAscending
<1> SUFFICES ASSUME NEW c \in Cores(i) PROVE Ascending(r.pl.tasks[c], k) /\ Follows(i, D, r.task, c)
  BY <1>4 DEF Ordered
<1>7. CASE c = cpu
  <2>1. r.pl.tasks[c] = InsertAt(old, at, id)  BY <1>1, <1>7
  <2> QED  BY <1>6, <1>7, <2>1
<1>8. CASE c # cpu
  <2>1. r.pl.tasks[c] = pl.tasks[c]  BY <1>1, <1>8
  <2>2. On(i, D, r.task, c) = On(i, E, tk, c)  BY <1>8 DEF Placed, On
  <2>3. \A x \in On(i, E, tk, c) :
          r.task[x].schedprio = tk[x].schedprio /\ r.task[x].params = tk[x].params
    BY <1>8 DEF On
  <2>4. Follows(i, E, tk, c)  BY DEF Ordered
  <2>5. Follows(i, D, r.task, c)  BY <2>2, <2>3, <2>4 DEF Follows
  <2> QED  BY <1>5, <2>1, <2>5
<1> QED  BY <1>7, <1>8

\* Copying the real priority of a reservation with the same key.
LEMMA CopyFollows ==
  ASSUME NEW i \in Index, NEW D \in SUBSET Ids, NEW id \in D, NEW tk \in [D -> UnplacedType],
         NEW cpu, Follows(i, D \ {id}, tk, cpu), NEW new,
         \A x \in D : new[x].params = tk[x].params,
         \A x \in D \ {id} : /\ new[x].schedprio = tk[x].schedprio
                             /\ new[x].pluginid = tk[x].pluginid /\ new[x].cpu = tk[x].cpu,
         NEW y \in On(i, D \ {id}, tk, cpu), KeyOf(i, tk[y].params) = KeyOf(i, tk[id].params),
         new[id].schedprio = tk[y].schedprio
  PROVE  Follows(i, D, new, cpu)
<1> DEFINE Twin(x) == IF x = id THEN y ELSE x
<1>1. ASSUME NEW x \in On(i, D, new, cpu)
      PROVE  /\ Twin(x) \in On(i, D \ {id}, tk, cpu)
             /\ KeyOf(i, new[x].params) = KeyOf(i, tk[Twin(x)].params)
             /\ new[x].schedprio = tk[Twin(x)].schedprio
  BY DEF On
<1> HIDE DEF Twin
<1> QED  BY <1>1 DEF Follows

(***************************************************************************)
(* assign_priorities of sched_RM.c: whatever dist_prio says, the levels    *)
(* rise along the sorted list and the remapping keeps their order.         *)
(***************************************************************************)
Ranking(i, list, D, tk, S) ==
  /\ list \in Seq(Ids)
  /\ D \in SUBSET Ids /\ S \in SUBSET D /\ tk \in [D -> UnplacedType]
  /\ Enumerates(list, S)
  /\ Ascending(list, Keys(i, D, tk))

Ranked(i, D, tk, S, new) ==
  /\ \A x \in D \ S : new[x] = tk[x]
  /\ \A x, y \in S : KeyOf(i, tk[x].params) <= KeyOf(i, tk[y].params)
                       => new[x].schedprio <= new[y].schedprio

LEMMA RMRanks ==
  ASSUME NEW i \in Index, Plugins[i].kind = "RM", NEW list, NEW dist \in 0..Word - 1,
         NEW D, NEW tk, NEW S, Ranking(i, list, D, tk, S)
  PROVE  Ranked(i, D, tk, S, RM!assign_priorities(Plugins[i], list, dist, tk))
<1> DEFINE new == RM!assign_priorities(Plugins[i], list, dist, tk)
<1> USE DEF Ranking
<1> DEFINE g        == Plugins[i]
           wide     == dist > g.prio_max - g.prio_min + 1
           prio(a)  == IF wide THEN RM!prio_remap(g, dist, RM!Level(list, tk, a))
                       ELSE g.prio_min + RM!Level(list, tk, a)
           place(x) == CHOOSE a \in 1..Len(list) : list[a] = x
           k        == Keys(i, D, tk)
<1>1. \A x \in D : new[x] = IF x \in ToSet(list) THEN [tk[x] EXCEPT !.schedprio = prio(place(x))]
                            ELSE tk[x]
  BY DEF RM!assign_priorities, RM!ToSet, ToSet
<1>2. ToSet(list) = S  BY DEF Enumerates
<1>3. \A x \in S : place(x) \in 1..Len(list) /\ list[place(x)] = x  BY <1>2 DEF ToSet
<1>4. \A a \in 1..Len(list) : list[a] \in S  BY <1>2 DEF ToSet
<1>5. /\ k \in [Ids -> Int]
      /\ \A x \in D : k[x] = KeyOf(i, tk[x].params) /\ tk[x].params.period \in Nat
  BY KeyTypes
<1>6. \A x \in D : k[x] = -tk[x].params.period  BY <1>5 DEF KeyOf
<1>7. ASSUME NEW a \in 1..Len(list) PROVE RM!Level(list, tk, a) = Cardinality(Changes(list, k, a))
  <2> DEFINE C == {j \in 2..a : tk[list[j]].params.period # tk[list[j - 1]].params.period}
  <2>1. RM!Level(list, tk, a) = Cardinality(C)  BY Zenon DEF RM!Level, RM!Cardinality, Cardinality
  <2>2. ASSUME NEW j \in 2..a
        PROVE  tk[list[j]].params.period # tk[list[j - 1]].params.period <=> k[list[j]] # k[list[j - 1]]
    <3>1. j \in 1..Len(list) /\ j - 1 \in 1..Len(list)  OBVIOUS
    <3>2. list[j] \in D /\ list[j - 1] \in D  BY <1>4, <3>1
    <3>3. tk[list[j]].params.period \in Nat /\ tk[list[j - 1]].params.period \in Nat  BY <1>5, <3>2
    <3>4. k[list[j]] = -tk[list[j]].params.period /\ k[list[j - 1]] = -tk[list[j - 1]].params.period
      BY <1>6, <3>2
    <3> HIDE DEF k
    <3> QED  BY <3>3, <3>4
  <2>3. C = Changes(list, k, a)  BY <2>2 DEF Changes
  <2> QED  BY <2>1, <2>3
<1> HIDE DEF k, place, new
<1>8. ASSUME NEW a \in 1..Len(list), NEW b \in 1..Len(list), k[list[a]] <= k[list[b]]
      PROVE  prio(a) <= prio(b)
  <2> DEFINE m == RM!Level(list, tk, a)
             n == RM!Level(list, tk, b)
             w == g.prio_max - g.prio_min + 1
  <2>1. m \in Nat /\ n \in Nat /\ m <= n
    <3>1. Ascending(list, k)  BY DEF k
    <3>2. /\ Cardinality(Changes(list, k, a)) \in Nat /\ Cardinality(Changes(list, k, b)) \in Nat
          /\ Cardinality(Changes(list, k, a)) <= Cardinality(Changes(list, k, b))
      BY <1>5, <1>8, <3>1, LevelsFollow
    <3> QED  BY <1>7, <3>2
  <2>2. g.prio_min \in Nat /\ g.prio_max \in Nat /\ g.prio_min <= g.prio_max  BY PluginConfig
  <2>3. w \in Nat /\ (wide => dist - 1 \in Nat \ {0})  BY <2>2, PluginAssumption
  <2> HIDE DEF m, n, g, wide
  <2>4. CASE ~wide
    <3>1. prio(a) = g.prio_min + m /\ prio(b) = g.prio_min + n  BY <2>4 DEF m, n
    <3> QED  BY <2>1, <2>2, <3>1
  <2>5. CASE wide
    <3>1. prio(a) = g.prio_min + (w * m) \div (dist - 1) /\ prio(b) = g.prio_min + (w * n) \div (dist - 1)
      BY <2>5 DEF RM!prio_remap, m, n
    <3> HIDE DEF w
    <3>2. w * m \in Nat /\ w * n \in Nat /\ w * m <= w * n  BY <2>1, <2>3
    <3>3. (w * m) \div (dist - 1) <= (w * n) \div (dist - 1)  BY <2>3, <2>5, <3>2, DivMonotone
    <3>4. (w * m) \div (dist - 1) \in Nat /\ (w * n) \div (dist - 1) \in Nat
      BY <2>3, <2>5, <3>2, DivBounds
    <3> HIDE DEF prio
    <3> QED  BY <2>2, <3>1, <3>3, <3>4
  <2> QED  BY <2>4, <2>5
<1> HIDE DEF prio, g
<1>9. \A x \in D \ S : new[x] = tk[x]  BY <1>1, <1>2
<1>10. ASSUME NEW x \in S, NEW y \in S, KeyOf(i, tk[x].params) <= KeyOf(i, tk[y].params)
       PROVE  new[x].schedprio <= new[y].schedprio
  <2>1. new[x].schedprio = prio(place(x)) /\ new[y].schedprio = prio(place(y))
    BY <1>1, <1>2 DEF UnplacedType
  <2>2. k[x] <= k[y]  BY <1>5, <1>10
  <2> QED  BY <1>3, <1>8, <2>1, <2>2
<1> QED  BY <1>9, <1>10 DEF Ranked, new

LEMMA RMOrdered ==
  ASSUME NEW i \in Index, Plugins[i].kind = "RM", NEW pl \in PluginType,
         NEW D \in SUBSET Ids, NEW id \in D, NEW tk \in [D -> UnplacedType],
         ListsHold(i, D \ {id}, tk, pl), Ordered(i, D \ {id}, tk, pl)
  PROVE  Ordered(i, D, Schedule(i, pl, tk, id).task, Schedule(i, pl, tk, id).pl)
<1> DEFINE r      == Schedule(i, pl, tk, id)
           E      == D \ {id}
           k      == Keys(i, D, tk)
           cpu    == RM!least_loaded_cpu(Plugins[i], pl)
           p      == tk[id].params
           old    == pl.tasks[cpu]
           stops  == {a \in 1..Len(old) : ~(RM!cmp_period_dsc(p, tk[old[a]].params) > 0)}
           at     == IF stops = {} THEN Len(old) + 1 ELSE Min(stops)
           list   == InsertAt(old, at, id)
           shares == at <= Len(old) /\ tk[old[at]].params.period = p.period
           dist   == IF shares THEN pl.dist[cpu] ELSE (pl.dist[cpu] + 1) % Word
           util   == IF get_util(p) = NoUtil THEN 0 ELSE get_util(p)
           booked == [tk EXCEPT ![id] = [@ EXCEPT !.cpu = cpu, !.pluginid = i,
                                           !.acceptedt = p.runtime, !.acceptedu = util]]
<1>1. /\ Placed(i, D, tk, id, r) /\ ListsHold(i, D, r.task, r.pl) /\ Booked(i, pl, D, tk, id, r)
  BY RMSchedule
<1>2. cpu \in Cores(i) /\ cpu \in Cpus /\ r.task[id].cpu = cpu
  BY <1>1, LeastLoadedIsCore, CoresAreCpus, LeastLoadedIs DEF Booked
<1>3. \A x \in D : r.task[x].params = tk[x].params  BY <1>1 DEF Booked
<1>4. pl.tasks \in [Cpus -> Seq(Ids)] /\ pl.dist \in [Cpus -> 0..Word - 1]  BY PluginFields
<1>5. old \in Seq(Ids) /\ ToSet(old) = On(i, E, tk, cpu)
  BY <1>2, <1>4 DEF ListsHold, Enumerates
<1>6. \A a \in 1..Len(old) : old[a] \in On(i, E, tk, cpu) /\ old[a] \in E
  <2>1. \A a \in 1..Len(old) : old[a] \in ToSet(old)  BY <1>5 DEF ToSet
  <2> QED  BY <1>5, <2>1 DEF On
<1>7. tk[id] \in UnplacedType /\ p \in ParamsType /\ util \in Int /\ p.runtime \in Int
  <2>1. tk[id] \in UnplacedType /\ p \in CreateParams  BY DEF UnplacedType
  <2> QED  BY <2>1, ParamTypes, UtilTypes DEF ParamsType
<1>8. /\ k \in [Ids -> Int]
      /\ \A x \in D : k[x] = KeyOf(i, tk[x].params) /\ tk[x].params.period \in Nat
  BY KeyTypes
<1>9. \A x \in D : k[x] = -tk[x].params.period  BY <1>8 DEF KeyOf
<1>10. r = [pl   |-> [pl EXCEPT !.tasks[cpu] = list, !.dist[cpu] = dist,
                                !.free[cpu] = @ - util, !.count[cpu] = @ + 1],
            task |-> IF shares THEN [booked EXCEPT ![id].schedprio = tk[old[at]].schedprio]
                     ELSE RM!assign_priorities(Plugins[i], list, dist, booked)]
  <2>1. Schedule(i, pl, tk, id) = RM!rtf_plg_task_schedule(Plugins[i], pl, tk, id)
    BY DEF Schedule
  <2>2. RM!SortedPosition(old, LAMBDA x : RM!cmp_period_dsc(p, tk[x].params) > 0) = at
    BY Zenon DEF RM!SortedPosition, RM!Min, Min
  <2>3. RM!InsertAt(old, at, id) = list  BY Zenon DEF RM!InsertAt, InsertAt
  <2>4. RM!BookedUtil(p) = util  BY SameFunctions DEF RM!BookedUtil
  <2>5. Plugins[i].id = i  BY PluginConfig
  <2> QED  BY <2>1, <2>2, <2>3, <2>4, <2>5, Zenon DEF RM!rtf_plg_task_schedule
<1>11. \A a \in 1..Len(old) : a \in stops <=> ~(k[id] > k[old[a]])
  <2> SUFFICES ASSUME NEW a \in 1..Len(old) PROVE a \in stops <=> ~(k[id] > k[old[a]])
    OBVIOUS
  <2>1. a \in stops <=> ~(tk[old[a]].params.period - p.period > 0)  BY DEF RM!cmp_period_dsc
  <2>2. old[a] \in D /\ id \in D  BY <1>6
  <2>3. tk[old[a]].params.period \in Nat /\ p.period \in Nat  BY <1>8, <2>2
  <2>4. k[old[a]] = -tk[old[a]].params.period /\ k[id] = -p.period  BY <1>9, <2>2
  <2> HIDE DEF k, stops, p, old
  <2> QED  BY <2>1, <2>3, <2>4
<1>12. r.pl.tasks = [pl.tasks EXCEPT ![cpu] = list]
  <2> HIDE DEF r, list, dist, util, cpu, booked, shares, old, at
  <2> QED  BY <1>10 DEF PluginType
<1>13. /\ booked \in [D -> UnplacedType] /\ Keys(i, D, booked) = k
       /\ \A x \in D : booked[x].params = tk[x].params
       /\ \A x \in E : booked[x] = tk[x]
  <2> HIDE DEF cpu, util, p
  <2>1. booked \in [D -> UnplacedType]  BY <1>2, <1>7 DEF UnplacedType
  <2>2. \A x \in D : booked[x].params = tk[x].params  BY DEF UnplacedType
  <2>3. \A x \in E : booked[x] = tk[x]  OBVIOUS
  <2> HIDE DEF booked
  <2> QED  BY <2>1, <2>2, <2>3 DEF Keys
<1>14. dist \in 0..Word - 1
  <2>1. pl.dist[cpu] \in 0..Word - 1  BY <1>2, <1>4
  <2>2. (pl.dist[cpu] + 1) % Word \in 0..Word - 1  BY <2>1, PluginAssumption
  <2> QED  BY <2>1, <2>2
<1>15. /\ stops \in SUBSET (1..Len(old)) /\ at = IF stops = {} THEN Len(old) + 1 ELSE Min(stops)
       /\ at \in 1..Len(old) + 1
  <2>1. stops \in SUBSET (1..Len(old)) /\ Len(old) \in Nat  BY <1>5
  <2> HIDE DEF stops
  <2> QED  BY <2>1, Position
<1> HIDE DEF r, k, cpu, stops, at, list, shares, dist, util, booked
<1>16. r.pl.tasks[cpu] = list /\ list \in Seq(Ids)
  <2>1. list \in Seq(Ids)
    <3>1. id \in Ids  OBVIOUS
    <3> QED  BY <1>5, <1>15, <3>1, InsertAtElements DEF list
  <2> QED  BY <1>2, <1>4, <1>12, <2>1
<1> DEFINE S == On(i, D, r.task, cpu)
<1>17. Enumerates(list, S) /\ S \in SUBSET D  BY <1>1, <1>2, <1>16 DEF ListsHold, On
<1>18. S = On(i, E, tk, cpu) \cup {id}  BY <1>1, <1>2 DEF Placed, On
<1> DEFINE Kept == \A x \in D \ {id} : x \notin On(i, D \ {id}, tk, cpu)
                                          => r.task[x].schedprio = tk[x].schedprio
           Sorted == Ascending(r.pl.tasks[cpu], k) => Follows(i, D, r.task, cpu)
<1>19. ASSUME shares PROVE Kept /\ Sorted
  <2>1. r.task = [booked EXCEPT ![id].schedprio = tk[old[at]].schedprio]  BY <1>10, <1>19
  <2>2. at <= Len(old) /\ tk[old[at]].params.period = p.period  BY <1>19 DEF shares
  <2>3. at \in 1..Len(old)  BY <1>5, <1>15, <2>2
  <2>4. old[at] \in On(i, E, tk, cpu)  BY <1>6, <2>3
  <2>5. KeyOf(i, tk[old[at]].params) = KeyOf(i, tk[id].params)  BY <2>2 DEF KeyOf
  <2>6. \A x \in E : r.task[x] = tk[x]  BY <1>13, <2>1
  <2>7. r.task[id].schedprio = tk[old[at]].schedprio  BY <1>13, <2>1 DEF UnplacedType
  <2>8. Follows(i, E, tk, cpu)  BY <1>2 DEF Ordered
  <2>9. Follows(i, D, r.task, cpu)
    <3> HIDE DEF old
    <3> QED  BY <1>3, <2>4, <2>5, <2>6, <2>7, <2>8, CopyFollows
  <2> QED  BY <2>6, <2>9
<1>20. ASSUME ~shares PROVE Kept /\ Sorted
  <2>1. r.task = RM!assign_priorities(Plugins[i], list, dist, booked)  BY <1>10, <1>20
  <2>2. ASSUME Ascending(list, k) PROVE Ranked(i, D, booked, S, r.task)
    <3>1. Ranking(i, list, D, booked, S)  BY <1>13, <1>16, <1>17, <2>2 DEF Ranking
    <3> HIDE DEF S
    <3> QED  BY <1>14, <2>1, <3>1, RMRanks
  <2>3. Ascending(r.pl.tasks[cpu], k) => Follows(i, D, r.task, cpu)
    BY <1>3, <1>13, <1>16, <1>17, <2>2 DEF Follows, Ranked
  <2>4. \A x \in E : x \notin On(i, E, tk, cpu) => r.task[x].schedprio = tk[x].schedprio
    <3>1. \A x \in D \ S : r.task[x] = booked[x]
      <4>1. ToSet(list) = S  BY <1>17 DEF Enumerates
      <4>2. \A x \in D : x \notin RM!ToSet(list) => r.task[x] = booked[x]
        BY <1>13, <2>1 DEF RM!assign_priorities
      <4> QED  BY <4>1, <4>2 DEF RM!ToSet, ToSet
    <3> QED  BY <1>13, <1>18, <3>1
  <2> QED  BY <2>3, <2>4
<1>21. Ordered(i, D, r.task, r.pl)
  <2>1. InsertsAt(pl, Keys(i, D, tk), id, r, cpu, stops, at)
    BY <1>11, <1>12, <1>15 DEF InsertsAt, k, list
  <2>2. Reranks(i, D, tk, Keys(i, D, tk), id, r, cpu)  BY <1>3, <1>19, <1>20 DEF Reranks, k
  <2> QED  BY <1>1, <1>2, <2>1, <2>2, OrderAfterInsert
<1> QED  BY <1>21 DEF r

(***************************************************************************)
(* RR.  Its real priorities stay in the plugin's window, and dist_prio is  *)
(* the number of declared priorities on the core, when clients declare     *)
(* priorities of the POSIX range and an unsigned int can count them.       *)
(* Neither can be dropped: prio_remap takes 1 from an unsigned priority,   *)
(* and scales by 99.                                                       *)
(***************************************************************************)
PosixPriorities == Prios \subseteq 1..99 /\ Word > 99

Declared(i, D, tk, c) == {tk[x].params.priority : x \in On(i, D, tk, c)}

Window(i) == Plugins[i].prio_min..Plugins[i].prio_max

Windowed(i, D, tk, pl) ==
  \A c \in Cores(i) : /\ pl.dist[c] = Cardinality(Declared(i, D, tk, c))
                      /\ \A x \in On(i, D, tk, c) : tk[x].schedprio \in Window(i)

LEMMA FewPriorities ==
  ASSUME PosixPriorities, NEW T \in SUBSET Prios
  PROVE  IsFiniteSet(T) /\ Cardinality(T) \in Nat /\ Cardinality(T) < Word
<1>1. IsFiniteSet(1..99) /\ Cardinality(1..99) = 99
  <2>1. 1 \in Int /\ 99 \in Int /\ ~(1 > 99) /\ 99 - 1 + 1 = 99  OBVIOUS
  <2> QED  BY <2>1, FS_Interval
<1>2. T \in SUBSET (1..99)  BY DEF PosixPriorities
<1>3. IsFiniteSet(T) /\ Cardinality(T) <= Cardinality(1..99)  BY <1>1, <1>2, FS_Subset
<1>4. Cardinality(T) \in Nat  BY <1>3, FS_CardinalityType
<1> QED  BY <1>1, <1>3, <1>4, PluginAssumption DEF PosixPriorities

LEMMA OneBelow ==
  \A m, n \in 1..99 : m <= n => m - 1 \in 0..98 /\ n - 1 \in 0..98 /\ m - 1 <= n - 1
OBVIOUS

(***************************************************************************)
(* assign_priorities of sched_RR.c.                                        *)
(***************************************************************************)
LEMMA RRRanks ==
  ASSUME PosixPriorities, NEW i \in Index, Plugins[i].kind = "RR", NEW list, NEW dist,
         NEW D, NEW tk, NEW S, Ranking(i, list, D, tk, S),
         dist = Cardinality({tk[x].params.priority : x \in S})
  PROVE  /\ Ranked(i, D, tk, S, RR!assign_priorities(Plugins[i], list, dist, tk))
         /\ \A x \in S :
              RR!assign_priorities(Plugins[i], list, dist, tk)[x].schedprio \in Window(i)
<1> USE DEF Ranking
<1> DEFINE g        == Plugins[i]
           w        == g.prio_max - g.prio_min + 1
           wide     == dist > w
           place(x) == CHOOSE a \in 1..Len(list) : list[a] = x
           prio(x)  == IF wide THEN RR!prio_remap(g, tk[x].params.priority)
                       ELSE g.prio_min + RR!Level(list, tk, place(x))
           k        == Keys(i, D, tk)
           new      == RR!assign_priorities(Plugins[i], list, dist, tk)
           T        == {tk[x].params.priority : x \in S}
<1>1. \A x \in D : new[x] = IF x \in ToSet(list) THEN [tk[x] EXCEPT !.schedprio = prio(x)]
                            ELSE tk[x]
  BY DEF RR!assign_priorities, RR!ToSet, ToSet
<1>2. ToSet(list) = S  BY DEF Enumerates
<1>3. \A x \in S : place(x) \in 1..Len(list) /\ list[place(x)] = x  BY <1>2 DEF ToSet
<1>4. \A a \in 1..Len(list) : list[a] \in S  BY <1>2 DEF ToSet
<1>5. /\ k \in [Ids -> Int]
      /\ \A x \in D : /\ k[x] = KeyOf(i, tk[x].params) /\ tk[x].params.priority \in Prios
  BY KeyTypes
<1>6. \A x \in D : k[x] = tk[x].params.priority /\ k[x] \in 1..99
  BY <1>5 DEF KeyOf, PosixPriorities
<1>7. ASSUME NEW a \in 1..Len(list) PROVE RR!Level(list, tk, a) = Cardinality(Changes(list, k, a))
  <2> DEFINE C == {j \in 2..a : tk[list[j]].params.priority # tk[list[j - 1]].params.priority}
  <2>1. RR!Level(list, tk, a) = Cardinality(C)  BY Zenon DEF RR!Level, RR!Cardinality, Cardinality
  <2>2. ASSUME NEW j \in 2..a
        PROVE  tk[list[j]].params.priority = k[list[j]] /\ tk[list[j - 1]].params.priority = k[list[j - 1]]
    <3>1. j \in 1..Len(list) /\ j - 1 \in 1..Len(list)  OBVIOUS
    <3>2. list[j] \in D /\ list[j - 1] \in D  BY <1>4, <3>1
    <3> HIDE DEF k
    <3> QED  BY <1>6, <3>2
  <2>3. C = Changes(list, k, a)
    <3> HIDE DEF k
    <3> QED  BY <2>2 DEF Changes
  <2> QED  BY <2>1, <2>3
<1>8. T \in SUBSET Prios /\ T = {k[x] : x \in ToSet(list)}
  <2> HIDE DEF k
  <2> QED  BY <1>2, <1>5, <1>6
<1>9. Ascending(list, k)  OBVIOUS
<1> HIDE DEF k, place, new, T
<1>10. IsFiniteSet(T) /\ Cardinality(T) \in Nat /\ dist = Cardinality(T)
  BY <1>8, FewPriorities DEF T
<1>11. g.prio_min \in Nat /\ g.prio_max \in Nat /\ g.prio_min <= g.prio_max  BY PluginConfig
<1> HIDE DEF g
<1>12. w \in Nat \ {0}  BY <1>11
<1> HIDE DEF w
<1>13. ASSUME NEW x \in S
       PROVE  /\ RR!Level(list, tk, place(x)) \in Nat
              /\ RR!Level(list, tk, place(x)) < dist
  <2>1. place(x) \in 1..Len(list)  BY <1>3
  <2>2. Cardinality(Changes(list, k, place(x))) \in Nat
    <3>1. place(x) <= place(x)  BY <2>1
    <3> QED  BY <1>5, <1>9, <2>1, <3>1, LevelsRise
  <2>3. Cardinality(Changes(list, k, place(x))) < Cardinality(T)
    BY <1>5, <1>8, <1>9, <1>10, <2>1, LevelsBelowKeys
  <2> QED  BY <1>7, <1>10, <2>1, <2>2, <2>3
<1>14. ASSUME NEW x \in S
       PROVE  /\ (k[x] - 1) % Word = k[x] - 1 /\ k[x] - 1 \in 0..98
              /\ RR!prio_remap(g, tk[x].params.priority) = g.prio_min + (w * (k[x] - 1)) \div 99
              /\ w * (k[x] - 1) \in Nat
              /\ (w * (k[x] - 1)) \div 99 \in 0..w - 1
  <2>1. tk[x].params.priority = k[x] /\ k[x] \in 1..99  BY <1>6
  <2>2. k[x] - 1 \in 0..98  BY <2>1
  <2>3. (k[x] - 1) % Word = k[x] - 1
    <3>1. \A n \in 0..98 : n % Word = n  BY PluginAssumption DEF PosixPriorities
    <3> QED  BY <2>2, <3>1
  <2>4. RR!prio_remap(g, tk[x].params.priority) = g.prio_min + (w * (k[x] - 1)) \div 99
    BY <2>1, <2>3 DEF RR!prio_remap, w
  <2>5. \A n \in 0..98 : w * n \in Nat /\ w * n < (w - 1 + 1) * 99
    <3> SUFFICES ASSUME NEW n \in 0..98 PROVE w * n \in Nat /\ w * n < (w - 1 + 1) * 99
      OBVIOUS
    <3>1. w * n \in Nat  BY <1>12
    <3>2. w * n <= w * 98  BY <1>12
    <3>3. w * 98 < w * 99  BY <1>12
    <3>4. (w - 1 + 1) * 99 = w * 99  BY <1>12
    <3>5. w * 98 \in Nat /\ w * 99 \in Nat  BY <1>12
    <3> QED  BY <3>1, <3>2, <3>3, <3>4, <3>5
  <2>6. w * (k[x] - 1) \in Nat /\ w * (k[x] - 1) < (w - 1 + 1) * 99  BY <2>2, <2>5
  <2>7. w - 1 \in Nat /\ 99 \in Nat \ {0}  BY <1>12
  <2>8. (w * (k[x] - 1)) \div 99 <= w - 1  BY <2>6, <2>7, DivLeast
  <2>9. (w * (k[x] - 1)) \div 99 \in Nat  BY <2>6, <2>7, DivBounds
  <2> QED  BY <1>12, <2>2, <2>3, <2>4, <2>6, <2>8, <2>9
<1>15. ASSUME NEW x \in S PROVE prio(x) \in g.prio_min..g.prio_max
  <2>1. w = g.prio_max - g.prio_min + 1  BY DEF w
  <2>2. CASE wide
    <3>1. prio(x) = g.prio_min + (w * (k[x] - 1)) \div 99  BY <1>14, <2>2
    <3>2. (w * (k[x] - 1)) \div 99 \in 0..w - 1  BY <1>14
    <3> HIDE DEF prio, wide
    <3> QED  BY <1>11, <1>12, <2>1, <3>1, <3>2
  <2>3. CASE ~wide
    <3>1. prio(x) = g.prio_min + RR!Level(list, tk, place(x))  BY <2>3
    <3>2. RR!Level(list, tk, place(x)) \in Nat /\ RR!Level(list, tk, place(x)) < dist  BY <1>13
    <3>3. dist \in Nat /\ ~(dist > w)  BY <1>10, <2>3
    <3> HIDE DEF prio, wide
    <3>4. dist <= w  BY <1>12, <3>3
    <3> QED  BY <1>11, <1>12, <2>1, <3>1, <3>2, <3>3, <3>4
  <2> QED  BY <2>2, <2>3
<1>16. ASSUME NEW x \in S, NEW y \in S, k[x] <= k[y] PROVE prio(x) <= prio(y)
  <2>1. CASE wide
    <3>1. /\ prio(x) = g.prio_min + (w * (k[x] - 1)) \div 99
          /\ prio(y) = g.prio_min + (w * (k[y] - 1)) \div 99
      BY <1>14, <2>1
    <3>2. k[x] - 1 \in 0..98 /\ k[y] - 1 \in 0..98 /\ k[x] - 1 <= k[y] - 1
      <4>1. k[x] \in 1..99 /\ k[y] \in 1..99
        <5>1. x \in D /\ y \in D  OBVIOUS
        <5> HIDE DEF prio, wide
        <5> QED  BY <1>6, <5>1
      <4> QED  BY <1>16, <4>1, OneBelow
    <3>3. w * (k[x] - 1) \in Nat /\ w * (k[y] - 1) \in Nat  BY <1>14
    <3>4. w * (k[x] - 1) <= w * (k[y] - 1)
      <4>1. \A m, n \in 0..98 : m <= n => w * m <= w * n  BY <1>12
      <4> QED  BY <3>2, <4>1
    <3>5. (w * (k[x] - 1)) \div 99 <= (w * (k[y] - 1)) \div 99  BY <3>3, <3>4, DivMonotone
    <3>6. (w * (k[x] - 1)) \div 99 \in 0..w - 1 /\ (w * (k[y] - 1)) \div 99 \in 0..w - 1  BY <1>14
    <3> HIDE DEF prio, wide
    <3> QED  BY <1>11, <1>12, <3>1, <3>5, <3>6
  <2>2. CASE ~wide
    <3>1. /\ prio(x) = g.prio_min + RR!Level(list, tk, place(x))
          /\ prio(y) = g.prio_min + RR!Level(list, tk, place(y))
      BY <2>2
    <3>2. place(x) \in 1..Len(list) /\ place(y) \in 1..Len(list)
          /\ k[list[place(x)]] <= k[list[place(y)]]
      BY <1>3, <1>16
    <3>3. /\ Cardinality(Changes(list, k, place(x))) \in Nat
          /\ Cardinality(Changes(list, k, place(y))) \in Nat
          /\ Cardinality(Changes(list, k, place(x))) <= Cardinality(Changes(list, k, place(y)))
      BY <1>5, <1>9, <3>2, LevelsFollow
    <3> HIDE DEF prio, wide
    <3> QED  BY <1>7, <1>11, <3>1, <3>2, <3>3
  <2> QED  BY <2>1, <2>2
<1> HIDE DEF prio, wide
<1>17. \A x \in S : new[x].schedprio = prio(x)  BY <1>1, <1>2 DEF UnplacedType
<1>18. \A x \in D \ S : new[x] = tk[x]  BY <1>1, <1>2
<1>19. \A x, y \in S : KeyOf(i, tk[x].params) <= KeyOf(i, tk[y].params)
                         => new[x].schedprio <= new[y].schedprio
  BY <1>5, <1>16, <1>17
<1>20. \A x \in S : new[x].schedprio \in Window(i)  BY <1>15, <1>17 DEF Window, g
<1> QED  BY <1>18, <1>19, <1>20 DEF Ranked, new
\* Where a key is in the list already, the new element is put before it.
StopsFor(s, k, v, B) ==
  /\ v \in Int /\ B \in SUBSET (1..Len(s))
  /\ \A a \in 1..Len(s) : a \in B <=> ~(v > k[s[a]])

LEMMA StopIsTwin ==
  ASSUME NEW S, NEW s \in Seq(S), NEW k \in [S -> Int], Ascending(s, k), NEW v, NEW B,
         StopsFor(s, k, v, B), \E j \in 1..Len(s) : k[s[j]] = v
  PROVE  B # {} /\ Min(B) \in 1..Len(s) /\ k[s[Min(B)]] = v
<1> USE DEF StopsFor
<1> PICK j \in 1..Len(s) : k[s[j]] = v  OBVIOUS
<1>1. j \in B /\ B \in SUBSET Nat  OBVIOUS
<1>2. Min(B) \in B /\ Min(B) <= j  BY <1>1, MinIn
<1>3. Min(B) \in 1..Len(s) /\ ~(v > k[s[Min(B)]])  BY <1>2
<1>4. k[s[Min(B)]] <= v  BY <1>2, <1>3 DEF Ascending
<1>5. k[s[Min(B)]] \in Int  BY <1>3
<1> QED  BY <1>1, <1>3, <1>4, <1>5

LEMMA InsertsBefore ==
  ASSUME NEW s \in Seq(Ids), NEW e \in Ids, NEW j \in 1..Len(s)
  PROVE  InsertAt(s, j, e)[j + 1] = s[j]
<1>1. j \in 1..Len(s) + 1 /\ j \in j..Len(s)  OBVIOUS
<1>2. \A a \in j..Len(s) : InsertAt(s, j, e)[a + 1] = s[a]  BY <1>1, InsertAtElements
<1> QED  BY <1>1, <1>2

(***************************************************************************)
(* The declared priorities of a core, and how many there are, when one     *)
(* reservation more is put on it.                                          *)
(***************************************************************************)
Puts(i, D, tk, id, r, cpu) ==
  /\ D \in SUBSET Ids /\ id \in D /\ tk \in [D -> UnplacedType]
  /\ Placed(i, D, tk, id, r)
  /\ r.task[id].cpu = cpu
  /\ \A x \in D : r.task[x].params = tk[x].params

Grows(i, D, tk, id, r, cpu) ==
  LET before == Declared(i, D \ {id}, tk, cpu)
      after  == Declared(i, D, r.task, cpu)
      prio   == tk[id].params.priority
      n      == Cardinality(before)
  IN  /\ prio \in before <=> At(i, D \ {id}, tk, cpu, prio) # {}
      /\ prio \in before => Cardinality(after) = n
      /\ prio \notin before => Cardinality(after) = (n + 1) % Word
      /\ \A c : c # cpu => Declared(i, D, r.task, c) = Declared(i, D \ {id}, tk, c)

LEMMA DeclaredGrows ==
  ASSUME PosixPriorities, NEW i \in Index, NEW D, NEW tk, NEW id, NEW r, NEW cpu,
         Puts(i, D, tk, id, r, cpu)
  PROVE  Grows(i, D, tk, id, r, cpu)
<1> USE DEF Puts
<1> DEFINE E      == D \ {id}
           before == Declared(i, E, tk, cpu)
           after  == Declared(i, D, r.task, cpu)
           prio   == tk[id].params.priority
           n      == Cardinality(before)
<1>1. On(i, D, r.task, cpu) = On(i, E, tk, cpu) \cup {id} /\ On(i, E, tk, cpu) \subseteq E
  BY DEF Placed, On
<1>2. \A c : c # cpu => On(i, D, r.task, c) = On(i, E, tk, c) /\ On(i, E, tk, c) \subseteq E
  BY DEF Placed, On
<1>3. \A x \in D : tk[x].params.priority \in Prios  BY KeyTypes
<1>4. after = before \cup {prio}
  <2> DEFINE S == On(i, E, tk, cpu)
  <2>1. after = {tk[x].params.priority : x \in S \cup {id}}
    <3>1. after = {r.task[x].params.priority : x \in S \cup {id}}  BY <1>1 DEF Declared
    <3>2. \A x \in S \cup {id} : r.task[x].params.priority = tk[x].params.priority  BY <1>1
    <3> HIDE DEF after, S
    <3> QED  BY <3>1, <3>2
  <2>2. before = {tk[x].params.priority : x \in S}  BY DEF Declared
  <2> HIDE DEF after, before, S
  <2> QED  BY <2>1, <2>2
<1>5. before \in SUBSET Prios /\ after \in SUBSET Prios
  <2>1. before \in SUBSET Prios  BY <1>1, <1>3 DEF Declared
  <2> QED  BY <1>3, <1>4, <2>1
<1>6. \A c : c # cpu => Declared(i, D, r.task, c) = Declared(i, E, tk, c)
  BY <1>2 DEF Declared
<1>7. prio \in before <=> At(i, E, tk, cpu, prio) # {}  BY DEF Declared, At
<1> HIDE DEF before, after, prio, E
<1>8. IsFiniteSet(before) /\ n \in Nat  BY <1>5, FewPriorities
<1>9. prio \in before => Cardinality(after) = n  BY <1>4, <1>8, FS_AddElement
<1>10. prio \notin before => Cardinality(after) = (n + 1) % Word
  <2> SUFFICES ASSUME prio \notin before PROVE Cardinality(after) = (n + 1) % Word
    OBVIOUS
  <2>1. Cardinality(after) = n + 1  BY <1>4, <1>8, FS_AddElement
  <2>2. n + 1 < Word  BY <1>5, <2>1, FewPriorities
  <2> HIDE DEF n
  <2>3. (n + 1) % Word = n + 1  BY <1>8, <2>2, PluginAssumption
  <2> QED  BY <2>1, <2>3
<1> QED  BY <1>6, <1>7, <1>9, <1>10 DEF Grows, before, after, prio, E

(***************************************************************************)
(* rtf_plg_task_schedule of sched_RR.c.                                    *)
(***************************************************************************)
LEMMA RROrdered ==
  ASSUME PosixPriorities, OwnStatics,
         NEW i \in Index, Plugins[i].kind = "RR", NEW pl \in PluginType,
         NEW D \in SUBSET Ids, NEW id \in D, NEW tk \in [D -> UnplacedType],
         ListsHold(i, D \ {id}, tk, pl), Accounts(i, D \ {id}, tk, pl),
         Ordered(i, D \ {id}, tk, pl), Windowed(i, D \ {id}, tk, pl)
  PROVE  /\ Ordered(i, D, Schedule(i, pl, tk, id).task, Schedule(i, pl, tk, id).pl)
         /\ Windowed(i, D, Schedule(i, pl, tk, id).task, Schedule(i, pl, tk, id).pl)
<1> DEFINE r      == Schedule(i, pl, tk, id)
           E      == D \ {id}
           k      == Keys(i, D, tk)
           cpu    == RR!least_loaded_cpu(Plugins[i], pl)
           p      == tk[id].params
           old    == pl.tasks[cpu]
           stops  == {a \in 1..Len(old) : ~(RR!cmp_priority_asc(p, tk[old[a]].params) > 0)}
           at     == IF stops = {} THEN Len(old) + 1 ELSE Min(stops)
           first  == RR!FirstOfPriority(Plugins[i], pl, tk, id)
           list   == InsertAt(old, at, id)
           dist   == IF first THEN (pl.dist[cpu] + 1) % Word ELSE pl.dist[cpu]
           booked == [tk EXCEPT ![id] = [@ EXCEPT !.cpu = cpu, !.pluginid = i]]
<1>1. /\ Placed(i, D, tk, id, r) /\ ListsHold(i, D, r.task, r.pl) /\ Booked(i, pl, D, tk, id, r)
  BY RRSchedule
<1>2. cpu \in Cores(i) /\ cpu \in Cpus /\ r.task[id].cpu = cpu
  BY <1>1, LeastLoadedIsCore, CoresAreCpus, LeastLoadedIs DEF Booked, Books
<1>3. \A x \in D : r.task[x].params = tk[x].params  BY <1>1 DEF Booked
<1>4. pl.tasks \in [Cpus -> Seq(Ids)] /\ pl.dist \in [Cpus -> 0..Word - 1]  BY PluginFields
<1>5. old \in Seq(Ids) /\ ToSet(old) = On(i, E, tk, cpu)
  BY <1>2, <1>4 DEF ListsHold, Enumerates
<1>6. \A a \in 1..Len(old) : old[a] \in On(i, E, tk, cpu) /\ old[a] \in E
  <2>1. \A a \in 1..Len(old) : old[a] \in ToSet(old)  BY <1>5 DEF ToSet
  <2> QED  BY <1>5, <2>1 DEF On
<1>7. tk[id] \in UnplacedType /\ p.priority \in Prios
  <2>1. tk[id] \in UnplacedType /\ p \in CreateParams  BY DEF UnplacedType
  <2> QED  BY <2>1, ParamTypes
<1>8. /\ k \in [Ids -> Int]
      /\ \A x \in D : /\ k[x] = KeyOf(i, tk[x].params) /\ KeyOf(i, tk[x].params) \in Int
  BY KeyTypes
<1>9. \A x \in D : k[x] = tk[x].params.priority /\ tk[x].params.priority \in Int
  BY <1>8 DEF KeyOf
<1>10. /\ r.pl = [pl EXCEPT !.tasks[cpu] = list, !.dist[cpu] = dist,
                            !.nper[cpu][p.priority] = @ + 1, !.count[cpu] = @ + 1]
       /\ r.task = IF first THEN RR!assign_priorities(Plugins[i], list, dist, booked)
                   ELSE IF at > Len(old) THEN booked
                   ELSE [booked EXCEPT ![id].schedprio = tk[list[at + 1]].schedprio]
  <2>1. Schedule(i, pl, tk, id) = RR!rtf_plg_task_schedule(Plugins[i], pl, tk, id)
    BY DEF Schedule
  <2>2. RR!PlaceOf(Plugins[i], pl, tk, id) = at
    BY Zenon DEF RR!PlaceOf, RR!SortedPosition, RR!Min, Min
  <2>3. RR!InsertAt(old, at, id) = list  BY Zenon DEF RR!InsertAt, InsertAt
  <2>4. Plugins[i].id = i  BY PluginConfig
  <2>5. r = [pl   |-> [pl EXCEPT !.tasks[cpu] = list, !.dist[cpu] = dist,
                                 !.nper[cpu][p.priority] = @ + 1, !.count[cpu] = @ + 1],
             task |-> IF first THEN RR!assign_priorities(Plugins[i], list, dist, booked)
                      ELSE IF at > Len(old) THEN booked
                      ELSE [booked EXCEPT ![id].schedprio = tk[list[at + 1]].schedprio]]
    BY <2>1, <2>2, <2>3, <2>4, Zenon DEF RR!rtf_plg_task_schedule
  <2> HIDE DEF r, list, dist, cpu, booked, first, old, at
  <2> QED  BY <2>5
<1>11. \A a \in 1..Len(old) : a \in stops <=> ~(k[id] > k[old[a]])
  <2> SUFFICES ASSUME NEW a \in 1..Len(old) PROVE a \in stops <=> ~(k[id] > k[old[a]])
    OBVIOUS
  <2>1. a \in stops <=> ~(p.priority - tk[old[a]].params.priority > 0)
    BY DEF RR!cmp_priority_asc
  <2>2. old[a] \in D /\ id \in D  BY <1>6
  <2>3. tk[old[a]].params.priority \in Int /\ p.priority \in Int  BY <1>9, <2>2
  <2>4. k[old[a]] = tk[old[a]].params.priority /\ k[id] = p.priority  BY <1>9, <2>2
  <2> HIDE DEF k, stops, p, old
  <2> QED  BY <2>1, <2>3, <2>4
<1>12. r.pl.tasks = [pl.tasks EXCEPT ![cpu] = list] /\ r.pl.dist = [pl.dist EXCEPT ![cpu] = dist]
  <2> HIDE DEF r, list, dist, cpu, booked, first, old, at
  <2> QED  BY <1>10 DEF PluginType
<1>13. /\ booked \in [D -> UnplacedType] /\ Keys(i, D, booked) = k
       /\ \A x \in D : booked[x].params = tk[x].params
       /\ \A x \in E : booked[x] = tk[x]
  <2> HIDE DEF cpu, p
  <2>1. booked \in [D -> UnplacedType]  BY <1>2, <1>7 DEF UnplacedType
  <2>2. \A x \in D : booked[x].params = tk[x].params  BY DEF UnplacedType
  <2>3. \A x \in E : booked[x] = tk[x]  OBVIOUS
  <2> HIDE DEF booked
  <2> QED  BY <2>1, <2>2, <2>3 DEF Keys
<1>14. /\ stops \in SUBSET (1..Len(old)) /\ at = IF stops = {} THEN Len(old) + 1 ELSE Min(stops)
       /\ at \in 1..Len(old) + 1
  <2>1. stops \in SUBSET (1..Len(old)) /\ Len(old) \in Nat  BY <1>5
  <2> HIDE DEF stops
  <2> QED  BY <2>1, Position
<1>15. first <=> At(i, E, tk, cpu, p.priority) = {}
  <2> DEFINE A == At(i, E, tk, cpu, p.priority)
  <2>1. pl.nper[cpu][p.priority] = Cardinality(A)  BY <1>2, <1>7 DEF Accounts, NperHolds
  <2>2. A \in SUBSET E /\ E \in SUBSET Ids  BY DEF At, On
  <2>3. IsFiniteSet(A) /\ Cardinality(A) \in Nat  BY <2>2, FiniteOn
  <2>4. Cardinality(A) = 0 <=> A = {}  BY <2>3, FS_EmptySet
  <2>5. first <=> pl.nper[cpu][p.priority] + 1 = 1  BY DEF RR!FirstOfPriority
  <2>6. first <=> A = {}
    <3> HIDE DEF A, first
    <3> QED  BY <2>1, <2>3, <2>4, <2>5
  <2> QED  BY <2>6
<1>16. dist = Cardinality(Declared(i, D, r.task, cpu)) /\ Grows(i, D, tk, id, r, cpu)
  <2>1. pl.dist[cpu] = Cardinality(Declared(i, E, tk, cpu))  BY <1>2 DEF Windowed
  <2>2. Puts(i, D, tk, id, r, cpu)  BY <1>1, <1>2, <1>3 DEF Puts
  <2>3. Grows(i, D, tk, id, r, cpu)
    <3> HIDE DEF r, cpu
    <3> QED  BY <2>2, DeclaredGrows
  <2>4. dist = IF first THEN (pl.dist[cpu] + 1) % Word ELSE pl.dist[cpu]  OBVIOUS
  <2> HIDE DEF first, cpu, r, dist
  <2>5. dist = Cardinality(Declared(i, D, r.task, cpu))  BY <1>15, <2>1, <2>3, <2>4 DEF Grows
  <2> QED  BY <2>3, <2>5
<1>17. ASSUME ~first PROVE at \in 1..Len(old) /\ k[old[at]] = k[id]
  <2>1. PICK x \in On(i, E, tk, cpu) : tk[x].params.priority = p.priority  BY <1>15, <1>17 DEF At
  <2>2. PICK j \in 1..Len(old) : old[j] = x
    <3>1. x \in ToSet(old)  BY <1>5
    <3> QED  BY <1>5, <3>1 DEF ToSet
  <2>3. k[old[j]] = k[id] /\ k[id] \in Int
    <3>1. x \in D /\ id \in D  BY <1>6, <2>2
    <3> HIDE DEF k
    <3> QED  BY <1>9, <2>1, <2>2, <3>1
  <2>4. Ascending(old, k)
    <3>1. Ascending(old, Keys(i, E, tk))  BY <1>2 DEF Ordered
    <3>2. \A y \in ToSet(old) : k[y] = Keys(i, E, tk)[y]
      <4>1. ToSet(old) \subseteq E  BY <1>5 DEF On
      <4> QED  BY <4>1 DEF Keys
    <3> HIDE DEF k, old
    <3> QED  BY <1>5, <3>1, <3>2, SameAscending
  <2> HIDE DEF k, old, stops, at
  <2>5. stops # {} /\ Min(stops) \in 1..Len(old) /\ k[old[Min(stops)]] = k[id]
    <3>1. StopsFor(old, k, k[id], stops)  BY <1>11, <1>14, <2>3 DEF StopsFor
    <3> QED  BY <1>5, <1>8, <2>3, <2>4, <3>1, StopIsTwin
  <2> QED  BY <1>14, <2>5
<1> HIDE DEF r, k, cpu, stops, at, list, first, dist, booked
<1>18. r.pl.tasks[cpu] = list /\ list \in Seq(Ids)
  <2>1. list \in Seq(Ids)
    <3>1. id \in Ids  OBVIOUS
    <3> QED  BY <1>5, <1>14, <3>1, InsertAtElements DEF list
  <2> QED  BY <1>2, <1>4, <1>12, <2>1
<1> DEFINE S == On(i, D, r.task, cpu)
<1>19. Enumerates(list, S) /\ S \in SUBSET D  BY <1>1, <1>2, <1>18 DEF ListsHold, On
<1>20. S = On(i, E, tk, cpu) \cup {id}  BY <1>1, <1>2 DEF Placed, On
<1> DEFINE Kept == \A x \in D \ {id} : x \notin On(i, D \ {id}, tk, cpu)
                                          => r.task[x].schedprio = tk[x].schedprio
           Sorted == Ascending(r.pl.tasks[cpu], k) => Follows(i, D, r.task, cpu)
           Inside == Ascending(r.pl.tasks[cpu], k) => \A x \in S : r.task[x].schedprio \in Window(i)
<1>21. ASSUME ~first PROVE Kept /\ Sorted /\ Inside
  <2>1. at \in 1..Len(old) /\ k[old[at]] = k[id]  BY <1>17, <1>21
  <2>2. list[at + 1] = old[at]
    <3>1. id \in Ids  OBVIOUS
    <3> HIDE DEF old
    <3> QED  BY <1>5, <2>1, <3>1, InsertsBefore DEF list
  <2>3. r.task = [booked EXCEPT ![id].schedprio = tk[old[at]].schedprio]
    <3>1. ~(at > Len(old))  BY <1>5, <2>1
    <3> QED  BY <1>10, <1>21, <2>2, <3>1
  <2>4. old[at] \in On(i, E, tk, cpu) /\ old[at] \in D  BY <1>6, <2>1
  <2>5. KeyOf(i, tk[old[at]].params) = KeyOf(i, tk[id].params)  BY <1>8, <2>1, <2>4
  <2>6. \A x \in E : r.task[x] = tk[x]  BY <1>13, <2>3
  <2>7. r.task[id].schedprio = tk[old[at]].schedprio  BY <1>13, <2>3 DEF UnplacedType
  <2>8. Follows(i, E, tk, cpu)  BY <1>2 DEF Ordered
  <2>9. Follows(i, D, r.task, cpu)
    <3> HIDE DEF old
    <3> QED  BY <1>3, <2>4, <2>5, <2>6, <2>7, <2>8, CopyFollows
  <2>10. \A x \in On(i, E, tk, cpu) : x \in E /\ tk[x].schedprio \in Window(i)
    BY <1>2 DEF Windowed, On
  <2>11. \A x \in S : r.task[x].schedprio \in Window(i)
    <3> HIDE DEF old, S
    <3> QED  BY <1>20, <2>4, <2>6, <2>7, <2>10
  <2> QED  BY <2>6, <2>9, <2>11
<1>22. ASSUME first PROVE Kept /\ Sorted /\ Inside
  <2>1. r.task = RR!assign_priorities(Plugins[i], list, dist, booked)  BY <1>10, <1>22
  <2>2. dist = Cardinality({booked[x].params.priority : x \in S})
    <3>1. Declared(i, D, r.task, cpu) = {r.task[x].params.priority : x \in S}  BY DEF Declared
    <3>2. \A x \in S : r.task[x].params.priority = booked[x].params.priority
      BY <1>3, <1>13, <1>19
    <3> HIDE DEF S
    <3> QED  BY <1>16, <3>1, <3>2
  <2>3. ASSUME Ascending(list, k)
        PROVE  /\ Ranked(i, D, booked, S, r.task)
               /\ \A x \in S : r.task[x].schedprio \in Window(i)
    <3>1. Ranking(i, list, D, booked, S)  BY <1>13, <1>18, <1>19, <2>3 DEF Ranking
    <3> HIDE DEF S
    <3> QED  BY <2>1, <2>2, <3>1, RRRanks
  <2>4. Sorted  BY <1>3, <1>13, <1>18, <1>19, <2>3 DEF Follows, Ranked
  <2>5. Inside  BY <1>18, <2>3
  <2>6. Kept
    <3>1. \A x \in D \ S : r.task[x] = booked[x]
      <4>1. ToSet(list) = S  BY <1>19 DEF Enumerates
      <4>2. \A x \in D : x \notin RR!ToSet(list) => r.task[x] = booked[x]
        BY <1>13, <2>1 DEF RR!assign_priorities
      <4> QED  BY <4>1, <4>2 DEF RR!ToSet, ToSet
    <3> QED  BY <1>13, <1>20, <3>1
  <2> QED  BY <2>4, <2>5, <2>6
<1>23. Ordered(i, D, r.task, r.pl)
  <2>1. InsertsAt(pl, Keys(i, D, tk), id, r, cpu, stops, at)
    BY <1>11, <1>12, <1>14 DEF InsertsAt, k, list
  <2>2. Reranks(i, D, tk, Keys(i, D, tk), id, r, cpu)  BY <1>3, <1>21, <1>22 DEF Reranks, k
  <2> QED  BY <1>1, <1>2, <2>1, <2>2, OrderAfterInsert
<1>24. Keys(i, D, r.task) = k  BY <1>3 DEF Keys, k
<1>25. Windowed(i, D, r.task, r.pl)
  <2> SUFFICES ASSUME NEW c \in Cores(i)
               PROVE  /\ r.pl.dist[c] = Cardinality(Declared(i, D, r.task, c))
                      /\ \A x \in On(i, D, r.task, c) : r.task[x].schedprio \in Window(i)
    BY DEF Windowed
  <2>1. c \in Cpus  BY CoresAreCpus
  <2>2. CASE c = cpu
    <3>1. r.pl.dist[c] = dist  BY <1>2, <1>4, <1>12, <2>2
    <3>2. Ascending(r.pl.tasks[cpu], k)  BY <1>2, <1>23, <1>24 DEF Ordered
    <3> QED  BY <1>16, <1>21, <1>22, <2>2, <3>1, <3>2
  <2>3. CASE c # cpu
    <3>1. r.pl.dist[c] = pl.dist[c]  BY <1>4, <1>12, <2>1, <2>3
    <3>2. Declared(i, D, r.task, c) = Declared(i, E, tk, c)
      BY <1>16, <2>3 DEF Grows
    <3>3. /\ pl.dist[c] = Cardinality(Declared(i, E, tk, c))
          /\ \A x \in On(i, E, tk, c) : tk[x].schedprio \in Window(i)
      BY DEF Windowed
    <3>4. \A x \in On(i, D, r.task, c) :
            x \in On(i, E, tk, c) /\ r.task[x].schedprio = tk[x].schedprio
      <4>1. \A x \in On(i, D, r.task, c) : x \in E /\ x \in On(i, E, tk, c) /\ x \notin On(i, E, tk, cpu)
        BY <1>1, <1>2, <2>3 DEF Placed, On
      <4> QED  BY <1>21, <1>22, <4>1
    <3> QED  BY <3>1, <3>2, <3>3, <3>4
  <2> QED  BY <2>2, <2>3
<1> QED  BY <1>23, <1>25 DEF r

(***************************************************************************)
(* A release takes the reservation off its list and leaves the others      *)
(* their real priorities.                                                  *)
(***************************************************************************)
Leaves(i, D, tk, id, pl, r) ==
  /\ pl \in PluginType /\ D \in SUBSET Ids /\ id \in D /\ tk \in [D -> UnplacedType]
  /\ tk[id].pluginid = i /\ tk[id].cpu \in Cores(i)
  /\ ListsHold(i, D, tk, pl)
  /\ Unlisted(i, id, tk[id], pl, r)

LEMMA OrderAfterRelease ==
  ASSUME NEW i \in Index, KeepsLists(i), NEW pl, NEW D, NEW id, NEW tk, NEW r,
         Leaves(i, D, tk, id, pl, r), Ordered(i, D, tk, pl)
  PROVE  Ordered(i, D \ {id}, tk, r)
<1> USE DEF Leaves
<1> DEFINE E   == D \ {id}
           k   == Keys(i, D, tk)
           cpu == tk[id].cpu
<1>1. pl.tasks \in [Cpus -> Seq(Ids)] /\ cpu \in Cpus  BY PluginFields, CoresAreCpus
<1>2. r.tasks = [pl.tasks EXCEPT ![cpu] = RemoveFirst(pl.tasks[cpu], id)]  BY DEF Unlisted
<1>3. /\ r.tasks \in [Cpus -> Seq(Ids)]
      /\ \A c \in Cores(i) : Enumerates(r.tasks[c], On(i, E, tk, c))
  <2>1. /\ pl \in PluginType /\ D \in SUBSET Ids /\ id \in D /\ ListsHold(i, D, tk, pl)
        /\ tk[id].pluginid = i /\ cpu \in Cores(i) /\ tk[id].cpu = cpu
    OBVIOUS
  <2> HIDE DEF cpu, Leaves
  <2> QED  BY <1>2, <2>1, ListsAfterRemoval, Zenon
<1> SUFFICES ASSUME NEW c \in Cores(i)
             PROVE  Ascending(r.tasks[c], Keys(i, E, tk)) /\ Follows(i, E, tk, c)
  BY DEF Ordered
<1>4. Ascending(pl.tasks[c], k) /\ Follows(i, D, tk, c)  BY DEF Ordered
<1>5. c \in Cpus /\ pl.tasks[c] \in Seq(Ids) /\ r.tasks[c] \in Seq(Ids)
  BY <1>1, <1>3, CoresAreCpus
<1>6. Ascending(r.tasks[c], k)
  <2>1. CASE c = cpu
    <3>1. r.tasks[c] = RemoveFirst(pl.tasks[c], id)  BY <1>1, <1>2, <2>1
    <3>2. id \in ToSet(pl.tasks[c])  BY <2>1 DEF ListsHold, Enumerates, On
    <3>3. \E j \in 1..Len(pl.tasks[c]) : pl.tasks[c][j] = id  BY <1>5, <3>2 DEF ToSet
    <3> HIDE DEF k
    <3> QED  BY <1>4, <1>5, <3>1, <3>3, RemoveAscending
  <2>2. CASE c # cpu
    <3>1. r.tasks[c] = pl.tasks[c]  BY <1>1, <1>2, <1>5, <2>2
    <3> QED  BY <1>4, <3>1
  <2> QED  BY <2>1, <2>2
<1>7. \A x \in ToSet(r.tasks[c]) : Keys(i, E, tk)[x] = k[x]
  <2>1. ToSet(r.tasks[c]) \subseteq E  BY <1>3 DEF Enumerates, On
  <2> QED  BY <2>1 DEF Keys
<1> HIDE DEF k
<1>8. Ascending(r.tasks[c], Keys(i, E, tk))  BY <1>5, <1>6, <1>7, SameAscending
<1>9. Follows(i, E, tk, c)
  <2>1. On(i, E, tk, c) \subseteq On(i, D, tk, c)  BY DEF On
  <2> QED  BY <1>4, <2>1 DEF Follows
<1> QED  BY <1>8, <1>9

LEMMA WindowAfterRelease ==
  ASSUME PosixPriorities, OwnStatics, NEW i \in Index, Plugins[i].kind = "RR",
         NEW pl, NEW D, NEW id, NEW tk, NEW r, Leaves(i, D, tk, id, pl, r),
         Accounts(i, D, tk, pl), Windowed(i, D, tk, pl)
  PROVE  Windowed(i, D \ {id}, tk, r)
<1> USE DEF Leaves
<1> DEFINE E    == D \ {id}
           cpu  == tk[id].cpu
           prio == tk[id].params.priority
           A    == At(i, D, tk, cpu, prio)
           last == pl.nper[cpu][prio] - 1 = 0
<1>1. pl.dist \in [Cpus -> 0..Word - 1] /\ cpu \in Cpus  BY PluginFields, CoresAreCpus
<1>2. r.dist = [pl.dist EXCEPT ![cpu] = IF last THEN (@ - 1) % Word ELSE @]  BY DEF Unlisted
<1>3. \A x \in D : tk[x].params.priority \in Prios  BY KeyTypes
<1>4. pl.nper[cpu][prio] = Cardinality(A)  BY <1>3 DEF Accounts, NperHolds
<1>5. id \in A /\ A \in SUBSET D  BY DEF At, On
<1>6. last <=> A = {id}
  <2>1. IsFiniteSet(A) /\ Cardinality(A) \in Nat  BY <1>5, FiniteOn
  <2>2. IsFiniteSet(A \ {id}) /\ Cardinality(A \ {id}) = Cardinality(A) - 1
    BY <1>5, <2>1, FS_RemoveElement
  <2>3. Cardinality(A \ {id}) = 0 <=> A \ {id} = {}  BY <2>2, FS_EmptySet
  <2>4. last <=> Cardinality(A) - 1 = 0  BY <1>4
  <2> HIDE DEF A, last
  <2> QED  BY <1>5, <2>2, <2>3, <2>4
<1> SUFFICES ASSUME NEW c \in Cores(i)
             PROVE  /\ r.dist[c] = Cardinality(Declared(i, E, tk, c))
                    /\ \A x \in On(i, E, tk, c) : tk[x].schedprio \in Window(i)
  BY DEF Windowed
<1> DEFINE before == Declared(i, D, tk, c)
           after  == Declared(i, E, tk, c)
<1>7. c \in Cpus /\ pl.dist[c] = Cardinality(before)  BY CoresAreCpus DEF Windowed
<1>8. \A x \in On(i, E, tk, c) : tk[x].schedprio \in Window(i)  BY DEF Windowed, On
<1>9. before \in SUBSET Prios  BY <1>3 DEF Declared, On
<1>10. IsFiniteSet(before) /\ Cardinality(before) \in Nat /\ Cardinality(before) < Word
  <2> HIDE DEF before
  <2> QED  BY <1>9, FewPriorities
<1>11. CASE c # cpu
  <2>1. On(i, E, tk, c) = On(i, D, tk, c)  BY <1>11 DEF On
  <2>2. after = before  BY <2>1 DEF Declared
  <2>3. r.dist[c] = pl.dist[c]  BY <1>1, <1>2, <1>7, <1>11
  <2> QED  BY <1>7, <1>8, <2>2, <2>3
<1>12. CASE c = cpu /\ ~last
  <2>1. PICK y \in A : y # id  BY <1>5, <1>6, <1>12
  <2>2. y \in On(i, E, tk, c) /\ tk[y].params.priority = prio  BY <1>12, <2>1 DEF At, On
  <2>3. On(i, D, tk, c) = On(i, E, tk, c) \cup {id}  BY <1>12 DEF On
  <2>4. after = before  BY <2>2, <2>3 DEF Declared
  <2>5. r.dist[c] = pl.dist[c]
    <3> HIDE DEF last, cpu
    <3> QED  BY <1>1, <1>2, <1>7, <1>12
  <2> QED  BY <1>7, <1>8, <2>4, <2>5
<1>13. CASE c = cpu /\ last
  <2>1. On(i, E, tk, c) = On(i, D, tk, c) \ {id} /\ id \in On(i, D, tk, c)  BY <1>13 DEF On
  <2>2. \A x \in On(i, E, tk, c) : tk[x].params.priority # prio
    <3>1. \A x \in On(i, E, tk, c) : x \in On(i, D, tk, cpu) /\ x # id  BY <1>13, <2>1
    <3>2. A = {id}  BY <1>6, <1>13
    <3> QED  BY <3>1, <3>2 DEF At
  <2>3. prio \in before  BY <2>1 DEF Declared
  <2>4. after = before \ {prio}
    <3> DEFINE S == On(i, D, tk, c)
    <3>1. before = {tk[x].params.priority : x \in S}  BY DEF Declared
    <3>2. after = {tk[x].params.priority : x \in S \ {id}}  BY <2>1 DEF Declared
    <3>3. \A x \in S \ {id} : tk[x].params.priority # prio  BY <2>1, <2>2
    <3> HIDE DEF before, after, S
    <3> QED  BY <3>1, <3>2, <3>3
  <2> HIDE DEF before, after, prio
  <2>5. Cardinality(after) = Cardinality(before) - 1 /\ Cardinality(after) \in Nat
    BY <1>10, <2>3, <2>4, FS_RemoveElement, FS_CardinalityType
  <2>6. r.dist[c] = (pl.dist[c] - 1) % Word
    <3> HIDE DEF last, cpu
    <3> QED  BY <1>1, <1>2, <1>7, <1>13
  <2>7. \A n \in Nat : n < Word => n % Word = n  BY PluginAssumption
  <2>8. Cardinality(after) < Word  BY <1>10, <2>5, PluginAssumption
  <2>9. r.dist[c] = Cardinality(after)  BY <1>7, <2>5, <2>6, <2>7, <2>8
  <2> QED  BY <1>8, <2>9 DEF after
<1> QED  BY <1>11, <1>12, <1>13

(***************************************************************************)
(* A schedule call leaves the reservations of the other plugins their real *)
(* priorities.                                                             *)
(***************************************************************************)
LEMMA OthersKeepPrio ==
  ASSUME NEW i \in Index, NEW pl \in PluginType, NEW D \in SUBSET Ids, NEW id \in D,
         NEW tk \in [D -> UnplacedType], KeepsLists(i) => ListsHold(i, D \ {id}, tk, pl)
  PROVE  \A x \in D \ {id} :
           tk[x].pluginid # i => Schedule(i, pl, tk, id).task[x].schedprio = tk[x].schedprio
<1> DEFINE r == Schedule(i, pl, tk, id)
<1>1. CASE Plugins[i].kind = "EDF"
  <2>1. r = EDF!rtf_plg_task_schedule(Plugins[i], pl, tk, id)  BY <1>1 DEF Schedule
  <2>2. \A x \in D \ {id} : r.task[x] = tk[x]
    <3> HIDE DEF r
    <3> QED  BY <2>1 DEF EDF!rtf_plg_task_schedule
  <2> QED  BY <2>2
<1>2. CASE Plugins[i].kind = "FP"
  <2>1. r = FP!rtf_plg_task_schedule(Plugins[i], pl, tk, id)  BY <1>2 DEF Schedule
  <2>2. \A x \in D \ {id} : r.task[x] = tk[x]
    <3> HIDE DEF r
    <3> QED  BY <2>1 DEF FP!rtf_plg_task_schedule
  <2> QED  BY <2>2
<1>3. ASSUME NEW list, NEW cpu \in Cores(i), r.pl.tasks[cpu] = list, KeepsLists(i),
             \A x \in D \ {id} : x \notin ToSet(list) => r.task[x] = tk[x]
      PROVE  \A x \in D \ {id} : tk[x].pluginid # i => r.task[x].schedprio = tk[x].schedprio
  <2>1. Placed(i, D, tk, id, r) /\ ListsHold(i, D, r.task, r.pl)  BY <1>3, ScheduleFacts
  <2>2. ToSet(list) = On(i, D, r.task, cpu)  BY <1>3, <2>1 DEF ListsHold, Enumerates
  <2>3. \A x \in D \ {id} : tk[x].pluginid # i => x \notin ToSet(list)
    BY <2>1, <2>2 DEF Placed, On
  <2> QED  BY <1>3, <2>3
<1>4. CASE Plugins[i].kind = "RM"
  <2> DEFINE cpu    == RM!least_loaded_cpu(Plugins[i], pl)
             p      == tk[id].params
             old    == pl.tasks[cpu]
             at     == RM!SortedPosition(old, LAMBDA x : RM!cmp_period_dsc(p, tk[x].params) > 0)
             list   == RM!InsertAt(old, at, id)
             shares == at <= Len(old) /\ tk[old[at]].params.period = p.period
             dist   == IF shares THEN pl.dist[cpu] ELSE (pl.dist[cpu] + 1) % Word
             util   == RM!BookedUtil(p)
             booked == [tk EXCEPT ![id] = [@ EXCEPT !.cpu = cpu, !.pluginid = Plugins[i].id,
                                             !.acceptedt = p.runtime, !.acceptedu = util]]
  <2>1. r = [pl   |-> [pl EXCEPT !.tasks[cpu] = list, !.dist[cpu] = dist,
                                 !.free[cpu] = @ - util, !.count[cpu] = @ + 1],
             task |-> IF shares THEN [booked EXCEPT ![id].schedprio = tk[old[at]].schedprio]
                      ELSE RM!assign_priorities(Plugins[i], list, dist, booked)]
    <3>1. r = RM!rtf_plg_task_schedule(Plugins[i], pl, tk, id)  BY <1>4 DEF Schedule
    <3> QED  BY <3>1, Zenon DEF RM!rtf_plg_task_schedule
  <2>2. cpu \in Cores(i) /\ cpu \in Cpus /\ pl.tasks \in [Cpus -> Seq(Ids)]
    BY LeastLoadedIsCore, CoresAreCpus, PluginFields
  <2>3. \A x \in D \ {id} : booked[x] = tk[x] /\ x \in DOMAIN booked  OBVIOUS
  <2> HIDE DEF r, cpu, p, old, at, list, shares, dist, util, booked
  <2>4. r.pl.tasks[cpu] = list  BY <2>1, <2>2 DEF PluginType
  <2>5. \A x \in D \ {id} : x \notin ToSet(list) => r.task[x] = tk[x]
    <3>1. CASE shares  BY <2>1, <2>3, <3>1
    <3>2. CASE ~shares
      <4>1. r.task = RM!assign_priorities(Plugins[i], list, dist, booked)  BY <2>1, <3>2
      <4>2. \A x \in DOMAIN booked : x \notin ToSet(list) => r.task[x] = booked[x]
        BY <4>1 DEF RM!assign_priorities, RM!ToSet, ToSet
      <4> QED  BY <2>3, <4>2
    <3> QED  BY <3>1, <3>2
  <2> QED  BY <1>3, <1>4, <2>2, <2>4, <2>5 DEF KeepsLists, r
<1>5. CASE Plugins[i].kind = "RR"
  <2> DEFINE cpu    == RR!least_loaded_cpu(Plugins[i], pl)
             prio   == tk[id].params.priority
             at     == RR!PlaceOf(Plugins[i], pl, tk, id)
             first  == RR!FirstOfPriority(Plugins[i], pl, tk, id)
             list   == RR!InsertAt(pl.tasks[cpu], at, id)
             dist   == IF first THEN (pl.dist[cpu] + 1) % Word ELSE pl.dist[cpu]
             booked == [tk EXCEPT ![id] = [@ EXCEPT !.cpu = cpu, !.pluginid = Plugins[i].id]]
             copied == [booked EXCEPT ![id].schedprio = tk[list[at + 1]].schedprio]
  <2>1. r = [pl   |-> [pl EXCEPT !.tasks[cpu] = list, !.dist[cpu] = dist,
                                 !.nper[cpu][prio] = @ + 1, !.count[cpu] = @ + 1],
             task |-> IF first THEN RR!assign_priorities(Plugins[i], list, dist, booked)
                      ELSE IF at > Len(pl.tasks[cpu]) THEN booked ELSE copied]
    <3>1. r = RR!rtf_plg_task_schedule(Plugins[i], pl, tk, id)  BY <1>5 DEF Schedule
    <3> QED  BY <3>1, Zenon DEF RR!rtf_plg_task_schedule
  <2>2. cpu \in Cores(i) /\ cpu \in Cpus /\ pl.tasks \in [Cpus -> Seq(Ids)]
    BY LeastLoadedIsCore, CoresAreCpus, PluginFields
  <2>3. \A x \in D \ {id} : booked[x] = tk[x] /\ copied[x] = tk[x] /\ x \in DOMAIN booked
    OBVIOUS
  <2> HIDE DEF r, cpu, prio, at, first, list, dist, booked, copied
  <2>4. r.pl.tasks[cpu] = list  BY <2>1, <2>2 DEF PluginType
  <2>5. \A x \in D \ {id} : x \notin ToSet(list) => r.task[x] = tk[x]
    <3>1. CASE ~first  BY <2>1, <2>3, <3>1
    <3>2. CASE first
      <4>1. r.task = RR!assign_priorities(Plugins[i], list, dist, booked)  BY <2>1, <3>2
      <4>2. \A x \in DOMAIN booked : x \notin ToSet(list) => r.task[x] = booked[x]
        BY <4>1 DEF RR!assign_priorities, RR!ToSet, ToSet
      <4> QED  BY <2>3, <4>2
    <3> QED  BY <3>1, <3>2
  <2> QED  BY <1>3, <1>5, <2>2, <2>4, <2>5 DEF KeepsLists, r
<1> QED  BY <1>1, <1>2, <1>4, <1>5, PluginConfig DEF Kinds

==============================================================================
