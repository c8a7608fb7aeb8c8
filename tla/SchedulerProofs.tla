-------------------------- MODULE SchedulerProofs ---------------------------
(***************************************************************************)
(* The inductive invariant of RetifScheduler, for every machine, every     *)
(* configuration and every set of requests.                                *)
(***************************************************************************)
EXTENDS PluginProofs

(***************************************************************************)
(* A reservation sits on a core of the plugin that holds it.               *)
(***************************************************************************)
PlacedOnCores == \A id \in DOMAIN task : task[id].cpu \in Cores(task[id].pluginid)

(***************************************************************************)
(* The accounts of every plugin match the reservations.                    *)
(***************************************************************************)
AccountsExact == \A i \in Index : Accounts(i, DOMAIN task, task, plugin[i])

(***************************************************************************)
(* The lists of the plugins match the reservations, wherever they are.     *)
(***************************************************************************)
ListsKept ==
  \A i \in OfKind({"RM", "RR"}) : \A c \in Cores(i) : Enumerates(plugin[i].tasks[c], Held(i, c))

(***************************************************************************)
(* What keeps the daemon alive: arrays that are indexed within their ends, *)
(* and no other plugin's hand on the static variables.                     *)
(***************************************************************************)
Sturdy == ArraysInBounds /\ OwnStatics => NoCrash

Inv ==
  /\ TypeOK
  /\ TasksetExact
  /\ ListsKept
  /\ PlacedOnCores
  /\ AccountsExact
  /\ Sturdy

(***************************************************************************)
(* The condition under which the lists stay exact: a modify request cannot *)
(* move a reservation to another plugin.  It holds with a single plugin,   *)
(* and it holds of the library's requests, whose runtime is far below      *)
(* 2^32 microseconds and therefore names no reservation (see rsvid).       *)
(***************************************************************************)
ChangesStayHome ==
  Len(Plugins) = 1 \/ \A tp \in ModifyParams : tp.runtime < Word

LEMMA NoPluginsMoved ==
  ASSUME ChangesStayHome, NEW tp \in ModifyParams
  PROVE  Index = {1} \/ rsvid(tp) = 0
<1>1. CASE Len(Plugins) = 1  BY <1>1 DEF Index
<1>2. CASE tp.runtime < Word
  <2>1. tp.runtime \in Nat  BY SchedulerAssumption DEF ParamsType
  <2>2. Word \in Nat \ {0}  BY PluginAssumption
  <2>3. \A a \in Nat, w \in Nat \ {0} : a < w => a \div w = 0  BY Z3
  <2> QED  BY <1>2, <2>1, <2>2, <2>3 DEF rsvid
<1> QED  BY <1>1, <1>2 DEF ChangesStayHome

(***************************************************************************)
(* What the threads become under attach, detach and release is again a     *)
(* table of threads.                                                       *)
(***************************************************************************)
LEMMA PolicyType == \A i \in Index : Policy(i) \in Policies
BY PluginConfig DEF Policy, Kinds, Policies, EDF!Policy, RM!Policy, RR!Policy, FP!Policy

LEMMA NormalType ==
  ASSUME NEW k \in [Threads -> ThreadType], NEW tid \in Threads
  PROVE  MadeNormal(k, tid) \in [Threads -> ThreadType]
<1>1. Normal \in ThreadType  BY DEF Normal, ThreadType, Policies
<1> QED  BY <1>1 DEF MadeNormal

LEMMA ThreadsAfterRelease ==
  ASSUME NEW k \in [Threads -> ThreadType], NEW t, t.tid \in Threads, NEW policy
  PROVE  ReleaseThread(t, k, policy) \in [Threads -> ThreadType]
BY NormalType DEF ReleaseThread, DetachThread

LEMMA ThreadsAfterAttach ==
  ASSUME NEW k \in [Threads -> ThreadType], NEW t, t.tid \in Threads, t.cpu \in Cpus,
         t.schedprio \in Int, NEW policy \in Policies, NEW sys
  PROVE  AttachThread(t, k, policy, sys) \in [Threads -> ThreadType]
<1>1. Pinned(k, t.tid, t.cpu) \in [Threads -> ThreadType]  BY DEF Pinned, ThreadType
<1>2. ASSUME NEW prio \in Int
      PROVE  MadeRealTime(k, t.tid, t.cpu, policy, prio) \in [Threads -> ThreadType]
  BY DEF MadeRealTime, ThreadType
<1> QED  BY <1>1, <1>2 DEF AttachThread

LEMMA ChosenType ==
  ASSUME NEW res, Chosen(res) # 0
  PROVE  Chosen(res) \in Index
<1>1. ASSUME NEW S \in SUBSET Index, S # {} PROVE Min(S) \in Index
  <2>1. Len(Plugins) \in Nat  BY SchedulerAssumption
  <2>2. S \in SUBSET Nat  BY <2>1 DEF Index
  <2> QED  BY <1>1, <2>2, MinIn
<1>2. \A a : Answering(res, a) \in SUBSET Index  BY DEF Answering
<1> QED  BY <1>1, <1>2 DEF Chosen

LEMMA FrontInsert ==
  ASSUME NEW S, NEW s \in Seq(S), NEW e \in S
  PROVE  InsertAt(s, 1, e) = <<e>> \o s
<1>1. InsertAt(s, 1, e) = (SubSeq(s, 1, 1 - 1) \o <<e>>) \o SubSeq(s, 1, Len(s))
  BY DEF InsertAt
<1>2. SubSeq(s, 1, 0) = <<>> /\ SubSeq(s, 1, Len(s)) = s  BY SubSeqEmpty, SubSeqFull
<1>3. <<>> \o <<e>> = <<e>>  BY ConcatEmptySeq
<1> QED  BY <1>1, <1>2, <1>3

LEMMA IdsOfTasks == ASSUME TypeOK PROVE DOMAIN task \in SUBSET Ids
BY SchedulerAssumption DEF TypeOK, Ids

LEMMA TasksUnplaced == ASSUME TypeOK PROVE task \in [DOMAIN task -> UnplacedType]
<1>1. \A t \in TaskType : t \in UnplacedType  BY DEF TaskType, UnplacedType
<1> QED  BY <1>1 DEF TypeOK

(***************************************************************************)
(* The lists of plugin i, seen from the properties.                        *)
(***************************************************************************)
LEMMA ListsOf ==
  ListsKept
       <=> \A i \in Index : KeepsLists(i) => ListsHold(i, DOMAIN task, task, plugin[i])
BY DEF ListsKept, KeepsLists, ListsHold, OfKind, Held, On

(***************************************************************************)
(* What a call to plugin i leaves of the other plugins: all but the static *)
(* variables of the .so they may share.                                    *)
(***************************************************************************)
LEMMA OtherPlugins ==
  ASSUME plugin \in [Index -> PluginType], NEW i \in Index, NEW new \in PluginType,
         plugin' = SetPlugin(i, new)
  PROVE  /\ plugin' \in [Index -> PluginType]
         /\ plugin'[i] = new
         /\ \A j \in Index \ {i} : /\ plugin'[j].free = plugin[j].free
                                   /\ plugin'[j].count = plugin[j].count
                                   /\ plugin'[j].tasks = plugin[j].tasks
                                   /\ OwnStatics => plugin'[j] = plugin[j]
<1> DEFINE with(j) == [plugin[j] EXCEPT !.dist = new.dist, !.nper = new.nper]
<1>1. plugin' = [j \in Index |-> IF j = i THEN new
                                ELSE IF SameStatics(i, j) THEN with(j) ELSE plugin[j]]
  BY DEF SetPlugin
<1>2. ASSUME NEW j \in Index
      PROVE  /\ with(j) \in PluginType /\ with(j).free = plugin[j].free
             /\ with(j).count = plugin[j].count /\ with(j).tasks = plugin[j].tasks
  <2>1. plugin[j] \in PluginType  OBVIOUS
  <2> QED  BY <2>1 DEF PluginType
<1> HIDE DEF with
<1>3. \A j \in Index : plugin[j] \in PluginType  OBVIOUS
<1>4. plugin' \in [Index -> PluginType]  BY <1>1, <1>2, <1>3
<1>5. ASSUME NEW j \in Index \ {i}, OwnStatics PROVE ~SameStatics(i, j)  BY <1>5 DEF OwnStatics
<1> QED  BY <1>1, <1>2, <1>4, <1>5

(***************************************************************************)
(* A schedule call, of a new reservation or of one that plugin i held and  *)
(* has just released.                                                      *)
(***************************************************************************)
Placing(i, pl, D, tk, id) ==
  /\ pl \in PluginType
  /\ D \in SUBSET Ids /\ id \in D /\ D = DOMAIN task \cup {id}
  /\ tk \in [D -> UnplacedType]
  /\ \A x \in D \ {id} : tk[x] = task[x]
  /\ id \in DOMAIN task => task[id].pluginid = i
  /\ tk[id].cpu \in Cores(i) \cup {0}
  /\ KeepsLists(i) => ListsHold(i, D \ {id}, tk, pl)
  /\ Accounts(i, D \ {id}, tk, pl)
  /\ Place(i, pl, tk, id)

LEMMA PlaceStep ==
  ASSUME Inv, NEW i \in Index, NEW pl, NEW D, NEW tk, NEW id, Placing(i, pl, D, tk, id)
  PROVE  /\ plugin' \in [Index -> PluginType]
         /\ DOMAIN task' = D
         /\ task' \in [D -> TaskType]
         /\ ListsKept'
         /\ PlacedOnCores'
         /\ AccountsExact'
         /\ Sturdy' /\ status' \in StatusType
<1> USE DEF Placing
<1> DEFINE r == Schedule(i, pl, tk, id)
<1>1. /\ Placed(i, D, tk, id, r) /\ (KeepsLists(i) => ListsHold(i, D, r.task, r.pl))
      /\ Booked(i, pl, D, tk, id, r)
  BY ScheduleFacts
<1>2. plugin' = SetPlugin(i, r.pl) /\ task' = r.task
  BY DEF Place
<1> HIDE DEF r
<1>3. plugin \in [Index -> PluginType]  BY DEF Inv, TypeOK
<1>4. task \in [DOMAIN task -> TaskType]  BY DEF Inv, TypeOK
<1>5. /\ plugin' \in [Index -> PluginType] /\ plugin'[i] = r.pl
      /\ \A j \in Index \ {i} : /\ plugin'[j].free = plugin[j].free
                                /\ plugin'[j].count = plugin[j].count
                                /\ plugin'[j].tasks = plugin[j].tasks
                                /\ OwnStatics => plugin'[j] = plugin[j]
  <2>1. r.pl \in PluginType  BY <1>1 DEF Placed
  <2> QED  BY <1>2, <1>3, <2>1, OtherPlugins
<1>6. task' \in [D -> UnplacedType] /\ DOMAIN task' = D  BY <1>1, <1>2 DEF Placed
<1>7. \A x \in D \ {id} : /\ x \in DOMAIN task
                          /\ task'[x].pluginid = task[x].pluginid
                          /\ task'[x].cpu = task[x].cpu
  BY <1>1, <1>2 DEF Placed
<1>8. task'[id].pluginid = i /\ task'[id].cpu \in Cores(i)  BY <1>1, <1>2 DEF Placed
<1>9. \A x \in D : task'[x].pluginid \in Index  BY <1>4, <1>7, <1>8 DEF TaskType
<1>10. \A u \in UnplacedType : u.pluginid \in Index => u \in TaskType
  BY DEF UnplacedType, TaskType
<1>11. task' \in [D -> TaskType]  BY <1>6, <1>9, <1>10
<1>12. Sturdy' /\ status' \in StatusType
  <2>1. ArraysInBounds /\ OwnStatics => ~Crashes(i, pl, tk, id)  BY NextIsThere
  <2>2. status' = IF Crashes(i, pl, tk, id) THEN "crashed" ELSE status  BY DEF Place
  <2>3. status \in StatusType /\ Sturdy  BY DEF Inv, TypeOK
  <2> HIDE DEF Placing
  <2>4. Sturdy'  BY <2>1, <2>2, <2>3 DEF Sturdy, NoCrash
  <2>5. status' \in StatusType  BY <2>2, <2>3 DEF StatusType
  <2> QED  BY <2>4, <2>5
<1>13. PlacedOnCores'  BY <1>6, <1>7, <1>8 DEF Inv, PlacedOnCores
<1>14. ASSUME NEW j \in Index, KeepsLists(j) PROVE ListsHold(j, DOMAIN task', task', plugin'[j])
  <2>1. CASE j = i  BY <1>1, <1>2, <1>5, <1>6, <1>14, <2>1
  <2>2. CASE j # i
    <3>1. plugin'[j].tasks = plugin[j].tasks  BY <1>5, <2>2
    <3>2. \A c : On(j, D, task', c) = On(j, DOMAIN task, task, c)
      BY <1>7, <1>8, <2>2 DEF On
    <3>3. ListsHold(j, DOMAIN task, task, plugin[j])  BY <1>14, ListsOf DEF Inv
    <3> QED  BY <1>6, <3>1, <3>2, <3>3 DEF ListsHold
  <2> QED  BY <2>1, <2>2
<1>15. ListsKept'
  BY <1>14 DEF ListsKept, KeepsLists, ListsHold, OfKind, Held, On
<1>16. ASSUME NEW j \in Index PROVE Accounts(j, DOMAIN task', task', plugin'[j])
  <2>1. CASE j = i
    <3>1. Accounts(i, D, r.task, r.pl)  BY <1>1, AccountsAfterSchedule
    <3> QED  BY <1>2, <1>5, <1>6, <2>1, <3>1
  <2>2. CASE j # i
    <3>1. /\ plugin'[j].free = plugin[j].free /\ plugin'[j].count = plugin[j].count
          /\ OwnStatics => plugin'[j].nper = plugin[j].nper
      BY <1>5, <2>2
    <3>2. \A c : On(j, D, task', c) = On(j, DOMAIN task, task, c)
      BY <1>7, <1>8, <2>2 DEF On
    <3>3. \A c : \A x \in On(j, DOMAIN task, task, c) : x \in D \ {id}
      BY <2>2 DEF On
    <3>4. \A c : \A x \in On(j, DOMAIN task, task, c) :
            task'[x].acceptedu = task[x].acceptedu /\ task'[x].params = task[x].params
      BY <1>1, <1>2, <3>3 DEF Booked
    <3>5. Accounts(j, DOMAIN task, task, plugin[j])  BY DEF Inv, AccountsExact
    <3>6. DOMAIN task \in SUBSET Ids /\ task \in [DOMAIN task -> UnplacedType]
      BY IdsOfTasks, TasksUnplaced DEF Inv
    <3>7. \A x \in DOMAIN task : task[x] \in UnplacedType  BY <3>6
    <3> QED  BY <1>6, <3>1, <3>2, <3>4, <3>5, <3>6, <3>7, SameAccounts
  <2> QED  BY <2>1, <2>2
<1> QED  BY <1>5, <1>6, <1>11, <1>12, <1>13, <1>15, <1>16 DEF AccountsExact

(***************************************************************************)
(* A removal, by a destroy or by the loop of rtf_scheduler_delete.         *)
(***************************************************************************)
LEMMA RemoveStep ==
  ASSUME Inv, NEW id \in DOMAIN task, RemoveTask(id)
  PROVE  /\ taskset' \in Seq(Ids)
         /\ TasksetExact'
         /\ DOMAIN task' = DOMAIN task \ {id}
         /\ task' \in [DOMAIN task' -> TaskType]
         /\ plugin' \in [Index -> PluginType]
         /\ kern' \in [Threads -> ThreadType]
         /\ ListsKept'
         /\ PlacedOnCores'
         /\ AccountsExact'
<1> DEFINE i == task[id].pluginid
           new == Release(i, id)
           D == DOMAIN task
<1>1. /\ taskset' = RemoveFirst(taskset, id)
      /\ plugin' = SetPlugin(i, new)
      /\ kern' = ReleaseThread(task[id], kern, Policy(i))
      /\ task' = [x \in D \ {id} |-> task[x]]
  BY DEF RemoveTask
<1>2. task[id] \in TaskType /\ i \in Index /\ task[id].tid \in Threads
  BY DEF Inv, TypeOK, TaskType
<1>3. plugin \in [Index -> PluginType] /\ D \in SUBSET Ids /\ task \in [D -> TaskType]
  BY IdsOfTasks DEF Inv, TypeOK
<1>4. \A j \in Index : KeepsLists(j) => ListsHold(j, D, task, plugin[j])
  BY ListsOf DEF Inv
<1>5. task[id].cpu \in Cores(i)  BY DEF Inv, PlacedOnCores
<1>6. /\ new \in PluginType /\ (KeepsLists(i) => ListsHold(i, D \ {id}, task, new))
      /\ Unbooked(i, task[id], plugin[i], new)
  BY <1>2, <1>3, <1>4, <1>5, ReleaseFacts
<1>14. Accounts(i, D \ {id}, task, new)
  <2>1. Accounts(i, D, task, plugin[i])  BY <1>2 DEF Inv, AccountsExact
  <2>2. task \in [D -> UnplacedType]  BY TasksUnplaced DEF Inv
  <2>3. plugin[i] \in PluginType  BY <1>2, <1>3
  <2> HIDE DEF new
  <2> QED  BY <1>2, <1>3, <1>5, <1>6, <2>1, <2>2, <2>3, AccountsAfterRelease
<1> HIDE DEF new, i
<1>7. taskset' \in Seq(Ids) /\ TasksetExact'
  <2>1. taskset \in Seq(Ids) /\ Enumerates(taskset, D)  BY DEF Inv, TypeOK, TasksetExact
  <2>2. taskset' \in Seq(Ids) /\ Enumerates(taskset', D \ {id})
    BY <1>1, <2>1, RemoveEnumerates
  <2>3. DOMAIN task' = D \ {id}  BY <1>1
  <2> QED  BY <2>2, <2>3 DEF TasksetExact
<1>8. DOMAIN task' = D \ {id} /\ task' \in [D \ {id} -> TaskType]  BY <1>1, <1>3
<1>9. /\ plugin' \in [Index -> PluginType] /\ plugin'[i] = new
      /\ \A j \in Index \ {i} : /\ plugin'[j].free = plugin[j].free
                                /\ plugin'[j].count = plugin[j].count
                                /\ plugin'[j].tasks = plugin[j].tasks
                                /\ OwnStatics => plugin'[j] = plugin[j]
  BY <1>1, <1>2, <1>3, <1>6, OtherPlugins
<1>10. kern' \in [Threads -> ThreadType]
  BY <1>1, <1>2, ThreadsAfterRelease DEF Inv, TypeOK
<1>11. PlacedOnCores'  BY <1>1, <1>8 DEF Inv, PlacedOnCores
<1>12. ASSUME NEW j \in Index, KeepsLists(j) PROVE ListsHold(j, DOMAIN task', task', plugin'[j])
  <2>1. \A c : On(j, D \ {id}, task', c) = On(j, D \ {id}, task, c)  BY <1>1 DEF On
  <2>2. CASE j = i
    <3>1. plugin'[j] = new  BY <1>9, <2>2
    <3> QED  BY <1>6, <1>8, <1>12, <2>1, <2>2, <3>1 DEF ListsHold
  <2>3. CASE j # i
    <3>1. plugin'[j].tasks = plugin[j].tasks  BY <1>9, <2>3
    <3>2. \A c : On(j, D \ {id}, task, c) = On(j, D, task, c)  BY <2>3 DEF On, i
    <3>3. ListsHold(j, D, task, plugin[j])  BY <1>4, <1>12
    <3> QED  BY <1>8, <2>1, <3>1, <3>2, <3>3 DEF ListsHold
  <2> QED  BY <2>2, <2>3
<1>13. ListsKept'
  BY <1>12 DEF ListsKept, KeepsLists, ListsHold, OfKind, Held, On
<1>15. ASSUME NEW j \in Index PROVE Accounts(j, DOMAIN task', task', plugin'[j])
  <2> DEFINE E == D \ {id}
  <2>1. \A c : On(j, E, task', c) = On(j, E, task, c)  BY <1>1 DEF On
  <2>2. task \in [D -> UnplacedType]  BY TasksUnplaced DEF Inv
  <2>3. task' \in [E -> UnplacedType] /\ E \in SUBSET Ids  BY <1>1, <1>3, <2>2
  <2>4. \A x \in E : task'[x].acceptedu = task[x].acceptedu /\ task'[x].params = task[x].params
    BY <1>1
  <2>5. CASE j = i
    <3>1. plugin'[j] = new  BY <1>9, <2>5
    <3>2. \A c : \A x \in On(i, E, task, c) :
            task'[x].acceptedu = task[x].acceptedu /\ task'[x].params = task[x].params
      BY <2>4 DEF On
    <3>3. \A x \in E : task[x] \in UnplacedType  BY <2>2
    <3>4. Accounts(i, E, task, new) /\ i \in Index  BY <1>2, <1>14
    <3>5. \A c : On(i, E, task', c) = On(i, E, task, c)  BY <2>1, <2>5
    <3> HIDE DEF E
    <3>6. Accounts(i, E, task', new)
      BY <2>3, <3>2, <3>3, <3>4, <3>5, SameAccounts
    <3> QED  BY <1>8, <2>5, <3>1, <3>6 DEF E
  <2>6. CASE j # i
    <3>1. /\ plugin'[j].free = plugin[j].free /\ plugin'[j].count = plugin[j].count
          /\ OwnStatics => plugin'[j].nper = plugin[j].nper
      BY <1>9, <2>6
    <3>2. \A c : On(j, E, task, c) = On(j, D, task, c)  BY <2>6 DEF On, i
    <3>3. Accounts(j, D, task, plugin[j])  BY DEF Inv, AccountsExact
    <3>4. \A c : On(j, E, task', c) = On(j, D, task, c)  BY <2>1, <3>2
    <3>5. \A c : \A x \in On(j, D, task, c) :
            task'[x].acceptedu = task[x].acceptedu /\ task'[x].params = task[x].params
      BY <2>4, <2>6 DEF On, i
    <3> HIDE DEF E
    <3>6. Accounts(j, E, task', plugin'[j])
      <4>1. \A x \in D : task[x] \in UnplacedType  BY <2>2
      <4> QED  BY <1>3, <2>3, <4>1, <3>1, <3>3, <3>4, <3>5, SameAccounts
    <3> QED  BY <1>8, <3>6 DEF E
  <2> QED  BY <2>5, <2>6
<1> QED  BY <1>7, <1>8, <1>9, <1>10, <1>11, <1>13, <1>15 DEF AccountsExact

-----------------------------------------------------------------------------
LEMMA InitInv == Init => Inv
<1> SUFFICES ASSUME Init PROVE Inv
  OBVIOUS
<1>1. taskset = <<>> /\ task = <<>> /\ DOMAIN task = {}  BY DEF Init
<1>2. ASSUME NEW i \in Index
      PROVE  /\ plugin[i] \in PluginType
             /\ \A c \in Cpus : /\ plugin[i].tasks[c] = <<>>
                                /\ \A p \in Prios : plugin[i].nper[c][p] = 0
                                /\ c < Len(Plugins[i].cpulist) => /\ plugin[i].free[c] = Unit
                                                                  /\ plugin[i].count[c] = 0
  <2>1. plugin[i] \in InitPlugin(i)  BY DEF Init
  <2>2. PICK f \in InitArray(i, Unit, OobFree), n \in InitArray(i, 0, OobCount) :
          plugin[i] = [free |-> f, count |-> n, tasks |-> [c \in Cpus |-> <<>>],
                       dist |-> [c \in Cpus |-> 0], nper |-> [c \in Cpus |-> [q \in Prios |-> 0]]]
    BY <2>1 DEF InitPlugin
  <2>3. f \in [Cpus -> Int] /\ n \in [Cpus -> Int]
    <3>1. f \in [Cpus -> {Unit} \cup OobFree] /\ n \in [Cpus -> {0} \cup OobCount]  BY DEF InitArray
    <3>2. /\ \A u \in {Unit} \cup OobFree : u \in Int
          /\ \A u \in {0} \cup OobCount : u \in Int
      BY UnitAssumption, SchedulerAssumption
    <3> QED  BY <3>1, <3>2
  <2>4. 0 \in 0..Word - 1  BY PluginAssumption
  <2>5. /\ [c \in Cpus |-> <<>>] \in [Cpus -> Seq(Ids)]
        /\ [c \in Cpus |-> 0] \in [Cpus -> 0..Word - 1]
        /\ [c \in Cpus |-> [q \in Prios |-> 0]] \in [Cpus -> [Prios -> Int]]
    BY <2>4
  <2>6. [free |-> f, count |-> n, tasks |-> [c \in Cpus |-> <<>>],
         dist |-> [c \in Cpus |-> 0], nper |-> [c \in Cpus |-> [q \in Prios |-> 0]]] \in PluginType
    BY <2>3, <2>5, MakePlugin, Zenon
  <2>7. \A c \in Cpus : c < Len(Plugins[i].cpulist) => f[c] = Unit /\ n[c] = 0  BY DEF InitArray
  <2> QED  BY <2>2, <2>6, <2>7
<1>3. TypeOK
  <2>1. Normal \in ThreadType  BY DEF Normal, ThreadType, Policies
  <2>2. kern \in [Threads -> ThreadType]  BY <2>1 DEF Init
  <2>3. plugin \in [Index -> PluginType]
    <3>1. plugin = [i \in Index |-> plugin[i]]  BY DEF Init
    <3> QED  BY <1>2, <3>1
  <2>4. last_task_id \in 0..MaxTaskId /\ deleting = NoPid /\ status \in StatusType
    BY SchedulerAssumption DEF Init, StatusType
  <2>5. taskset \in Seq(Ids)  BY <1>1
  <2>6. task \in [DOMAIN task -> TaskType] /\ DOMAIN task \subseteq 1..last_task_id  BY <1>1
  <2> QED  BY <2>2, <2>3, <2>4, <2>5, <2>6 DEF TypeOK
<1>4. Enumerates(<<>>, {})  BY DEF Enumerates, ToSet
<1>5. TasksetExact  BY <1>1, <1>4 DEF TasksetExact
<1>6. ListsKept
  <2>1. ASSUME NEW i \in Index, NEW c \in Cores(i) PROVE Enumerates(plugin[i].tasks[c], Held(i, c))
    <3>1. Held(i, c) = {}  BY <1>1 DEF Held
    <3>2. plugin[i].tasks[c] = <<>>  BY <1>2, CoresAreCpus
    <3> QED  BY <1>4, <3>1, <3>2
  <2> QED  BY <2>1 DEF ListsKept, OfKind
<1>7. PlacedOnCores  BY <1>1 DEF PlacedOnCores
<1>8. ASSUME NEW i \in Index PROVE Accounts(i, DOMAIN task, task, plugin[i])
  <2>1. \A c, p : On(i, DOMAIN task, task, c) = {} /\ At(i, DOMAIN task, task, c, p) = {}
    BY <1>1 DEF On, At
  <2>2. Cardinality({}) = 0  BY FS_EmptySet
  <2>3. ASSUME ArraysInBounds PROVE CountHolds(i, DOMAIN task, task, plugin[i])
    <3>1. \A c \in Cores(i) : plugin[i].count[c] = 0
      BY <1>2, <2>3, CoresAreCpus DEF ArraysInBounds
    <3> QED  BY <2>1, <2>2, <3>1 DEF CountHolds
  <2>4. NperHolds(i, DOMAIN task, task, plugin[i])
    <3>1. \A c \in Cpus : \A p \in Prios : plugin[i].nper[c][p] = 0  BY <1>2
    <3> QED  BY <2>1, <2>2, <3>1, CoresAreCpus DEF NperHolds
  <2>5. ASSUME Books(i), ArraysInBounds, NEW c \in Cores(i)
        PROVE  plugin[i].free[c] + SumFunctionOnSet(Grants(DOMAIN task, task),
                                                    On(i, DOMAIN task, task, c)) = Unit
    <3>1. c \in Cpus /\ c < Len(Plugins[i].cpulist)  BY <2>5, CoresAreCpus DEF ArraysInBounds
    <3>2. plugin[i].free[c] = Unit  BY <1>2, <3>1
    <3>3. SumFunctionOnSet(Grants(DOMAIN task, task), {}) = 0  BY SumEmpty
    <3>4. On(i, DOMAIN task, task, c) = {}  BY <2>1
    <3> QED  BY <3>2, <3>3, <3>4, UnitAssumption
  <2> QED  BY <2>3, <2>4, <2>5 DEF Accounts, FreeHolds
<1> QED  BY <1>3, <1>5, <1>6, <1>7, <1>8 DEF Inv, AccountsExact, Sturdy, NoCrash, Init

(***************************************************************************)
(* Steps that leave reservations and plugins alone.                        *)
(***************************************************************************)
LEMMA SameReservations ==
  ASSUME Inv, UNCHANGED <<taskset, plugin>>, DOMAIN task' = DOMAIN task,
         task' \in [DOMAIN task -> TaskType],
         \A x \in DOMAIN task : /\ task'[x].pluginid = task[x].pluginid
                                /\ task'[x].cpu = task[x].cpu
                                /\ task'[x].acceptedu = task[x].acceptedu
                                /\ task'[x].params = task[x].params
  PROVE  TasksetExact' /\ ListsKept' /\ PlacedOnCores' /\ AccountsExact'
<1>1. TasksetExact'  BY DEF Inv, TasksetExact
<1>2. \A i, c : Held(i, c)' = Held(i, c)  BY DEF Held
<1>3. ListsKept'
  <2>1. ASSUME NEW i \in OfKind({"RM", "RR"}), NEW c \in Cores(i)
        PROVE  Enumerates(plugin'[i].tasks[c], Held(i, c)')
    BY <1>2 DEF Inv, ListsKept
  <2> QED  BY <2>1 DEF ListsKept
<1>4. PlacedOnCores'  BY DEF Inv, PlacedOnCores
<1>5. ASSUME NEW i \in Index PROVE Accounts(i, DOMAIN task', task', plugin'[i])
  <2> DEFINE D == DOMAIN task
  <2>1. D \in SUBSET Ids /\ \A x \in D : task[x] \in UnplacedType
    BY IdsOfTasks, TasksUnplaced DEF Inv
  <2>2. \A c : /\ On(i, D, task', c) = On(i, D, task, c)
               /\ \A x \in On(i, D, task, c) : /\ task'[x].acceptedu = task[x].acceptedu
                                               /\ task'[x].params = task[x].params
    BY DEF On
  <2>3. Accounts(i, D, task, plugin[i])  BY DEF Inv, AccountsExact
  <2>4. DOMAIN task' = D /\ plugin' = plugin  OBVIOUS
  <2> HIDE DEF D
  <2>5. Accounts(i, D, task', plugin[i])  BY <2>1, <2>2, <2>3, SameAccounts
  <2> QED  BY <2>4, <2>5
<1> QED  BY <1>1, <1>3, <1>4, <1>5 DEF AccountsExact

(***************************************************************************)
(* What rtf_scheduler_task_create places: the new reservation, in the      *)
(* plugin as it is.                                                        *)
(***************************************************************************)
WithNew(tp, pid) ==
  [x \in DOMAIN task \cup {last_task_id + 1} |->
     IF x = last_task_id + 1 THEN NewTask(tp, pid) ELSE task[x]]

LEMMA CreatePlaces ==
  ASSUME Inv, NEW tp \in CreateParams, NEW pid \in Pids \cup {0}, TaskCreate(tp, pid),
         NEW i, i = Chosen(CreateTests(tp)), i # 0
  PROVE  /\ i \in Index
         /\ last_task_id + 1 \in Ids \ DOMAIN task
         /\ Placing(i, plugin[i], DOMAIN task \cup {last_task_id + 1}, WithNew(tp, pid),
                    last_task_id + 1)
<1> DEFINE id == last_task_id + 1
           D  == DOMAIN task \cup {id}
           tk == WithNew(tp, pid)
<1>1. last_task_id < MaxTaskId  BY DEF TaskCreate
<1>2. last_task_id \in 0..MaxTaskId /\ MaxTaskId \in Nat  BY SchedulerAssumption DEF Inv, TypeOK
<1>3. id \in Ids /\ id \notin DOMAIN task  BY <1>1, <1>2 DEF Ids, Inv, TypeOK
<1>4. i \in Index  BY ChosenType
<1>5. Place(i, plugin[i], tk, id)  BY DEF TaskCreate, WithNew
<1>6. D \in SUBSET Ids /\ id \in D  BY <1>3, IdsOfTasks DEF Inv
<1>7. tk \in [D -> UnplacedType]
  <2>1. NewTask(tp, pid) \in UnplacedType
    BY SchedulerAssumption DEF NewTask, UnplacedType, Threads
  <2>2. \A x \in DOMAIN task : task[x] \in UnplacedType  BY TasksUnplaced DEF Inv
  <2> QED  BY <2>1, <2>2 DEF WithNew
<1>8. \A x \in D \ {id} : tk[x] = task[x]  BY DEF WithNew
<1>9. plugin[i] \in PluginType  BY <1>4 DEF Inv, TypeOK
<1>10. D \ {id} = DOMAIN task /\ \A c : On(i, D \ {id}, tk, c) = On(i, DOMAIN task, task, c)
  BY <1>3, <1>8 DEF On
<1>11. KeepsLists(i) => ListsHold(i, D \ {id}, tk, plugin[i])
  <2>1. KeepsLists(i) => ListsHold(i, DOMAIN task, task, plugin[i])  BY <1>4, ListsOf DEF Inv
  <2> QED  BY <1>10, <2>1 DEF ListsHold
<1>12. Accounts(i, D \ {id}, tk, plugin[i])
  <2>1. \A c : \A x \in On(i, DOMAIN task, task, c) :
          tk[x].acceptedu = task[x].acceptedu /\ tk[x].params = task[x].params
    BY <1>3, <1>8 DEF On
  <2>2. Accounts(i, DOMAIN task, task, plugin[i])  BY <1>4 DEF Inv, AccountsExact
  <2>3. DOMAIN task \in SUBSET Ids /\ \A x \in DOMAIN task : task[x] \in UnplacedType
    BY IdsOfTasks, TasksUnplaced DEF Inv
  <2>4. \A c : On(i, DOMAIN task, tk, c) = On(i, DOMAIN task, task, c)  BY <1>10
  <2> HIDE DEF tk, D, id
  <2>5. Accounts(i, DOMAIN task, tk, plugin[i])  BY <1>4, <2>1, <2>2, <2>3, <2>4, SameAccounts
  <2> QED  BY <1>10, <2>5
<1>13. tk[id].cpu = 0  BY DEF WithNew, NewTask
<1> HIDE DEF tk
<1> QED  BY <1>3, <1>4, <1>5, <1>6, <1>7, <1>8, <1>9, <1>11, <1>12, <1>13 DEF Placing, tk

LEMMA CreateInv ==
  ASSUME Inv, NEW tp \in CreateParams, NEW pid \in Pids \cup {0}, TaskCreate(tp, pid)
  PROVE  Inv'
<1> DEFINE id == last_task_id + 1
           i  == Chosen(CreateTests(tp))
           D  == DOMAIN task \cup {id}
<1>1. /\ last_task_id < MaxTaskId /\ last_task_id' = id
      /\ UNCHANGED <<kern, deleting>>
  BY DEF TaskCreate
<1>2. last_task_id \in 0..MaxTaskId /\ MaxTaskId \in Nat  BY SchedulerAssumption DEF Inv, TypeOK
<1>3. last_task_id' \in 0..MaxTaskId  BY <1>1, <1>2
<1>4. CASE i = 0
  <2>1. UNCHANGED <<taskset, task, plugin, status>>  BY <1>4 DEF TaskCreate
  <2>2. DOMAIN task \subseteq 1..last_task_id'  BY <1>1, <1>2 DEF Inv, TypeOK
  <2>3. TypeOK' /\ Sturdy'  BY <1>1, <1>3, <2>1, <2>2 DEF Inv, TypeOK, Sturdy, NoCrash
  <2>4. TasksetExact' /\ ListsKept' /\ PlacedOnCores' /\ AccountsExact'
    BY <2>1, SameReservations DEF Inv, TypeOK
  <2> QED  BY <2>3, <2>4 DEF Inv
<1>5. CASE i # 0
  <2>1. taskset' = <<id>> \o taskset  BY <1>5 DEF TaskCreate
  <2>2. /\ i \in Index /\ id \in Ids \ DOMAIN task
        /\ Placing(i, plugin[i], D, WithNew(tp, pid), id)
    BY <1>5, CreatePlaces
  <2> HIDE DEF i
  <2>3. /\ plugin' \in [Index -> PluginType]
        /\ DOMAIN task' = D
        /\ task' \in [D -> TaskType]
        /\ ListsKept' /\ PlacedOnCores' /\ AccountsExact'
        /\ Sturdy' /\ status' \in StatusType
    BY <2>2, PlaceStep
  <2>4. D = DOMAIN task \cup {id}  OBVIOUS
  <2> HIDE DEF D, id
  <2>5. taskset' \in Seq(Ids) /\ TasksetExact'
    <3>1. taskset \in Seq(Ids) /\ Enumerates(taskset, DOMAIN task)  BY DEF Inv, TypeOK, TasksetExact
    <3>2. InsertAt(taskset, 1, id) = <<id>> \o taskset  BY <2>2, <3>1, FrontInsert
    <3>3. /\ InsertAt(taskset, 1, id) \in Seq(Ids)
          /\ Enumerates(InsertAt(taskset, 1, id), DOMAIN task \cup {id})
      <4>1. 1 \in 1..Len(taskset) + 1  BY <3>1
      <4> QED  BY <2>2, <3>1, <4>1, InsertEnumerates
    <3> QED  BY <2>1, <2>3, <2>4, <3>2, <3>3 DEF TasksetExact
  <2>6. DOMAIN task' \subseteq 1..last_task_id'
    <3>1. DOMAIN task \subseteq 1..last_task_id  BY DEF Inv, TypeOK
    <3> QED  BY <1>1, <1>2, <2>3, <2>4, <3>1 DEF id
  <2>7. TypeOK'  BY <1>1, <1>3, <2>3, <2>5, <2>6 DEF Inv, TypeOK
  <2> QED  BY <2>3, <2>5, <2>7 DEF Inv
<1> QED  BY <1>4, <1>5

(***************************************************************************)
(* What rtf_scheduler_task_change places: the reservation it has just      *)
(* released in the same plugin.                                            *)
(***************************************************************************)
LEMMA ChangePlaces ==
  ASSUME Inv, ChangesStayHome, NEW tp \in ModifyParams, NEW id, id = rsvid(tp), id \in DOMAIN task,
         NEW i, i = Chosen(ChangeTests(id)), i # 0, Place(i, Release(i, id), task, id)
  PROVE  /\ i \in Index /\ task[id].pluginid = i
         /\ Unbooked(i, task[id], plugin[i], Release(i, id))
         /\ Placing(i, Release(i, id), DOMAIN task, task, id)
<1>1. id # 0  BY DEF Inv, TypeOK
<1>2. Index = {1}  BY <1>1, NoPluginsMoved
<1>3. i \in Index  BY ChosenType
<1>4. task[id] \in TaskType /\ task[id].pluginid = i
  BY <1>2, <1>3 DEF Inv, TypeOK, TaskType
<1>5. task \in [DOMAIN task -> UnplacedType] /\ DOMAIN task \in SUBSET Ids
  BY IdsOfTasks, TasksUnplaced DEF Inv
<1>6. plugin[i] \in PluginType /\ task \in [DOMAIN task -> TaskType]  BY <1>3 DEF Inv, TypeOK
<1>7. task[id].cpu \in Cores(i)  BY <1>4 DEF Inv, PlacedOnCores
<1>8. KeepsLists(i) => ListsHold(i, DOMAIN task, task, plugin[i])  BY <1>3, ListsOf DEF Inv
<1>9. /\ Release(i, id) \in PluginType
      /\ KeepsLists(i) => ListsHold(i, DOMAIN task \ {id}, task, Release(i, id))
      /\ Unbooked(i, task[id], plugin[i], Release(i, id))
  BY <1>3, <1>4, <1>5, <1>6, <1>7, <1>8, ReleaseFacts
<1>10. Accounts(i, DOMAIN task \ {id}, task, Release(i, id))
  <2>1. Accounts(i, DOMAIN task, task, plugin[i])  BY <1>3 DEF Inv, AccountsExact
  <2> QED  BY <1>3, <1>4, <1>5, <1>6, <1>7, <1>9, <2>1, AccountsAfterRelease
<1>11. DOMAIN task = DOMAIN task \cup {id}  OBVIOUS
<1> QED  BY <1>3, <1>4, <1>5, <1>7, <1>9, <1>10, <1>11 DEF Placing

LEMMA ChangeInv ==
  ASSUME Inv, ChangesStayHome, NEW tp \in ModifyParams, TaskChange(rsvid(tp))
  PROVE  Inv'
<1> DEFINE id == rsvid(tp)
           i  == Chosen(ChangeTests(id))
<1>1. UNCHANGED <<taskset, last_task_id, deleting>>  BY DEF TaskChange
<1>2. CASE UNCHANGED <<task, plugin, kern, status>>
  <2>1. TypeOK' /\ Sturdy'  BY <1>1, <1>2 DEF Inv, TypeOK, Sturdy, NoCrash
  <2>2. TasksetExact' /\ ListsKept' /\ PlacedOnCores' /\ AccountsExact'
    BY <1>1, <1>2, SameReservations DEF Inv, TypeOK
  <2> QED  BY <2>1, <2>2 DEF Inv
<1>3. CASE /\ id \in DOMAIN task /\ i # 0
           /\ kern' \in {kern, ReleaseThread(task[id], kern, Policy(i))}
           /\ Place(i, Release(i, id), task, id)
  <2>1. i \in Index /\ Placing(i, Release(i, id), DOMAIN task, task, id)  BY <1>3, ChangePlaces
  <2> HIDE DEF i, id
  <2>2. /\ plugin' \in [Index -> PluginType]
        /\ DOMAIN task' = DOMAIN task
        /\ task' \in [DOMAIN task -> TaskType]
        /\ ListsKept' /\ PlacedOnCores' /\ AccountsExact'
        /\ Sturdy' /\ status' \in StatusType
    BY <2>1, PlaceStep
  <2>3. task[id].tid \in Threads  BY <1>3 DEF Inv, TypeOK, TaskType
  <2>4. kern' \in [Threads -> ThreadType]
    BY <1>3, <2>3, ThreadsAfterRelease DEF Inv, TypeOK
  <2>5. TypeOK'  BY <1>1, <2>2, <2>4 DEF Inv, TypeOK
  <2>6. TasksetExact'  BY <1>1, <2>2 DEF Inv, TasksetExact
  <2> QED  BY <2>2, <2>5, <2>6 DEF Inv
<1> QED  BY <1>2, <1>3 DEF TaskChange

LEMMA AttachInv ==
  ASSUME Inv, NEW id \in Ids, NEW tid \in Tids, NEW sys \in SysOutcomes, TaskAttach(id, tid, sys)
  PROVE  Inv'
<1> DEFINE t == [task[id] EXCEPT !.tid = tid]
<1>1. UNCHANGED <<taskset, plugin, last_task_id, deleting, status>>  BY DEF TaskAttach
<1>2. /\ DOMAIN task' = DOMAIN task /\ task' \in [DOMAIN task -> TaskType]
      /\ \A x \in DOMAIN task : /\ task'[x].pluginid = task[x].pluginid
                                /\ task'[x].cpu = task[x].cpu
                                /\ task'[x].acceptedu = task[x].acceptedu
                                /\ task'[x].params = task[x].params
      /\ kern' \in [Threads -> ThreadType]
  <2>1. CASE id \notin DOMAIN task  BY <2>1 DEF TaskAttach, Inv, TypeOK
  <2>2. CASE id \in DOMAIN task
    <3>1. task[id] \in TaskType  BY <2>2 DEF Inv, TypeOK
    <3>2. /\ t \in TaskType /\ t.pluginid = task[id].pluginid /\ t.cpu = task[id].cpu
          /\ t.acceptedu = task[id].acceptedu /\ t.params = task[id].params
          /\ t.tid \in Threads /\ t.cpu \in Cpus /\ t.schedprio \in Int /\ t.pluginid \in Index
      BY <3>1 DEF TaskType, Threads
    <3>3. task' = [task EXCEPT ![id] = t] /\ kern' = AttachThread(t, kern, Policy(t.pluginid), sys)
      BY <2>2 DEF TaskAttach
    <3> HIDE DEF t
    <3>4. task \in [DOMAIN task -> TaskType] /\ kern \in [Threads -> ThreadType]
      BY DEF Inv, TypeOK
    <3>5. kern' \in [Threads -> ThreadType]  BY <3>2, <3>3, <3>4, PolicyType, ThreadsAfterAttach
    <3> QED  BY <2>2, <3>2, <3>3, <3>4, <3>5
  <2> QED  BY <2>1, <2>2
<1>3. TypeOK' /\ Sturdy'  BY <1>1, <1>2 DEF Inv, TypeOK, Sturdy, NoCrash
<1> QED  BY <1>1, <1>2, <1>3, SameReservations DEF Inv

LEMMA DetachInv ==
  ASSUME Inv, NEW id \in Ids, TaskDetach(id)
  PROVE  Inv'
<1>1. UNCHANGED <<taskset, task, plugin, last_task_id, deleting, status>>  BY DEF TaskDetach
<1>2. kern' \in [Threads -> ThreadType]
  <2>1. CASE id \notin DOMAIN task  BY <2>1 DEF TaskDetach, Inv, TypeOK
  <2>2. CASE id \in DOMAIN task
    <3>1. task[id].tid \in Threads  BY <2>2 DEF Inv, TypeOK, TaskType
    <3> QED  BY <2>2, <3>1, NormalType DEF TaskDetach, DetachThread, Inv, TypeOK
  <2> QED  BY <2>1, <2>2
<1>3. TypeOK' /\ Sturdy'  BY <1>1, <1>2 DEF Inv, TypeOK, Sturdy, NoCrash
<1>4. task' \in [DOMAIN task -> TaskType]  BY <1>1 DEF Inv, TypeOK
<1> QED  BY <1>1, <1>3, <1>4, SameReservations DEF Inv

LEMMA RemoveInv ==
  ASSUME Inv, NEW id \in DOMAIN task, RemoveTask(id),
         UNCHANGED <<last_task_id, deleting, status>>
  PROVE  Inv'
<1>1. /\ taskset' \in Seq(Ids) /\ DOMAIN task' = DOMAIN task \ {id}
      /\ task' \in [DOMAIN task' -> TaskType] /\ plugin' \in [Index -> PluginType]
      /\ kern' \in [Threads -> ThreadType]
      /\ TasksetExact' /\ ListsKept' /\ PlacedOnCores' /\ AccountsExact'
  BY RemoveStep
<1>2. TypeOK' /\ Sturdy'  BY <1>1 DEF Inv, TypeOK, Sturdy, NoCrash
<1> QED  BY <1>1, <1>2 DEF Inv

LEMMA QuietInv ==
  ASSUME Inv, UNCHANGED <<taskset, task, plugin, last_task_id, status>>,
         deleting' \in Pids \cup {0, NoPid}, kern' \in [Threads -> ThreadType]
  PROVE  Inv'
<1>1. TypeOK' /\ Sturdy'  BY DEF Inv, TypeOK, Sturdy, NoCrash
<1>2. task' \in [DOMAIN task -> TaskType]  BY DEF Inv, TypeOK
<1> QED  BY <1>1, <1>2, SameReservations DEF Inv

\* The task that the loop of rtf_scheduler_delete removes next is one.
LEMMA NextOwned ==
  ASSUME TypeOK, TasksetExact, Owned(deleting) # {}
  PROVE  taskset[Min(Owned(deleting))] \in DOMAIN task
<1> DEFINE k == Min(Owned(deleting))
<1>1. taskset \in Seq(Ids) /\ ToSet(taskset) = DOMAIN task
  BY DEF TypeOK, TasksetExact, Enumerates
<1>2. Owned(deleting) \in SUBSET (1..Len(taskset)) /\ Owned(deleting) \in SUBSET Nat
  BY <1>1 DEF Owned
<1>3. k \in Owned(deleting)  BY <1>2, MinIn
<1> HIDE DEF k
<1>4. taskset[k] \in DOMAIN task  BY <1>1, <1>2, <1>3 DEF ToSet
<1> QED  BY <1>4 DEF k

LEMMA NextInv ==
  ASSUME Inv, ChangesStayHome, [Next]_vars
  PROVE  Inv'
<1>0. deleting \in Pids \cup {0, NoPid} /\ kern \in [Threads -> ThreadType]  BY DEF Inv, TypeOK
<1>1. ASSUME NEW tp \in CreateParams, NEW pid \in Pids, TaskCreate(tp, pid) PROVE Inv'
  BY <1>1, CreateInv
<1>2. ASSUME NEW tp \in ModifyParams, TaskChange(rsvid(tp)) PROVE Inv'
  BY <1>2, ChangeInv
<1>3. ASSUME NEW id \in Ids, NEW tid \in Tids, NEW sys \in SysOutcomes, TaskAttach(id, tid, sys)
      PROVE  Inv'
  BY <1>3, AttachInv
<1>4. ASSUME NEW id \in Ids, TaskDetach(id) PROVE Inv'
  BY <1>4, DetachInv
<1>5. ASSUME NEW id \in Ids, TaskDestroy(id) PROVE Inv'
  <2>1. UNCHANGED <<last_task_id, deleting, status>>  BY <1>5 DEF TaskDestroy
  <2>2. CASE id \notin DOMAIN task  BY <1>0, <1>5, <2>1, <2>2, QuietInv DEF TaskDestroy
  <2>3. CASE id \in DOMAIN task  BY <1>5, <2>1, <2>3, RemoveInv DEF TaskDestroy
  <2> QED  BY <2>2, <2>3
<1>6. ASSUME NEW pid \in Pids, DeleteBegin(pid) PROVE Inv'
  BY <1>0, <1>6, QuietInv DEF DeleteBegin
<1>7. CASE DeleteStep
  <2>1. CASE Owned(deleting) # {}
    <3>1. taskset[Min(Owned(deleting))] \in DOMAIN task  BY <2>1, NextOwned DEF Inv
    <3>2. /\ RemoveTask(taskset[Min(Owned(deleting))])
          /\ UNCHANGED <<last_task_id, deleting, status>>
      BY <1>7, <2>1 DEF DeleteStep
    <3> QED  BY <3>1, <3>2, RemoveInv
  <2>2. CASE Owned(deleting) = {}  BY <1>0, <1>7, <2>2, QuietInv DEF DeleteStep
  <2> QED  BY <2>1, <2>2
<1>8. ASSUME NEW tid \in Tids, ThreadExit(tid) PROVE Inv'
  <2>1. Exited \in ThreadType  BY DEF Exited, ThreadType, Policies
  <2>2. kern' \in [Threads -> ThreadType]  BY <1>0, <1>8, <2>1 DEF ThreadExit
  <2> QED  BY <1>0, <1>8, <2>2, QuietInv DEF ThreadExit
<1>9. CASE UNCHANGED vars  BY <1>0, <1>9, QuietInv DEF vars
<1> QED  BY <1>1, <1>2, <1>3, <1>4, <1>5, <1>6, <1>7, <1>8, <1>9 DEF Next

-----------------------------------------------------------------------------
(***************************************************************************)
(* The scheduler never leaves its types, on any machine: every reservation *)
(* has a plugin of the configuration, the counters of the plugins stay     *)
(* integers and dist_prio an unsigned one.                                 *)
(***************************************************************************)
THEOREM TypeCorrect == ASSUME ChangesStayHome PROVE Spec => []TypeOK
<1>1. Inv => TypeOK  BY DEF Inv
<1>2. Inv /\ [Next]_vars => Inv'  BY NextInv
<1> QED  BY <1>1, <1>2, InitInv, PTL DEF Spec

(***************************************************************************)
(* The task set of retif_scheduler.c lists every live reservation exactly  *)
(* once: what rtf_taskset_search misses does not exist, and no list node   *)
(* outlives the task it points to.                                         *)
(***************************************************************************)
THEOREM TasksetStaysExact == ASSUME ChangesStayHome PROVE Spec => []TasksetExact
<1>1. Inv => TasksetExact  BY DEF Inv
<1>2. Inv /\ [Next]_vars => Inv'  BY NextInv
<1> QED  BY <1>1, <1>2, InitInv, PTL DEF Spec

(***************************************************************************)
(* The per-CPU lists of sched_RM.c and sched_RR.c hold exactly the         *)
(* reservations of their plugin on that CPU, however creates, changes,     *)
(* destroys, disconnections and thread exits follow one another.  The      *)
(* array of lists has one entry per core of the list and is indexed by     *)
(* core number: of what lies beyond it the theorem can say nothing, so it  *)
(* takes ArraysInBounds.                                                   *)
(***************************************************************************)
THEOREM ListsStayExact ==
  ASSUME ChangesStayHome, ArraysInBounds PROVE Spec => []PluginListsExact
<1>1. Inv => PluginListsExact
  <2> SUFFICES ASSUME NEW i \in OfKind({"RM", "RR"}), NEW c \in Cores(i) PROVE ~Wild(i, c)
    BY DEF Inv, ListsKept, PluginListsExact
  <2>1. i \in Index /\ c \in Cpus  BY CoresAreCpus DEF OfKind
  <2>2. c < Len(Plugins[i].cpulist)  BY <2>1 DEF ArraysInBounds
  <2>3. c \in Nat /\ Len(Plugins[i].cpulist) \in Nat  BY <2>1, KernelAssumption, PluginConfig
  <2> QED  BY <2>2, <2>3 DEF Wild
<1>2. Inv /\ [Next]_vars => Inv'  BY NextInv
<1> QED  BY <1>1, <1>2, InitInv, PTL DEF Spec

LEMMA AccountsCount ==
  ASSUME Inv, ArraysInBounds
  PROVE  CountsExact
<1> SUFFICES ASSUME NEW i \in Index, NEW c \in Cores(i)
             PROVE  plugin[i].count[c] = Cardinality(Held(i, c))
  BY DEF CountsExact
<1>1. CountHolds(i, DOMAIN task, task, plugin[i])  BY DEF Inv, AccountsExact, Accounts
<1>2. On(i, DOMAIN task, task, c) = Held(i, c)  BY DEF On, Held
<1> QED  BY <1>1, <1>2 DEF CountHolds

(***************************************************************************)
(* task_count_percpu of every plugin is the number of its reservations on  *)
(* that CPU, through every sequence of calls: the counter that spreads RR  *)
(* and FP reservations and that the monitor shows neither drifts nor goes  *)
(* below zero.  It too is only as long as the core list (ArraysInBounds).  *)
(***************************************************************************)
THEOREM CountsStayExact ==
  ASSUME ChangesStayHome, ArraysInBounds PROVE Spec => []CountsExact
<1>1. Inv => CountsExact  BY AccountsCount
<1>2. Inv /\ [Next]_vars => Inv'  BY NextInv
<1> QED  BY <1>1, <1>2, InitInv, PTL DEF Spec

(***************************************************************************)
(* No call of rtf_plg_task_schedule in sched_RR.c follows the null pointer *)
(* at the end of its list: whenever n_per_prio says that the priority is   *)
(* already there, the list holds a node of it to copy from.  The counter   *)
(* is static, so this takes OwnStatics: with two plugins of one .so it     *)
(* counts the reservations of both, and either may follow the pointer.     *)
(* And no call follows a list beyond the end of tasks (ArraysInBounds).    *)
(***************************************************************************)
THEOREM NeverCrashes ==
  ASSUME ChangesStayHome, ArraysInBounds, OwnStatics PROVE Spec => []NoCrash
<1>1. Inv => NoCrash  BY DEF Inv, Sturdy
<1>2. Inv /\ [Next]_vars => Inv'  BY NextInv
<1> QED  BY <1>1, <1>2, InitInv, PTL DEF Spec

(***************************************************************************)
(* On every core of an EDF or RM plugin what is free and what the          *)
(* reservations there hold always make up one CPU.  ArraysInBounds is      *)
(* needed: util_free_percpu has one entry per core of the list and is      *)
(* indexed by core number, so a core beyond it starts from whatever the    *)
(* heap held.                                                              *)
(***************************************************************************)
THEOREM CapacityStaysConserved ==
  ASSUME ChangesStayHome, ArraysInBounds PROVE Spec => []CapacityConserved
<1>1. Inv => CapacityConserved
  <2> SUFFICES ASSUME Inv, NEW i \in OfKind({"EDF", "RM"}), NEW c \in Cores(i)
               PROVE  plugin[i].free[c]
                        + SumFunctionOnSet([id \in DOMAIN task |-> task[id].acceptedu], Held(i, c))
                      = Unit
    BY DEF CapacityConserved
  <2>1. i \in Index /\ Books(i)  BY DEF OfKind, Books
  <2>2. FreeHolds(i, DOMAIN task, task, plugin[i])  BY <2>1 DEF Inv, AccountsExact, Accounts
  <2>3. On(i, DOMAIN task, task, c) = Held(i, c)  BY DEF On, Held
  <2>4. Grants(DOMAIN task, task) = [id \in DOMAIN task |-> task[id].acceptedu]  BY DEF Grants
  <2> QED  BY <2>2, <2>3, <2>4 DEF FreeHolds
<1>2. Inv /\ [Next]_vars => Inv'  BY NextInv
<1> QED  BY <1>1, <1>2, InitInv, PTL DEF Spec

-----------------------------------------------------------------------------
(***************************************************************************)
(* What a step may do to the set of reservations.                          *)
(***************************************************************************)
LEMMA PlaceDomain ==
  ASSUME NEW i \in Index, NEW pl, NEW tk, NEW id, Place(i, pl, tk, id)
  PROVE  DOMAIN task' = DOMAIN tk
<1>1. task' = Schedule(i, pl, tk, id).task  BY DEF Place
<1>2. CASE Plugins[i].kind = "EDF"
  BY <1>1, <1>2 DEF Schedule, EDF!rtf_plg_task_schedule
<1>3. CASE Plugins[i].kind = "RM"
  BY <1>1, <1>3 DEF Schedule, RM!rtf_plg_task_schedule, RM!assign_priorities
<1>4. CASE Plugins[i].kind = "RR"
  BY <1>1, <1>4 DEF Schedule, RR!rtf_plg_task_schedule, RR!assign_priorities
<1>5. CASE Plugins[i].kind = "FP"
  BY <1>1, <1>5 DEF Schedule, FP!rtf_plg_task_schedule
<1> QED  BY <1>2, <1>3, <1>4, <1>5, PluginConfig DEF Kinds

\* Reservations go by RemoveTask only, one at a time.
LEMMA OnlyRemoved ==
  ASSUME TypeOK, TasksetExact, Next, NEW id \in DOMAIN task \ DOMAIN task'
  PROVE  RemoveTask(id)
<1>1. ASSUME NEW tp \in CreateParams, NEW pid \in Pids, TaskCreate(tp, pid) PROVE FALSE
  <2>1. CASE Chosen(CreateTests(tp)) = 0  BY <1>1, <2>1 DEF TaskCreate
  <2>2. CASE Chosen(CreateTests(tp)) # 0
    <3>1. Chosen(CreateTests(tp)) \in Index  BY <2>2, ChosenType
    <3> QED  BY <1>1, <2>2, <3>1, PlaceDomain DEF TaskCreate
  <2> QED  BY <2>1, <2>2
<1>2. ASSUME NEW tp \in ModifyParams, TaskChange(rsvid(tp)) PROVE FALSE
  <2> DEFINE n == rsvid(tp)
             i == Chosen(ChangeTests(n))
  <2>1. CASE UNCHANGED task  BY <2>1
  <2>2. CASE i # 0 /\ Place(i, Release(i, n), task, n)
    <3>1. i \in Index  BY <2>2, ChosenType
    <3> HIDE DEF i, n
    <3> QED  BY <2>2, <3>1, PlaceDomain
  <2> QED  BY <1>2, <2>1, <2>2 DEF TaskChange
<1>3. ASSUME NEW n \in Ids, NEW tid \in Tids, NEW sys \in SysOutcomes, TaskAttach(n, tid, sys)
      PROVE  FALSE
  BY <1>3 DEF TaskAttach
<1>4. ASSUME NEW n \in Ids, TaskDetach(n) PROVE FALSE
  BY <1>4 DEF TaskDetach
<1>5. ASSUME NEW n \in Ids, RemoveTask(n) PROVE n = id
  BY <1>5 DEF RemoveTask
<1>6. ASSUME NEW n \in Ids, TaskDestroy(n) PROVE RemoveTask(id)
  <2>1. CASE n \notin DOMAIN task  BY <1>6, <2>1 DEF TaskDestroy
  <2>2. CASE n \in DOMAIN task  BY <1>5, <1>6, <2>2 DEF TaskDestroy
  <2> QED  BY <2>1, <2>2
<1>7. ASSUME NEW pid \in Pids, DeleteBegin(pid) PROVE FALSE
  BY <1>7 DEF DeleteBegin
<1>8. CASE DeleteStep
  <2>1. CASE Owned(deleting) # {}
    <3>1. taskset[Min(Owned(deleting))] \in Ids  BY <2>1, NextOwned, IdsOfTasks
    <3>2. RemoveTask(taskset[Min(Owned(deleting))])  BY <1>8, <2>1 DEF DeleteStep
    <3> QED  BY <1>5, <3>1, <3>2
  <2>2. CASE Owned(deleting) = {}  BY <1>8, <2>2 DEF DeleteStep
  <2> QED  BY <2>1, <2>2
<1>9. ASSUME NEW tid \in Tids, ThreadExit(tid) PROVE FALSE
  BY <1>9 DEF ThreadExit
<1> QED  BY <1>1, <1>2, <1>3, <1>4, <1>6, <1>7, <1>8, <1>9 DEF Next

(***************************************************************************)
(* However a reservation goes, by a destroy or with its client, the thread *)
(* it records is not left under the real-time policy of its plugin: the    *)
(* release of the four plugins returns it to SCHED_OTHER or finds it gone. *)
(***************************************************************************)
THEOREM ReleasesDemote == ASSUME ChangesStayHome PROVE Spec => ReleaseDemotes
<1>1. ASSUME Inv, [Next]_vars, NEW id \in DOMAIN task \ DOMAIN task'
      PROVE  kern'[task[id].tid].policy # Policy(task[id].pluginid)
  <2> DEFINE tid == task[id].tid
             i   == task[id].pluginid
  <2>1. Next  BY <1>1 DEF vars
  <2>2. RemoveTask(id)  BY <1>1, <2>1, OnlyRemoved DEF Inv
  <2>3. kern' = ReleaseThread(task[id], kern, Policy(i))  BY <2>2 DEF RemoveTask
  <2>4. kern \in [Threads -> ThreadType] /\ tid \in Threads /\ i \in Index
    BY <1>1 DEF Inv, TypeOK, TaskType
  <2>5. Policy(i) \in Policies \ {"OTHER"}
    BY <2>4, PluginConfig DEF Policy, Kinds, Policies, EDF!Policy, RM!Policy, RR!Policy, FP!Policy
  <2>6. kern[tid].policy = Policy(i) => kern[tid].policy # Gone  BY <2>5 DEF Policies, Gone
  <2>7. CASE kern[tid].policy # Policy(i)  BY <2>3, <2>7 DEF ReleaseThread
  <2>8. CASE kern[tid].policy = Policy(i)
    <3>1. kern' = [kern EXCEPT ![tid] = Normal]
      BY <2>3, <2>6, <2>8 DEF ReleaseThread, DetachThread, MadeNormal
    <3>2. kern'[tid].policy = "OTHER"  BY <2>4, <3>1 DEF Normal
    <3> QED  BY <2>5, <3>2
  <2> QED  BY <2>7, <2>8
<1> DEFINE Demotes == \A id \in DOMAIN task \ DOMAIN task' :
                        kern'[task[id].tid].policy # Policy(task[id].pluginid)
<1>2. Inv /\ [Next]_vars => Inv'  BY NextInv
<1>3. Inv /\ [Next]_vars => [Demotes]_vars  BY <1>1
<1> QED  BY <1>2, <1>3, InitInv, PTL DEF Spec, ReleaseDemotes

\* The plugin that test_and_assign settles on has not refused.
LEMMA ChosenAnswers ==
  ASSUME NEW res, Chosen(res) # 0
  PROVE  res[Chosen(res)] # RTF_NO
<1>1. \A a : Answering(res, a) \in SUBSET Nat
  <2>1. Len(Plugins) \in Nat  BY SchedulerAssumption
  <2> QED  BY <2>1 DEF Answering, Index
<1>2. \A a : Answering(res, a) # {} => Min(Answering(res, a)) \in Answering(res, a)
  BY <1>1, MinIn
<1>3. \A a : \A i \in Answering(res, a) : res[i] = a  BY DEF Answering
<1> QED  BY <1>2, <1>3 DEF Chosen, RTF_OK, RTF_PARTIAL, RTF_NO

-----------------------------------------------------------------------------
(***************************************************************************)
(* Real priorities.  The invariant says of every plugin that keeps lists   *)
(* that they are sorted and that real priorities follow the sort key, and  *)
(* of RR that they stay in the window and that dist_prio is exact: the     *)
(* copy of a neighbour's priority is right because the list is sorted, and *)
(* the levels stay in the window because dist_prio is exact.  RM needs no  *)
(* such thing of its dist_prio, which another plugin may well change.      *)
(***************************************************************************)
OrderHolds(i, D, tk, pl) ==
  /\ Plugins[i].kind = "RM" => Ordered(i, D, tk, pl)
  /\ Plugins[i].kind = "RR" /\ PosixPriorities /\ OwnStatics
       => Ordered(i, D, tk, pl) /\ Windowed(i, D, tk, pl)

Ranks == \A i \in Index : OrderHolds(i, DOMAIN task, task, plugin[i])

LEMMA SameOrderHolds ==
  ASSUME NEW i \in Index, NEW pl \in PluginType, NEW q \in PluginType, NEW D, NEW tk, NEW E, NEW new,
         q.tasks = pl.tasks, OwnStatics => q = pl,
         KeepsLists(i) => ListsHold(i, D, tk, pl),
         \A c : On(i, E, new, c) = On(i, D, tk, c),
         \A c : \A x \in On(i, D, tk, c) : /\ new[x].schedprio = tk[x].schedprio
                                           /\ new[x].params = tk[x].params,
         OrderHolds(i, D, tk, pl)
  PROVE  OrderHolds(i, E, new, q)
<1>1. ASSUME KeepsLists(i), Ordered(i, D, tk, pl) PROVE Ordered(i, E, new, q)
  <2>1. Ordered(i, E, new, pl)  BY <1>1, SameOrdered
  <2> QED  BY <2>1 DEF Ordered
<1>2. ASSUME Windowed(i, D, tk, pl) PROVE Windowed(i, E, new, pl)
  <2>1. \A c : Declared(i, E, new, c) = Declared(i, D, tk, c)  BY DEF Declared
  <2> QED  BY <1>2, <2>1 DEF Windowed
<1> QED  BY <1>1, <1>2 DEF OrderHolds, KeepsLists

LEMMA PlaceRanks ==
  ASSUME Inv, Ranks, NEW i \in Index, NEW pl, NEW D, NEW tk, NEW id, Placing(i, pl, D, tk, id),
         OrderHolds(i, D \ {id}, tk, pl)
  PROVE  Ranks'
<1> DEFINE r == Schedule(i, pl, tk, id)
<1>0. /\ pl \in PluginType /\ D \in SUBSET Ids /\ id \in D /\ tk \in [D -> UnplacedType]
      /\ (KeepsLists(i) => ListsHold(i, D \ {id}, tk, pl)) /\ Accounts(i, D \ {id}, tk, pl)
  BY DEF Placing
<1>1. Placed(i, D, tk, id, r) /\ Booked(i, pl, D, tk, id, r)  BY <1>0, ScheduleFacts
<1>2. plugin' = SetPlugin(i, r.pl) /\ task' = r.task  BY DEF Placing, Place
<1>3. /\ plugin \in [Index -> PluginType] /\ plugin' \in [Index -> PluginType]
      /\ plugin'[i] = r.pl
      /\ \A j \in Index \ {i} : /\ plugin'[j].tasks = plugin[j].tasks
                                /\ OwnStatics => plugin'[j] = plugin[j]
  <2>1. plugin \in [Index -> PluginType] /\ r.pl \in PluginType  BY <1>1 DEF Inv, TypeOK, Placed
  <2> QED  BY <1>2, <2>1, OtherPlugins
<1>4. OrderHolds(i, D, r.task, r.pl)
  <2>1. CASE Plugins[i].kind = "RM"
    <3>1. Ordered(i, D \ {id}, tk, pl) /\ ListsHold(i, D \ {id}, tk, pl)
      BY <1>0, <2>1 DEF OrderHolds, KeepsLists
    <3> QED  BY <1>0, <2>1, <3>1, RMOrdered DEF OrderHolds
  <2>2. CASE Plugins[i].kind = "RR"
    <3> SUFFICES ASSUME PosixPriorities, OwnStatics
                 PROVE  Ordered(i, D, r.task, r.pl) /\ Windowed(i, D, r.task, r.pl)
      BY <2>2 DEF OrderHolds
    <3>1. /\ Ordered(i, D \ {id}, tk, pl) /\ Windowed(i, D \ {id}, tk, pl)
          /\ ListsHold(i, D \ {id}, tk, pl)
      BY <1>0, <2>2 DEF OrderHolds, KeepsLists
    <3> QED  BY <1>0, <2>2, <3>1, RROrdered
  <2>3. CASE Plugins[i].kind \notin {"RM", "RR"}  BY <2>3 DEF OrderHolds
  <2> QED  BY <2>1, <2>2, <2>3
<1>5. \A x \in D \ {id} :
        tk[x].pluginid # i => r.task[x].schedprio = tk[x].schedprio
  BY <1>0, OthersKeepPrio
<1>6. DOMAIN task' = D  BY <1>1, <1>2 DEF Placed
<1>7. \A x \in D \ {id} : /\ x \in DOMAIN task /\ tk[x] = task[x]
                          /\ task'[x].pluginid = task[x].pluginid
                          /\ task'[x].cpu = task[x].cpu
                          /\ task'[x].params = task[x].params
  BY <1>1, <1>2 DEF Placing, Placed, Booked
<1>8. task'[id].pluginid = i /\ (id \in DOMAIN task => task[id].pluginid = i)
      /\ D = DOMAIN task \cup {id}
  BY <1>1, <1>2 DEF Placing, Placed
<1> HIDE DEF r
<1> SUFFICES ASSUME NEW j \in Index PROVE OrderHolds(j, DOMAIN task', task', plugin'[j])
  BY DEF Ranks
<1>9. CASE j = i  BY <1>2, <1>3, <1>4, <1>6, <1>9
<1>10. CASE j # i
  <2>1. /\ plugin'[j] \in PluginType /\ plugin[j] \in PluginType
        /\ plugin'[j].tasks = plugin[j].tasks /\ (OwnStatics => plugin'[j] = plugin[j])
    BY <1>3, <1>10
  <2>2. \A c : On(j, D, task', c) = On(j, DOMAIN task, task, c)  BY <1>7, <1>8, <1>10 DEF On
  <2>3. \A c : \A x \in On(j, DOMAIN task, task, c) :
          task'[x].schedprio = task[x].schedprio /\ task'[x].params = task[x].params
    <3>1. \A c : \A x \in On(j, DOMAIN task, task, c) : x \in D \ {id} /\ task[x].pluginid # i
      BY <1>8, <1>10 DEF On
    <3> QED  BY <1>2, <1>5, <1>7, <3>1
  <2>4. OrderHolds(j, DOMAIN task, task, plugin[j])  BY DEF Ranks
  <2>5. KeepsLists(j) => ListsHold(j, DOMAIN task, task, plugin[j])  BY ListsOf DEF Inv
  <2> QED  BY <1>6, <2>1, <2>2, <2>3, <2>4, <2>5, SameOrderHolds
<1> QED  BY <1>9, <1>10

\* A release in the plugin that holds the reservation.
LEMMA ReleaseRanks ==
  ASSUME Inv, Ranks, NEW id \in DOMAIN task, NEW i, i = task[id].pluginid
  PROVE  OrderHolds(i, DOMAIN task \ {id}, task, Release(i, id))
<1> DEFINE D == DOMAIN task
           new == Release(i, id)
<1>1. i \in Index /\ plugin[i] \in PluginType /\ task \in [D -> TaskType]
  BY DEF Inv, TypeOK, TaskType
<1>2. D \in SUBSET Ids /\ task \in [D -> UnplacedType]  BY IdsOfTasks, TasksUnplaced DEF Inv
<1>3. KeepsLists(i) => ListsHold(i, D, task, plugin[i])  BY <1>1, ListsOf DEF Inv
<1>4. task[id].cpu \in Cores(i)  BY DEF Inv, PlacedOnCores
<1>5. Unlisted(i, id, task[id], plugin[i], new)  BY <1>1, <1>2, <1>3, <1>4, ReleaseFacts
<1> HIDE DEF new, D
<1>6. KeepsLists(i) => Leaves(i, D, task, id, plugin[i], new)
  BY <1>1, <1>2, <1>3, <1>4, <1>5 DEF Leaves, D
<1>7. OrderHolds(i, D, task, plugin[i]) /\ Accounts(i, D, task, plugin[i])
  BY <1>1 DEF Ranks, Inv, AccountsExact, D
<1>8. ASSUME KeepsLists(i), Ordered(i, D, task, plugin[i]) PROVE Ordered(i, D \ {id}, task, new)
  BY <1>1, <1>6, <1>8, OrderAfterRelease
<1>9. ASSUME PosixPriorities, OwnStatics, Plugins[i].kind = "RR", Windowed(i, D, task, plugin[i])
      PROVE  Windowed(i, D \ {id}, task, new)
  <2>1. Leaves(i, D, task, id, plugin[i], new)  BY <1>6, <1>9 DEF KeepsLists
  <2> QED  BY <1>1, <1>7, <1>9, <2>1, WindowAfterRelease
<1>10. OrderHolds(i, D \ {id}, task, new)  BY <1>7, <1>8, <1>9 DEF OrderHolds, KeepsLists
<1> QED  BY <1>10 DEF D, new

LEMMA SameRanks ==
  ASSUME Inv, Ranks, UNCHANGED plugin, DOMAIN task' = DOMAIN task,
         \A x \in DOMAIN task : /\ task'[x].pluginid = task[x].pluginid
                                /\ task'[x].cpu = task[x].cpu
                                /\ task'[x].params = task[x].params
                                /\ task'[x].schedprio = task[x].schedprio
  PROVE  Ranks'
<1> SUFFICES ASSUME NEW i \in Index PROVE OrderHolds(i, DOMAIN task', task', plugin'[i])
  BY DEF Ranks
<1>1. plugin[i] \in PluginType /\ plugin'[i] = plugin[i]  BY DEF Inv, TypeOK
<1>2. \A c : On(i, DOMAIN task', task', c) = On(i, DOMAIN task, task, c)  BY DEF On
<1>3. \A c : \A x \in On(i, DOMAIN task, task, c) :
        task'[x].schedprio = task[x].schedprio /\ task'[x].params = task[x].params
  BY DEF On
<1>4. KeepsLists(i) => ListsHold(i, DOMAIN task, task, plugin[i])  BY ListsOf DEF Inv
<1>5. OrderHolds(i, DOMAIN task, task, plugin[i])  BY DEF Ranks
<1> QED  BY <1>1, <1>2, <1>3, <1>4, <1>5, SameOrderHolds

LEMMA CreateRanks ==
  ASSUME Inv, Ranks, NEW tp \in CreateParams, NEW pid \in Pids \cup {0}, TaskCreate(tp, pid)
  PROVE  Ranks'
<1> DEFINE i  == Chosen(CreateTests(tp))
           id == last_task_id + 1
           D  == DOMAIN task \cup {id}
           tk == WithNew(tp, pid)
<1>1. CASE i = 0
  <2>1. UNCHANGED <<task, plugin>>  BY <1>1 DEF TaskCreate
  <2> QED  BY <2>1, SameRanks
<1>2. CASE i # 0
  <2>1. i \in Index /\ id \notin DOMAIN task /\ Placing(i, plugin[i], D, tk, id)
    BY <1>2, CreatePlaces
  <2>2. D \ {id} = DOMAIN task  BY <2>1
  <2>3. \A x \in DOMAIN task : tk[x] = task[x]  BY <2>1, <2>2 DEF Placing
  <2> HIDE DEF i, D, tk, id
  <2>4. plugin[i] \in PluginType  BY <2>1 DEF Placing
  <2>5. \A c : On(i, D \ {id}, tk, c) = On(i, DOMAIN task, task, c)  BY <2>2, <2>3 DEF On
  <2>6. \A c : \A x \in On(i, DOMAIN task, task, c) :
          tk[x].schedprio = task[x].schedprio /\ tk[x].params = task[x].params
    BY <2>3 DEF On
  <2>7. KeepsLists(i) => ListsHold(i, DOMAIN task, task, plugin[i])  BY <2>1, ListsOf DEF Inv
  <2>8. OrderHolds(i, DOMAIN task, task, plugin[i])  BY <2>1 DEF Ranks
  <2>9. OrderHolds(i, D \ {id}, tk, plugin[i])
    BY <2>1, <2>4, <2>5, <2>6, <2>7, <2>8, SameOrderHolds
  <2> QED  BY <2>1, <2>9, PlaceRanks
<1> QED  BY <1>1, <1>2

LEMMA ChangeRanks ==
  ASSUME ChangesStayHome, Inv, Ranks, NEW tp \in ModifyParams, TaskChange(rsvid(tp))
  PROVE  Ranks'
<1> DEFINE id == rsvid(tp)
           i  == Chosen(ChangeTests(id))
<1>1. CASE UNCHANGED <<task, plugin>>  BY <1>1, SameRanks
<1>2. CASE id \in DOMAIN task /\ i # 0 /\ Place(i, Release(i, id), task, id)
  <2>1. i \in Index /\ task[id].pluginid = i /\ Placing(i, Release(i, id), DOMAIN task, task, id)
    BY <1>2, ChangePlaces
  <2> HIDE DEF i, id
  <2>2. OrderHolds(i, DOMAIN task \ {id}, task, Release(i, id))  BY <1>2, <2>1, ReleaseRanks
  <2> QED  BY <2>1, <2>2, PlaceRanks
<1> QED  BY <1>1, <1>2 DEF TaskChange

LEMMA RemoveRanks ==
  ASSUME Inv, Ranks, NEW id \in DOMAIN task, RemoveTask(id)
  PROVE  Ranks'
<1> DEFINE i   == task[id].pluginid
           new == Release(i, id)
           D   == DOMAIN task
           E   == D \ {id}
<1>1. plugin' = SetPlugin(i, new) /\ task' = [x \in E |-> task[x]]  BY DEF RemoveTask
<1>2. /\ plugin \in [Index -> PluginType] /\ i \in Index /\ D \in SUBSET Ids
      /\ task \in [D -> TaskType]
  BY IdsOfTasks DEF Inv, TypeOK, TaskType
<1>3. \A j \in Index : KeepsLists(j) => ListsHold(j, D, task, plugin[j])  BY ListsOf DEF Inv
<1>4. new \in PluginType /\ (KeepsLists(i) => ListsHold(i, E, task, new))
  <2>1. task[id].cpu \in Cores(i)  BY DEF Inv, PlacedOnCores
  <2>2. plugin[i] \in PluginType /\ (KeepsLists(i) => ListsHold(i, D, task, plugin[i]))
    BY <1>2, <1>3
  <2> QED  BY <1>2, <2>1, <2>2, ReleaseFacts
<1>5. OrderHolds(i, E, task, new)  BY ReleaseRanks
<1>12. /\ plugin' \in [Index -> PluginType] /\ plugin'[i] = new
       /\ \A j \in Index \ {i} : /\ plugin'[j].tasks = plugin[j].tasks
                                 /\ OwnStatics => plugin'[j] = plugin[j]
  BY <1>1, <1>2, <1>4, OtherPlugins
<1>6. \A j, c : On(j, E, task', c) = On(j, E, task, c)  BY <1>1 DEF On
<1>7. \A j, c : \A x \in On(j, E, task, c) : task'[x] = task[x]  BY <1>1 DEF On
<1>8. DOMAIN task' = E  BY <1>1
<1>9. \A j, c : j # i => On(j, E, task, c) = On(j, D, task, c)  BY DEF On
<1> HIDE DEF new, E, D, i
<1> SUFFICES ASSUME NEW j \in Index PROVE OrderHolds(j, E, task', plugin'[j])
  BY <1>8 DEF Ranks
<1>10. CASE j = i
  <2>1. plugin'[j] = new  BY <1>10, <1>12
  <2> QED  BY <1>4, <1>5, <1>6, <1>7, <1>10, <2>1, SameOrderHolds
<1>11. CASE j # i
  <2>1. /\ plugin'[j] \in PluginType /\ plugin[j] \in PluginType
        /\ plugin'[j].tasks = plugin[j].tasks /\ (OwnStatics => plugin'[j] = plugin[j])
    BY <1>2, <1>11, <1>12
  <2>2. OrderHolds(j, D, task, plugin[j])  BY DEF Ranks, D
  <2>3. \A c : On(j, E, task', c) = On(j, D, task, c)  BY <1>6, <1>9, <1>11
  <2>4. \A c : \A x \in On(j, D, task, c) :
          task'[x].schedprio = task[x].schedprio /\ task'[x].params = task[x].params
    BY <1>7, <1>9, <1>11
  <2> QED  BY <1>3, <2>1, <2>2, <2>3, <2>4, SameOrderHolds
<1> QED  BY <1>10, <1>11

LEMMA NextRanks ==
  ASSUME ChangesStayHome, Inv, Ranks, [Next]_vars
  PROVE  Ranks'
<1>1. ASSUME NEW tp \in CreateParams, NEW pid \in Pids, TaskCreate(tp, pid) PROVE Ranks'
  BY <1>1, CreateRanks
<1>2. ASSUME NEW tp \in ModifyParams, TaskChange(rsvid(tp)) PROVE Ranks'
  BY <1>2, ChangeRanks
<1>3. ASSUME NEW id \in Ids, NEW tid \in Tids, NEW sys \in SysOutcomes, TaskAttach(id, tid, sys)
      PROVE  Ranks'
  <2>1. CASE id \notin DOMAIN task  BY <1>3, <2>1, SameRanks DEF TaskAttach
  <2>2. CASE id \in DOMAIN task
    <3>1. task[id] \in TaskType /\ task \in [DOMAIN task -> TaskType]  BY <2>2 DEF Inv, TypeOK
    <3>2. task' = [task EXCEPT ![id] = [task[id] EXCEPT !.tid = tid]] /\ UNCHANGED plugin
      BY <1>3, <2>2 DEF TaskAttach
    <3> QED  BY <3>1, <3>2, SameRanks DEF TaskType
  <2> QED  BY <2>1, <2>2
<1>4. ASSUME NEW id \in Ids, TaskDetach(id) PROVE Ranks'
  BY <1>4, SameRanks DEF TaskDetach
<1>5. ASSUME NEW id \in Ids, TaskDestroy(id) PROVE Ranks'
  <2>1. CASE id \notin DOMAIN task  BY <1>5, <2>1, SameRanks DEF TaskDestroy
  <2>2. CASE id \in DOMAIN task  BY <1>5, <2>2, RemoveRanks DEF TaskDestroy
  <2> QED  BY <2>1, <2>2
<1>6. ASSUME NEW pid \in Pids, DeleteBegin(pid) PROVE Ranks'
  BY <1>6, SameRanks DEF DeleteBegin
<1>7. CASE DeleteStep
  <2>1. CASE Owned(deleting) # {}
    <3>1. taskset[Min(Owned(deleting))] \in DOMAIN task  BY <2>1, NextOwned DEF Inv
    <3>2. RemoveTask(taskset[Min(Owned(deleting))])  BY <1>7, <2>1 DEF DeleteStep
    <3> QED  BY <3>1, <3>2, RemoveRanks
  <2>2. CASE Owned(deleting) = {}  BY <1>7, <2>2, SameRanks DEF DeleteStep
  <2> QED  BY <2>1, <2>2
<1>8. ASSUME NEW tid \in Tids, ThreadExit(tid) PROVE Ranks'
  BY <1>8, SameRanks DEF ThreadExit
<1>9. CASE UNCHANGED vars  BY <1>9, SameRanks DEF vars
<1> QED  BY <1>1, <1>2, <1>3, <1>4, <1>5, <1>6, <1>7, <1>8, <1>9 DEF Next

LEMMA InitRanks == Init => Ranks
<1> SUFFICES ASSUME Init, NEW i \in Index PROVE OrderHolds(i, DOMAIN task, task, plugin[i])
  BY DEF Ranks
<1>1. DOMAIN task = {} /\ \A c : On(i, DOMAIN task, task, c) = {}  BY DEF Init, On
<1>2. ASSUME NEW c \in Cores(i) PROVE plugin[i].tasks[c] = <<>> /\ plugin[i].dist[c] = 0
  <2>1. plugin[i] \in InitPlugin(i) /\ c \in Cpus  BY CoresAreCpus DEF Init
  <2> QED  BY <2>1 DEF InitPlugin
<1>3. \A k : Ascending(<<>>, k)  BY DEF Ascending
<1>4. Ordered(i, DOMAIN task, task, plugin[i])  BY <1>1, <1>2, <1>3 DEF Ordered, Follows
<1>5. \A c : Declared(i, DOMAIN task, task, c) = {}  BY <1>1 DEF Declared
<1>6. Windowed(i, DOMAIN task, task, plugin[i])  BY <1>1, <1>2, <1>5, FS_EmptySet DEF Windowed
<1> QED  BY <1>4, <1>6 DEF OrderHolds

(***************************************************************************)
(* No priority inversion among rate monotonic reservations: whatever       *)
(* dist_prio has become (the release of sched_RM.c counts it down in the   *)
(* wrong case and lets it wrap), a shorter period never has a lower real   *)
(* priority on its core, and equal periods have equal ones.  The shortcut  *)
(* that copies the priority of the neighbour in the list is sound because  *)
(* every schedule and release leaves the list sorted.  The lists are those *)
(* within the end of tasks (ArraysInBounds).                               *)
(***************************************************************************)
THEOREM RMStaysOrdered ==
  ASSUME ChangesStayHome, ArraysInBounds
  PROVE  Spec => []RMNoInversion
<1>1. Init => Inv /\ Ranks  BY InitInv, InitRanks
<1>2. Inv /\ Ranks /\ [Next]_vars => (Inv /\ Ranks)'  BY NextInv, NextRanks
<1>3. Inv /\ Ranks => RMNoInversion
  <2> SUFFICES ASSUME Inv, Ranks, NEW i \in OfKind({"RM"}), NEW c \in Cores(i),
                      NEW x \in Held(i, c), NEW y \in Held(i, c),
                      task[x].params.period <= task[y].params.period
               PROVE  task[x].schedprio >= task[y].schedprio
    BY DEF RMNoInversion
  <2>1. i \in Index /\ Plugins[i].kind = "RM"  BY DEF OfKind
  <2>2. x \in On(i, DOMAIN task, task, c) /\ y \in On(i, DOMAIN task, task, c)
        /\ x \in DOMAIN task /\ y \in DOMAIN task
    BY DEF Held, On
  <2>3. Follows(i, DOMAIN task, task, c)  BY <2>1 DEF Ranks, OrderHolds, Ordered
  <2>4. DOMAIN task \in SUBSET Ids /\ task \in [DOMAIN task -> UnplacedType]
    BY IdsOfTasks, TasksUnplaced DEF Inv
  <2>5. \A z \in DOMAIN task : task[z].params.period \in Nat /\ task[z].schedprio \in Int
    BY <2>1, <2>4, KeyTypes
  <2>6. \A z : KeyOf(i, task[z].params) = -task[z].params.period  BY <2>1 DEF KeyOf
  <2>7. KeyOf(i, task[y].params) <= KeyOf(i, task[x].params)
    <3>1. task[x].params.period \in Nat /\ task[y].params.period \in Nat  BY <2>2, <2>5
    <3> QED  BY <2>6, <3>1
  <2>8. task[y].schedprio <= task[x].schedprio  BY <2>2, <2>3, <2>7 DEF Follows
  <2>9. task[x].schedprio \in Int /\ task[y].schedprio \in Int  BY <2>2, <2>5
  <2> QED  BY <2>8, <2>9
<1> QED  BY <1>1, <1>2, <1>3, PTL DEF Spec

(***************************************************************************)
(* The real priorities of round robin reservations follow the declared     *)
(* ones and stay in the plugin's window, whichever of its two ways         *)
(* assign_priorities of sched_RR.c takes and whenever a reservation copied *)
(* its neighbour's, and dist_prio is the number of declared priorities on  *)
(* the core.  Clients declare priorities 1 to 99: prio_remap of priority 0 *)
(* takes 1 from an unsigned 0 and leaves the window.  The lists are those  *)
(* within the end of tasks (ArraysInBounds), and no second plugin of the   *)
(* same .so counts in dist_prio and n_per_prio too (OwnStatics).           *)
(***************************************************************************)
THEOREM RRStaysSound ==
  ASSUME ChangesStayHome, ArraysInBounds, OwnStatics, PosixPriorities
  PROVE  Spec => []RRPrioritiesSound
<1>1. Init => Inv /\ Ranks  BY InitInv, InitRanks
<1>2. Inv /\ Ranks /\ [Next]_vars => (Inv /\ Ranks)'  BY NextInv, NextRanks
<1>3. Ranks => RRPrioritiesSound
  <2> SUFFICES ASSUME Ranks, NEW i \in OfKind({"RR"}), NEW c \in Cores(i)
               PROVE  /\ plugin[i].dist[c] = Cardinality({task[x].params.priority : x \in Held(i, c)})
                      /\ \A x \in Held(i, c) :
                           task[x].schedprio \in Plugins[i].prio_min..Plugins[i].prio_max
                      /\ \A x, y \in Held(i, c) :
                           task[x].params.priority <= task[y].params.priority
                             => task[x].schedprio <= task[y].schedprio
    BY DEF RRPrioritiesSound
  <2>1. i \in Index /\ Plugins[i].kind = "RR"  BY DEF OfKind
  <2>2. Held(i, c) = On(i, DOMAIN task, task, c)  BY DEF Held, On
  <2>3. /\ Follows(i, DOMAIN task, task, c)
        /\ plugin[i].dist[c] = Cardinality(Declared(i, DOMAIN task, task, c))
        /\ \A x \in On(i, DOMAIN task, task, c) : task[x].schedprio \in Window(i)
    BY <2>1 DEF Ranks, OrderHolds, Ordered, Windowed
  <2>4. \A z : KeyOf(i, task[z].params) = task[z].params.priority  BY <2>1 DEF KeyOf
  <2>5. \A x, y \in Held(i, c) : task[x].params.priority <= task[y].params.priority
                                   => task[x].schedprio <= task[y].schedprio
    BY <2>2, <2>3, <2>4 DEF Follows
  <2> QED  BY <2>2, <2>3, <2>5 DEF Declared, Window
<1> QED  BY <1>1, <1>2, <1>3, PTL DEF Spec

==============================================================================
