# A TLA+ verification of the ReTiF daemon

ReTiF lets unprivileged processes ask for real-time scheduling. A process links
`libretif`, connects to the daemon over a UNIX socket, creates *reservations*
("12 ms every 50 ms", "priority 50"), attaches threads to them, and releases
them. The daemon decides by admission tests, delegates each reservation to one
of four scheduling plugins (EDF, RM, RR, FP), and calls the Linux scheduler.

This directory models the daemon from its C code, model-checks the models with
TLC on small instances, and proves with TLAPS, for every instance, the safety of
the scheduler and its plugins, of the daemon's loop, of the start, of the library
and of the monitor, that a configuration file is read as its comments say, that
linked lists behave as sequences, and that the daemon implements an abstract
reservation service. Paths below are relative to the repository root
(`src/` in `PROJECT.json`).

## 1. The system

| Part | Code | State | Operations |
|---|---|---|---|
| Task parameters | `daemon/retif_task.c`, `common/retif_types.h` | one `struct rtf_task` per reservation | utilisation, comparisons of period and priority |
| Lists, task set | `common/list.c`, `daemon/retif_taskset.c` | linked lists of tasks | insert at top, sorted insert, search, remove |
| Plugins | `plugins/sched_{EDF,RM,RR,FP}.c` | per CPU: free utilisation, task count, sorted list, `dist_prio`, `n_per_prio` | `accept`, `change`, `schedule`, `attach`, `detach`, `release` |
| Plugin loader | `daemon/retif_plugin.c` | array of plugins | allocation and initialisation |
| Scheduler | `daemon/retif_scheduler.c` | task set, plugins, `last_task_id` | create, change, attach, detach, destroy, delete all of a process |
| Daemon | `daemon/retif_daemon.c`, `retif_daemon_main.c` | the loop, signal handlers | one handler per request type, cleanup of failed clients |
| Carrier, sockets | `channel/retif_channel.c`, `usocket.c` | per descriptor: client state, pid, last request, last receive result; the descriptor set | update (select, accept, receive, state machine), send, close |
| Client library | `lib/retif_lib.c` | connection, mutex, one request and one reply buffer, shared by the threads of a process | connect, one request-reply exchange per call |
| Configuration | `daemon/retif_config.c`, `retif_yaml.h` | the configuration, the saved kernel parameters | parse, check; save, set and restore the kernel parameters |
| Monitor | `monitor/main.c` | the counters of its loops | ask for a count, walk the table, print, again |
| Utilities, vector, logger, benchmark, test client | | | section 8 |

**Interactions.** A client sends one fixed-size request and blocks for the
reply. The daemon is a single thread: it waits in `select`, accepts at most one
connection and receives at most one request per ready descriptor, then walks
the descriptors, first cleaning up after clients that are gone, then serving
those that sent something. A handler calls the scheduler, which calls every
plugin's admission test in configuration order and takes the first `RTF_OK`,
else the first `RTF_PARTIAL`. Plugins change the task, their own state and, in
attach, detach and release, the kernel's. Before all this the daemon parses its
configuration, saves and overwrites two kernel parameters, opens the socket and
loads the plugins; on SIGINT it writes the saved parameters back.

**What is hard.** Clients exit at any point, with requests or replies in
flight, and their pid and descriptor are reused. Cleanup is by pid while
buffers are by descriptor. Threads exit, or are detached and attached elsewhere,
while reservations remember their tid. Capacity is kept by adding and
subtracting over long sequences. Priorities of all tasks of a core are
recomputed from counters maintained separately from the lists. Unsigned
counters wrap, and arrays are indexed by CPU number. A start can fail or be
killed after it has changed the machine. Threads of a process share one request
and one reply buffer, and the daemon may go away between a request and its reply.
`PROJECT.json` lists these as hazards, at the line where each bites, with the
properties aimed at them.

**What makes each part correct.**
* Scheduler: the task set names exactly the live reservations; every id found
  can be served.
* EDF, RM: capacity is conserved; on EDF it is never negative; allocation is
  worst fit.
* RM, RR: per-CPU lists exact; real priorities follow periods or declared
  priorities; no null node is dereferenced.
* All plugins: counts exact; a released reservation's thread is not left
  real-time.
* Daemon: no reservation outlives its client; no client loses one to the
  cleanup of another; replies go to who asked; everyone waiting is answered;
  all in all it is a `ReservationService`.
* Lists: nodes, pointers and counts behave as sequences; no node leaks or is
  shared; sorted lists stay sorted.
* Configuration and start: a well-written file means what it says, and nothing
  invalid reaches the scheduler; kernel parameters are saved before they are
  changed and come back.
* Library: one exchange at a time on the connection; a process's idea of its
  reservations is the daemon's; the mutex is always given back.
* Monitor: a walk prints what was counted, and ends.

## 2. The modules

| Module | Models | Remarks |
|---|---|---|
| `RetifTask` | parameters, utilisation, comparisons | utilisations are integers, parts of `Unit` |
| `Kernel` | external: policy, priority, affinity of threads | attach's two system calls may each fail; a dead thread fails every call |
| `Enumeration` | "this sequence lists that set, each once"; sorted position | |
| `RetifPlugin` | what the four plugins repeat | `least_loaded_*`, attach, detach, release of threads |
| `SchedEDF`, `SchedRM`, `SchedRR`, `SchedFP` | the plugins | pure operators from (configuration, plugin state, tasks) to new values |
| `RetifScheduler` | `retif_scheduler.c`, `retif_plugin.c` | the state machine: variables, `Init`, `Next`, `Spec`, the scheduler's properties |
| `RetifDaemon` | daemon, carrier, clients, composed with `RetifScheduler` | the daemon's handlers call the scheduler's actions |
| `ReservationService` | what the daemon promises its users | abstract: reservations with a holder, one request and one reply per user; implemented by `RetifDaemon`, used as the daemon by the next two |
| `RetifLib` | `lib/retif_lib.c` in one process | threads, the shared buffers, the mutex, step by step |
| `Monitor` | `printTasks` of `monitor/main.c`, composed with `RetifLib` | one more user of the service |
| `SequenceLists` | what `list.c` promises | abstract: sequences; the form in which the plugins and the scheduler use lists |
| `LinkedLists` | `common/list.c`, `retif_taskset.c` | nodes on a heap, loops one turn at a time; implements `SequenceLists` |
| `Configuration` | `retif_config.c`, `retif_yaml.h` | pure operators from a document to a configuration, and a reference that says what a document means |
| `DaemonStartup` | `rtf_daemon_init`, `rtf_daemon_destroy`, `main`, the plugin loader | one action per step that can fail; starts again and again |
| `ThreadClaims` | a documentation claim about threads | a history variable `attached` added to the scheduler |
| `MCScheduler`, `MCThreads`, `MCDaemon`, `MCLists`, `MCStartup`, `MCLibrary` | instances | configurations and parameter sets |
| `SequenceFacts`, `FoldLeftFacts`, `PluginProofs`, `SchedulerProofs`, `DaemonProofs`, `ListProofs`, `StartupProofs`, `LibraryProofs` | proofs | section 6 |

**State correspondence.** `taskset` is `s->taskset`, newest first; `task` maps
an id to the record of its `struct rtf_task`; `plugin[i]` has `free`, `count`,
`tasks`, `dist`, `nper` for `util_free_percpu`, `task_count_percpu`, the
plugin's list, `dist_prio`, `n_per_prio`. Plugin indices start at 1 in the
model, and index 0 stands for the code's `-1`. In the daemon, `client`,
`last_n`, `last_req` are the carrier's arrays, `connset` is `us->conn_set`,
`fdconn` says which connection an open descriptor belongs to, `hand` is the
loop index of `rtf_daemon_loop` and `failing` marks that
`rtf_daemon_check_for_fail` is under way. `conn` is the clients' side, `owner` a
history variable. In `LinkedLists`, `root` and `n` are the fields of `struct
list`, `next` and `elem` those of `struct node_ptr`, and `op` holds the local
variables of the loop under way. In `DaemonStartup`, `phase` is the line
`rtf_daemon_init` has come to, `procfs` the two kernel parameters and `backup`
`data->proc_backup`. In `RetifLib`, `req` and `buf` are the request and the
reply of `main_channel`, and `th` where each thread is in its call.

**Two refinements.** `ImplementsSequences` maps a heap to the sequences an
iterator would read from it: the turns of a loop change nothing, and the step
that links or unlinks a node is the whole abstract operation. Requests are no state
of the abstract lists, so the refinement speaks of an operation that some request
could have asked for; that it is the request made is what `RemoveOneSteps` and its
neighbours in `ListProofs` prove. It justifies that
the plugins and the task set are modelled with sequences. `ImplementsService`
maps the daemon to the service: the holder of a reservation is the connection
it was created for (`owner`) as long as the task exists; a user's request is
pending while it is in the socket or in `last_req` of the descriptor its
connection is behind; an update, a skip, an accept are stutters; a handler is
the serving of a request, a turn of `rtf_scheduler_delete` is a `Drop`. Release
in the service is possible for the holder only, so the refinement says that no
sequence of descriptors and pids lets one client's request or cleanup take
another's reservation. `RetifLib` and `Monitor` then talk to the service
instead of the daemon, which makes threads and walks affordable. A refused
create may use up an id in the service, because it does in the daemon:
`rtf_scheduler_task_create` increments `last_task_id` before it asks the plugins. The two
abstract modules state promises and translate no particular lines.

**Grain.** The daemon has one thread, so a scheduler call is one step, with the
exception of `rtf_scheduler_delete`, one step per reservation, because threads
of other processes can exit in between. A daemon step is one update, or the
handling of one descriptor; between any two, clients connect, send, receive and
exit, and threads exit. A library call takes a step to write the type of the
request, one for its payload, lock, send, receive, unlock, one to look at the
type of the reply and one to take the id out of it. A start takes a step per
call that can fail; two writes of kernel parameters are one step, with every
combination of outcomes, and a kill between them is one of those.

**Documents.** A configuration is modelled from its YAML nodes on: a number is a
token that converts, has no digits or is out of range, and a scalar list is its
tokens with the delimiters after them (`Text`: only the last may have none).
`strtok`, `strtol`, the ranges, the sticky `errno`, the swallowed errors and the
cut from `long` to `int` are in the operators; libyaml is not. `ToInt` keeps the
low bits, as the assignments of the priorities and the copy into the vector of
cores do; a number is compared before it is cut. A range up to a number that no
`int` reaches is filled for ever: `Endless` stands for the result, and `Parse` of
`DaemonStartup` then has no step. The width is the constant `IntLimit`, 2^31 in the
code, 128 in the run, any positive number in the proofs.

**Things carried over from the code on purpose.** `least_loaded_cpu` compares
with the first CPU only. `rtf_scheduler_task_change` ignores the new parameters
and releases in the accepting plugin. `req_task_modify` reads the reservation
id from bytes of the union that the library fills with part of the runtime
(`rsvid`). `parse_conf_plugins_item_cores` returns success whatever happened, and
`parse_configuration` does so for a file that is no YAML. `rtf_daemon_init` takes
the positive error of `rtf_scheduler_init` for success. RM's `release` decrements `dist_prio` when another task *shares* the
period. EDF books only the minimum for a granted desired runtime. `attach`
stores the tid before the plugin call. `release` looks at the policy of
whatever thread has the stored tid. `rtf_plugins_init` allocates `cputot`
entries of three arrays that are indexed by CPU number. What lies beyond is the
heap's: `OobFree` and `OobCount` are the values it may hold, and `WildLists` the
places where it holds a pointer to nowhere, which crashes a plugin that follows it
(`Wild`). `dist_prio` and `n_per_prio` are static variables of a `.so`: a plugin's
kind stands for its `.so`, and plugins of one kind share them (`SetPlugin`).

## 3. The runs

Passing runs:

| Run | Question | Bounds and why they suffice |
|---|---|---|
| `edf_two` | Is EDF's capacity conserved and non-negative over create, change, destroy, disconnect, and is allocation worst fit? | 2 cores, 2 pids, 4 ids, shares 1/4 to 2/3, desired runtimes that fit, are cut and are refused: cores fill up, requests are refused, capacity is reused |
| `rm_rr` | Do RM's capacity, lists and priorities survive more periods than priorities and a wrapping `dist_prio`? Do RR's list, `n_per_prio`, `dist_prio` and priorities agree, and does the node after the inserted one exist? | one core; RM with 2 periods in a window of 1, RR with 3 priorities in a window of 2; 4 ids. RM's `dist_prio` goes below zero and wraps after two releases; the RR list sees repeated and distinct priorities, as many as the window holds and more |
| `all_four` | Do the plugins coexist, with threads exiting and system calls failing? | 4 plugins, 2 cores, 3 ids, 1 thread; parameters reach every plugin, with `RTF_OK`, `RTF_PARTIAL` and refusal |
| `daemon_clients` | Do reservations follow their client under reuse of pids and descriptors, as the abstract service says? | 3 connections, 2 pids, 2 descriptors, 2 ids, one EDF core that grants one request and refuses the other, create and destroy: pid and descriptor are both reused while a cleanup is pending |
| `daemon_requests` | Is every request of the library, queries included, answered to who asked and as the abstract service would? | 2 connections in turn on 1 descriptor, 2 cores, 2 ids, indices up to one past the last: every handler succeeds and fails, a modify request names another's reservation, and a stale request is there to be served by mistake |
| `daemon_live` | Is everyone answered, and everything of a departed client removed for good? | 2 connections, 2 descriptors, an attached thread, create to destroy; one client can delay, block or break the other |
| `lists` | Do nodes and pointers implement sequences, without a leak, a shared node, or a loop that does not end? | the task set and one sorted list of the same 3 elements on 6 nodes, which is both lists full; two elements compare equal, two have one owner; freed nodes are reused in any order |
| `startup` | Is a file read as its comments say, does nothing invalid reach the scheduler, and what becomes of the kernel's parameters? | 3 starts (one that leaves a mess, one that finds it, one more); 1296 files: every pair of 16 forms of priority and 20 forms of core list, numbers that do not fit an `int` among them (36 of the files are never read to the end), next to a plain plugin, before and after it, plus files wrong as a whole; every call fails in every way it can |
| `library` | Do the threads of a process, the monitor and a daemon that may stop get along? | 2 threads, 3 calls, 2 ids, any create may be refused; ids are asked for up to 3, one past the last |

Changes appear only where they cannot move a reservation to another plugin: in
runs with one plugin, and in `rm_rr`, whose RM core is never full, so that the
plugin that holds a reservation is also the one that accepts its change. When one
moves, `CapacityConserved` fails (`bug_change_plugin`). Every core list of the
passing runs is 0, 1, ... without a gap, and no two plugins are of one kind:
section 4 says what happens otherwise. Worst fit is checked on two cores, where
comparing with the first core is the same as comparing with all.
`daemon_requests` and `daemon_live` use one FP plugin, which accepts everything
in its window, and `daemon_clients` one EDF core, so that creates are refused
too: what the daemon does with a reservation does not otherwise depend on which
plugin holds it. The daemon, `startup` and `library` runs do
not check deadlock, because the daemon may be stopped, starts and calls are
bounded, and then nothing is left to do. The others do. `lists` uses the
symmetry of nodes: no definition tells them apart, and every property of the
run is safety (`ImplementsSequences` has no fairness, `LoopsShrink` is an action
property), for which symmetry is sound.

What the properties say is in the comment above each definition. The ones that
take many steps to break: `CapacityConserved` (a leak shows only when what was
booked and what is given back differ over a reservation's life), `RMNoInversion`
(holds although `dist_prio` is wrong), `NoCrash` and `RRPrioritiesSound` (three
separately kept structures agree), `NoOrphan`, `ClientKeepsReservations`,
`RepliesMatch` (across reuse of descriptors and pids), `DisconnectCleans` and
`RequestsAnswered`, the two refinements, `NoDrift` (several starts), `TasksTrue`
and `WalkTrue` (what a client believes against what the daemon holds).

Five properties of `startup` and `library` carry a condition that is itself a finding about
the code, and each is observed in section 4: `SchedulerGetsValid` asks that the
lists of cores came out ascending, `ReadAsWritten` that the numbers of a
well-written file fit an `int`, `TasksTrue` that calls did not overlap,
`WalkTrue` and `WalkEnds` that no reservation went away during the walk.
`SchedulerGetsValid` claims the rules of the comments and no more: they do not ask
for a core, so a plugin with an empty list is among what it lets through.

Runs that show a disagreement between the code and what the repository says of
it (`findings` in `PROJECT.json`):

| Run | What happens |
|---|---|
| `bug_change_plugin` | a change that moves a reservation credits the new plugin and leaks in the old one |
| `bug_rm_kernel` | threads already attached keep stale kernel priorities; the rate-monotonic order is inverted |
| `bug_list_equals` | a sorted insert puts an element before its equals, where `list.c:205`, `list.h:115` and `retif_taskset.c:138,173` say after; `sched_RR.c:240` reads the node after the new one and depends on the code's order |

`SigPipe` is "ignored" in the daemon runs, which is what a service started by
systemd inherits by default.

## 4. Other observations

Met while translating the code, and not the subject of a run of their own:

Scheduler and plugins:

* `sched_EDF.c:82`: with three cores a task is admitted because it fits somewhere
  and placed where it does not fit, because every core is compared with the first
  one only; the runtimes granted there need more than the core, against
  `plugins/README.md:18` ("the minimum is always guaranteed if accepted") and the
  worst fit of `plugins/README.md:14,34,55`. The five cores of the installed
  configuration are such a list. `FreeNonNegative` and `WorstFit` are therefore
  checked on two cores and not stated as theorems.
* `sched_EDF.c:235`: a desired runtime that fits is granted in full and booked as
  the minimum one; followed by another request, the runtimes granted on a single
  core need more than the core.
* `sched_EDF.c:129`: `desired_utilization_test` is satisfied by a desired runtime that
  fits; one below the minimum is admitted where the minimum, which is booked, does
  not fit.
* `sched_FP.c:177` and the other plugins: `t->tid` survives a detach, so releasing
  a reservation demotes a thread that is by then attached to another one.
* `sched_RM.c:68`: the slope divides by `dist_prio - 1`, so the highest level is
  remapped to `prio_max + 1`.
* `sched_RM.c:377`: `dist_prio` is decremented in the wrong case, drifts and
  wraps; different periods are then given one priority although the window has
  room. The order is never inverted (`RMNoInversion`).
* `sched_RR.c:98`: a declared priority 0 is accepted as `RTF_PARTIAL`, and
  `prio - 1` wraps when priorities are remapped; `RRPrioritiesSound` fails when
  such a request is added to `rm_rr`.
* `sched_RR.c:117`: the same least-loaded loop as EDF's; `WorstFit` fails for RR on three cores.
* `sched_RR.c` indexes `n_per_prio` by the declared priority without a check.
* `retif_plugin.c:162-164`: a core list that skips a core, or does not start at 0,
  indexes beyond the three arrays, although `conf/retifconf.yaml:51` allows it and
  the installed configuration has such lists. `CapacityConserved` then fails in the
  initial state, and where the heap holds anything but zero behind `tasks` the
  first create on that core crashes the daemon (RM on the list `<<1>>` with
  `WildLists = {<<1, 1>>}`).
* `retif_plugin.c:169`: capacity starts at a whole CPU ("FIXME: use max_util from
  conf"). `sched_max_util`, documented at `conf/retifconf.yaml:17` as the portion of a
  CPU that may be used, is only compared with the kernel's limit at start-up.
  `CapacityConserved` and `FreeNonNegative` are about the whole CPU, as the code is.
* `sched_RR.c:26`, `sched_RM.c:22`: `dist_prio` and `n_per_prio` are static, so two
  plugins with different names loaded from one `.so` share them. With two RR plugins
  that share a core, the second create of one declared priority, when it goes to the
  other plugin, finds the counter set and its own list empty, and `NoCrash` fails.
* `sched_RM.c:19`, `sched_RR.c:15`: these arrays have 32 entries; a CPU number from
  32 on is beyond them. The model takes CPU numbers below that.
* `retif_scheduler.c:191`: the parameters of a change are never applied, although
  `README.md:177` describes an admission test with them.
* `retif_scheduler.c:210`: when a second attach fails, the first thread stays
  real-time and the reservation no longer knows it.

Daemon, library and monitor:

* `usocket.c:200`: replies are sent without `MSG_NOSIGNAL` and `main` installs no
  handler for SIGPIPE; with `SigPipe = "default"` a client that exits before its
  reply takes the daemon down and `RequestsAnswered` fails.
* `retif_daemon.c:619`: stopping frees reservations without releasing them;
  attached threads stay real-time, against `conf/README.md:22`.
* `retif_daemon.c:101`: the test is `> CHANNEL_MAX_SIZE`, one too far. The index
  past the last entry answers with `num_of_cpu` and `num_of_plugins` of the
  scheduler, which follows in `struct rtf_daemon`, as state and pid of a client.
* `retif_daemon.c:83`: the count of tasks is answered with the reply type of the
  count of plugins; the library does not look at it.
* `retif_daemon.c:165-169`: the CPU number is read at a position of `cpulist` and
  its figures at that same position of arrays indexed by CPU number. For a core
  list with gaps, as in the installed configuration, the figures are those of
  another CPU, against `README.md:187` ("relative to a specified CPU"). `CpuInfo`
  answers as the code does; no property is stated of the figures, since the only
  lists for which one holds are 0, 1, 2 and so on.
* `retif_daemon.c:175`: the utilisation in a task's reply is never set.
* `common/retif_types.h:161`: the id of a new reservation is returned in a
  `float`; ids above 2^24 would be rounded.
* `lib/retif_lib.c:153`: the setter of the desired runtime writes the runtime.
* `lib/retif_lib.c:33`: requests are filled and replies read outside the mutex.
  When calls of two threads overlap, one thread's payload goes out with the
  other's type, or both read the id of one reservation; `TasksTrue` fails without
  its `~overlap`.
* `lib/retif_lib.c:40`: when the daemon goes away after reading a request, `recv`
  returns 0, which is not `RTF_ERROR`: the call succeeds with the reply of an
  earlier one. It happens at most once (`BlindOnce`), since the next send fails.
* `monitor/main.c:70,100`: the loops count answers up to a number asked for
  before; when a reservation or a client goes in between, or the daemon stops,
  they do not end (`WalkEnds` without its exceptions).

Configuration and start:

* `retif_config.c:426`: a file that is no YAML makes `parse_configuration` return
  the 0 of `yaml_parser_load`, which is success: the daemon starts without plugins.
* `retif_config.c:406`: errors in a list of cores are swallowed, and the cores read
  before the error are used, which may be none: `configuration_valid` accepts a
  plugin with an empty list, and the plugins then read `cpulist[0]` of an array
  without entries. `RetifScheduler` leaves this out (`CoresAssumption`). A number out
  of range also leaves `errno` set, so that the numbers after it fail too.
* `retif_config.c:218,272,344,391`: numbers are read as `long` and stored as `int`.
  The core 4294967296 is CPU 0, a priority is cut after it was found not to be
  negative, and the range 0-4294967296 is filled until the memory ends.
* `retif_config.c:484`: the search for a common core presumes ascending lists, and a
  YAML sequence need not be: `[2, 1]` and `[1]` are not seen to meet, and windows
  that overlap are accepted.
* `retif_scheduler.c:116`: the result 1 of a procfs file that holds no number passes
  the `< 0` of `rtf_daemon_init`; the daemon serves with a scheduler that was
  never initialised.
* `retif_utils.c:208`: a value the kernel rejects is reported by `fclose`, which
  nobody looks at.
* `retif_daemon.c:549`: a start that fails after this line, and a kill, leave the
  kernel's parameters changed; the next start saves the changed ones, and the
  original values are lost (`NoDrift` without its `~mess`).
* Keys that are missing in a plugin's item leave its fields as allocated.

Lists, not used in the ways that would matter:

* `list.c:346`: the comment says `cmpfun` returns 0 for equal elements; the code
  takes non-zero for a match, as its callers do.
* `list.c:85`: `merge` returns the empty half and drops the other; nobody calls
  `list_sort`.

## 5. Fairness

`DaemonSpec` assumes `WF_allvars(Update \/ Handle)`: the daemon takes a step
when it can. It is a process that loops without waiting for anything but
`select`, so this is the kernel's scheduling fairness and no more. Nothing is
assumed of clients (they may never send, never read a reply, never exit), of
threads or of `Terminate`. `RequestsAnswered` therefore excuses a stopped
daemon, and `DisconnectCleans` is satisfied by one, whose memory is gone.

`MonitorSpec` assumes weak fairness of each thread inside a call, of the
monitor, and of the service for each user. The first two are the kernel's
scheduling; the last is `RequestsAnswered`, checked of `RetifDaemon`. Weak
fairness suffices for the mutex in `MutexReleased`, which speaks of the thread
that has it; that a thread waiting for the mutex gets it is not claimed. `startup`
and `lists` check safety only.

## 6. What is proved

Every theorem holds for any value of the constants that satisfies the named
assumptions of the modules (`KernelAssumption`, `UnitAssumption`,
`PluginAssumption`, `SchedulerAssumption`, `CoresAssumption`, `DaemonAssumption`,
`ConfigurationAssumption`, `StartupAssumption`, `LibraryAssumption`,
`MonitorAssumption`, `HeapAssumption`), which say what the constants are: numbers,
sets of numbers, plugins with a window that is not empty, documents that libyaml
can hand over, a heap that is finite. One of them asks for more than the code makes
sure of: `CoresAssumption`, that every plugin has a core (section 4).
TLC evaluates them in the runs. What the code needs beyond that is a hypothesis
in the theorem's statement.

| Module | Theorem | Shows for every instance | Hypotheses |
|---|---|---|---|
| `SchedulerProofs` | `TypeCorrect` | `TypeOK` | `ChangesStayHome` |
| | `TasksetStaysExact` | `TasksetExact` | `ChangesStayHome` |
| | `ListsStayExact` | `PluginListsExact` | `ChangesStayHome`, `ArraysInBounds` |
| | `CountsStayExact` | `CountsExact` | `ChangesStayHome`, `ArraysInBounds` |
| | `NeverCrashes` | `NoCrash` | `ChangesStayHome`, `ArraysInBounds`, `OwnStatics` |
| | `CapacityStaysConserved` | `CapacityConserved` | `ChangesStayHome`, `ArraysInBounds` |
| | `RMStaysOrdered` | `RMNoInversion` | `ChangesStayHome`, `ArraysInBounds` |
| | `RRStaysSound` | `RRPrioritiesSound` | `ChangesStayHome`, `ArraysInBounds`, `OwnStatics`, `PosixPriorities` |
| | `ReleasesDemote` | `ReleaseDemotes` (action) | `ChangesStayHome` |
| `DaemonProofs` | `DaemonTypesHold` | `DaemonTypeOK` | none |
| | `NothingIsOrphaned` | `NoOrphan` | none |
| | `ClientsKeepReservations` | `ClientKeepsReservations` | none |
| | `RepliesAlwaysMatch` | `RepliesMatch` | none |
| | `DaemonImplementsService` | `ImplementsService` | `ChangesStayHome`, `ArraysInBounds`, `OwnStatics` |
| `ListProofs` | `ListsExact` | `HeapExact` | none |
| | `ListsStaySorted` | `StaysSorted` | none |
| | `ListLoopsShrink` | `LoopsShrink` (action) | none |
| | `ListsImplementSequences` | `ImplementsSequences` | none |
| `StartupProofs` | `StartupTypes`, `NothingIsLost`, `KernelDoesNotDrift`, `LimitIsHonoured`, `ServesOnlyValid` | `StartupTypeOK`, `NothingLost`, `NoDrift`, `LimitHonoured`, `SchedulerGetsValid` | none |
| | `FilesReadAsWritten` | `ReadAsWritten` | none |
| `LibraryProofs` | `LibraryTypesHold`, `RepliesArePaired`, `TasksAreTrue`, `BlindAtMostOnce`, `WalksAreTrue` | `LibraryTypeOK`, `ExchangesPaired`, `TasksTrue`, `BlindOnce`, `WalkTrue` | none |

**The hypotheses**, each of which marks a place where the code goes wrong
without it (section 4):

* `ChangesStayHome`: one plugin, or no modify request names a reservation. A
  change that moves a reservation leaves it in the old plugin's list
  (`bug_change_plugin`). Every request of the library whose runtime stays below
  2^32 microseconds satisfies it.
* `ArraysInBounds`: the cores of a plugin are smaller than their number.
  `util_free_percpu`, `task_count_percpu` and `tasks` are allocated per listed core and
  indexed by CPU number; of what lies beyond them nothing can be said.
* `OwnStatics`: no two RM plugins and no two RR plugins, so that nobody else
  counts in a plugin's static `dist_prio` and `n_per_prio`. `RMStaysOrdered` does
  without it: it needs nothing of `dist_prio`.
* `PosixPriorities`: declared priorities are 1 to 99. `prio_remap` takes 1 from an
  unsigned, which wraps for 0.

**The scheduler.** The inductive invariant is

    Inv == TypeOK /\ TasksetExact /\ ListsKept /\ PlacedOnCores /\ AccountsExact /\ Sturdy
    Sturdy == ArraysInBounds /\ OwnStatics => NoCrash

`release` removes a task from the list of *its* CPU, so the lists stay exact
only if every task is on a core of its plugin (`PlacedOnCores`); a new id is in
no list because lists hold live ids only and live ids are at most
`last_task_id` (`TypeOK`); the delete loop removes what the task set names, so it
must name live tasks (`TasksetExact`). `AccountsExact` says that each counter is
what the tasks add up to: `task_count_percpu` a cardinality, `util_free_percpu`
one CPU minus a sum of shares, `n_per_prio` a cardinality per priority, the first
two where the arrays are in bounds, the last where the statics are a plugin's own. The
last one and the exact lists (`ListsKept`, `PluginListsExact` without its claim that
no list is wild) give `NoCrash`: when `n_per_prio` says that a
priority is there, the sorted insert finds a node of it to stop at.

A strengthening is kept apart, since it serves two theorems only. `Ranks` says of
each RM and RR core that
the list is sorted by period or priority and that the real priorities follow it; for
RR also that they lie in the window and that `dist_prio` counts the distinct
declared priorities. RM's `dist_prio` drifts and wraps, and the proof of
`RMStaysOrdered` needs nothing of it: whatever number it is, the pass over a
sorted list gives priorities in order, and the shortcut that copies a
neighbour's priority copies one of an equal period.

In layers: `SequenceFacts` has the facts about sequences that enumerate a set,
sorted insertion and removal, sums and cardinalities ("adding or removing one
reservation changes the sum by its share"); `PluginProofs` shows for each plugin
what `accept`, `schedule` and `release` return; `SchedulerProofs` lifts these to
the state (`PlaceStep`, `RemoveStep`) and has one lemma per action.
Induction over a list is done by looking at a least counterexample among its
positions, and `assign_priorities` through the levels it has passed.

**The daemon.** Its properties do not depend on the plugins: `DaemonProofs` asks of
the scheduler only that its table lists the live reservations and keeps the pid
of each (`Table`), and therefore needs no `ChangesStayHome`. The invariant is

    DInv == Types /\ Table /\ Dialogue /\ Wired /\ Round /\ Introduced /\ Filed /\ Promised /\ Reuse
            /\ NoOrphan /\ ClientKeepsReservations

`Dialogue`: a client has one request on its way at a time. `Wired`: a connection
is behind one descriptor, the backlog is in order, a closed descriptor is clean.
`Round`: what the loop has still to clean up or serve is about the connection
that is behind the descriptor now. `Introduced`: a descriptor knows the pid of its
connection, or nothing has been created for it. `Filed`: a reservation carries the pid
of its owner. `Promised`: a granted reservation whose reply is in flight exists.
`Reuse` is the heart of it. Cleanup removes every reservation of a *pid*, and a
new process may have got the pid of the one being cleaned up. It loses nothing,
because while the old descriptor is open the new one holds nothing: one update
sees the end of the old connection not later than it reads the first request of
the new, and the loop handles both in one round, in which the new one can at most
be told that it is connected.

**The refinement.** `DaemonImplementsService` shows `DaemonSpec => Service!ServiceSpec` under the
mapping of section 2. Initial states map to initial states (`ServiceStarts`);
under `DInv` and `Sound` (the scheduler's `Inv` while the daemon is up) each step of
a client, each update, each turn of the cleanup and each handler is a step of
the service or leaves its variables alone (`DaemonServes` and the lemma per
action under it). The handler's reply is the service's, a turn of the cleanup is a
`Drop` of a reservation whose user is gone, and an update moves a request from the
socket to `last_req`, which the mapping does not see. `ServiceSpec` is a safety
specification; that requests are answered is `RequestsAnswered`, checked by TLC.

**Start-up.** `StartupInv` says, for each step of `rtf_daemon_init`, what has been
read, saved, changed and checked: the configuration is zeroed memory or passed
`configuration_valid` (`ConfigRead`), nothing is changed before it is saved and
what is saved is what was found (`KeepsFound`), which is the original unless an
earlier daemon left a mess (`FoundIsOriginal`), and the bandwidth limit holds from
its check on (`LimitChecked`). `ServesOnlyValid` rests on `CommonCpusMet`: on ascending
lists the single pass of `plugins_have_common_cpus` meets a common core exactly when
there is one.

**Reading a file.** `FilesReadAsWritten` speaks of files with any number of plugins,
tokens and cores. The parser's loops are folds, and `FoldLeftInvariant` (in
`FoldLeftFacts`) is the rule for a loop over a sequence: a set of accumulators per
position, the first has the base, and a turn leads from each to the next. It is
proved from the definition of the fold, by a least counterexample among the
positions. Three loops use it. For a scalar list of cores (`AfterTokens`): after k
tokens the cores are ascending, they are the numbers and ranges of the first k tokens,
the last one is the k-th number, and `in_range` says whether a dash follows it. That
the ranges stay ascending needs all four. For a sequence of cores (`ItemsAsWritten`)
they are the items; for the plugins (`AfterPlugins`) each is what its item means. An
ascending list is the only one of its numbers (`OrderUnique`), so the cores are
`InOrder(CoresNamed(...))`, which knows of no tokens. The checks then accept exactly the
acceptable configurations (`ValidIsAcceptable`, `AcceptableIsValid`). Errors need no
induction: `WellWritten` files meet none, and what the parser does with the others
is `SchedulerGetsValid`.

**Lists.** The inductive invariant is

    HInv == Heap(Walks)
    Heap(w) == Body(w) /\ res \in Elems \cup {Nothing} /\ used = In(w) \cup Pending
               /\ (op = Idle \/ Inserting(w) \/ Removing(w) \/ Searching(w))

where `w` gives each list its nodes. `Body`: the nodes of a list are chained from its
root to `NULL`, no node is in two places, each count is a length, and the sorted
lists ascend. `Inserting`, `Removing` and `Searching` say where the cursors of the loop
under way are, and that it has seen nothing that would stop it: without that, a
turn that ends the loop would not be the abstract operation. `WalkFindsList` makes
`w` a parameter: if some sequences are chained as `Body` says, they are what a walk along
`next` finds, so an action is proved by naming the new sequences (one node in, one
out, or the same) and showing that the pointers chain them. `LinkShape` and
`UnlinkShape` do this once for every list operation. The simulation follows: the turns
of a loop change no sequence, and the step that links or unlinks a node is the
whole operation of `SequenceLists` (`NextSteps`, `InitSteps`, `StutterStep`).

**Library and monitor.** `LibInv == Types /\ Wire /\ Blinded /\ Ours /\ Walk`.
`Wire`: what is on the connection is the request of the thread that has the mutex,
or the reply to it. `Blinded`: after a receive that found the daemon gone nobody
waits any more. `Ours`: as long as calls have not overlapped there is one call
under way, and it accounts for the difference between what the threads and the
daemon hold. `Walk`: a walk has seen the counted ids below where it is.

**Only model-checked.**
* `DisconnectCleans`, `RequestsAnswered`, `MutexReleased`, `WalkEnds`: liveness under
  fairness is out of the prover's reach.
  That a loop of `list.c` ends is `ListLoopsShrink` together with the fact that a
  natural number cannot fall forever; the last part is not a theorem here.
* `FreeNonNegative` and `WorstFit`: they hold on two cores and for desired runtimes
  not below the minimum, and a theorem would have to assume just that (section 4).
* `bug_change_plugin`, `bug_rm_kernel` and `bug_list_equals` are counterexamples.

## 7. Plan

Done: the scheduler with its four plugins and kernel, the daemon loop with its
clients, the abstract service and its implementation, lists as nodes, the
configuration and the start of the daemon, the library with threads, the
monitor's walk; the proofs of every safety property of these that a run checks,
invariant, action property or refinement, but the two of section 6 that hold for
the instance and not for the code in general. Left for whoever goes on:

1. Weaker hypotheses where they are stronger than the code needs:
   `CapacityStaysConserved` and `ListsStayExact` per plugin instead of for all.
2. The queries that copy a record in the library, and the time functions, if the
   code around them starts to depend on them.

## 8. What is not modelled, and why

* libyaml, keys that are missing or unknown, and quoted or nested scalars: a
  document is given as its nodes. Access-control rules are parsed by nobody
  (`parse_conf_acl_rules` returns at once).
* Memory beyond the arrays of a plugin is what the heap holds there at first and
  what the plugin writes there later; that such a write changes a neighbour's
  memory, and a neighbour's write these entries, is not modelled. Nor is a plugin
  without cores.
* Clients that attach, detach or destroy a reservation of another client: the
  daemon does not check ownership, and `Requests` of the model names a client's own
  ids, as `libretif` does. A modify names any reservation (`rsvid`).
* System calls of detach and release that fail for a living thread: those of attach
  may each fail at any time, those of detach fail only for a thread that is gone.
* Floating point: utilisations are exact fractions of `Unit`; the instances use
  values that divide evenly (`ExactUtil`). The rounding of `float` is out of scope,
  as are periods of 2^31 and more, stored in an `int`.
* `vector.c`, the logger and the time functions of `retif_utils.c`: containers,
  clocks, output. The periodic-task helpers of the library (`rtf_task_start`,
  `rtf_task_wait_period`) only sleep until a clock value.
* `printConnections` of the monitor walks descriptors the way `printTasks` walks
  ids; `printPlugins` and `printCPUs` walk what does not change.
* `list_sort` and the accessors by index in `list.c` and `retif_taskset.c`: nobody
  in the daemon calls them.
* `benchmark/`, `test/`: drivers.
* Signal handlers in the middle of a handler: `Terminate` happens between steps.
  A restarted daemon starts from `DaemonInit`, since nothing is stored but the
  kernel's parameters, which `DaemonStartup` keeps over starts.
* A failing `calloc`: `list.c` ends the process then.
* A receive that fails with an error instead of end of file: both lead to the
  same client state.
* Credentials: stored and not read. Socket set-up is one step that may fail.

## 9. Running

    tlc -config edf_two.cfg MCScheduler        # likewise the other runs
    tlapm SchedulerProofs.tla                  # likewise SequenceFacts, FoldLeftFacts,
                                               # PluginProofs, DaemonProofs, ListProofs,
                                               # StartupProofs, LibraryProofs

From nothing the proofs take about three quarters of an hour, `PluginProofs` and
`DaemonProofs` most of it.

| Modules | Configurations |
|---|---|
| `MCScheduler` | `edf_two`, `rm_rr`, `all_four`, `bug_change_plugin` |
| `MCThreads` | `bug_rm_kernel` |
| `MCDaemon` | `daemon_clients`, `daemon_requests`, `daemon_live` |
| `MCLists` | `lists`, `bug_list_equals` |
| `MCStartup` | `startup` |
| `MCLibrary` | `library` |
