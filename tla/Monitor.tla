------------------------------- MODULE Monitor -------------------------------
(***************************************************************************)
(* monitor/main.c, printTasks: ask for the number of tasks, then for task  *)
(* 1, 2, 3, ... until that many were found, again and again.  It runs next *)
(* to a process of RetifLib that creates and releases reservations.        *)
(***************************************************************************)
EXTENDS RetifLib

CONSTANTS Mon,      \* the monitor's connection
          MaxDesc   \* BOUND on the ids asked for: past Ids nothing is found

ASSUME MonitorAssumption == Mon \in Users \ {Me} /\ MaxDesc \in Nat

VARIABLES
  mon,       \* where it is, and the local variables of printTasks
  counted,   \* history: the reservations the last count counted
  removed    \* history: a reservation went away since

mv == <<mon, counted, removed>>

MonitorInit ==
  /\ ServiceInit /\ LibInit
  /\ mon = [pc |-> "start", ntask |-> 0, desc |-> 1, count |-> 0, seen |-> {}]
  /\ counted = {}
  /\ removed = FALSE

\* rtf_tasks_info.
Count ==
  /\ mon.pc = "start"
  /\ Submit(Mon, [type |-> "tasks_info"])
  /\ mon' = [mon EXCEPT !.pc = "counting"]

Counted ==
  /\ mon.pc = "counting"
  /\ Take(Mon)
  /\ mon' = [pc |-> "walk", ntask |-> rep[Mon].n, desc |-> 1, count |-> 0, seen |-> {}]

\* rtf_task_info of the next id ...
AskTask ==
  /\ mon.pc = "walk"
  /\ mon.count < mon.ntask
  /\ mon.desc <= MaxDesc
  /\ Submit(Mon, [type |-> "task_info", desc |-> mon.desc])
  /\ mon' = [mon EXCEPT !.pc = "asking"]

\* Mutants: an id that is not in use counts; it is asked for again.
MutCountAll ==
  /\ mon.pc = "asking"
  /\ Take(Mon)
  /\ mon' = [mon EXCEPT !.pc = "walk", !.desc = @ + 1, !.count = @ + 1,
                        !.seen = IF rep[Mon].ok THEN @ \cup {mon.desc} ELSE @]

MutAskAgain ==
  /\ mon.pc = "asking"
  /\ Take(Mon)
  /\ mon' = IF rep[Mon].ok
            THEN [mon EXCEPT !.pc = "walk", !.desc = @ + 1, !.count = @ + 1,
                             !.seen = @ \cup {mon.desc}]
            ELSE [mon EXCEPT !.pc = "walk"]

(***************************************************************************)
(* ... which counts only if it was found.                                  *)
(***************************************************************************)
TaskAnswer ==
  /\ mon.pc = "asking"
  /\ Take(Mon)
  /\ mon' = IF rep[Mon].ok
            THEN [mon EXCEPT !.pc = "walk", !.desc = @ + 1, !.count = @ + 1,
                             !.seen = @ \cup {mon.desc}]
            ELSE [mon EXCEPT !.pc = "walk", !.desc = @ + 1]

\* The loop ends, and main begins again.
WalkDone ==
  /\ mon.pc = "walk"
  /\ mon.count >= mon.ntask
  /\ mon' = [mon EXCEPT !.pc = "start"]
  /\ UNCHANGED sv

Printing == Count \/ Counted \/ AskTask \/ TaskAnswer \/ WalkDone

-----------------------------------------------------------------------------
\* The daemon tells the number of tasks.
Telling == ask[Mon].type = "tasks_info" /\ ask'[Mon] = None

History ==
  /\ counted' = IF Telling THEN Reserved ELSE counted
  /\ removed' = IF Telling THEN FALSE ELSE removed \/ ~(Reserved \subseteq Reserved')

Daemon == Stop \/ \E k \in Users : Serve(k)

MonitorNext ==
  \/ Library /\ UNCHANGED mon /\ History
  \/ Daemon /\ UNCHANGED <<lv, mon>> /\ History
  \/ Printing /\ UNCHANGED lv /\ History

all == <<sv, lv, mv>>

(***************************************************************************)
(* The scheduler of the operating system runs every thread and process     *)
(* that can run; the daemon answers (RequestsAnswered of RetifDaemon).     *)
(***************************************************************************)
MonitorSpec ==
  /\ MonitorInit
  /\ [][MonitorNext]_all
  /\ \A t \in Threads : WF_all(Thread(t) /\ UNCHANGED mon /\ History)
  /\ \A k \in Users : WF_all(Serve(k) /\ UNCHANGED <<lv, mon>> /\ History)
  /\ WF_all(Printing /\ UNCHANGED lv /\ History)

-----------------------------------------------------------------------------
(***************************************************************************)
(* Properties.                                                             *)
(***************************************************************************)

(***************************************************************************)
(* WalkTrue: a walk during which no reservation goes away prints exactly   *)
(* those that were counted, though others are created meanwhile: new ones  *)
(* have higher ids and come too late.                                      *)
(***************************************************************************)
WalkTrue ==
  mon.pc = "walk" /\ mon.count >= mon.ntask /\ ~removed => mon.seen = counted

(***************************************************************************)
(* WalkEnds: the loop of printTasks ends unless a reservation goes away    *)
(* after the count or the daemon stops (then count never reaches ntask).   *)
(***************************************************************************)
WalkEnds == mon.pc = "walk" ~> mon.pc = "start" \/ removed \/ ~up

==============================================================================
