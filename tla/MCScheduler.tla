---------------------------- MODULE MCScheduler ------------------------------
(***************************************************************************)
(* Instances of RetifScheduler for TLC.  Utilisations are twelfths of a    *)
(* CPU; every runtime and period below divides exactly.                    *)
(***************************************************************************)
EXTENDS RetifScheduler

P(run, des, per, prio, plg, ign) ==
  [runtime |-> run, des_runtime |-> des, period |-> per, deadline |-> 0,
   priority |-> prio, sched_plugin |-> plg, ignore_admission |-> ign]

PlainExact(p) ==
  LET m == get_min_declared(p)
  IN  m # 0 => (p.runtime * Unit) % m = 0 /\ (p.des_runtime * Unit) % m = 0

ASSUME ExactUtil == \A p \in CreateParams : PlainExact(p)

Plg(i, kind, cpus, lo, hi) ==
  [id |-> i, kind |-> kind, name |-> kind, cpulist |-> cpus, prio_min |-> lo, prio_max |-> hi]

\* A modify request whose bytes name reservation id (runtime >= Word).
Modify(id) == P(id * Word, 0, 1, 0, NoPlugin, FALSE)

\* EDF alone on two cores: shares from 1/3 to 2/3 of a CPU, one with a deadline
\* shorter than its period, one that names another plugin, one without runtime,
\* and desired runtimes of 1/2 of a CPU and of a whole one.
EdfTwo     == <<Plg(1, "EDF", <<0, 1>>, 90, 90)>>
EdfParams  == {P(4, 0, 12, 0, NoPlugin, FALSE), P(6, 0, 12, 0, "RM", FALSE),
               [P(4, 0, 12, 0, "EDF", FALSE) EXCEPT !.deadline = 6],
               P(0, 0, 12, 0, NoPlugin, FALSE), P(6, 0, 12, 0, NoPlugin, FALSE),
               P(4, 12, 12, 0, NoPlugin, FALSE), P(3, 6, 12, 0, NoPlugin, FALSE)}

ModifyAny  == {Modify(1), Modify(2), P(4, 0, 12, 0, NoPlugin, FALSE)}
NoModify   == {P(4, 0, 12, 0, NoPlugin, FALSE)}

\* RM on one core with a window of one priority, which two distinct periods overflow,
\* and RR on one with a window of two, which three declared priorities overflow.
\* One RM task books nothing, ignores admission and prefers another plugin.  Four
\* reservations never fill RM's core, so that a change stays in its plugin.
RmRr       == <<Plg(1, "RM", <<0>>, 60, 60), Plg(2, "RR", <<0>>, 40, 41)>>
RmRrParams == {P(3, 0, 12, 0, "RM", FALSE), P(0, 0, 6, 0, "EDF", TRUE)}
                \cup {P(0, 0, 0, prio, NoPlugin, FALSE) : prio \in {1, 26, 51}}

\* A change names the second reservation or none: each one lets dist_prio of RM
\* drift a step further, through all values of the small word.
ModifySecond == {Modify(2), P(4, 0, 12, 0, NoPlugin, FALSE)}

\* The four plugins in the order and with the windows a configuration needs.
AllFour    == <<Plg(1, "EDF", <<0>>, 90, 90), Plg(2, "RM", <<0, 1>>, 60, 61),
                Plg(3, "RR", <<0, 1>>, 40, 41), Plg(4, "FP", <<0, 1>>, 10, 12)>>
AllParams  == {P(6, 0, 12, 0, NoPlugin, FALSE), P(3, 0, 6, 0, "RM", FALSE),
               P(0, 0, 12, 50, "FP", TRUE), P(0, 0, 0, 0, NoPlugin, FALSE),
               P(0, 0, 0, 99, NoPlugin, FALSE), P(0, 0, 0, 99, "FP", FALSE)}

-----------------------------------------------------------------------------
\* Instances on which the code departs from its documentation.

EdfRm      == <<Plg(1, "EDF", <<0>>, 90, 90), Plg(2, "RM", <<0>>, 60, 61)>>
HalfCpu    == {P(6, 0, 12, 0, NoPlugin, FALSE)}
ModifyLast == {Modify(3)}
RmPeriods  == {P(1, 0, 12, 0, NoPlugin, FALSE), P(1, 0, 6, 0, NoPlugin, FALSE),
               P(1, 0, 4, 0, NoPlugin, FALSE)}
RmWide     == <<Plg(1, "RM", <<0>>, 50, 99)>>

==============================================================================
