------------------------------ MODULE RetifTask ------------------------------
(***************************************************************************)
(* The task parameters a client declares (struct rtf_params) and the pure  *)
(* functions of daemon/retif_task.c over them.  Times are microseconds.    *)
(* The code computes utilisations as floats in [0, 1]; the model counts    *)
(* them in parts of Unit, so that a whole CPU is Unit.  Periods and        *)
(* deadlines are below 2^31, where the code's `int min' is exact.          *)
(***************************************************************************)
EXTENDS Integers

CONSTANT Unit          \* the utilisation of one fully used CPU (the code's 1.0)

ASSUME UnitAssumption == Unit \in Nat \ {0}

(***************************************************************************)
(* Results of the admission tests and of the scheduler calls.  As in the   *)
(* code, RTF_NO and RTF_ERROR are the same number.                         *)
(***************************************************************************)
RTF_OK      == 1
RTF_PARTIAL == 0
RTF_NO      == -1
RTF_ERROR   == -1

Results == {RTF_OK, RTF_PARTIAL, RTF_NO}

NoPlugin == ""         \* an empty params.sched_plugin: no preference

ParamsType == [runtime : Nat, des_runtime : Nat, period : Nat, deadline : Nat,
               priority : Nat, sched_plugin : STRING, ignore_admission : BOOLEAN]

(***************************************************************************)
(* The smaller of period and deadline, a zero standing for "not declared". *)
(***************************************************************************)
get_min_declared(p) ==
  IF p.period = 0 THEN p.deadline
  ELSE IF p.deadline = 0 THEN p.period
  ELSE IF p.deadline < p.period THEN p.deadline ELSE p.period

(***************************************************************************)
(* The code returns -1 (a whole CPU below zero, hence -Unit) when the      *)
(* utilisation cannot be computed.                                         *)
(***************************************************************************)
NoUtil == -Unit

get_util(p) ==
  IF get_min_declared(p) = 0 \/ p.runtime = 0
  THEN NoUtil
  ELSE (p.runtime * Unit) \div get_min_declared(p)

get_des_util(p) ==
  IF get_min_declared(p) = 0 \/ p.des_runtime = 0
  THEN NoUtil
  ELSE (p.des_runtime * Unit) \div get_min_declared(p)

\* Mutants: the comparison is the wrong way round; equals count as greater.
MutCmpPeriod(p, q)   == p.period - q.period
MutCmpPriority(p, q) == IF p.priority >= q.priority THEN 1 ELSE -1

(***************************************************************************)
(* Comparisons of task_cmp: descending period and ascending priority.      *)
(* They are > 0, = 0 or < 0 as the code's are.                             *)
(***************************************************************************)
cmp_period_dsc(p, q)   == q.period - p.period
cmp_priority_asc(p, q) == p.priority - q.priority

==============================================================================
