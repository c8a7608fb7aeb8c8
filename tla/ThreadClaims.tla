---------------------------- MODULE ThreadClaims -----------------------------
(***************************************************************************)
(* What the documentation says of attached threads and the code does not   *)
(* do, checked by a run that is expected to fail.                          *)
(***************************************************************************)
EXTENDS RetifScheduler

(***************************************************************************)
(* The thread a client has attached to a reservation: of the last attach   *)
(* that was answered RTF_OK, until a detach.  A history variable.          *)
(***************************************************************************)
VARIABLE attached

cvars == <<vars, attached>>

ClaimInit == Init /\ attached = [id \in Ids |-> Self]

AttachAnswer(id, tid, sys) ==
  IF id \notin DOMAIN task THEN RTF_ERROR
  ELSE AttachResult([task[id] EXCEPT !.tid = tid], kern, Policy(task[id].pluginid), sys)

ClaimNext ==
  \/ \E id \in Ids, tid \in Tids, sys \in SysOutcomes :
       /\ TaskAttach(id, tid, sys)
       /\ attached' = IF AttachAnswer(id, tid, sys) = RTF_OK
                      THEN [attached EXCEPT ![id] = tid] ELSE attached
  \/ \E id \in Ids : TaskDetach(id) /\ attached' = [attached EXCEPT ![id] = Self]
  \/ /\ \/ \E tp \in CreateParams, pid \in Pids : TaskCreate(tp, pid)
        \/ \E id \in Ids : TaskDestroy(id)
        \/ \E pid \in Pids : DeleteBegin(pid)
        \/ DeleteStep
        \/ \E tp \in ModifyParams : TaskChange(rsvid(tp))
        \/ \E tid \in Tids : ThreadExit(tid)
     /\ UNCHANGED attached

ClaimSpec == ClaimInit /\ [][ClaimNext]_cvars

(***************************************************************************)
(* KernelRateMonotonic: of two threads attached to reservations of one RM  *)
(* core, the one with the shorter period has no lower kernel priority      *)
(* (plugins/README.md:31; assign_priorities changes only schedprio).       *)
(***************************************************************************)
KernelRateMonotonic ==
  \A i \in OfKind({"RM"}) : \A c \in Cores(i) : \A x, y \in Held(i, c) :
    /\ attached[x] # Self /\ kern[attached[x]].policy = "FIFO"
    /\ attached[y] # Self /\ kern[attached[y]].policy = "FIFO"
    /\ attached[x] # attached[y]
    /\ task[x].params.period < task[y].params.period
    => kern[attached[x]].prio >= kern[attached[y]].prio

==============================================================================
