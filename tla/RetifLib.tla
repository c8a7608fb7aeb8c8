------------------------------ MODULE RetifLib -------------------------------
(***************************************************************************)
(* lib/retif_lib.c in one process: its threads share main_channel, whose   *)
(* request they fill and whose reply they read without a lock; a mutex     *)
(* covers the send and the receive.  The daemon is ReservationService.     *)
(*                                                                         *)
(* The process ignores SIGPIPE; if it does not, its first send after the   *)
(* daemon has gone ends it.                                                *)
(***************************************************************************)
EXTENDS ReservationService

CONSTANTS Threads,
          Me,         \* the process's connection, one of Users
          CallTypes,  \* the calls its threads make
          Runtime,    \* the runtime each thread asks for
          Free,       \* the mutex, when no thread holds it
          MaxCalls    \* BOUND on calls

ASSUME LibraryAssumption ==
  /\ IsFiniteSet(Ids) /\ Ids = 1..Cardinality(Ids)
  /\ Me \in Users /\ Nobody \notin Users
  /\ Free \notin Threads
  /\ Runtime \in [Threads -> Nat] /\ MaxCalls \in Nat
  /\ CallTypes \subseteq {"create", "modify", "attach", "detach", "destroy",
                          "connections_info", "plugins_info", "tasks_info"}

VARIABLES
  req,      \* main_channel.req: the type, and the first word of the payload
  buf,      \* main_channel.rep
  mutex,    \* the thread that holds the mutex
  th,       \* each thread: where it is, its call, what it sent, what it got, its tasks
  calls,    \* calls begun
  overlap,  \* history: two calls were under way at the same time
  blind     \* history: receives that reported success and received nothing

lv == <<req, buf, mutex, th, calls, overlap, blind>>

(***************************************************************************)
(* rtf_connect has succeeded.                                              *)
(***************************************************************************)
LibInit ==
  /\ req = [type |-> "connect", word |-> 0]
  /\ buf = [type |-> "reply", re |-> [type |-> "connect", id |-> 0], ok |-> TRUE, n |-> 0]
  /\ mutex = Free
  /\ th = [t \in Threads |-> [pc |-> "idle", type |-> "none", word |-> 0, sent |-> None,
                              ret |-> "none", own |-> {}]]
  /\ calls = 0
  /\ overlap = FALSE
  /\ blind = 0

-----------------------------------------------------------------------------
\* The thread's call returns r; its tasks are o from then on.
Return(t, r, o) ==
  [th EXCEPT ![t] = [pc |-> "idle", type |-> "none", word |-> 0, sent |-> None, ret |-> r,
                     own |-> o]]

\* The first word of a call's payload: the params or the id of a task.
Words(t, type) ==
  CASE type \in {"create", "modify"}            -> {Runtime[t]}
    [] type \in {"attach", "detach", "destroy"} -> th[t].own
    [] OTHER                                    -> {0}

HasPayload(type) == type \in {"create", "modify", "attach", "detach", "destroy"}

(***************************************************************************)
(* A call of the library: rtf_task_create, _change, _attach, _detach,      *)
(* _release and the three counts.  It writes the type of the request ...   *)
(***************************************************************************)
Call(t, type, w) ==
  /\ th[t].pc = "idle"
  /\ calls < MaxCalls
  /\ calls' = calls + 1
  /\ req' = [req EXCEPT !.type = type]
  /\ th' = [th EXCEPT ![t].type = type, ![t].word = w, ![t].ret = "none",
                      ![t].pc = IF HasPayload(type) THEN "payload" ELSE "lock"]
  /\ overlap' = (overlap \/ \E u \in Threads : th[u].pc # "idle")
  /\ UNCHANGED <<sv, buf, mutex, blind>>

(***************************************************************************)
(* ... and then its payload.                                               *)
(***************************************************************************)
Payload(t) ==
  /\ th[t].pc = "payload"
  /\ req' = [req EXCEPT !.word = th[t].word]
  /\ th' = [th EXCEPT ![t].pc = "lock"]
  /\ UNCHANGED <<sv, buf, mutex, calls, overlap, blind>>

\* Mutant: the mutex is not waited for.
MutLock(t) ==
  /\ th[t].pc = "lock"
  /\ mutex' = t
  /\ th' = [th EXCEPT ![t].pc = "send"]
  /\ UNCHANGED <<sv, req, buf, calls, overlap, blind>>

(***************************************************************************)
(* rtf_task_communicate: lock ...                                          *)
(***************************************************************************)
Lock(t) ==
  /\ th[t].pc = "lock"
  /\ mutex = Free
  /\ mutex' = t
  /\ th' = [th EXCEPT ![t].pc = "send"]
  /\ UNCHANGED <<sv, req, buf, calls, overlap, blind>>

Sent == [type |-> req.type, id |-> req.word]

\* Mutant: the result of the send is not looked at.
MutSend(t) ==
  /\ th[t].pc = "send"
  /\ \/ up /\ Submit(Me, Sent)
     \/ ~up /\ UNCHANGED sv
  /\ th' = [th EXCEPT ![t].sent = Sent, ![t].pc = "recv"]
  /\ UNCHANGED <<req, buf, mutex, calls, overlap, blind>>

(***************************************************************************)
(* ... send what is in the request now, which fails when the daemon has    *)
(* gone ...                                                                *)
(***************************************************************************)
Send(t) ==
  /\ th[t].pc = "send"
  /\ \/ /\ Submit(Me, Sent)
        /\ th' = [th EXCEPT ![t].sent = Sent, ![t].pc = "recv"]
     \/ /\ ~up
        /\ th' = [th EXCEPT ![t].ret = "ERROR", ![t].pc = "unlock"]
        /\ UNCHANGED sv
  /\ UNCHANGED <<req, buf, mutex, calls, overlap, blind>>

(***************************************************************************)
(* ... and receive.  If the daemon goes away meanwhile, recv fails when    *)
(* the daemon had not read the request; when it had, recv returns 0, which *)
(* is not RTF_ERROR, and the reply buffer keeps what it had.               *)
(***************************************************************************)
Recv(t) ==
  /\ th[t].pc = "recv"
  /\ \/ /\ Take(Me)
        /\ buf' = rep[Me]
        /\ th' = [th EXCEPT ![t].ret = "OK", ![t].pc = "unlock"]
        /\ UNCHANGED blind
     \/ /\ ~up /\ rep[Me] = None
        /\ \/ /\ ask[Me] # None
              /\ th' = [th EXCEPT ![t].ret = "ERROR", ![t].pc = "unlock"]
              /\ UNCHANGED blind
           \/ /\ th' = [th EXCEPT ![t].ret = "OK", ![t].sent = None, ![t].pc = "unlock"]
              /\ blind' = blind + 1
        /\ ask' = [ask EXCEPT ![Me] = None]
        /\ UNCHANGED <<up, lastid, resv, rep, gone, buf>>
  /\ UNCHANGED <<req, mutex, calls, overlap>>

\* Mutant: an error returns with the mutex held.
MutUnlock(t) ==
  /\ th[t].pc = "unlock"
  /\ mutex' = IF th[t].ret = "ERROR" THEN mutex ELSE Free
  /\ th' = IF th[t].ret = "ERROR" THEN Return(t, "ERROR", th[t].own)
           ELSE [th EXCEPT ![t].pc = "check"]
  /\ UNCHANGED <<sv, req, buf, calls, overlap, blind>>

\* ... and unlock, whatever happened.
Unlock(t) ==
  /\ th[t].pc = "unlock"
  /\ mutex' = Free
  /\ th' = IF th[t].ret = "ERROR" THEN Return(t, "ERROR", th[t].own)
           ELSE [th EXCEPT ![t].pc = "check"]
  /\ UNCHANGED <<sv, req, buf, calls, overlap, blind>>

\* Mutant: the type of the reply is not looked at.
MutRefused(t) == FALSE

\* The reply has the type that reports the failure of this call.
Refused(t) == HasPayload(th[t].type) /\ buf.re.type = th[t].type /\ ~buf.ok

(***************************************************************************)
(* The call looks at the type of the reply ...                             *)
(***************************************************************************)
Check(t) ==
  /\ th[t].pc = "check"
  /\ th' = IF Refused(t) THEN Return(t, "FAIL", th[t].own)
           ELSE CASE th[t].type = "create"  -> [th EXCEPT ![t].pc = "read"]
                  [] th[t].type = "destroy" -> Return(t, "OK", th[t].own \ {th[t].word})
                  [] OTHER                  -> Return(t, "OK", th[t].own)
  /\ UNCHANGED <<sv, req, buf, mutex, calls, overlap, blind>>

\* Mutant: the word that was sent is taken for the id.
MutRead(t) ==
  /\ th[t].pc = "read"
  /\ th' = Return(t, "OK", th[t].own \cup {buf.re.id})
  /\ UNCHANGED <<sv, req, buf, mutex, calls, overlap, blind>>

(***************************************************************************)
(* ... and rtf_task_create then takes the id out of it.                    *)
(***************************************************************************)
Read(t) ==
  /\ th[t].pc = "read"
  /\ th' = Return(t, "OK", th[t].own \cup {buf.n})
  /\ UNCHANGED <<sv, req, buf, mutex, calls, overlap, blind>>

Thread(t) ==
  \/ Payload(t) \/ Lock(t) \/ Send(t) \/ Recv(t) \/ Unlock(t) \/ Check(t) \/ Read(t)

Library ==
  \E t \in Threads :
    Thread(t) \/ \E type \in CallTypes : \E w \in Words(t, type) : Call(t, type, w)

-----------------------------------------------------------------------------
(***************************************************************************)
(* Properties.                                                             *)
(***************************************************************************)

(***************************************************************************)
(* LibraryTypeOK: the state of the library has its type; the id a thread   *)
(* holds is one the daemon hands out, or the 0 of rtf_task_init.           *)
(***************************************************************************)
LibraryTypeOK ==
  /\ mutex \in Threads \cup {Free}
  /\ \A t \in Threads :
       /\ th[t].pc \in {"idle", "payload", "lock", "send", "recv", "unlock", "check", "read"}
       /\ th[t].ret \in {"none", "OK", "FAIL", "ERROR"}
       /\ th[t].own \subseteq Ids \cup {0}
  /\ calls \in 0..MaxCalls /\ blind \in 0..MaxCalls

(***************************************************************************)
(* ExchangesPaired: however the threads interleave, the connection carries *)
(* one request at a time, as the daemon expects, and the reply a thread    *)
(* receives under the mutex answers the request it sent under it.          *)
(***************************************************************************)
ExchangesPaired ==
  \A t \in Threads :
    /\ th[t].pc = "send" /\ up => ask[Me] = None /\ rep[Me] = None
    /\ th[t].pc = "unlock" /\ th[t].ret = "OK" /\ th[t].sent # None => buf.re = th[t].sent

(***************************************************************************)
(* TasksTrue: as long as no two calls overlapped, the tasks the threads    *)
(* hold between calls are the reservations the daemon holds for the        *)
(* process, each of one thread: none is lost, none is shared, and a create *)
(* that was refused yields none.  (When calls overlap this fails: the      *)
(* request and the reply are outside the mutex.)                           *)
(***************************************************************************)
TasksTrue ==
  up /\ ~overlap /\ (\A t \in Threads : th[t].pc = "idle") =>
    /\ UNION {th[t].own : t \in Threads} = Holds(Me)
    /\ \A t, u \in Threads : t # u => th[t].own \cap th[u].own = {}

(***************************************************************************)
(* BlindOnce: a process is told at most once that a request succeeded      *)
(* which the daemon did not live to answer; every later call fails.        *)
(***************************************************************************)
BlindOnce == blind <= 1

(***************************************************************************)
(* MutexReleased: a thread that has the mutex gives it back, whether the   *)
(* daemon answers, has gone, or goes away meanwhile.                       *)
(***************************************************************************)
MutexReleased == \A t \in Threads : mutex = t ~> mutex # t

==============================================================================
