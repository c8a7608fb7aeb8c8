---------------------------- MODULE RetifDaemon ------------------------------
(***************************************************************************)
(* daemon/retif_daemon.c with the carrier side of channel/: the loop that  *)
(* waits in select, reads one request of every ready client, walks the     *)
(* descriptors to serve requests and to clean up after clients that are    *)
(* gone, and calls RetifScheduler.                                         *)
(*                                                                         *)
(* A client is a connection made by libretif in some process: it announces *)
(* its pid first, then sends one request at a time and waits for the reply *)
(* (rtf_task_communicate holds a mutex).  A process may exit at any time,  *)
(* and a new process may be given its pid.                                 *)
(***************************************************************************)
EXTENDS RetifScheduler

CONSTANTS MaxFd,        \* BOUND on connection descriptors (FD_SETSIZE in the code)
          MaxConn,      \* BOUND on connections made
          SendTypes,    \* the requests clients send after announcing themselves
          Descs,        \* the descriptors, indices and ids that queries name
          SigPipe       \* "default", or "ignored" when inherited so (systemd)

ASSUME DaemonAssumption ==
  /\ MaxFd \in Nat \ {0} /\ MaxConn \in Nat \ {0}
  /\ Descs \subseteq Nat
  /\ SigPipe \in {"default", "ignored"}

Fds   == 1..MaxFd
Conns == 1..MaxConn

VARIABLES
  conn,      \* each connection, seen from the client: its process, what it does,
             \* the request and the reply in flight, the reservations it was given
  backlog,   \* connections not yet accepted
  fdconn,    \* the connection behind each open descriptor, 0 if closed
  connset,   \* us->conn_set
  client,    \* c->client: state and pid of each descriptor
  last_n,    \* c->last_n: -1 gone, 0 nothing, 1 a request
  last_req,  \* c->last_req
  hand,      \* the descriptor rtf_daemon_loop is at, 0 when it waits in select
  failing,   \* the descriptor rtf_daemon_check_for_fail is cleaning up, or 0
  owner,     \* history: the connection each reservation was created for
  alive      \* FALSE once a signal has killed the daemon

dvars == <<conn, backlog, fdconn, connset, client, last_n, last_req, hand, failing, owner,
           alive>>
allvars == <<vars, dvars>>

NoMsg == [type |-> "none"]

\* The reservations connection k was ever given.
Given(k) == {id \in Ids : owner[id] = k}

Requests(k) ==
  [type : SendTypes \cap {"create"}, tp : CreateParams]
    \cup [type : SendTypes \cap {"modify"}, tp : ModifyParams]
    \cup [type : SendTypes \cap {"attach"}, id : Given(k), tid : Tids]
    \cup [type : SendTypes \cap {"detach", "destroy"}, id : Given(k)]
    \cup [type : SendTypes \cap {"connections_info", "plugins_info", "tasks_info"}]
    \cup [type : SendTypes \cap {"connection_info", "plugin_info", "task_info"}, desc : Descs]
    \cup [type : SendTypes \cap {"plugin_cpu_info"}, desc : Descs, id : Descs]

DaemonInit ==
  /\ Init
  /\ conn = [k \in Conns |-> [pid |-> 0, st |-> "none", asked |-> NoMsg, in |-> NoMsg,
                              out |-> NoMsg, owns |-> {}]]
  /\ backlog = <<>>
  /\ fdconn = [f \in Fds |-> 0]
  /\ connset = {}
  /\ client = [f \in Fds |-> [state |-> "EMPTY", pid |-> 0]]
  /\ last_n = [f \in Fds |-> 0]
  /\ last_req = [f \in Fds |-> NoMsg]
  /\ hand = 0
  /\ failing = 0
  /\ owner = [id \in Ids |-> 0]
  /\ alive = TRUE

-----------------------------------------------------------------------------
(***************************************************************************)
(* The clients: lib/retif_lib.c.                                           *)
(***************************************************************************)
Live(k) == conn[k].st \in {"new", "ready", "waiting"}

clientUnchanged ==
  UNCHANGED <<vars, fdconn, connset, client, last_n, last_req, hand, failing, owner, alive>>

\* rtf_access_connect, by a process that has no connection yet.
Connect(k, pid) ==
  /\ conn[k].st = "none"
  /\ \A j \in 1..k - 1 : conn[j].st # "none"
  /\ \A j \in Conns : ~(Live(j) /\ conn[j].pid = pid)
  /\ conn' = [conn EXCEPT ![k].pid = pid, ![k].st = "new"]
  /\ backlog' = Append(backlog, k)
  /\ clientUnchanged

Ask(k, r) ==
  conn' = [conn EXCEPT ![k].st = "waiting", ![k].asked = r, ![k].in = r,
                       ![k].owns = IF r.type = "destroy" THEN @ \ {r.id} ELSE @]

\* rtf_connect announces the pid with a RTF_CONNECTION request.
Announce(k) ==
  /\ conn[k].st = "new"
  /\ Ask(k, [type |-> "connect", pid |-> conn[k].pid])
  /\ UNCHANGED backlog /\ clientUnchanged

(***************************************************************************)
(* rtf_task_communicate: send a request ...  Creates are BOUNDED: those in *)
(* flight still find an id below MaxTaskId.                                *)
(***************************************************************************)
CreatesInFlight ==
  Cardinality({k \in Conns : conn[k].in.type = "create"})
    + Cardinality({f \in Fds : last_n[f] = 1 /\ last_req[f].type = "create"})

Send(k, r) ==
  /\ conn[k].st = "ready"
  /\ r.type = "create" => last_task_id + CreatesInFlight < MaxTaskId
  /\ Ask(k, r)
  /\ UNCHANGED backlog /\ clientUnchanged

\* ... and receive the reply.
Receive(k) ==
  /\ conn[k].st = "waiting"
  /\ conn[k].out # NoMsg
  /\ conn' = [conn EXCEPT ![k].st = "ready", ![k].asked = NoMsg, ![k].out = NoMsg,
                ![k].owns = IF conn[k].out.rep.type = "create" /\ conn[k].out.rep.res # RTF_NO
                            THEN @ \cup {conn[k].out.rep.n} ELSE @]
  /\ UNCHANGED backlog /\ clientUnchanged

\* The process exits: the kernel closes its end of the connection.
Exit(k) ==
  /\ Live(k)
  /\ conn' = [conn EXCEPT ![k].st = "closed", ![k].asked = NoMsg,
                       ![k].out = NoMsg, ![k].owns = {}]
  /\ UNCHANGED backlog /\ clientUnchanged

-----------------------------------------------------------------------------
(***************************************************************************)
(* rtf_carrier_update.                                                     *)
(***************************************************************************)
Running == status = "up" /\ alive

HasData(f) == conn[fdconn[f]].in # NoMsg
AtEnd(f)   == conn[fdconn[f]].st = "closed" /\ ~HasData(f)
Ready      == {f \in connset : HasData(f) \/ AtEnd(f)}
FreeFds    == {f \in Fds : fdconn[f] = 0}
CanAccept  == backlog # <<>> /\ FreeFds # {}

\* Mutants: a connected client is never found gone; a new one is never taken up.
MutNeverGone(state, n) ==
  CASE state = "EMPTY" /\ n = 0 -> "EMPTY"
    [] state = "EMPTY" /\ n > 0 -> "CONNECTED"
    [] state = "CONNECTED"      -> "CONNECTED"
    [] OTHER                    -> "DISCONNECTED"

MutNeverTaken(state, n) ==
  CASE state = "EMPTY" /\ n >= 0     -> "EMPTY"
    [] state = "CONNECTED" /\ n >= 0 -> "CONNECTED"
    [] n < 0                         -> "DISCONNECTED"
    [] OTHER                         -> "ERROR"

(***************************************************************************)
(* The state machine of rtf_carrier_update, for a descriptor whose last    *)
(* receive returned n.                                                     *)
(***************************************************************************)
NextState(state, n) ==
  CASE state = "EMPTY" /\ n = 0      -> "EMPTY"
    [] state = "EMPTY" /\ n > 0      -> "CONNECTED"
    [] state = "CONNECTED" /\ n >= 0 -> "CONNECTED"
    [] n < 0                         -> "DISCONNECTED"
    [] OTHER                         -> "ERROR"

(***************************************************************************)
(* usocket_recvall: one receive per ready descriptor.                      *)
(***************************************************************************)
Received(f) == IF f \notin Ready THEN 0 ELSE IF HasData(f) THEN 1 ELSE -1

(***************************************************************************)
(* usocket_add_connections: the new descriptor is the lowest free one.     *)
(***************************************************************************)
Accepted == IF CanAccept THEN Min(FreeFds) ELSE 0

Update ==
  /\ Running /\ hand = 0
  /\ Ready # {} \/ CanAccept
  /\ last_n' = [f \in Fds |-> Received(f)]
  /\ last_req' = [f \in Fds |-> IF Received(f) = 1 THEN conn[fdconn[f]].in ELSE last_req[f]]
  /\ client' = [f \in Fds |-> [client[f] EXCEPT !.state = NextState(@, Received(f))]]
  /\ conn' = [k \in Conns |-> IF \E f \in Ready : fdconn[f] = k
                              THEN [conn[k] EXCEPT !.in = NoMsg] ELSE conn[k]]
  /\ connset' = (connset \ {f \in Ready : ~HasData(f)}) \cup ({Accepted} \ {0})
  /\ fdconn' = [f \in Fds |-> IF f = Accepted THEN Head(backlog) ELSE fdconn[f]]
  /\ backlog' = IF CanAccept THEN Tail(backlog) ELSE backlog
  /\ hand' = 1
  /\ UNCHANGED <<vars, failing, owner, alive>>

(***************************************************************************)
(* A signal (SIGTTOU) interrupts select: nothing is received, and the loop *)
(* walks the descriptors all the same.                                     *)
(***************************************************************************)
Interrupted ==
  /\ Running /\ hand = 0
  /\ Ready = {} /\ ~CanAccept
  /\ last_n' = [f \in Fds |-> 0]
  /\ hand' = 1
  /\ UNCHANGED <<vars, conn, backlog, fdconn, connset, client, last_req, failing, owner, alive>>

-----------------------------------------------------------------------------
\* Mutants: the loop goes one descriptor too far; a connected client is served
\* without a look at last_n.
MutNextHand   == hand' = (hand + 1) % (MaxFd + 2)
MutUpdated(f) == client[f].state = "CONNECTED"

(***************************************************************************)
(* rtf_daemon_handle_req for the descriptor at hand.                       *)
(***************************************************************************)
Broken(f)  == client[f].state \in {"DISCONNECTED", "ERROR"}
Updated(f) == client[f].state = "CONNECTED" /\ last_n[f] > 0
NextHand   == hand' = (hand + 1) % (MaxFd + 1)

AtHand == Running /\ hand # 0 /\ failing = 0

\* Neither gone nor updated.
Skip ==
  /\ AtHand
  /\ ~Broken(hand) /\ ~Updated(hand)
  /\ NextHand
  /\ UNCHANGED <<vars, conn, backlog, fdconn, connset, client, last_n, last_req, failing, owner,
                 alive>>

\* Mutant: the pid is cleared first, and the reservations of pid 0 are deleted.
MutFailBegin ==
  /\ AtHand
  /\ Broken(hand)
  /\ client' = [client EXCEPT ![hand].state = "EMPTY", ![hand].pid = 0]
  /\ failing' = hand
  /\ DeleteBegin(0)
  /\ UNCHANGED <<conn, backlog, fdconn, connset, last_n, last_req, hand, owner, alive>>

(***************************************************************************)
(* rtf_daemon_check_for_fail: mark the descriptor empty and delete the     *)
(* reservations of its pid (DeleteStep of RetifScheduler does the loop) .. *)
(***************************************************************************)
FailBegin ==
  /\ AtHand
  /\ Broken(hand)
  /\ client' = [client EXCEPT ![hand].state = "EMPTY"]
  /\ failing' = hand
  /\ DeleteBegin(client[hand].pid)
  /\ UNCHANGED <<conn, backlog, fdconn, connset, last_n, last_req, hand, owner, alive>>

FailDelete == failing # 0 /\ DeleteStep /\ UNCHANGED dvars

\* rtf_carrier_close.
Close(f) ==
  /\ connset' = connset \ {f}
  /\ fdconn' = [fdconn EXCEPT ![f] = 0]

\* Mutant: the pid is not cleared.
MutPidStays ==
  /\ Idle /\ failing # 0
  /\ Close(failing)
  /\ failing' = 0
  /\ NextHand
  /\ UNCHANGED <<vars, conn, backlog, client, last_n, last_req, owner, alive>>

(***************************************************************************)
(* ... then clear the pid and close the descriptor.                        *)
(***************************************************************************)
FailEnd ==
  /\ Idle /\ failing # 0
  /\ client' = [client EXCEPT ![failing].pid = 0]
  /\ Close(failing)
  /\ failing' = 0
  /\ NextHand
  /\ UNCHANGED <<vars, conn, backlog, last_n, last_req, owner, alive>>

(***************************************************************************)
(* rtf_carrier_send and what follows it in rtf_daemon_handle_req.  A send  *)
(* to a closed connection raises SIGPIPE, which kills the daemon unless it *)
(* inherited the signal ignored; then the send fails.  re, the request     *)
(* answered, is history: the reply itself does not carry it.               *)
(***************************************************************************)
Reply(rep, newclient) ==
  LET k    == fdconn[hand]
      sent == conn[k].st # "closed"
  IN  /\ conn' = IF sent THEN [conn EXCEPT ![k].out = [re |-> last_req[hand], rep |-> rep]]
                   ELSE conn
      /\ client' = IF sent THEN newclient ELSE [newclient EXCEPT ![hand].state = "ERROR"]
      /\ alive' = (sent \/ SigPipe = "ignored")
      /\ last_n' = [last_n EXCEPT ![hand] = 0]
      /\ NextHand
      /\ UNCHANGED <<backlog, fdconn, connset, last_req, failing>>

(***************************************************************************)
(* A daemon that has crashed in the call does not come to reply.           *)
(***************************************************************************)
ReplyIfUp(rep) ==
  IF status' = "up" THEN Reply(rep, client)
  ELSE UNCHANGED <<conn, backlog, fdconn, connset, client, last_n, last_req, hand, failing, alive>>

Serving(type) ==
  /\ AtHand /\ Updated(hand)
  /\ last_req[hand].type = type

Req == last_req[hand]

ReqConnection ==
  /\ Serving("connect")
  /\ Reply([type |-> "connect", res |-> RTF_OK, n |-> 0], [client EXCEPT ![hand].pid = Req.pid])
  /\ UNCHANGED <<vars, owner>>

ReqTaskCreate ==
  /\ Serving("create")
  /\ TaskCreate(Req.tp, client[hand].pid)
  /\ owner' = IF CreateResult(Req.tp) = RTF_NO THEN owner
              ELSE [owner EXCEPT ![last_task_id'] = fdconn[hand]]
  /\ ReplyIfUp([type |-> "create", res |-> CreateResult(Req.tp),
                n |-> IF CreateResult(Req.tp) = RTF_NO THEN -1 ELSE last_task_id'])

ReqTaskModify ==
  /\ Serving("modify")
  /\ TaskChange(rsvid(Req.tp))
  /\ ReplyIfUp([type |-> "modify", res |-> ChangeResult(rsvid(Req.tp)), n |-> 0])
  /\ UNCHANGED owner

ReqTaskAttach ==
  /\ Serving("attach")
  /\ \E sys \in SysOutcomes :
       /\ TaskAttach(Req.id, Req.tid, sys)
       /\ Reply([type |-> "attach", n |-> 0,
                 res |-> IF Req.id \notin DOMAIN task THEN RTF_ERROR
                         ELSE AttachResult(task'[Req.id], kern, Policy(task[Req.id].pluginid), sys)],
                client)
  /\ UNCHANGED owner

ReqTaskDetach ==
  /\ Serving("detach")
  /\ TaskDetach(Req.id)
  /\ Reply([type |-> "detach", n |-> 0,
            res |-> IF Req.id \notin DOMAIN task THEN RTF_ERROR
                    ELSE DetachResult(task[Req.id], kern)], client)
  /\ UNCHANGED owner

\* Mutant: the reservation is looked up but not removed.
MutReqTaskDestroy ==
  /\ Serving("destroy")
  /\ Reply([type |-> "destroy", n |-> 0,
            res |-> IF Req.id \notin DOMAIN task THEN RTF_ERROR ELSE RTF_OK], client)
  /\ UNCHANGED <<vars, owner>>

ReqTaskDestroy ==
  /\ Serving("destroy")
  /\ TaskDestroy(Req.id)
  /\ Reply([type |-> "destroy", n |-> 0,
            res |-> IF Req.id \notin DOMAIN task THEN RTF_ERROR ELSE RTF_OK], client)
  /\ UNCHANGED owner

-----------------------------------------------------------------------------
(***************************************************************************)
(* The queries.  They change nothing but what a send changes.              *)
(***************************************************************************)
Info(type, n) == [type |-> type, res |-> RTF_OK, n |-> n]
Err(type)     == [type |-> type, res |-> RTF_ERROR, n |-> 0]

Answer(type, rep) ==
  /\ Serving(type)
  /\ Reply(rep, client)
  /\ UNCHANGED <<vars, owner>>

ReqConnectionsInfo ==
  Answer("connections_info",
         Info("connections_info", Cardinality({f \in Fds : client[f].pid # 0})))

ReqPluginsInfo == Answer("plugins_info", Info("plugins_info", Len(Plugins)))

\* Mutant: the reservations ever made are counted.
MutReqTasksInfo == Answer("tasks_info", Info("plugins_info", last_task_id))

\* The code answers with the type of the plugins' reply.
ReqTasksInfo == Answer("tasks_info", Info("plugins_info", Len(taskset)))

(***************************************************************************)
(* client has entries 0 to MaxFd and the test lets one index more pass,    *)
(* which reads the first two words of the scheduler that follows it.       *)
(***************************************************************************)
ConnectionEntry(d) ==
  IF d \in Fds THEN client[d]
  ELSE [state |-> Cardinality(Cpus), pid |-> IF d = MaxFd + 1 THEN Len(Plugins) ELSE 0]

ReqConnectionInfo ==
  Answer("connection_info",
         IF ConnectionEntry(Req.desc).pid = 0 THEN Err("connection_info")
         ELSE Info("connection_info", ConnectionEntry(Req.desc)))

ReqPluginInfo ==
  Answer("plugin_info",
         IF Req.desc >= Len(Plugins) THEN Err("plugin_info")
         ELSE LET g == Plugins[Req.desc + 1]
              IN  Info("plugin_info", [name |-> g.name, cputot |-> Len(g.cpulist)]))

(***************************************************************************)
(* The CPU is looked up in cpulist, its figures at its POSITION there.     *)
(***************************************************************************)
CpuInfo(d, id) ==
  [cpunum |-> Plugins[d + 1].cpulist[id + 1],
   ntask |-> plugin[d + 1].count[id], freeu |-> plugin[d + 1].free[id]]

ReqPluginCpuInfo ==
  Answer("plugin_cpu_info",
         IF Req.desc >= Len(Plugins) THEN Err("plugin_cpu_info")
         ELSE IF Req.id >= Len(Plugins[Req.desc + 1].cpulist) THEN Err("plugin_cpu_info")
         ELSE Info("plugin_cpu_info", CpuInfo(Req.desc, Req.id)))

\* The reply's util is never set; it is left out.
ReqTaskInfo ==
  Answer("task_info",
         IF Req.desc \notin DOMAIN task THEN Err("task_info")
         ELSE LET t == task[Req.desc]
              IN  Info("task_info", [tid |-> t.tid, ppid |-> t.ptid, priority |-> t.schedprio,
                                     period |-> t.params.period, pluginid |-> t.pluginid]))

Handle ==
  \/ Skip \/ FailBegin \/ FailDelete \/ FailEnd
  \/ ReqConnection \/ ReqTaskCreate \/ ReqTaskModify \/ ReqTaskAttach
  \/ ReqTaskDetach \/ ReqTaskDestroy
  \/ ReqConnectionsInfo \/ ReqPluginsInfo \/ ReqTasksInfo \/ ReqConnectionInfo
  \/ ReqPluginInfo \/ ReqPluginCpuInfo \/ ReqTaskInfo

(***************************************************************************)
(* SIGINT: rtf_daemon_destroy frees the reservations, without releasing    *)
(* them in their plugins, and the daemon exits.                            *)
(***************************************************************************)
Terminate ==
  /\ Running
  /\ status' = "stopped"
  /\ taskset' = <<>>
  /\ task' = <<>>
  /\ UNCHANGED <<plugin, last_task_id, kern, deleting, dvars>>

(***************************************************************************)
(* What a client does once the daemon has gone is in RetifLib.             *)
(***************************************************************************)
Clients ==
  /\ Running
  /\ \/ \E k \in Conns, pid \in Pids : Connect(k, pid)
     \/ \E k \in Conns : Announce(k) \/ Receive(k) \/ Exit(k)
     \/ \E k \in Conns : \E r \in Requests(k) : Send(k, r)

DaemonNext ==
  \/ Clients \/ Update \/ Interrupted \/ Handle \/ Terminate
  \/ \E tid \in Tids : ThreadExit(tid) /\ UNCHANGED dvars

(***************************************************************************)
(* The daemon never stops taking steps it can take; clients may.           *)
(***************************************************************************)
DaemonSpec == DaemonInit /\ [][DaemonNext]_allvars /\ WF_allvars(Update \/ Handle)

-----------------------------------------------------------------------------
(***************************************************************************)
(* Properties.                                                             *)
(***************************************************************************)

(***************************************************************************)
(* DaemonTypeOK: the state of the carrier and of the clients has its type, *)
(* and the descriptor set holds open descriptors only.                     *)
(***************************************************************************)
DaemonTypeOK ==
  /\ \A k \in Conns :
       /\ conn[k].pid \in Pids \cup {0}
       /\ conn[k].st \in {"none", "new", "ready", "waiting", "closed"}
       /\ conn[k].owns \subseteq Ids
  /\ backlog \in Seq(Conns)
  /\ fdconn \in [Fds -> Conns \cup {0}]
  /\ connset \subseteq {f \in Fds : fdconn[f] # 0}
  /\ client \in [Fds -> [state : {"EMPTY", "CONNECTED", "DISCONNECTED", "ERROR"},
                         pid : Pids \cup {0}]]
  /\ last_n \in [Fds -> {-1, 0, 1}]
  /\ hand \in 0..MaxFd /\ failing \in 0..MaxFd
  /\ owner \in [Ids -> Conns \cup {0}]
  /\ alive \in BOOLEAN

(***************************************************************************)
(* NoOrphan: every reservation of the daemon belongs to a descriptor still *)
(* open on the connection it was created for, that still remembers the pid *)
(* it is filed under and is not yet considered empty: the cleanup of       *)
(* rtf_daemon_check_for_fail can still find it.                            *)
(***************************************************************************)
NoOrphan ==
  \A id \in DOMAIN task :
    \E f \in Fds : /\ fdconn[f] = owner[id]
                   /\ client[f].pid = task[id].ptid
                   /\ client[f].state # "EMPTY" \/ failing = f

(***************************************************************************)
(* ClientKeepsReservations: a reservation a connected client was given and *)
(* has not released is in the daemon's table, created for that client and  *)
(* filed under its pid.  Cleaning up after another connection, even one of *)
(* a process that had the same pid or the same descriptor, never takes it. *)
(***************************************************************************)
ClientKeepsReservations ==
  status = "up" =>
    \A k \in Conns : \A id \in conn[k].owns :
      id \in DOMAIN task /\ owner[id] = k /\ task[id].ptid = conn[k].pid

(***************************************************************************)
(* RepliesMatch: a reply only ever goes to a client that waits for one, it *)
(* answers the request that client made, and the request was consumed: a   *)
(* stale last_req is never served to the next user of a descriptor.        *)
(***************************************************************************)
RepliesMatch ==
  \A k \in Conns : conn[k].out # NoMsg =>
    /\ conn[k].st = "waiting"
    /\ conn[k].out.re = conn[k].asked
    /\ conn[k].in = NoMsg

(***************************************************************************)
(* DisconnectCleans: once a client is gone the daemon ends up, for good,   *)
(* without its reservations, even those it created after the client closed *)
(* its end (the promise of rtf_daemon_check_for_fail).                     *)
(***************************************************************************)
Reservations(k) == {id \in DOMAIN task : owner[id] = k}

DisconnectCleans == \A k \in Conns : conn[k].st = "closed" ~> [](Reservations(k) = {})

(***************************************************************************)
(* RequestsAnswered: a client that waits and does not exit gets a reply,   *)
(* whatever the other clients do, unless the daemon is stopped.            *)
(***************************************************************************)
RequestsAnswered ==
  \A k \in Conns :
    conn[k].st = "waiting" ~> (conn[k].out # NoMsg \/ conn[k].st # "waiting" \/ status = "stopped")

(***************************************************************************)
(* ImplementsService: through select, the tables of descriptors and pids   *)
(* and the scheduler's task set, the daemon does what ReservationService   *)
(* promises.  The request of a connection is in its socket or, once read,  *)
(* in last_req; a reservation is held by the connection it was made for.   *)
(***************************************************************************)
PendingRequest(k) ==
  IF conn[k].in # NoMsg THEN conn[k].in
  ELSE IF \E f \in Fds : fdconn[f] = k /\ last_n[f] = 1
       THEN last_req[CHOOSE f \in Fds : fdconn[f] = k /\ last_n[f] = 1]
       ELSE NoMsg

\* A reply as the abstract one; what a query about a plugin tells is left out.
SeenReply(k) ==
  LET out == conn[k].out
      ok  == out.rep.res # RTF_NO
  IN  IF out = NoMsg THEN NoMsg
      ELSE [type |-> "reply", re |-> out.re, ok |-> ok,
            n |-> IF out.re.type = "tasks_info" \/ (out.re.type = "create" /\ ok)
                  THEN out.rep.n ELSE 0]

Service == INSTANCE ReservationService WITH
  Users  <- Conns,
  Nobody <- 0,
  up     <- status = "up",
  lastid <- last_task_id,
  resv   <- [id \in Ids |-> IF id \in DOMAIN task THEN owner[id] ELSE 0],
  ask    <- [k \in Conns |-> PendingRequest(k)],
  rep    <- [k \in Conns |-> SeenReply(k)],
  gone   <- [k \in Conns |-> conn[k].st = "closed"]

ImplementsService == Service!ServiceSpec

==============================================================================
