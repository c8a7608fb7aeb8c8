---------------------------- MODULE DaemonProofs -----------------------------
(***************************************************************************)
(* The inductive invariant of RetifDaemon, for any number of connections,  *)
(* descriptors, processes and requests: who waits for what, which          *)
(* descriptor answers for which reservation, and why a pid that is used    *)
(* again does no harm.  Then its refinement of ReservationService.         *)
(***************************************************************************)
EXTENDS RetifDaemon, SchedulerProofs

(***************************************************************************)
(* Everything a client may send; replies are left untyped.                 *)
(***************************************************************************)
Messages ==
  {NoMsg}
    \cup [type : {"connect"}, pid : Pids]
    \cup [type : {"create"}, tp : CreateParams]
    \cup [type : {"modify"}, tp : ModifyParams]
    \cup [type : {"attach"}, id : Ids, tid : Tids]
    \cup [type : {"detach", "destroy"}, id : Ids]
    \cup [type : {"connections_info", "plugins_info", "tasks_info"}]
    \cup [type : {"connection_info", "plugin_info", "task_info"}, desc : Descs]
    \cup [type : {"plugin_cpu_info"}, desc : Descs, id : Descs]

ConnType(O) ==
  [pid : Pids \cup {0}, st : {"none", "new", "ready", "waiting", "closed"},
   asked : Messages, in : Messages, out : O, owns : SUBSET Ids]

ClientType == [state : {"EMPTY", "CONNECTED", "DISCONNECTED", "ERROR"}, pid : Pids \cup {0}]

Types ==
  /\ \E O : conn \in [Conns -> ConnType(O)]
  /\ backlog \in Seq(Conns)
  /\ fdconn \in [Fds -> Conns \cup {0}]
  /\ connset \in SUBSET Fds
  /\ client \in [Fds -> ClientType]
  /\ last_n \in [Fds -> {-1, 0, 1}]
  /\ last_req \in [Fds -> Messages]
  /\ hand \in 0..MaxFd /\ failing \in 0..MaxFd
  /\ owner \in [Ids -> Conns \cup {0}]
  /\ alive \in BOOLEAN

(***************************************************************************)
(* What the daemon needs of the scheduler's table, whatever its plugins    *)
(* do: the set lists the reservations, and each is filed under some pid.   *)
(***************************************************************************)
Table ==
  /\ taskset \in Seq(Ids)
  /\ last_task_id \in 0..MaxTaskId
  /\ DOMAIN task \subseteq 1..last_task_id
  /\ \A id \in DOMAIN task : "ptid" \in DOMAIN task[id]
  /\ TasksetExact

(***************************************************************************)
(* One request at a time: it is in the socket, or the daemon has it, or    *)
(* the reply is on its way.  A younger connection of a pid comes after the *)
(* older ones of that pid have closed.                                     *)
(***************************************************************************)
Dialogue ==
  \A k \in Conns :
    /\ conn[k].st = "none" <=> conn[k].pid = 0
    /\ conn[k].st # "none" =>
         \A j \in Conns : j < k => /\ conn[j].st # "none"
                                   /\ conn[j].pid = conn[k].pid => conn[j].st = "closed"
    /\ conn[k].in # NoMsg => /\ conn[k].st \in {"waiting", "closed"}
                             /\ conn[k].out = NoMsg
                             /\ conn[k].st = "waiting" => conn[k].in = conn[k].asked
    /\ conn[k].out # NoMsg => conn[k].st = "waiting" /\ conn[k].out.re = conn[k].asked
    /\ conn[k].in.type = "connect" => conn[k].in.pid = conn[k].pid
    /\ conn[k].in.type = "destroy" => owner[conn[k].in.id] = k
    /\ conn[k].st = "waiting" /\ conn[k].asked.type = "destroy"
         => conn[k].asked.id \notin conn[k].owns
    /\ conn[k].st \notin {"ready", "waiting"} => conn[k].owns = {}

\* Connection k has at most announced itself, and holds nothing.
Fresh(k) ==
  /\ conn[k].st \in {"new", "waiting", "closed"}
  /\ conn[k].in # NoMsg => conn[k].in.type = "connect"
  /\ conn[k].st = "waiting" => conn[k].asked.type = "connect"
  /\ conn[k].out = NoMsg
  /\ \A id \in DOMAIN task : owner[id] # k

(***************************************************************************)
(* Descriptors and the backlog: connections are accepted in the order they *)
(* were made, each on one descriptor, and a closed descriptor is clean.    *)
(***************************************************************************)
Wired ==
  /\ \A f, g \in Fds : fdconn[f] = fdconn[g] /\ fdconn[f] # 0 => f = g
  /\ \A i, j \in 1..Len(backlog) : i < j => backlog[i] < backlog[j]
  /\ \A i \in 1..Len(backlog) : /\ Fresh(backlog[i])
                                /\ \A f \in Fds : fdconn[f] < backlog[i]
  /\ \A f \in Fds : fdconn[f] # 0 => conn[fdconn[f]].st # "none"
  /\ \A f \in Fds : fdconn[f] = 0 => /\ client[f].state = "EMPTY" /\ client[f].pid = 0
                                     /\ f \notin connset

\* The client behind descriptor f has closed, and nothing is left to read.
LeftBehind(f) ==
  fdconn[f] # 0 /\ conn[fdconn[f]].st = "closed" /\ conn[fdconn[f]].in = NoMsg

(***************************************************************************)
(* A walk over the descriptors: what is behind the hand has been dealt     *)
(* with; what was received, or found gone, is ahead of it.                 *)
(***************************************************************************)
Received1(f) ==
  LET k == fdconn[f]
  IN  /\ hand # 0 /\ f >= hand
      /\ k # 0 /\ client[f].state = "CONNECTED"
      /\ conn[k].in = NoMsg /\ conn[k].out = NoMsg
      /\ conn[k].st \in {"waiting", "closed"}
      /\ conn[k].st = "waiting" => last_req[f] = conn[k].asked
      /\ last_req[f] # NoMsg
      /\ last_req[f].type = "connect" => last_req[f].pid = conn[k].pid
      /\ last_req[f].type = "destroy" => owner[last_req[f].id] = k

Round ==
  /\ failing # 0 => /\ failing = hand /\ client[failing].state = "EMPTY"
                    /\ LeftBehind(failing) /\ last_n[failing] # 1
  /\ deleting # NoPid => failing # 0 /\ deleting = client[failing].pid
  /\ failing # 0 /\ deleting = NoPid
       => \A id \in DOMAIN task : task[id].ptid # client[failing].pid
  /\ \A f \in Fds : Broken(f) => LeftBehind(f) /\ last_n[f] # 1
  /\ \A f \in Fds : fdconn[f] # 0 /\ f \notin connset =>
       /\ hand # 0 /\ f >= hand /\ LeftBehind(f)
       /\ client[f].state = "DISCONNECTED" \/ failing = f
  /\ \A f \in Fds : client[f].state = "DISCONNECTED" => f \notin connset
  /\ \A f \in Fds : last_n[f] = 1 => Received1(f)

(***************************************************************************)
(* A descriptor knows no pid, or that of its connection, which it learns   *)
(* before any other request is read.                                       *)
(***************************************************************************)
Introduced ==
  \A f \in Fds : fdconn[f] # 0 =>
    /\ client[f].pid \in {0, conn[fdconn[f]].pid}
    /\ client[f].pid = 0 => /\ Fresh(fdconn[f])
                            /\ last_n[f] = 1 => last_req[f].type = "connect"
    /\ client[f].state = "EMPTY" /\ failing # f => client[f].pid = 0

(***************************************************************************)
(* A reservation is filed under the pid of the connection it was made for, *)
(* and a granted one that is not yet known to its client is there.         *)
(***************************************************************************)
Filed ==
  /\ \A id \in Ids : id > last_task_id => owner[id] = 0
  /\ \A id \in DOMAIN task : owner[id] # 0 /\ task[id].ptid = conn[owner[id]].pid

Promises(k) ==
  conn[k].out # NoMsg /\ conn[k].out.rep.type = "create" /\ conn[k].out.rep.res # RTF_NO

Promised ==
  status = "up" =>
    \A k \in Conns : Promises(k) => /\ conn[k].out.rep.n \in DOMAIN task
                                    /\ owner[conn[k].out.rep.n] = k

(***************************************************************************)
(* Two descriptors whose connections have the same pid: the older client   *)
(* is gone, and the younger one holds nothing and has at most announced    *)
(* itself; not even that has been read while the older is still polled.    *)
(***************************************************************************)
Reuse ==
  \A f, g \in Fds :
    fdconn[g] # 0 /\ fdconn[g] < fdconn[f] /\ conn[fdconn[g]].pid = conn[fdconn[f]].pid =>
      /\ \A id \in DOMAIN task : owner[id] # fdconn[f]
      /\ last_n[f] = 1 => last_req[f].type = "connect"
      /\ g \in connset => /\ conn[fdconn[g]].in = NoMsg
                          /\ client[f].state = "EMPTY" /\ last_n[f] # 1

DInv ==
  /\ Types /\ Table /\ Dialogue /\ Wired /\ Round /\ Introduced /\ Filed /\ Promised /\ Reuse
  /\ NoOrphan /\ ClientKeepsReservations

-----------------------------------------------------------------------------
LEMMA Ranges ==
  /\ \A f \in Fds : f \in Nat /\ f # 0
  /\ \A k \in Conns : k \in Nat /\ k # 0
  /\ \A p \in Pids : p \in Nat /\ p # 0
BY DaemonAssumption, SchedulerAssumption DEF Fds, Conns

\* What the types say of single values.
LEMMA Places ==
  ASSUME Types, Table
  PROVE  /\ DOMAIN task \in SUBSET Ids
         /\ \A id \in DOMAIN task : owner[id] \in Conns \cup {0}
         /\ failing # 0 => failing \in Fds
         /\ hand # 0 => hand \in Fds
         /\ \A f \in Fds : fdconn[f] \in Nat /\ (fdconn[f] # 0 => fdconn[f] \in Conns)
BY Ranges, SchedulerAssumption, DaemonAssumption DEF Types, Table, Ids, Fds

LEMMA ConnFields ==
  ASSUME Types, NEW k \in Conns
  PROVE  /\ conn[k].pid \in Pids \cup {0}
         /\ conn[k].st \in {"none", "new", "ready", "waiting", "closed"}
         /\ conn[k].asked \in Messages /\ conn[k].in \in Messages
         /\ conn[k].owns \in SUBSET Ids
<1>1. PICK O : conn \in [Conns -> ConnType(O)]  BY DEF Types
<1> QED  BY <1>1 DEF ConnType

(***************************************************************************)
(* The clients.  A request is sent.                                        *)
(***************************************************************************)
LEMMA AskFacts ==
  ASSUME Types, NEW k \in Conns, NEW r \in Messages, Ask(k, r)
  PROVE  /\ \E O : conn' \in [Conns -> ConnType(O)]
         /\ \A j \in Conns \ {k} : conn'[j] = conn[j]
         /\ conn'[k].pid = conn[k].pid /\ conn'[k].st = "waiting"
         /\ conn'[k].asked = r /\ conn'[k].in = r /\ conn'[k].out = conn[k].out
         /\ conn'[k].owns = IF r.type = "destroy" THEN conn[k].owns \ {r.id} ELSE conn[k].owns
<1>1. PICK O : conn \in [Conns -> ConnType(O)]  BY DEF Types
<1> DEFINE o == IF r.type = "destroy" THEN conn[k].owns \ {r.id} ELSE conn[k].owns
<1>2. o \in SUBSET Ids  BY ConnFields
<1>3. conn' = [conn EXCEPT ![k].st = "waiting", ![k].asked = r, ![k].in = r, ![k].owns = o]
  BY DEF Ask
<1> HIDE DEF o
<1> DEFINE c == [conn[k] EXCEPT !.st = "waiting", !.asked = r, !.in = r, !.owns = o]
<1>4. conn' \in [Conns -> ConnType(O)]
  <2>1. c \in ConnType(O)  BY <1>1, <1>2 DEF ConnType
  <2>2. conn' = [conn EXCEPT ![k] = c]  BY <1>1, <1>3
  <2> HIDE DEF c
  <2> QED  BY <1>1, <2>1, <2>2
<1>5. /\ \A j \in Conns \ {k} : conn'[j] = conn[j]
      /\ conn'[k].pid = conn[k].pid /\ conn'[k].st = "waiting"
      /\ conn'[k].asked = r /\ conn'[k].in = r /\ conn'[k].out = conn[k].out
      /\ conn'[k].owns = o
  BY <1>1, <1>3 DEF ConnType
<1> QED  BY <1>4, <1>5 DEF o

LEMMA AskInv ==
  ASSUME DInv, NEW k \in Conns, NEW r \in Messages \ {NoMsg}, Ask(k, r),
         UNCHANGED backlog, clientUnchanged,
         conn[k].st \in {"new", "ready"}, conn[k].st = "new" => r.type = "connect",
         r.type = "connect" => r.pid = conn[k].pid, r.type = "destroy" => owner[r.id] = k
  PROVE  DInv'
<1>1. /\ \E O : conn' \in [Conns -> ConnType(O)]
      /\ \A j \in Conns \ {k} : conn'[j] = conn[j]
      /\ conn'[k].pid = conn[k].pid /\ conn'[k].st = "waiting"
      /\ conn'[k].asked = r /\ conn'[k].in = r /\ conn'[k].out = conn[k].out
      /\ conn'[k].owns = IF r.type = "destroy" THEN conn[k].owns \ {r.id} ELSE conn[k].owns
  BY AskFacts DEF DInv
<1>2. UNCHANGED <<vars, fdconn, connset, client, last_n, last_req, hand, failing, owner, alive,
                  backlog>>
  BY DEF clientUnchanged
<1>3. conn[k].out = NoMsg /\ conn[k].in = NoMsg  BY DEF DInv, Dialogue
<1>0. /\ \A id \in DOMAIN task : owner[id] \in Conns \cup {0}
      /\ failing # 0 => failing \in Fds
      /\ \A f \in Fds : fdconn[f] \in Nat /\ (fdconn[f] # 0 => fdconn[f] \in Conns)
  BY Places DEF DInv
<1>4. Types' /\ Table'  BY <1>1, <1>2 DEF DInv, Types, Table, TasksetExact, vars
<1>5. Dialogue'  BY <1>1, <1>2, <1>3, Ranges DEF DInv, Dialogue
<1>6. \A j \in Conns : Fresh(j) => Fresh(j)'  BY <1>1, <1>2, <1>3 DEF Fresh, vars
<1>7. Wired'  BY <1>1, <1>2, <1>6 DEF DInv, Wired, Types
<1>8. Round'
  <2>1. \A f \in Fds : LeftBehind(f) => LeftBehind(f)'  BY <1>0, <1>1, <1>2 DEF LeftBehind
  <2>2. \A f \in Fds : Received1(f) => Received1(f)'  BY <1>0, <1>1, <1>2 DEF Received1
  <2> QED  BY <1>0, <1>2, <2>1, <2>2 DEF DInv, Round, Broken, vars
<1>9. Introduced'  BY <1>1, <1>2, <1>6 DEF DInv, Introduced, Types
<1>10. Filed' /\ Promised'  BY <1>0, <1>1, <1>2, <1>3 DEF DInv, Filed, Promised, Promises, vars
<1>11. Reuse'
  <2>1. \A j \in Conns : conn'[j].pid = conn[j].pid  BY <1>1
  <2>2. \A j \in Conns : conn[j].st = "closed" => conn'[j].in = conn[j].in  BY <1>1
  <2> QED  BY <1>0, <1>2, <2>1, <2>2, Ranges DEF DInv, Reuse, Dialogue, Wired, vars
<1>12. NoOrphan' /\ ClientKeepsReservations'
  BY <1>1, <1>2 DEF DInv, NoOrphan, ClientKeepsReservations, vars
<1> QED  BY <1>4, <1>5, <1>7, <1>8, <1>9, <1>10, <1>11, <1>12 DEF DInv

LEMMA RequestsAreMessages ==
  ASSUME NEW k \in Conns, NEW r \in Requests(k)
  PROVE  /\ r \in Messages \ {NoMsg} /\ r.type # "connect"
         /\ r.type = "destroy" => owner[r.id] = k
<1>1. Given(k) \in SUBSET Ids /\ \A id \in Given(k) : owner[id] = k  BY DEF Given
<1>2. r.type # "none" /\ r.type # "connect"  BY DEF Requests
<1>3. r.type = "destroy" => r.id \in Given(k)  BY DEF Requests
<1>4. r \in Messages  BY <1>1 DEF Requests, Messages
<1> QED  BY <1>1, <1>2, <1>3, <1>4 DEF NoMsg

LEMMA AnnounceInv ==
  ASSUME DInv, NEW k \in Conns, Announce(k)
  PROVE  DInv'
<1> DEFINE r == [type |-> "connect", pid |-> conn[k].pid]
<1>1. conn[k].st = "new" /\ Ask(k, r) /\ UNCHANGED backlog /\ clientUnchanged  BY DEF Announce
<1>2. conn[k].pid \in Pids  BY <1>1, ConnFields DEF DInv, Dialogue
<1>3. r \in Messages \ {NoMsg}  BY <1>2 DEF Messages, NoMsg
<1>4. r.type = "connect" /\ r.pid = conn[k].pid  OBVIOUS
<1> HIDE DEF r
<1> QED  BY <1>1, <1>3, <1>4, AskInv

LEMMA SendInv ==
  ASSUME DInv, NEW k \in Conns, NEW r \in Requests(k), Send(k, r)
  PROVE  DInv'
BY RequestsAreMessages, AskInv DEF Send

(***************************************************************************)
(* A client receives, or exits: its connection has nothing to say or to    *)
(* hear any more, and what was in its socket stays there.                  *)
(***************************************************************************)
QuietStep(k, st, o) ==
  /\ \E O : conn' \in [Conns -> ConnType(O)]
  /\ \A j \in Conns \ {k} : conn'[j] = conn[j]
  /\ conn'[k].pid = conn[k].pid /\ conn'[k].st = st
  /\ conn'[k].asked = NoMsg /\ conn'[k].in = conn[k].in /\ conn'[k].out = NoMsg
  /\ conn'[k].owns = o

LEMMA QuietFacts ==
  ASSUME Types, NEW k \in Conns, NEW st \in {"ready", "closed"}, NEW o \in SUBSET Ids,
         conn' = [conn EXCEPT ![k].st = st, ![k].asked = NoMsg, ![k].out = NoMsg, ![k].owns = o]
  PROVE  QuietStep(k, st, o)
<1>1. PICK O : conn \in [Conns -> ConnType(O)]  BY DEF Types
<1> DEFINE P == O \cup {NoMsg}
           c == [conn[k] EXCEPT !.st = st, !.asked = NoMsg, !.out = NoMsg, !.owns = o]
<1>2. conn \in [Conns -> ConnType(P)]  BY <1>1 DEF ConnType
<1>3. c \in ConnType(P)
  <2>1. NoMsg \in P /\ NoMsg \in Messages  BY DEF Messages
  <2>2. conn[k] \in ConnType(P)  BY <1>2
  <2> HIDE DEF P
  <2> QED  BY <2>1, <2>2 DEF ConnType
<1>4. /\ c.pid = conn[k].pid /\ c.st = st /\ c.asked = NoMsg /\ c.in = conn[k].in
      /\ c.out = NoMsg /\ c.owns = o
  BY <1>1 DEF ConnType
<1>5. conn' = [conn EXCEPT ![k] = c]  BY <1>1
<1> HIDE DEF c, P
<1>6. conn' \in [Conns -> ConnType(P)]  BY <1>2, <1>3, <1>5
<1>7. conn'[k] = c /\ \A j \in Conns \ {k} : conn'[j] = conn[j]  BY <1>1, <1>5
<1> QED  BY <1>4, <1>6, <1>7 DEF QuietStep

LEMMA QuietConnInv ==
  ASSUME DInv, NEW k \in Conns, NEW st \in {"ready", "closed"}, NEW o \in SUBSET Ids,
         QuietStep(k, st, o), UNCHANGED backlog, clientUnchanged, Live(k),
         st = "ready" => conn[k].out # NoMsg,
         st = "closed" => o = {},
         \A id \in o : id \in DOMAIN task /\ owner[id] = k
  PROVE  DInv'
<1>1. /\ \E O : conn' \in [Conns -> ConnType(O)]
      /\ \A j \in Conns \ {k} : conn'[j] = conn[j]
      /\ conn'[k].pid = conn[k].pid /\ conn'[k].st = st
      /\ conn'[k].asked = NoMsg /\ conn'[k].in = conn[k].in /\ conn'[k].out = NoMsg
      /\ conn'[k].owns = o
  BY DEF QuietStep
<1>2. UNCHANGED <<vars, fdconn, connset, client, last_n, last_req, hand, failing, owner, alive,
                  backlog>>
  BY DEF clientUnchanged
<1>3. conn[k].st \notin {"none", "closed"}  BY DEF Live
<1>4. st = "ready" => conn[k].in = NoMsg  BY DEF DInv, Dialogue
<1>0. /\ \A id \in DOMAIN task : owner[id] \in Conns \cup {0}
      /\ failing # 0 => failing \in Fds
      /\ \A f \in Fds : fdconn[f] \in Nat /\ (fdconn[f] # 0 => fdconn[f] \in Conns)
      /\ DOMAIN task \in SUBSET Ids
  BY Places DEF DInv
<1>5. Types' /\ Table'  BY <1>1, <1>2 DEF DInv, Types, Table, TasksetExact, vars
<1>6. Dialogue'
  <2>1. conn[k].pid # 0  BY <1>3 DEF DInv, Dialogue
  <2>2. NoMsg.type = "none"  BY DEF NoMsg
  <2> QED  BY <1>1, <1>2, <1>3, <1>4, <2>1, <2>2, Ranges DEF DInv, Dialogue
<1>7. \A j \in Conns : Fresh(j) => Fresh(j)'  BY <1>1, <1>2, <1>3 DEF Fresh, vars
<1>8. Wired'  BY <1>1, <1>2, <1>7 DEF DInv, Wired, Types
<1>9. Round'
  <2>1. \A f \in Fds : LeftBehind(f) => LeftBehind(f)'  BY <1>0, <1>1, <1>2, <1>3 DEF LeftBehind
  <2>2. \A f \in Fds : Received1(f) => Received1(f)'  BY <1>0, <1>1, <1>2 DEF Received1
  <2> QED  BY <1>0, <1>2, <2>1, <2>2 DEF DInv, Round, Broken, vars
<1>10. Introduced'  BY <1>0, <1>1, <1>2, <1>7 DEF DInv, Introduced
<1>11. Filed' /\ Promised'  BY <1>0, <1>1, <1>2 DEF DInv, Filed, Promised, Promises, vars
<1>12. Reuse'
  <2>1. \A j \in Conns : conn'[j].pid = conn[j].pid /\ conn'[j].in = conn[j].in  BY <1>1
  <2> QED  BY <1>0, <1>2, <2>1, Ranges DEF DInv, Reuse, vars
<1>13. NoOrphan'  BY <1>2 DEF DInv, NoOrphan, vars
<1>14. ClientKeepsReservations'
  BY <1>1, <1>2 DEF DInv, ClientKeepsReservations, Filed, vars
<1> QED  BY <1>5, <1>6, <1>8, <1>9, <1>10, <1>11, <1>12, <1>13, <1>14 DEF DInv

LEMMA ReceiveInv ==
  ASSUME DInv, Running, NEW k \in Conns, Receive(k)
  PROVE  DInv'
<1> DEFINE o == IF conn[k].out.rep.type = "create" /\ conn[k].out.rep.res # RTF_NO
                THEN conn[k].owns \cup {conn[k].out.rep.n} ELSE conn[k].owns
<1>1. /\ conn[k].st = "waiting" /\ conn[k].out # NoMsg
      /\ UNCHANGED backlog /\ clientUnchanged
      /\ conn' = [conn EXCEPT ![k].st = "ready", ![k].asked = NoMsg, ![k].out = NoMsg,
                              ![k].owns = o]
  BY DEF Receive
<1>2. \A id \in o : id \in DOMAIN task /\ owner[id] = k
  BY <1>1 DEF Running, DInv, Promised, Promises, ClientKeepsReservations
<1>3. o \in SUBSET Ids  BY <1>2, Places DEF DInv
<1> HIDE DEF o
<1>4. QuietStep(k, "ready", o)  BY <1>1, <1>3, QuietFacts DEF DInv
<1> QED  BY <1>1, <1>2, <1>3, <1>4, QuietConnInv DEF Live

LEMMA ExitInv ==
  ASSUME DInv, NEW k \in Conns, Exit(k)
  PROVE  DInv'
<1>1. QuietStep(k, "closed", {})  BY QuietFacts DEF Exit, DInv
<1> QED  BY <1>1, QuietConnInv DEF Exit

(***************************************************************************)
(* A new connection: no descriptor and no reservation knows it yet.        *)
(***************************************************************************)
LEMMA ConnectInv ==
  ASSUME DInv, NEW k \in Conns, NEW pid \in Pids, Connect(k, pid)
  PROVE  DInv'
<1>0. /\ \A id \in DOMAIN task : owner[id] \in Conns \cup {0}
      /\ failing # 0 => failing \in Fds
      /\ \A f \in Fds : fdconn[f] \in Nat /\ (fdconn[f] # 0 => fdconn[f] \in Conns)
      /\ backlog \in Seq(Conns)
  BY Places DEF DInv, Types
<1>1. PICK O : conn \in [Conns -> ConnType(O)]  BY DEF DInv, Types
<1> DEFINE c == [conn[k] EXCEPT !.pid = pid, !.st = "new"]
<1>2. /\ c \in ConnType(O) /\ c.pid = pid /\ c.st = "new" /\ c.asked = conn[k].asked
      /\ c.in = conn[k].in /\ c.out = conn[k].out /\ c.owns = conn[k].owns
  BY <1>1 DEF ConnType
<1>3. conn' = [conn EXCEPT ![k] = c]  BY <1>1 DEF Connect
<1> HIDE DEF c
<1>4. /\ conn' \in [Conns -> ConnType(O)]
      /\ conn'[k] = c /\ \A j \in Conns \ {k} : conn'[j] = conn[j]
  BY <1>1, <1>2, <1>3
<1>5. /\ conn[k].st = "none"
      /\ \A j \in Conns : j < k => conn[j].st # "none"
      /\ \A j \in Conns : ~(Live(j) /\ conn[j].pid = pid)
      /\ backlog' = Append(backlog, k)
      /\ UNCHANGED <<vars, fdconn, connset, client, last_n, last_req, hand, failing, owner, alive>>
  BY DEF Connect, clientUnchanged, Conns
<1>6. /\ conn[k].in = NoMsg /\ conn[k].out = NoMsg /\ conn[k].owns = {}
      /\ \A j \in Conns : k < j => conn[j].st = "none"
  BY <1>5, Ranges DEF DInv, Dialogue
<1>7. \A f \in Fds : fdconn[f] # k  BY <1>5, Ranges DEF DInv, Wired
<1>8. \A id \in DOMAIN task : owner[id] # k  BY <1>7 DEF DInv, NoOrphan
<1>9. Types' /\ Table'  BY <1>4, <1>5 DEF DInv, Types, Table, TasksetExact, vars
<1>10. Dialogue'
  <2>1. \A j \in Conns : j < k /\ conn[j].pid = pid => conn[j].st = "closed"
    BY <1>5, ConnFields DEF Live, DInv
  <2>2. pid # 0 /\ NoMsg.type = "none"  BY Ranges DEF NoMsg
  <2>3. ASSUME NEW i \in Conns, conn'[i].st # "none", NEW j \in Conns, j < i
        PROVE  conn'[j].st # "none" /\ (conn'[j].pid = conn'[i].pid => conn'[j].st = "closed")
    BY <1>2, <1>4, <1>5, <1>6, <2>1, <2>3, Ranges DEF DInv, Dialogue
  <2>4. ASSUME NEW j \in Conns PROVE conn'[j].st = "none" <=> conn'[j].pid = 0
    BY <1>2, <1>4, <2>2 DEF DInv, Dialogue
  <2> QED  BY <1>2, <1>4, <1>5, <1>6, <2>2, <2>3, <2>4 DEF DInv, Dialogue
<1>11. \A j \in Conns : Fresh(j) => Fresh(j)'  BY <1>2, <1>4, <1>5, <1>6 DEF Fresh, vars
<1>12. Fresh(k)'  BY <1>2, <1>4, <1>5, <1>6, <1>8 DEF Fresh, vars
<1>13. Wired'
  <2>1. /\ Len(backlog') = Len(backlog) + 1 /\ backlog'[Len(backlog) + 1] = k
        /\ \A i \in 1..Len(backlog) : backlog'[i] = backlog[i] /\ backlog[i] \in Conns
        /\ Len(backlog) \in Nat
    BY <1>0, <1>5
  <2>2. \A j \in Conns : conn[j].st # "none" => j < k  BY <1>5, <1>6, Ranges
  <2>3. \A i \in 1..Len(backlog) : Fresh(backlog[i]) /\ backlog[i] < k
    BY <2>1, <2>2 DEF DInv, Wired, Fresh
  <2>4. \A f \in Fds : fdconn[f] < k  BY <1>0, <2>2, Ranges DEF DInv, Wired
  <2>5. ASSUME NEW i \in 1..Len(backlog'), NEW j \in 1..Len(backlog'), i < j
        PROVE  backlog'[i] < backlog'[j]
    BY <2>1, <2>3, <2>5 DEF DInv, Wired
  <2>6. (\A i \in 1..Len(backlog) : Fresh(backlog[i]) /\ \A f \in Fds : fdconn[f] < backlog[i])'
    BY <1>5, <1>11, <1>12, <2>1, <2>3, <2>4 DEF DInv, Wired
  <2>7. \A f \in Fds : fdconn[f] # 0 => conn'[fdconn[f]].st # "none"
    BY <1>0, <1>4, <1>7 DEF DInv, Wired
  <2> QED  BY <1>5, <2>5, <2>6, <2>7 DEF DInv, Wired
<1>14. Round'
  <2>1. \A f \in Fds : LeftBehind(f) => LeftBehind(f)'  BY <1>0, <1>4, <1>5, <1>7 DEF LeftBehind
  <2>2. \A f \in Fds : Received1(f) => Received1(f)'  BY <1>0, <1>4, <1>5, <1>7 DEF Received1
  <2> QED  BY <1>0, <1>5, <2>1, <2>2 DEF DInv, Round, Broken, vars
<1>15. Introduced'  BY <1>0, <1>4, <1>5, <1>7, <1>11 DEF DInv, Introduced
<1>16. Filed' /\ Promised'
  BY <1>0, <1>2, <1>4, <1>5, <1>6, <1>8 DEF DInv, Filed, Promised, Promises, vars
<1>17. Reuse'
  <2>1. \A f \in Fds : fdconn[f] # 0 => conn'[fdconn[f]] = conn[fdconn[f]]  BY <1>0, <1>4, <1>7
  <2>2. UNCHANGED <<fdconn, connset, client, last_n, last_req, owner, task>>  BY <1>5 DEF vars
  <2> SUFFICES ASSUME NEW f \in Fds, NEW g \in Fds, fdconn[g] # 0, fdconn[g] < fdconn[f],
                      conn'[fdconn[g]].pid = conn'[fdconn[f]].pid
               PROVE  /\ \A id \in DOMAIN task : owner[id] # fdconn[f]
                      /\ last_n[f] = 1 => last_req[f].type = "connect"
                      /\ g \in connset => /\ conn'[fdconn[g]].in = NoMsg
                                          /\ client[f].state = "EMPTY" /\ last_n[f] # 1
    BY <2>2 DEF Reuse
  <2>3. fdconn[f] # 0  BY <1>0, Ranges
  <2>4. conn'[fdconn[f]] = conn[fdconn[f]] /\ conn'[fdconn[g]] = conn[fdconn[g]]  BY <2>1, <2>3
  <2> QED  BY <2>4 DEF DInv, Reuse
<1>18. NoOrphan' /\ ClientKeepsReservations'
  BY <1>2, <1>4, <1>5, <1>6 DEF DInv, NoOrphan, ClientKeepsReservations, vars
<1> QED  BY <1>9, <1>10, <1>13, <1>14, <1>15, <1>16, <1>17, <1>18 DEF DInv

-----------------------------------------------------------------------------
(***************************************************************************)
(* rtf_carrier_update.  Between two walks every open descriptor is polled  *)
(* and nothing is left over of the walk before.                            *)
(***************************************************************************)
LEMMA BetweenWalks ==
  ASSUME DInv, hand = 0
  PROVE  /\ failing = 0 /\ deleting = NoPid
         /\ \A f \in Fds : f \in connset <=> fdconn[f] # 0
         /\ \A f \in Fds : last_n[f] # 1 /\ client[f].state # "DISCONNECTED"
         /\ \A f \in Fds : client[f].state = "ERROR" => f \in connset /\ LeftBehind(f)
<1>1. failing = 0 /\ deleting = NoPid  BY DEF DInv, Round
<1>2. \A f \in Fds : f \in connset <=> fdconn[f] # 0  BY DEF DInv, Round, Wired
<1>3. \A f \in Fds : last_n[f] # 1  BY DEF DInv, Round, Received1
<1>4. \A f \in Fds : Broken(f) => LeftBehind(f) /\ f \in connset
  BY <1>2 DEF DInv, Round, LeftBehind
<1>5. \A f \in Fds : client[f].state # "DISCONNECTED"  BY <1>4 DEF DInv, Round, Broken
<1> QED  BY <1>1, <1>2, <1>3, <1>4, <1>5 DEF Broken

\* What one receive per ready descriptor makes of the descriptors ...
LEMMA ReceivedFacts ==
  ASSUME DInv, hand = 0, NEW f \in Fds
  PROVE  /\ Received(f) \in {-1, 0, 1}
         /\ Received(f) = 1 <=> f \in connset /\ HasData(f)
         /\ Received(f) = -1 <=> f \in connset /\ AtEnd(f)
         /\ NextState(client[f].state, Received(f)) =
              IF Received(f) = 1 THEN "CONNECTED"
              ELSE IF Received(f) = -1 THEN "DISCONNECTED" ELSE client[f].state
<1>1. /\ Received(f) \in {-1, 0, 1}
      /\ Received(f) = 1 <=> f \in connset /\ HasData(f)
      /\ Received(f) = -1 <=> f \in connset /\ AtEnd(f)
  BY DEF Received, Ready, AtEnd
<1>2. client[f].state \in {"EMPTY", "CONNECTED", "ERROR"}
  BY BetweenWalks DEF DInv, Types, ClientType
<1>3. client[f].state = "ERROR" => Received(f) = -1
  BY <1>1, BetweenWalks DEF LeftBehind, AtEnd, HasData
<1> QED  BY <1>1, <1>2, <1>3 DEF NextState

\* ... and of the connections and of the descriptor that is accepted.
LEMMA UpdateFacts ==
  ASSUME DInv, Update
  PROVE  /\ \E O : conn' \in [Conns -> ConnType(O)]
         /\ \A k \in Conns : /\ conn'[k].pid = conn[k].pid /\ conn'[k].st = conn[k].st
                             /\ conn'[k].asked = conn[k].asked /\ conn'[k].out = conn[k].out
                             /\ conn'[k].owns = conn[k].owns
                             /\ conn'[k].in \in {NoMsg, conn[k].in}
         /\ \A f \in connset : conn'[fdconn[f]].in = NoMsg
         /\ \A f \in Fds : client'[f].pid = client[f].pid
         /\ \A f \in Fds : client'[f].state = NextState(client[f].state, Received(f))
         /\ \A f \in Fds : last_n'[f] = Received(f)
         /\ \A f \in Fds : Received(f) = 1 => last_req'[f] = conn[fdconn[f]].in
<1>1. PICK O : conn \in [Conns -> ConnType(O)]  BY DEF DInv, Types
<1>2. conn' = [k \in Conns |-> IF \E f \in Ready : fdconn[f] = k
                               THEN [conn[k] EXCEPT !.in = NoMsg] ELSE conn[k]]
  BY DEF Update
<1>3. ASSUME NEW k \in Conns
      PROVE  /\ [conn[k] EXCEPT !.in = NoMsg] \in ConnType(O)
             /\ conn'[k].pid = conn[k].pid /\ conn'[k].st = conn[k].st
             /\ conn'[k].asked = conn[k].asked /\ conn'[k].out = conn[k].out
             /\ conn'[k].owns = conn[k].owns
             /\ conn'[k].in \in {NoMsg, conn[k].in}
             /\ (\E f \in Ready : fdconn[f] = k) => conn'[k].in = NoMsg
  <2>1. NoMsg \in Messages  BY DEF Messages
  <2>2. conn[k] \in ConnType(O)  BY <1>1
  <2> HIDE DEF Messages, NoMsg
  <2> QED  BY <1>2, <2>1, <2>2 DEF ConnType
<1>4. conn' \in [Conns -> ConnType(O)]  BY <1>1, <1>2, <1>3
<1>5. ASSUME NEW f \in connset PROVE conn'[fdconn[f]].in = NoMsg
  <2>1. f \in Fds /\ fdconn[f] \in Conns  BY Places DEF DInv, Types, Wired
  <2>2. CASE HasData(f)  BY <1>3, <2>1, <2>2 DEF Ready
  <2>3. CASE ~HasData(f)  BY <1>3, <2>1, <2>3 DEF HasData
  <2> QED  BY <2>2, <2>3
<1>6. \A f \in Fds : /\ client'[f].pid = client[f].pid
                     /\ client'[f].state = NextState(client[f].state, Received(f))
  BY DEF Update, DInv, Types, ClientType
<1>7. \A f \in Fds : /\ last_n'[f] = Received(f)
                     /\ Received(f) = 1 => last_req'[f] = conn[fdconn[f]].in
  BY DEF Update
<1> QED  BY <1>3, <1>4, <1>5, <1>6, <1>7

LEMMA AcceptedFacts ==
  ASSUME DInv, Update
  PROVE  \/ /\ Accepted \in Fds /\ fdconn[Accepted] = 0
            /\ Len(backlog) \in Nat \ {0} /\ Head(backlog) = backlog[1] /\ backlog[1] \in Conns
            /\ backlog' \in Seq(Conns) /\ Len(backlog') = Len(backlog) - 1
            /\ \A i \in 1..Len(backlog') : backlog'[i] = backlog[i + 1]
         \/ Accepted = 0 /\ backlog' = backlog
<1>1. backlog \in Seq(Conns)  BY DEF DInv, Types
<1>2. CASE CanAccept
  <2>1. FreeFds \in SUBSET Nat /\ FreeFds # {} /\ backlog # <<>>
    BY <1>2, Ranges DEF CanAccept, FreeFds
  <2>2. Accepted \in FreeFds  BY <1>2, <2>1, MinIn DEF Accepted
  <2>3. backlog' = Tail(backlog)  BY <1>2 DEF Update
  <2> QED  BY <1>1, <2>1, <2>2, <2>3 DEF FreeFds
<1>3. CASE ~CanAccept  BY <1>3 DEF Update, Accepted
<1> QED  BY <1>2, <1>3

LEMMA UpdateInv ==
  ASSUME DInv, Update
  PROVE  DInv'
<1> DEFINE a == Accepted
<1>0. /\ \A id \in DOMAIN task : owner[id] \in Conns \cup {0}
      /\ \A f \in Fds : fdconn[f] \in Nat /\ (fdconn[f] # 0 => fdconn[f] \in Conns)
  BY Places DEF DInv
<1>1. /\ \E O : conn' \in [Conns -> ConnType(O)]
      /\ \A k \in Conns : /\ conn'[k].pid = conn[k].pid /\ conn'[k].st = conn[k].st
                          /\ conn'[k].asked = conn[k].asked /\ conn'[k].out = conn[k].out
                          /\ conn'[k].owns = conn[k].owns
                          /\ conn'[k].in \in {NoMsg, conn[k].in}
      /\ \A f \in connset : conn'[fdconn[f]].in = NoMsg
      /\ \A f \in Fds : client'[f].pid = client[f].pid
      /\ \A f \in Fds : last_n'[f] = Received(f)
      /\ \A f \in Fds : Received(f) = 1 => last_req'[f] = conn[fdconn[f]].in
  BY UpdateFacts
<1>2. hand = 0 /\ hand' = 1 /\ UNCHANGED <<vars, failing, owner, alive>>  BY DEF Update
<1>3. /\ failing = 0 /\ deleting = NoPid
      /\ \A f \in Fds : f \in connset <=> fdconn[f] # 0
  BY <1>2, BetweenWalks
<1>4. \A f \in Fds : /\ Received(f) \in {-1, 0, 1}
                     /\ Received(f) = 1 <=> f \in connset /\ HasData(f)
                     /\ Received(f) = -1 <=> f \in connset /\ AtEnd(f)
  BY <1>2, ReceivedFacts
<1>5. \A f \in Fds : client'[f].state = IF Received(f) = 1 THEN "CONNECTED"
                                         ELSE IF Received(f) = -1 THEN "DISCONNECTED"
                                         ELSE client[f].state
  BY <1>2, UpdateFacts, ReceivedFacts
<1>6. \/ /\ a \in Fds /\ fdconn[a] = 0
         /\ Len(backlog) \in Nat \ {0} /\ Head(backlog) = backlog[1] /\ backlog[1] \in Conns
         /\ backlog' \in Seq(Conns) /\ Len(backlog') = Len(backlog) - 1
         /\ \A i \in 1..Len(backlog') : backlog'[i] = backlog[i + 1]
      \/ a = 0 /\ backlog' = backlog
  BY AcceptedFacts
<1>7. /\ \A f \in Fds : fdconn'[f] = IF f = a THEN Head(backlog) ELSE fdconn[f]
      /\ connset' = (connset \ {f \in Ready : ~HasData(f)}) \cup ({a} \ {0})
  BY DEF Update
<1> HIDE DEF a
<1>8. a \notin connset /\ (a \in Fds => Received(a) = 0)
  BY <1>3, <1>4, <1>6, Ranges DEF DInv, Types
<1>9. \A f \in Fds : f \in connset' <=> f = a \/ (f \in connset /\ Received(f) # -1)
  BY <1>4, <1>7, <1>8, Ranges DEF Ready, AtEnd
<1>10. \A f \in Fds : f # a => fdconn'[f] = fdconn[f]  BY <1>7
<1>11. a \in Fds => /\ fdconn'[a] = backlog[1] /\ backlog[1] \in Conns /\ 1 \in 1..Len(backlog)
                    /\ \A f \in Fds : fdconn[f] < backlog[1]
  BY <1>6, <1>7, Ranges DEF DInv, Wired
<1>12. \A k \in Conns : Fresh(k) => Fresh(k)'
  BY <1>1, <1>2 DEF Fresh, vars
<1>13. Types' /\ Table'
  <2>1. backlog' \in Seq(Conns)  BY <1>6 DEF DInv, Types
  <2>2. fdconn' \in [Fds -> Conns \cup {0}]  BY <1>6, <1>11 DEF Update, DInv, Types, a
  <2>3. connset' \in SUBSET Fds  BY <1>6, <1>7, Ranges DEF DInv, Types
  <2>4. client' \in [Fds -> ClientType]
    <3>1. ASSUME NEW f \in Fds
          PROVE  [client[f] EXCEPT !.state = NextState(@, Received(f))] \in ClientType
      <4>1. client[f] \in ClientType  BY DEF DInv, Types
      <4>2. NextState(client[f].state, Received(f))
              \in {"EMPTY", "CONNECTED", "DISCONNECTED", "ERROR"}
        BY DEF NextState
      <4> QED  BY <4>1, <4>2 DEF ClientType
    <3> QED  BY <3>1 DEF Update
  <2>5. last_n' \in [Fds -> {-1, 0, 1}]  BY <1>4 DEF Update
  <2>6. last_req' \in [Fds -> Messages]
    <3>1. ASSUME NEW f \in Fds, Received(f) = 1 PROVE conn[fdconn[f]].in \in Messages
      BY <1>0, <1>3, <1>4, <3>1, ConnFields DEF DInv
    <3> QED  BY <3>1 DEF Update, DInv, Types
  <2>7. hand' \in 0..MaxFd  BY <1>2, DaemonAssumption
  <2> QED  BY <1>1, <1>2, <2>1, <2>2, <2>3, <2>4, <2>5, <2>6, <2>7
           DEF DInv, Types, Table, TasksetExact, vars
<1>14. Dialogue'
  <2>1. NoMsg.type = "none"  BY DEF NoMsg
  <2> QED  BY <1>1, <1>2, <2>1 DEF DInv, Dialogue
<1>15. Wired'
  <2>1. ASSUME NEW f \in Fds, NEW g \in Fds, fdconn'[f] = fdconn'[g], fdconn'[f] # 0 PROVE f = g
    BY <1>0, <1>6, <1>10, <1>11, <2>1, Ranges DEF DInv, Wired
  <2>2. \A i, j \in 1..Len(backlog') : i < j => backlog'[i] < backlog'[j]
    <3>1. \A i, j \in 1..Len(backlog) : i < j => backlog[i] < backlog[j]  BY DEF DInv, Wired
    <3>2. CASE backlog' = backlog  BY <3>1, <3>2
    <3>3. CASE /\ Len(backlog) \in Nat \ {0} /\ Len(backlog') = Len(backlog) - 1
               /\ \A i \in 1..Len(backlog') : backlog'[i] = backlog[i + 1]
      <4> SUFFICES ASSUME NEW i \in 1..Len(backlog'), NEW j \in 1..Len(backlog'), i < j
                   PROVE  backlog'[i] < backlog'[j]
        OBVIOUS
      <4>1. i + 1 \in 1..Len(backlog) /\ j + 1 \in 1..Len(backlog) /\ i + 1 < j + 1  BY <3>3
      <4>2. backlog[i + 1] < backlog[j + 1]  BY <3>1, <4>1
      <4> QED  BY <3>3, <4>2
    <3> QED  BY <1>6, <3>2, <3>3
  <2>3. (\A i \in 1..Len(backlog) : Fresh(backlog[i]) /\ \A f \in Fds : fdconn[f] < backlog[i])'
    <3>1. CASE a = 0 /\ backlog' = backlog
      BY <1>6, <1>10, <1>12, <3>1, Ranges DEF DInv, Wired, Types
    <3>2. CASE a \in Fds
      <4>1. \A i \in 1..Len(backlog') : /\ i + 1 \in 1..Len(backlog) /\ backlog'[i] = backlog[i + 1]
                                        /\ backlog[i + 1] \in Conns
        <5>1. /\ Len(backlog) \in Nat /\ Len(backlog') = Len(backlog) - 1
              /\ \A i \in 1..Len(backlog') : backlog'[i] = backlog[i + 1]
          BY <1>6, <3>2, Ranges
        <5>2. \A i \in 1..Len(backlog) : backlog[i] \in Conns  BY DEF DInv, Types
        <5> QED  BY <5>1, <5>2
      <4>2. \A i \in 1..Len(backlog') : backlog[1] < backlog[i + 1]
        BY <1>11, <3>2, <4>1 DEF DInv, Wired
      <4>3. \A i \in 1..Len(backlog'), k \in Conns : k = backlog'[i] => Fresh(k)'
        BY <1>12, <4>1 DEF DInv, Wired
      <4> QED  BY <1>10, <1>11, <3>2, <4>1, <4>2, <4>3 DEF DInv, Wired
    <3> QED  BY <1>6, <3>1, <3>2
  <2>4. \A f \in Fds : fdconn'[f] # 0 => conn'[fdconn'[f]].st # "none"
    BY <1>0, <1>1, <1>10, <1>11 DEF DInv, Wired, Fresh
  <2>5. \A f \in Fds : fdconn'[f] = 0 => /\ client'[f].state = "EMPTY" /\ client'[f].pid = 0
                                         /\ f \notin connset'
    BY <1>1, <1>3, <1>4, <1>5, <1>9, <1>10, <1>11, Ranges DEF DInv, Wired
  <2> QED  BY <2>1, <2>2, <2>3, <2>4, <2>5 DEF Wired
<1>16. \A f \in Fds : Received(f) = -1 => LeftBehind(f)'
  BY <1>0, <1>1, <1>3, <1>4, <1>8, <1>10 DEF LeftBehind, AtEnd, HasData
<1>17. Round'
  <2>1. \A f \in Fds : Broken(f)' => Received(f) = -1
    <3>1. \A f \in Fds : Broken(f) => Received(f) = -1
      BY <1>2, <1>4, BetweenWalks DEF Broken, LeftBehind, AtEnd, HasData
    <3> QED  BY <1>5, <3>1 DEF Broken
  <2>2. \A f \in Fds : Broken(f)' => LeftBehind(f)' /\ last_n'[f] # 1  BY <1>1, <1>16, <2>1
  <2>3. \A f \in Fds : fdconn'[f] # 0 /\ f \notin connset'
          => hand' # 0 /\ f >= hand' /\ LeftBehind(f)' /\ client'[f].state = "DISCONNECTED"
    BY <1>2, <1>3, <1>5, <1>9, <1>10, <1>16, Ranges
  <2>4. \A f \in Fds : client'[f].state = "DISCONNECTED" => f \notin connset'
    BY <1>8, <1>9, <2>1 DEF Broken
  <2>5. ASSUME NEW f \in Fds, last_n'[f] = 1 PROVE Received1(f)'
    <3>1. f # a /\ f \in connset /\ Received(f) = 1 /\ conn[fdconn[f]].in # NoMsg
      BY <1>1, <1>4, <1>8, <2>5 DEF HasData
    <3>2. fdconn'[f] = fdconn[f] /\ fdconn[f] \in Conns /\ fdconn[f] # 0
      BY <1>0, <1>3, <1>10, <3>1
    <3>3. client'[f].state = "CONNECTED" /\ last_req'[f] = conn[fdconn[f]].in
      BY <1>1, <1>5, <3>1
    <3> QED  BY <1>1, <1>2, <3>1, <3>2, <3>3, Ranges DEF Received1, DInv, Dialogue
  <2> QED  BY <1>2, <1>3, <2>2, <2>3, <2>4, <2>5 DEF Round, vars
<1>18. Introduced'
  <2> SUFFICES ASSUME NEW f \in Fds, NEW k \in Nat, k = fdconn'[f], k # 0
               PROVE  /\ client'[f].pid \in {0, conn'[k].pid}
                      /\ client'[f].pid = 0 => /\ Fresh(k)'
                                               /\ last_n'[f] = 1 => last_req'[f].type = "connect"
                      /\ client'[f].state = "EMPTY" => client'[f].pid = 0
    <3>1. \A f \in Fds : fdconn'[f] \in Nat  BY <1>0, <1>10, <1>11, Ranges
    <3> QED  BY <1>2, <1>3, <3>1, Ranges DEF Introduced
  <2>1. CASE f = a
    <3>1. client[f].pid = 0 /\ fdconn'[f] = backlog[1] /\ last_n'[f] # 1
      BY <1>1, <1>6, <1>8, <1>11, <2>1, Ranges DEF DInv, Wired
    <3>2. Fresh(k)'  BY <1>11, <1>12, <2>1 DEF DInv, Wired
    <3> QED  BY <1>1, <3>1, <3>2
  <2>2. CASE f # a
    <3>1. fdconn'[f] = fdconn[f] /\ fdconn[f] # 0 /\ fdconn[f] \in Conns  BY <1>0, <1>10, <2>2
    <3>2. client[f].pid = 0 => Fresh(fdconn[f])  BY <3>1 DEF DInv, Introduced
    <3>3. Fresh(k) => Fresh(k)'  BY <1>12, <3>1
    <3>4. client[f].pid = 0 /\ last_n'[f] = 1 => last_req'[f].type = "connect"
      BY <1>1, <1>4, <3>2 DEF HasData, Fresh
    <3> QED  BY <1>1, <1>3, <1>5, <3>1, <3>2, <3>3, <3>4, Ranges DEF DInv, Introduced
  <2> QED  BY <2>1, <2>2
<1>19. Filed' /\ Promised'  BY <1>0, <1>1, <1>2 DEF DInv, Filed, Promised, Promises, vars
<1>20. Reuse'
  <2> SUFFICES ASSUME NEW f \in Fds, NEW g \in Fds, fdconn'[g] # 0, fdconn'[g] < fdconn'[f],
                      conn'[fdconn'[g]].pid = conn'[fdconn'[f]].pid
               PROVE  /\ \A id \in DOMAIN task : owner[id] # fdconn'[f]
                      /\ last_n'[f] = 1 => last_req'[f].type = "connect"
                      /\ g \in connset' => /\ conn'[fdconn'[g]].in = NoMsg
                                           /\ client'[f].state = "EMPTY" /\ last_n'[f] # 1
    BY <1>2 DEF Reuse, vars
  <2>1. g # a
    BY <1>0, <1>10, <1>11, Ranges
  <2>2. /\ fdconn'[g] = fdconn[g] /\ fdconn[g] # 0 /\ fdconn[g] \in Conns /\ g \in connset
        /\ conn'[fdconn[g]].in = NoMsg
    BY <1>0, <1>1, <1>3, <1>10, <2>1
  <2>3. CASE f = a
    <3>1. fdconn'[f] = backlog[1] /\ Fresh(backlog[1])  BY <1>11, <2>3 DEF DInv, Wired
    <3>2. client'[f].state = "EMPTY" /\ last_n'[f] # 1
      BY <1>1, <1>5, <1>6, <1>8, <2>3, Ranges DEF DInv, Wired
    <3> QED  BY <2>2, <3>1, <3>2 DEF Fresh
  <2>4. CASE f # a
    <3>1. fdconn'[f] = fdconn[f] /\ fdconn[f] \in Conns  BY <1>0, <1>10, <2>2, <2>4, Ranges
    <3>2. fdconn[g] < fdconn[f] /\ conn[fdconn[g]].pid = conn[fdconn[f]].pid
      BY <1>1, <2>2, <3>1
    <3>3. /\ \A id \in DOMAIN task : owner[id] # fdconn[f]
          /\ conn[fdconn[g]].in = NoMsg /\ client[f].state = "EMPTY"
      BY <2>2, <3>2 DEF DInv, Reuse
    <3>4. conn[fdconn[g]].st = "closed"
      <4>1. conn[fdconn[f]].st # "none"  BY <3>1, Ranges DEF DInv, Wired
      <4> QED  BY <2>2, <3>1, <3>2, <4>1 DEF DInv, Dialogue
    <3>5. g \notin connset'  BY <1>4, <1>9, <2>1, <2>2, <3>3, <3>4 DEF AtEnd, HasData
    <3>6. last_n'[f] = 1 => last_req'[f].type = "connect"
      <4>1. client[f].pid = 0 /\ Fresh(fdconn[f])
        BY <1>3, <3>1, <3>3, Ranges DEF DInv, Introduced
      <4> QED  BY <1>1, <1>4, <4>1 DEF Fresh, HasData
    <3> QED  BY <3>1, <3>3, <3>5, <3>6
  <2> QED  BY <2>3, <2>4
<1>21. NoOrphan'
  <2> SUFFICES ASSUME NEW id \in DOMAIN task
               PROVE  \E f \in Fds : /\ fdconn'[f] = owner[id] /\ client'[f].pid = task[id].ptid
                                     /\ client'[f].state # "EMPTY"
    BY <1>2 DEF NoOrphan, vars
  <2>1. PICK f \in Fds : fdconn[f] = owner[id] /\ client[f].pid = task[id].ptid
                         /\ (client[f].state # "EMPTY" \/ failing = f)
    BY DEF DInv, NoOrphan
  <2>2. owner[id] # 0 /\ client[f].state # "EMPTY"  BY <1>3, <2>1, Ranges DEF DInv, Filed
  <2>3. fdconn'[f] = fdconn[f]  BY <1>6, <1>10, <2>1, <2>2, Ranges
  <2> QED  BY <1>1, <1>5, <2>1, <2>2, <2>3
<1>22. ClientKeepsReservations'
  BY <1>1, <1>2 DEF DInv, ClientKeepsReservations, vars
<1> QED  BY <1>13, <1>14, <1>15, <1>17, <1>18, <1>19, <1>20, <1>21, <1>22 DEF DInv

\* select is interrupted: nothing is received, and the walk begins.
LEMMA InterruptedInv ==
  ASSUME DInv, Interrupted
  PROVE  DInv'
<1>1. /\ hand = 0 /\ hand' = 1 /\ \A f \in Fds : last_n'[f] = 0
      /\ UNCHANGED <<vars, conn, backlog, fdconn, connset, client, last_req, failing, owner, alive>>
  BY DEF Interrupted
<1>2. /\ failing = 0 /\ deleting = NoPid
      /\ \A f \in Fds : f \in connset <=> fdconn[f] # 0
  BY <1>1, BetweenWalks
<1>3. Types'  BY <1>1, DaemonAssumption DEF Interrupted, DInv, Types
<1>4. Table' /\ Dialogue' /\ Filed' /\ Promised' /\ NoOrphan' /\ ClientKeepsReservations'
  BY <1>1 DEF DInv, Table, TasksetExact, Dialogue, Filed, Promised, Promises, NoOrphan,
              ClientKeepsReservations, vars
<1>5. Wired' /\ Introduced' /\ Reuse'  BY <1>1 DEF DInv, Wired, Introduced, Reuse, Fresh, vars
<1>6. Round'  BY <1>1, <1>2 DEF DInv, Round, Broken, LeftBehind, vars
<1> QED  BY <1>3, <1>4, <1>5, <1>6 DEF DInv

-----------------------------------------------------------------------------
(***************************************************************************)
(* The walk.  The hand moves on to the next descriptor, or to zero.        *)
(***************************************************************************)
LEMMA HandMoves ==
  ASSUME hand \in Fds, NextHand
  PROVE  hand' \in 0..MaxFd /\ \A f \in Fds : f > hand => hand' # 0 /\ f >= hand'
<1>1. MaxFd \in Nat /\ hand \in 1..MaxFd  BY DaemonAssumption DEF Fds
<1>2. hand' = (hand + 1) % (MaxFd + 1)  BY DEF NextHand
<1>3. CASE hand = MaxFd
  <2>1. (hand + 1) % (MaxFd + 1) = 0  BY <1>1, <1>3
  <2> QED  BY <1>1, <1>2, <1>3, <2>1 DEF Fds
<1>4. CASE hand < MaxFd
  <2>1. (hand + 1) % (MaxFd + 1) = hand + 1  BY <1>1, <1>4
  <2> QED  BY <1>1, <1>2, <1>4, <2>1 DEF Fds
<1> QED  BY <1>1, <1>3, <1>4

LEMMA SkipInv ==
  ASSUME DInv, Skip
  PROVE  DInv'
<1>1. /\ hand # 0 /\ failing = 0 /\ ~Broken(hand) /\ ~Updated(hand) /\ NextHand
      /\ UNCHANGED <<vars, conn, backlog, fdconn, connset, client, last_n, last_req, failing,
                     owner, alive>>
  BY DEF Skip, AtHand
<1>2. hand \in Fds  BY <1>1, Places DEF DInv
<1>3. hand' \in 0..MaxFd /\ \A f \in Fds : f > hand => hand' # 0 /\ f >= hand'
  BY <1>1, <1>2, HandMoves
<1>4. Types'  BY <1>1, <1>3 DEF DInv, Types
<1>5. Table' /\ Dialogue' /\ Filed' /\ Promised' /\ NoOrphan' /\ ClientKeepsReservations'
  BY <1>1 DEF DInv, Table, TasksetExact, Dialogue, Filed, Promised, Promises, NoOrphan,
              ClientKeepsReservations, vars
<1>6. Wired' /\ Introduced' /\ Reuse'  BY <1>1 DEF DInv, Wired, Introduced, Reuse, Fresh, vars
<1>7. Round'
  <2>1. \A f \in Fds : last_n[f] = 1 => f > hand
    BY <1>1, <1>2, Ranges DEF DInv, Round, Received1, Updated
  <2>2. \A f \in Fds : last_n[f] = 1 => Received1(f)'
    BY <1>1, <1>3, <2>1 DEF DInv, Round, Received1
  <2>3. \A f \in Fds : fdconn[f] # 0 /\ f \notin connset => f > hand
    BY <1>1, <1>2, Ranges DEF DInv, Round, Broken
  <2>4. \A f \in Fds : LeftBehind(f)' <=> LeftBehind(f)  BY <1>1 DEF LeftBehind
  <2> QED  BY <1>1, <1>3, <2>2, <2>3, <2>4 DEF DInv, Round, Broken, vars
<1> QED  BY <1>4, <1>5, <1>6, <1>7 DEF DInv

(***************************************************************************)
(* rtf_daemon_check_for_fail begins: the descriptor is marked empty, and   *)
(* keeps its pid while the reservations of that pid are deleted.           *)
(***************************************************************************)
LEMMA FailBeginInv ==
  ASSUME DInv, FailBegin
  PROVE  DInv'
<1>1. /\ hand # 0 /\ failing = 0 /\ Broken(hand)
      /\ client' = [client EXCEPT ![hand].state = "EMPTY"]
      /\ failing' = hand /\ deleting' = client[hand].pid
      /\ UNCHANGED <<conn, backlog, fdconn, connset, last_n, last_req, hand, owner, alive,
                     taskset, task, plugin, last_task_id, kern, status>>
  BY DEF FailBegin, AtHand, DeleteBegin
<1>2. hand \in Fds /\ client \in [Fds -> ClientType]  BY <1>1, Places DEF DInv, Types
<1>3. /\ client' \in [Fds -> ClientType]
      /\ client'[hand].state = "EMPTY" /\ client'[hand].pid = client[hand].pid
      /\ \A f \in Fds \ {hand} : client'[f] = client[f]
      /\ client[hand].pid # NoPid
  <2>1. [client[hand] EXCEPT !.state = "EMPTY"] \in ClientType  BY <1>2 DEF ClientType
  <2>2. client[hand].pid \in Pids \cup {0}  BY <1>2 DEF ClientType
  <2> QED  BY <1>1, <1>2, <2>1, <2>2, Ranges DEF ClientType, NoPid
<1>4. Types'  BY <1>1, <1>2, <1>3 DEF DInv, Types
<1>5. Table' /\ Dialogue' /\ Filed' /\ Promised' /\ ClientKeepsReservations'
  BY <1>1 DEF DInv, Table, TasksetExact, Dialogue, Filed, Promised, Promises,
              ClientKeepsReservations
<1>6. LeftBehind(hand) /\ last_n[hand] # 1  BY <1>1, <1>2 DEF DInv, Round
<1>7. \A k : Fresh(k)' <=> Fresh(k)  BY <1>1 DEF Fresh
<1>8. Wired'  BY <1>1, <1>2, <1>3, <1>6, <1>7 DEF DInv, Wired, LeftBehind
<1>9. Introduced'  BY <1>1, <1>2, <1>3, <1>7, Ranges DEF DInv, Introduced
<1>10. Reuse'  BY <1>1, <1>2, <1>3 DEF DInv, Reuse
<1>11. Round'
  <2>1. \A f \in Fds : LeftBehind(f)' <=> LeftBehind(f)  BY <1>1 DEF LeftBehind
  <2>2. \A f \in Fds : last_n[f] = 1 => Received1(f)'
    BY <1>1, <1>3, <1>6 DEF DInv, Round, Received1
  <2> QED  BY <1>1, <1>2, <1>3, <1>6, <2>1, <2>2, Ranges DEF DInv, Round, Broken
<1>12. NoOrphan'
  <2>1. ASSUME NEW f \in Fds, client[f].state # "EMPTY"
        PROVE  client'[f].pid = client[f].pid /\ (client'[f].state # "EMPTY" \/ failing' = f)
    BY <1>1, <1>3, <2>1
  <2> QED  BY <1>1, <2>1, Ranges DEF DInv, NoOrphan
<1> QED  BY <1>4, <1>5, <1>8, <1>9, <1>10, <1>11, <1>12 DEF DInv

(***************************************************************************)
(* rtf_scheduler_delete looks for a pid, not for a connection.  It finds   *)
(* reservations of clients that are gone, and no others: when a pid was    *)
(* given again, the younger connection holds nothing yet.                  *)
(***************************************************************************)
LEMMA DeletedAreLeft ==
  ASSUME DInv, NEW id \in DOMAIN task, deleting # NoPid, task[id].ptid = deleting
  PROVE  owner[id] \in Conns /\ conn[owner[id]].st = "closed"
<1> DEFINE j == fdconn[failing]
           k == owner[id]
<1>1. failing # 0 /\ failing \in Fds /\ deleting = client[failing].pid /\ LeftBehind(failing)
  BY Places DEF DInv, Round
<1>2. j \in Conns /\ conn[j].st = "closed" /\ j # 0  BY <1>1, Places DEF DInv, LeftBehind
<1>3. k \in Conns /\ k # 0 /\ task[id].ptid = conn[k].pid  BY Places DEF DInv, Filed
<1>4. PICK f \in Fds : fdconn[f] = k  BY DEF DInv, NoOrphan
<1>5. conn[k].st # "none" /\ conn[k].pid # 0  BY <1>3, <1>4 DEF DInv, Wired, Dialogue
<1>6. conn[j].pid = conn[k].pid
  BY <1>1, <1>2, <1>3, <1>5 DEF DInv, Introduced
<1>7. CASE j = k  BY <1>2, <1>3, <1>7
<1>8. CASE j < k  BY <1>1, <1>2, <1>3, <1>4, <1>6, <1>8 DEF DInv, Reuse
<1>9. CASE k < j  BY <1>2, <1>3, <1>6, <1>9 DEF DInv, Dialogue
<1> QED  BY <1>2, <1>3, <1>7, <1>8, <1>9, Ranges

\* A reservation is taken out of the table.
LEMMA RemovedTable ==
  ASSUME Table, NEW id \in DOMAIN task, RemoveTask(id), UNCHANGED last_task_id
  PROVE  /\ Table'
         /\ DOMAIN task' = DOMAIN task \ {id}
         /\ \A x \in DOMAIN task' : task'[x] = task[x]
<1>1. taskset' = RemoveFirst(taskset, id) /\ task' = [x \in DOMAIN task \ {id} |-> task[x]]
  BY DEF RemoveTask
<1>2. taskset \in Seq(Ids) /\ Enumerates(taskset, DOMAIN task)  BY DEF Table, TasksetExact
<1>3. taskset' \in Seq(Ids) /\ Enumerates(taskset', DOMAIN task \ {id})
  BY <1>1, <1>2, RemoveEnumerates
<1>4. DOMAIN task' = DOMAIN task \ {id} /\ \A x \in DOMAIN task' : task'[x] = task[x]
  BY <1>1
<1> QED  BY <1>3, <1>4 DEF Table, TasksetExact

LEMMA FailDeleteInv ==
  ASSUME DInv, FailDelete
  PROVE  DInv'
<1>1. /\ status = "up" /\ deleting # NoPid /\ UNCHANGED <<last_task_id, status>>
      /\ UNCHANGED <<conn, backlog, fdconn, connset, client, last_n, last_req, hand, failing,
                     owner, alive>>
      /\ failing # 0
  BY DEF FailDelete, DeleteStep, dvars
<1>2. Types' /\ Dialogue'  BY <1>1 DEF DInv, Types, Dialogue
<1>3. /\ \A f \in Fds : LeftBehind(f)' <=> LeftBehind(f)
      /\ \A f \in Fds : Received1(f)' <=> Received1(f)
      /\ \A f \in Fds : Broken(f)' <=> Broken(f)
  BY <1>1 DEF LeftBehind, Received1, Broken
<1>4. failing \in Fds /\ deleting = client[failing].pid  BY <1>1, Places DEF DInv, Round
<1>5. CASE Owned(deleting) # {}
  <2> DEFINE id == taskset[Min(Owned(deleting))]
  <2>1. RemoveTask(id) /\ UNCHANGED deleting  BY <1>5 DEF FailDelete, DeleteStep
  <2>2. id \in DOMAIN task /\ task[id].ptid = deleting
    <3>1. taskset \in Seq(Ids) /\ ToSet(taskset) = DOMAIN task
      BY DEF DInv, Table, TasksetExact, Enumerates
    <3>2. Owned(deleting) \in SUBSET Nat  BY <3>1 DEF Owned
    <3>3. Min(Owned(deleting)) \in Owned(deleting)  BY <1>5, <3>2, MinIn
    <3> QED  BY <3>1, <3>3 DEF Owned, ToSet
  <2> HIDE DEF id
  <2>3. owner[id] \in Conns /\ conn[owner[id]].st = "closed"  BY <1>1, <2>2, DeletedAreLeft
  <2>4. /\ Table' /\ DOMAIN task' = DOMAIN task \ {id}
        /\ \A x \in DOMAIN task' : task'[x] = task[x]
    BY <1>1, <2>1, <2>2, RemovedTable DEF DInv
  <2>5. \A k : Fresh(k) => Fresh(k)'  BY <1>1, <2>4 DEF Fresh
  <2>6. Wired' /\ Introduced'  BY <1>1, <2>5 DEF DInv, Wired, Introduced, Types
  <2>7. Round'  BY <1>1, <1>3, <1>4, <2>1, <2>4 DEF DInv, Round
  <2>8. Filed' /\ Reuse' /\ NoOrphan'  BY <1>1, <2>4 DEF DInv, Filed, Reuse, NoOrphan
  <2>9. Promised'
    <3>1. \A k \in Conns : Promises(k) => conn[k].st # "closed"  BY DEF DInv, Promises, Dialogue
    <3> QED  BY <1>1, <2>3, <2>4, <3>1 DEF DInv, Promised, Promises
  <2>10. ClientKeepsReservations'
    <3>1. \A k \in Conns : conn[k].owns # {} => conn[k].st # "closed"  BY DEF DInv, Dialogue
    <3> QED  BY <1>1, <2>3, <2>4, <3>1 DEF DInv, ClientKeepsReservations
  <2> QED  BY <1>2, <2>4, <2>6, <2>7, <2>8, <2>9, <2>10 DEF DInv
<1>6. CASE Owned(deleting) = {}
  <2>1. deleting' = NoPid /\ UNCHANGED <<taskset, task>>  BY <1>6 DEF FailDelete, DeleteStep
  <2>2. \A id \in DOMAIN task : task[id].ptid # client[failing].pid
    <3>1. taskset \in Seq(Ids) /\ ToSet(taskset) = DOMAIN task
      BY DEF DInv, Table, TasksetExact, Enumerates
    <3> QED  BY <1>4, <1>6, <3>1 DEF Owned, ToSet
  <2>3. \A k : Fresh(k)' <=> Fresh(k)  BY <1>1, <2>1 DEF Fresh
  <2>4. Wired' /\ Introduced'  BY <1>1, <2>3 DEF DInv, Wired, Introduced, Types
  <2>5. Round'  BY <1>1, <1>3, <1>4, <2>1, <2>2 DEF DInv, Round
  <2>6. Table' /\ Filed' /\ Reuse' /\ NoOrphan' /\ Promised' /\ ClientKeepsReservations'
    BY <1>1, <2>1 DEF DInv, Table, TasksetExact, Filed, Reuse, NoOrphan, Promised, Promises,
                      ClientKeepsReservations
  <2> QED  BY <1>2, <2>4, <2>5, <2>6 DEF DInv
<1> QED  BY <1>5, <1>6

(***************************************************************************)
(* ... and ends: the pid is cleared and the descriptor closed.             *)
(***************************************************************************)
LEMMA FailEndInv ==
  ASSUME DInv, FailEnd
  PROVE  DInv'
<1>1. /\ failing # 0 /\ failing = hand /\ deleting = NoPid /\ failing' = 0 /\ NextHand
      /\ client' = [client EXCEPT ![failing].pid = 0]
      /\ connset' = connset \ {failing} /\ fdconn' = [fdconn EXCEPT ![failing] = 0]
      /\ UNCHANGED <<vars, conn, backlog, last_n, last_req, owner, alive>>
  BY DEF FailEnd, Close, Idle, DInv, Round
<1>2. /\ failing \in Fds /\ client \in [Fds -> ClientType] /\ fdconn \in [Fds -> Conns \cup {0}]
      /\ client[failing].state = "EMPTY" /\ last_n[failing] # 1
      /\ \A id \in DOMAIN task : task[id].ptid # client[failing].pid
  BY <1>1, Places DEF DInv, Types, Round
<1>3. /\ client' \in [Fds -> ClientType]
      /\ client'[failing].state = "EMPTY" /\ client'[failing].pid = 0
      /\ \A f \in Fds \ {failing} : client'[f] = client[f] /\ fdconn'[f] = fdconn[f]
      /\ fdconn'[failing] = 0 /\ fdconn' \in [Fds -> Conns \cup {0}]
  <2>1. [client[failing] EXCEPT !.pid = 0] \in ClientType  BY <1>2 DEF ClientType
  <2> QED  BY <1>1, <1>2, <2>1 DEF ClientType
<1>4. hand' \in 0..MaxFd /\ \A f \in Fds : f > hand => hand' # 0 /\ f >= hand'
  BY <1>1, <1>2, HandMoves
<1>5. Types'  BY <1>1, <1>3, <1>4, DaemonAssumption DEF DInv, Types
<1>6. Table' /\ Dialogue' /\ Filed' /\ Promised' /\ ClientKeepsReservations'
  BY <1>1 DEF DInv, Table, TasksetExact, Dialogue, Filed, Promised, Promises,
              ClientKeepsReservations, vars
<1>7. \A k : Fresh(k)' <=> Fresh(k)  BY <1>1 DEF Fresh, vars
<1>8. Wired'
  <2>1. \A i \in 1..Len(backlog) : 0 < backlog[i]  BY Ranges DEF DInv, Types
  <2> QED  BY <1>1, <1>2, <1>3, <1>7, <2>1 DEF DInv, Wired
<1>9. Introduced'  BY <1>1, <1>2, <1>3, <1>7 DEF DInv, Introduced
<1>10. Reuse'
  <2>1. \A f \in Fds : fdconn[f] \in Nat  BY Places DEF DInv
  <2> QED  BY <1>1, <1>2, <1>3, <2>1 DEF DInv, Reuse, vars
<1>11. Round'
  <2>1. \A f \in Fds \ {failing} : LeftBehind(f)' <=> LeftBehind(f)  BY <1>1, <1>3 DEF LeftBehind
  <2>2. \A f \in Fds : last_n[f] = 1 => f # failing /\ f > hand
    <3> SUFFICES ASSUME NEW f \in Fds, last_n[f] = 1 PROVE f # failing /\ f > hand
      OBVIOUS
    <3>1. Received1(f)  BY DEF DInv, Round
    <3>2. f >= hand  BY <3>1 DEF Received1
    <3>3. f # failing  BY <1>2
    <3>4. f \in Nat /\ hand \in Nat /\ f # hand  BY <1>1, <1>2, <3>3, Ranges
    <3> QED  BY <3>2, <3>3, <3>4
  <2>3. \A f \in Fds : last_n[f] = 1 => Received1(f)'
    BY <1>1, <1>3, <1>4, <2>2 DEF DInv, Round, Received1
  <2>4. \A f \in Fds \ {failing} : fdconn[f] # 0 /\ f \notin connset => f > hand
    BY <1>1, <1>2, Ranges DEF DInv, Round
  <2> QED  BY <1>1, <1>2, <1>3, <1>4, <2>1, <2>3, <2>4 DEF DInv, Round, Broken, vars
<1>12. NoOrphan'
  <2> SUFFICES ASSUME NEW id \in DOMAIN task
               PROVE  \E f \in Fds : /\ fdconn'[f] = owner[id] /\ client'[f].pid = task[id].ptid
                                     /\ client'[f].state # "EMPTY"
    BY <1>1 DEF NoOrphan, vars
  <2>1. PICK f \in Fds : fdconn[f] = owner[id] /\ client[f].pid = task[id].ptid
                         /\ (client[f].state # "EMPTY" \/ failing = f)
    BY DEF DInv, NoOrphan
  <2> QED  BY <1>2, <1>3, <2>1
<1> QED  BY <1>5, <1>6, <1>8, <1>9, <1>10, <1>11, <1>12 DEF DInv

(***************************************************************************)
(* The daemon is stopped, or something happens that it does not see.       *)
(***************************************************************************)
LEMMA TerminateInv ==
  ASSUME DInv, Terminate
  PROVE  DInv'
<1>1. /\ status' = "stopped" /\ taskset' = <<>> /\ task' = <<>>
      /\ UNCHANGED <<last_task_id, deleting, conn, backlog, fdconn, connset, client, last_n,
                     last_req, hand, failing, owner, alive>>
  BY DEF Terminate, dvars
<1>2. DOMAIN task' = {}  BY <1>1
<1>3. Table'
  <2>1. Enumerates(taskset', {})  BY <1>1 DEF Enumerates, ToSet
  <2>2. taskset' \in Seq(Ids)  BY <1>1
  <2> QED  BY <1>1, <1>2, <2>1, <2>2 DEF DInv, Table, TasksetExact
<1>4. Types' /\ Dialogue'  BY <1>1 DEF DInv, Types, Dialogue
<1>5. \A k : Fresh(k) => Fresh(k)'  BY <1>1, <1>2 DEF Fresh
<1>6. Wired' /\ Introduced'  BY <1>1, <1>5 DEF DInv, Wired, Introduced, Types
<1>7. Round'
  <2>1. /\ \A f : LeftBehind(f)' <=> LeftBehind(f)
        /\ \A f : Received1(f)' <=> Received1(f)
        /\ \A f : Broken(f)' <=> Broken(f)
    BY <1>1 DEF LeftBehind, Received1, Broken
  <2> QED  BY <1>1, <1>2, <2>1 DEF DInv, Round
<1>8. Filed' /\ Reuse' /\ NoOrphan'  BY <1>1, <1>2 DEF DInv, Filed, Reuse, NoOrphan
<1>9. Promised' /\ ClientKeepsReservations'  BY <1>1 DEF Promised, ClientKeepsReservations
<1> QED  BY <1>3, <1>4, <1>6, <1>7, <1>8, <1>9 DEF DInv

LEMMA SameDInv ==
  ASSUME DInv, UNCHANGED <<taskset, task, last_task_id, deleting, status, dvars>>
  PROVE  DInv'
<1>1. UNCHANGED <<conn, backlog, fdconn, connset, client, last_n, last_req, hand, failing, owner,
                  alive>>
  BY DEF dvars
<1>2. Types' /\ Dialogue' /\ Table'  BY <1>1 DEF DInv, Types, Dialogue, Table, TasksetExact
<1>3. Wired' /\ Introduced'  BY <1>1 DEF DInv, Wired, Introduced, Fresh
<1>4. Round'  BY <1>1 DEF DInv, Round, LeftBehind, Received1, Broken
<1>5. Filed' /\ Reuse' /\ NoOrphan' /\ Promised' /\ ClientKeepsReservations'
  BY <1>1 DEF DInv, Filed, Reuse, NoOrphan, Promised, Promises, ClientKeepsReservations
<1> QED  BY <1>2, <1>3, <1>4, <1>5 DEF DInv

-----------------------------------------------------------------------------
(***************************************************************************)
(* A request is served.  What the reply does to the connection and to the  *)
(* descriptor at hand, whatever the request ...                            *)
(***************************************************************************)
LEMMA AtHandFacts ==
  ASSUME DInv, AtHand, Updated(hand)
  PROVE  /\ hand \in Fds /\ fdconn[hand] \in Conns /\ fdconn[hand] # 0
         /\ failing = 0 /\ deleting = NoPid /\ status = "up"
         /\ last_n[hand] = 1 /\ Received1(hand)
         /\ last_req[hand].type # "connect" => client[hand].pid = conn[fdconn[hand]].pid
         /\ last_req[hand] \in Messages
<1>1. hand # 0 /\ hand \in Fds /\ failing = 0 /\ status = "up"
  BY Places DEF DInv, AtHand, Running
<1>2. deleting = NoPid  BY <1>1 DEF DInv, Round
<1>3. last_n[hand] = 1  BY <1>1 DEF Updated, DInv, Types
<1>4. Received1(hand)  BY <1>1, <1>3 DEF DInv, Round
<1>5. fdconn[hand] \in Conns /\ fdconn[hand] # 0  BY <1>1, <1>4, Places DEF DInv, Received1
<1>6. last_req[hand].type # "connect" => client[hand].pid = conn[fdconn[hand]].pid
  BY <1>1, <1>3, <1>5 DEF DInv, Introduced
<1> QED  BY <1>1, <1>2, <1>3, <1>4, <1>5, <1>6 DEF DInv, Types

ReplyStep(k, rep) ==
  /\ \E O : conn' \in [Conns -> ConnType(O)]
  /\ \A j \in Conns \ {k} : conn'[j] = conn[j]
  /\ conn'[k].pid = conn[k].pid /\ conn'[k].st = conn[k].st /\ conn'[k].asked = conn[k].asked
  /\ conn'[k].in = conn[k].in /\ conn'[k].owns = conn[k].owns
  /\ conn'[k].out = IF conn[k].st = "closed" THEN conn[k].out
                    ELSE [re |-> last_req[hand], rep |-> rep]
  /\ client' \in [Fds -> ClientType]
  /\ \A f \in Fds \ {hand} : client'[f] = client[f]
  /\ client'[hand].state = IF conn[k].st = "closed" THEN "ERROR" ELSE "CONNECTED"
  /\ client'[hand].pid = conn[k].pid
  /\ last_n' \in [Fds -> {-1, 0, 1}] /\ last_n'[hand] = 0
  /\ \A f \in Fds \ {hand} : last_n'[f] = last_n[f]
  /\ hand' \in 0..MaxFd /\ \A f \in Fds : f > hand => hand' # 0 /\ f >= hand'
  /\ alive' \in BOOLEAN
  /\ UNCHANGED <<backlog, fdconn, connset, last_req, failing>>

LEMMA ReplyFacts ==
  ASSUME DInv, AtHand, Updated(hand), NEW rep, NEW new \in [Fds -> ClientType],
         \A f \in Fds \ {hand} : new[f] = client[f],
         new[hand].state = client[hand].state, new[hand].pid = conn[fdconn[hand]].pid,
         Reply(rep, new)
  PROVE  ReplyStep(fdconn[hand], rep)
<1> DEFINE k == fdconn[hand]
           out == [re |-> last_req[hand], rep |-> rep]
           o == IF conn[k].st = "closed" THEN conn[k].out ELSE out
           c == [conn[k] EXCEPT !.out = o]
<1>0. hand \in Fds /\ k \in Conns /\ client[hand].state = "CONNECTED"
  BY AtHandFacts DEF Received1
<1>1. /\ conn' = IF conn[k].st # "closed" THEN [conn EXCEPT ![k].out = out] ELSE conn
      /\ client' = IF conn[k].st # "closed" THEN new ELSE [new EXCEPT ![hand].state = "ERROR"]
      /\ alive' = (conn[k].st # "closed" \/ SigPipe = "ignored")
      /\ last_n' = [last_n EXCEPT ![hand] = 0]
      /\ NextHand
      /\ UNCHANGED <<backlog, fdconn, connset, last_req, failing>>
  BY DEF Reply
<1>2. PICK O : conn \in [Conns -> ConnType(O)]  BY DEF DInv, Types
<1> DEFINE P == O \cup {out}
<1>3. conn \in [Conns -> ConnType(P)]  BY <1>2 DEF ConnType
<1> HIDE DEF out
<1>4. /\ c \in ConnType(P) /\ c.pid = conn[k].pid /\ c.st = conn[k].st /\ c.asked = conn[k].asked
      /\ c.in = conn[k].in /\ c.owns = conn[k].owns /\ c.out = o
  <2>1. conn[k] \in ConnType(P) /\ conn[k] \in ConnType(O)  BY <1>0, <1>2, <1>3
  <2>2. o \in P  BY <2>1 DEF ConnType
  <2> HIDE DEF P, o
  <2> QED  BY <2>1, <2>2 DEF ConnType
<1>5. conn' = [conn EXCEPT ![k] = c]
  <2>1. CASE conn[k].st # "closed"  BY <1>0, <1>1, <1>2, <2>1
  <2>2. CASE conn[k].st = "closed"
    <3>1. [conn[k] EXCEPT !.out = conn[k].out] = conn[k]  BY <1>0, <1>2 DEF ConnType
    <3> QED  BY <1>0, <1>1, <1>2, <2>2, <3>1
  <2> QED  BY <2>1, <2>2
<1> HIDE DEF c, P
<1>6. /\ conn' \in [Conns -> ConnType(P)]
      /\ conn'[k] = c /\ \A j \in Conns \ {k} : conn'[j] = conn[j]
  BY <1>0, <1>3, <1>4, <1>5
<1>7. /\ client' \in [Fds -> ClientType]
      /\ \A f \in Fds \ {hand} : client'[f] = client[f]
      /\ client'[hand].state = IF conn[k].st = "closed" THEN "ERROR" ELSE "CONNECTED"
      /\ client'[hand].pid = conn[k].pid
  <2>1. [new[hand] EXCEPT !.state = "ERROR"] \in ClientType  BY <1>0 DEF ClientType
  <2>2. CASE conn[k].st # "closed"  BY <1>0, <1>1, <2>2
  <2>3. CASE conn[k].st = "closed"
    <3>1. client' = [new EXCEPT ![hand] = [new[hand] EXCEPT !.state = "ERROR"]]
      BY <1>0, <1>1, <2>3
    <3> QED  BY <1>0, <2>1, <2>3, <3>1 DEF ClientType
  <2> QED  BY <2>2, <2>3
<1>8. /\ last_n' \in [Fds -> {-1, 0, 1}] /\ last_n'[hand] = 0
      /\ \A f \in Fds \ {hand} : last_n'[f] = last_n[f]
  BY <1>0, <1>1 DEF DInv, Types
<1>9. hand' \in 0..MaxFd /\ \A f \in Fds : f > hand => hand' # 0 /\ f >= hand'
  BY <1>0, <1>1, HandMoves
<1>10. alive' \in BOOLEAN  BY <1>1
<1> QED  BY <1>1, <1>4, <1>6, <1>7, <1>8, <1>9, <1>10 DEF ReplyStep, out

(***************************************************************************)
(* ... and what the scheduler may have done meanwhile: only a reservation  *)
(* nobody relies on may be gone, and only one for the client being served  *)
(* may be new.                                                             *)
(***************************************************************************)
ServedTable(k, rep) ==
  /\ Table' /\ deleting' = NoPid
  /\ \A id \in DOMAIN task \cap DOMAIN task' : task'[id].ptid = task[id].ptid
  /\ \A id \in DOMAIN task \ DOMAIN task' : \A j \in Conns :
       id \notin conn[j].owns /\ ~(Promises(j) /\ conn[j].out.rep.n = id)
  /\ \A id \in DOMAIN task' \ DOMAIN task :
       /\ id \in Ids /\ id > last_task_id /\ task'[id].ptid = conn[k].pid /\ owner'[id] = k
       /\ last_req[hand].type = "create"
  /\ owner' \in [Ids -> Conns \cup {0}]
  /\ \A id \in Ids : id \notin DOMAIN task' \ DOMAIN task => owner'[id] = owner[id]
  /\ last_task_id' >= last_task_id
  /\ status' = "up" /\ rep.type = "create" /\ rep.res # RTF_NO
       => rep.n \in DOMAIN task' /\ owner'[rep.n] = k

LEMMA ServeInv ==
  ASSUME DInv, AtHand, Updated(hand), NEW rep, ReplyStep(fdconn[hand], rep),
         ServedTable(fdconn[hand], rep)
  PROVE  DInv'
<1> DEFINE k == fdconn[hand]
<1>0. /\ hand \in Fds /\ k \in Conns /\ k # 0
      /\ failing = 0 /\ deleting = NoPid /\ status = "up" /\ last_n[hand] = 1
      /\ last_req[hand].type # "connect" => client[hand].pid = conn[k].pid
      /\ client[hand].state = "CONNECTED" /\ conn[k].in = NoMsg /\ conn[k].out = NoMsg
      /\ conn[k].st \in {"waiting", "closed"}
      /\ conn[k].st = "waiting" => last_req[hand] = conn[k].asked
  BY AtHandFacts DEF Received1
<1>1. /\ \E O : conn' \in [Conns -> ConnType(O)]
      /\ \A j \in Conns \ {k} : conn'[j] = conn[j]
      /\ conn'[k].pid = conn[k].pid /\ conn'[k].st = conn[k].st /\ conn'[k].asked = conn[k].asked
      /\ conn'[k].in = conn[k].in /\ conn'[k].owns = conn[k].owns
      /\ conn'[k].out = IF conn[k].st = "closed" THEN conn[k].out
                        ELSE [re |-> last_req[hand], rep |-> rep]
  BY DEF ReplyStep
<1>2. /\ client' \in [Fds -> ClientType]
      /\ \A f \in Fds \ {hand} : client'[f] = client[f]
      /\ client'[hand].state = IF conn[k].st = "closed" THEN "ERROR" ELSE "CONNECTED"
      /\ client'[hand].pid = conn[k].pid
      /\ last_n' \in [Fds -> {-1, 0, 1}] /\ last_n'[hand] = 0
      /\ \A f \in Fds \ {hand} : last_n'[f] = last_n[f]
      /\ hand' \in 0..MaxFd /\ \A f \in Fds : f > hand => hand' # 0 /\ f >= hand'
      /\ alive' \in BOOLEAN
      /\ UNCHANGED <<backlog, fdconn, connset, last_req, failing>>
  BY DEF ReplyStep
<1>3. /\ Table' /\ deleting' = NoPid
      /\ \A id \in DOMAIN task \cap DOMAIN task' : task'[id].ptid = task[id].ptid
      /\ \A id \in DOMAIN task' \ DOMAIN task :
           /\ id \in Ids /\ id > last_task_id /\ task'[id].ptid = conn[k].pid /\ owner'[id] = k
           /\ last_req[hand].type = "create"
      /\ owner' \in [Ids -> Conns \cup {0}]
      /\ \A id \in Ids : id \notin DOMAIN task' \ DOMAIN task => owner'[id] = owner[id]
      /\ last_task_id' >= last_task_id
  BY DEF ServedTable
<1>4. \A id \in DOMAIN task \ DOMAIN task' : \A j \in Conns :
        id \notin conn[j].owns /\ ~(Promises(j) /\ conn[j].out.rep.n = id)
  BY DEF ServedTable
<1>5. status' = "up" /\ rep.type = "create" /\ rep.res # RTF_NO
        => rep.n \in DOMAIN task' /\ owner'[rep.n] = k
  BY DEF ServedTable
<1> HIDE DEF k
<1>6. /\ DOMAIN task \in SUBSET Ids
      /\ \A id \in DOMAIN task : owner[id] \in Conns /\ owner[id] # 0 /\ owner'[id] = owner[id]
      /\ \A f \in Fds : fdconn[f] \in Nat /\ (fdconn[f] # 0 => fdconn[f] \in Conns)
      /\ \A f \in Fds \ {hand} : fdconn[f] # k
      /\ fdconn[hand] = k
  BY <1>0, <1>3, Places DEF DInv, Filed, Wired, k
<1>7. \A id \in Ids : owner[id] # 0 => owner'[id] = owner[id]  BY <1>3 DEF DInv, Filed
<1>8. Types'  BY <1>1, <1>2, <1>3 DEF DInv, Types
<1>9. Dialogue'
  <2>1. \A j \in Conns : conn'[j].in.type = "destroy" => owner'[conn'[j].in.id] = j
    <3>1. \A m \in Messages : m.type = "destroy" => m.id \in Ids  BY DEF Messages, NoMsg
    <3>2. \A j \in Conns : conn'[j].in = conn[j].in /\ conn[j].in \in Messages
      BY <1>0, <1>1, ConnFields DEF DInv
    <3> QED  BY <1>7, <3>1, <3>2, Ranges DEF DInv, Dialogue
  <2>2. \A j \in Conns : conn'[j].out # NoMsg
          => conn'[j].st = "waiting" /\ conn'[j].out.re = conn'[j].asked
    BY <1>0, <1>1 DEF DInv, Dialogue
  <2>3. \A j \in Conns : conn'[j].in # NoMsg => conn'[j].out = NoMsg
    BY <1>0, <1>1 DEF DInv, Dialogue
  <2>4. \A j \in Conns : /\ conn'[j].pid = conn[j].pid /\ conn'[j].st = conn[j].st
                         /\ conn'[j].asked = conn[j].asked /\ conn'[j].in = conn[j].in
                         /\ conn'[j].owns = conn[j].owns
    BY <1>1
  <2> QED  BY <2>1, <2>2, <2>3, <2>4 DEF DInv, Dialogue
<1>10. \A j \in Conns \ {k} : Fresh(j) => Fresh(j)'  BY <1>1, <1>3, <1>6 DEF Fresh
<1>11. Wired'
  <2>1. \A i \in 1..Len(backlog) : backlog[i] \in Conns \ {k}
    BY <1>0, <1>6, Ranges DEF DInv, Wired, Types
  <2>2. \A f \in Fds : fdconn[f] # 0 => conn'[fdconn[f]].st # "none"
    BY <1>0, <1>1, <1>6 DEF DInv, Wired
  <2> QED  BY <1>0, <1>2, <1>6, <1>10, <2>1, <2>2 DEF DInv, Wired
<1>12. Introduced'
  <2>1. conn[k].pid # 0  BY <1>0 DEF DInv, Dialogue
  <2> QED  BY <1>0, <1>1, <1>2, <1>6, <1>10, <2>1 DEF DInv, Introduced
<1>13. Round'
  <2>1. \A f \in Fds : LeftBehind(f) => LeftBehind(f)'  BY <1>0, <1>1, <1>2, <1>6 DEF LeftBehind
  <2>2. \A f \in Fds : last_n'[f] = 1 => f # hand /\ last_n[f] = 1 /\ f > hand
    BY <1>0, <1>2, Ranges DEF DInv, Round, Received1
  <2>3. ASSUME NEW f \in Fds, last_n'[f] = 1 PROVE Received1(f)'
    <3>1. f # hand /\ f > hand /\ Received1(f)  BY <2>2, <2>3 DEF DInv, Round
    <3>2. fdconn[f] \in Conns \ {k}  BY <1>6, <3>1 DEF Received1
    <3>3. last_req[f].type = "destroy" => owner'[last_req[f].id] = fdconn[f]
      <4>1. \A m \in Messages : m.type = "destroy" => m.id \in Ids  BY DEF Messages, NoMsg
      <4> QED  BY <1>7, <3>1, <3>2, <4>1, Ranges DEF Received1, DInv, Types
    <3> QED  BY <1>1, <1>2, <3>1, <3>2, <3>3 DEF Received1
  <2>4. \A f \in Fds : fdconn[f] # 0 /\ f \notin connset => f # hand /\ f > hand
    BY <1>0, <1>6, Ranges DEF DInv, Round
  <2>5. \A f \in Fds : Broken(f)' => LeftBehind(f)' /\ last_n'[f] # 1
    <3>1. \A f \in Fds : f = hand /\ Broken(f)' => LeftBehind(f)'
      BY <1>0, <1>1, <1>2, <1>6 DEF Broken, LeftBehind
    <3>2. \A f \in Fds \ {hand} : Broken(f)' <=> Broken(f)  BY <1>2 DEF Broken
    <3> QED  BY <1>0, <1>2, <2>1, <3>1, <3>2 DEF DInv, Round
  <2>6. \A f \in Fds : client'[f].state = "DISCONNECTED" => f \notin connset
    BY <1>0, <1>2 DEF DInv, Round
  <2>7. \A f \in Fds : fdconn[f] # 0 /\ f \notin connset =>
          /\ hand' # 0 /\ f >= hand' /\ LeftBehind(f)' /\ client'[f].state = "DISCONNECTED"
    BY <1>0, <1>2, <2>1, <2>4, Ranges DEF DInv, Round
  <2> QED  BY <1>0, <1>2, <1>3, <2>3, <2>5, <2>6, <2>7 DEF Round
<1>14. Filed'
  <2>1. \A id \in Ids : id > last_task_id' => id > last_task_id /\ id \notin DOMAIN task'
    BY <1>3, SchedulerAssumption DEF DInv, Table, Ids
  <2>2. \A id \in Ids : id > last_task_id' => owner'[id] = 0  BY <1>3, <2>1 DEF DInv, Filed
  <2>3. \A id \in DOMAIN task' : owner'[id] # 0 /\ task'[id].ptid = conn'[owner'[id]].pid
    BY <1>0, <1>1, <1>3, <1>6 DEF DInv, Filed
  <2> QED  BY <2>2, <2>3 DEF Filed
<1>15. Promised'
  <2> SUFFICES ASSUME status' = "up", NEW j \in Conns, Promises(j)'
               PROVE  conn'[j].out.rep.n \in DOMAIN task' /\ owner'[conn'[j].out.rep.n] = j
    BY DEF Promised
  <2>1. CASE j = k  BY <1>0, <1>1, <1>5, <2>1 DEF Promises
  <2>2. CASE j # k
    <3>1. conn'[j] = conn[j] /\ Promises(j)  BY <1>1, <2>2 DEF Promises
    <3>2. conn[j].out.rep.n \in DOMAIN task /\ owner[conn[j].out.rep.n] = j
      BY <1>0, <3>1 DEF DInv, Promised
    <3> QED  BY <1>4, <1>6, <3>1, <3>2
  <2> QED  BY <2>1, <2>2
<1>16. Reuse'
  <2> SUFFICES ASSUME NEW f \in Fds, NEW g \in Fds, fdconn[g] # 0, fdconn[g] < fdconn[f],
                      conn'[fdconn[g]].pid = conn'[fdconn[f]].pid
               PROVE  /\ \A id \in DOMAIN task' : owner'[id] # fdconn[f]
                      /\ last_n'[f] = 1 => last_req[f].type = "connect"
                      /\ g \in connset => /\ conn'[fdconn[g]].in = NoMsg
                                          /\ client'[f].state = "EMPTY" /\ last_n'[f] # 1
    BY <1>2 DEF Reuse
  <2>1. fdconn[f] \in Conns /\ fdconn[g] \in Conns  BY <1>6, Ranges
  <2>2. conn[fdconn[g]].pid = conn[fdconn[f]].pid /\ conn'[fdconn[g]].in = conn[fdconn[g]].in
    BY <1>1, <2>1
  <2>3. /\ \A id \in DOMAIN task : owner[id] # fdconn[f]
        /\ last_n[f] = 1 => last_req[f].type = "connect"
        /\ g \in connset => /\ conn[fdconn[g]].in = NoMsg
                            /\ client[f].state = "EMPTY" /\ last_n[f] # 1
    BY <2>2 DEF DInv, Reuse
  <2>4. \A id \in DOMAIN task' : owner'[id] # fdconn[f]
    BY <1>0, <1>3, <1>6, <2>3
  <2> QED  BY <1>0, <1>2, <2>2, <2>3, <2>4
<1>17. NoOrphan'
  <2> SUFFICES ASSUME NEW id \in DOMAIN task'
               PROVE  \E f \in Fds : /\ fdconn[f] = owner'[id] /\ client'[f].pid = task'[id].ptid
                                     /\ client'[f].state # "EMPTY"
    BY <1>2 DEF NoOrphan
  <2>1. CASE id \notin DOMAIN task  BY <1>0, <1>2, <1>3, <1>6, <2>1
  <2>2. CASE id \in DOMAIN task
    <3>1. PICK f \in Fds : fdconn[f] = owner[id] /\ client[f].pid = task[id].ptid
                           /\ (client[f].state # "EMPTY" \/ failing = f)
      BY <2>2 DEF DInv, NoOrphan
    <3>2. client[f].state # "EMPTY"  BY <1>0, <3>1, Ranges
    <3>3. task[id].ptid = conn[owner[id]].pid  BY <2>2 DEF DInv, Filed
    <3> QED  BY <1>2, <1>3, <1>6, <2>2, <3>1, <3>2, <3>3
  <2> QED  BY <2>1, <2>2
<1>18. ClientKeepsReservations'
  <2> SUFFICES ASSUME NEW j \in Conns, NEW id \in conn'[j].owns
               PROVE  id \in DOMAIN task' /\ owner'[id] = j /\ task'[id].ptid = conn'[j].pid
    BY DEF ClientKeepsReservations
  <2>1. id \in conn[j].owns /\ conn'[j].pid = conn[j].pid  BY <1>1
  <2>2. id \in DOMAIN task /\ owner[id] = j /\ task[id].ptid = conn[j].pid
    BY <1>0, <2>1 DEF DInv, ClientKeepsReservations
  <2> QED  BY <1>3, <1>4, <1>6, <2>1, <2>2
<1> QED  BY <1>3, <1>8, <1>9, <1>11, <1>12, <1>13, <1>14, <1>15, <1>16, <1>17, <1>18 DEF DInv

(***************************************************************************)
(* ... and the daemon that dies in the call does not come to reply.        *)
(***************************************************************************)
LEMMA DiedInv ==
  ASSUME DInv, AtHand, Updated(hand), last_req[hand].type # "connect", NEW rep,
         ServedTable(fdconn[hand], rep), status' # "up",
         UNCHANGED <<conn, backlog, fdconn, connset, client, last_n, last_req, hand, failing, alive>>
  PROVE  DInv'
<1> DEFINE k == fdconn[hand]
<1>0. /\ hand \in Fds /\ k \in Conns /\ k # 0
      /\ failing = 0 /\ deleting = NoPid /\ status = "up" /\ last_n[hand] = 1
      /\ client[hand].pid = conn[k].pid /\ client[hand].state = "CONNECTED"
  BY AtHandFacts DEF Received1
<1>2. UNCHANGED <<conn, backlog, fdconn, connset, client, last_n, last_req, hand, failing, alive>>
  OBVIOUS
<1>3. /\ Table' /\ deleting' = NoPid
      /\ \A id \in DOMAIN task \cap DOMAIN task' : task'[id].ptid = task[id].ptid
      /\ \A id \in DOMAIN task' \ DOMAIN task :
           /\ id \in Ids /\ id > last_task_id /\ task'[id].ptid = conn[k].pid /\ owner'[id] = k
           /\ last_req[hand].type = "create"
      /\ owner' \in [Ids -> Conns \cup {0}]
      /\ \A id \in Ids : id \notin DOMAIN task' \ DOMAIN task => owner'[id] = owner[id]
      /\ last_task_id' >= last_task_id
  BY DEF ServedTable
<1>4. \A id \in DOMAIN task \ DOMAIN task' : \A j \in Conns : id \notin conn[j].owns
  BY DEF ServedTable
<1> HIDE DEF k
<1>6. /\ DOMAIN task \in SUBSET Ids
      /\ \A id \in DOMAIN task : owner[id] \in Conns /\ owner[id] # 0 /\ owner'[id] = owner[id]
      /\ \A f \in Fds : fdconn[f] \in Nat /\ (fdconn[f] # 0 => fdconn[f] \in Conns)
      /\ \A f \in Fds \ {hand} : fdconn[f] # k
      /\ fdconn[hand] = k
  BY <1>0, <1>3, Places DEF DInv, Filed, Wired, k
<1>7. \A id \in Ids : owner[id] # 0 => owner'[id] = owner[id]  BY <1>3 DEF DInv, Filed
<1>8. Types'  BY <1>2, <1>3 DEF DInv, Types
<1>9. Dialogue'
  <2>1. \A j \in Conns : conn[j].in.type = "destroy" => owner'[conn[j].in.id] = j
    <3>1. \A m \in Messages : m.type = "destroy" => m.id \in Ids  BY DEF Messages, NoMsg
    <3>2. \A j \in Conns : conn[j].in \in Messages  BY ConnFields DEF DInv
    <3> QED  BY <1>7, <3>1, <3>2, Ranges DEF DInv, Dialogue
  <2> QED  BY <1>2, <2>1 DEF DInv, Dialogue
<1>10. \A j \in Conns \ {k} : Fresh(j) => Fresh(j)'  BY <1>2, <1>3, <1>6 DEF Fresh
<1>11. Wired'
  <2>1. \A i \in 1..Len(backlog) : backlog[i] \in Conns \ {k}
    BY <1>0, <1>6, Ranges DEF DInv, Wired, Types
  <2> QED  BY <1>0, <1>2, <1>6, <1>10, <2>1 DEF DInv, Wired
<1>12. Introduced'
  <2>1. conn[k].pid # 0  BY <1>0, AtHandFacts DEF DInv, Dialogue, Received1, k
  <2> QED  BY <1>0, <1>2, <1>6, <1>10, <2>1 DEF DInv, Introduced
<1>13. Round'
  <2>1. \A f \in Fds : LeftBehind(f) => LeftBehind(f)'  BY <1>2 DEF LeftBehind
  <2>3. ASSUME NEW f \in Fds, last_n[f] = 1 PROVE Received1(f)'
    <3>1. Received1(f)  BY <2>3 DEF DInv, Round
    <3>3. last_req[f].type = "destroy" => owner'[last_req[f].id] = fdconn[f]
      <4>1. \A m \in Messages : m.type = "destroy" => m.id \in Ids  BY DEF Messages, NoMsg
      <4> QED  BY <1>7, <3>1, <4>1, Ranges DEF Received1, DInv, Types
    <3> QED  BY <1>2, <3>1, <3>3 DEF Received1
  <2>4. \A f \in Fds : Broken(f)' <=> Broken(f)  BY <1>2 DEF Broken
  <2> QED  BY <1>0, <1>2, <1>3, <2>1, <2>3, <2>4 DEF DInv, Round
<1>14. Filed'
  <2>1. \A id \in Ids : id > last_task_id' => id > last_task_id /\ id \notin DOMAIN task'
    BY <1>3, SchedulerAssumption DEF DInv, Table, Ids
  <2>2. \A id \in Ids : id > last_task_id' => owner'[id] = 0  BY <1>3, <2>1 DEF DInv, Filed
  <2>3. \A id \in DOMAIN task' : owner'[id] # 0 /\ task'[id].ptid = conn[owner'[id]].pid
    BY <1>0, <1>3, <1>6 DEF DInv, Filed
  <2> QED  BY <1>2, <2>2, <2>3 DEF Filed
<1>15. Promised'  BY DEF Promised
<1>16. Reuse'
  <2> SUFFICES ASSUME NEW f \in Fds, NEW g \in Fds, fdconn[g] # 0, fdconn[g] < fdconn[f],
                      conn[fdconn[g]].pid = conn[fdconn[f]].pid
               PROVE  \A id \in DOMAIN task' : owner'[id] # fdconn[f]
    BY <1>2 DEF DInv, Reuse
  <2>3. /\ \A id \in DOMAIN task : owner[id] # fdconn[f]
        /\ last_n[f] = 1 => last_req[f].type = "connect"
    BY DEF DInv, Reuse
  <2> QED  BY <1>0, <1>3, <1>6, <2>3
<1>17. NoOrphan'
  <2> SUFFICES ASSUME NEW id \in DOMAIN task'
               PROVE  \E f \in Fds : /\ fdconn[f] = owner'[id] /\ client[f].pid = task'[id].ptid
                                     /\ client[f].state # "EMPTY"
    BY <1>2 DEF NoOrphan
  <2>1. CASE id \notin DOMAIN task  BY <1>0, <1>3, <1>6, <2>1
  <2>2. CASE id \in DOMAIN task
    <3>1. PICK f \in Fds : fdconn[f] = owner[id] /\ client[f].pid = task[id].ptid
                           /\ (client[f].state # "EMPTY" \/ failing = f)
      BY <2>2 DEF DInv, NoOrphan
    <3>2. client[f].state # "EMPTY"  BY <1>0, <3>1, Ranges
    <3> QED  BY <1>3, <1>6, <2>2, <3>1, <3>2
  <2> QED  BY <2>1, <2>2
<1>18. ClientKeepsReservations'
  <2> SUFFICES ASSUME NEW j \in Conns, NEW id \in conn[j].owns
               PROVE  id \in DOMAIN task' /\ owner'[id] = j /\ task'[id].ptid = conn[j].pid
    BY <1>2 DEF ClientKeepsReservations
  <2>2. id \in DOMAIN task /\ owner[id] = j /\ task[id].ptid = conn[j].pid
    BY <1>0 DEF DInv, ClientKeepsReservations
  <2> QED  BY <1>3, <1>4, <1>6, <2>2
<1> QED  BY <1>3, <1>8, <1>9, <1>11, <1>12, <1>13, <1>14, <1>15, <1>16, <1>17, <1>18 DEF DInv

(***************************************************************************)
(* What the scheduler does to its table for each request.  A plugin leaves *)
(* the pids alone.                                                         *)
(***************************************************************************)
LEMMA PlacePtids ==
  ASSUME NEW i \in Index, NEW pl, NEW tk, NEW id \in DOMAIN tk, Place(i, pl, tk, id),
         \A x \in DOMAIN tk : "ptid" \in DOMAIN tk[x]
  PROVE  /\ DOMAIN task' = DOMAIN tk
         /\ \A x \in DOMAIN tk : "ptid" \in DOMAIN task'[x] /\ task'[x].ptid = tk[x].ptid
<1>1. task' = Schedule(i, pl, tk, id).task  BY DEF Place
<1>2. DOMAIN task' = DOMAIN tk  BY PlaceDomain
<1> DEFINE g == Plugins[i]
<1>3. CASE g.kind = "EDF"
  <2>1. PICK cpu, at, au : task' = [tk EXCEPT ![id] = [@ EXCEPT !.cpu = cpu, !.pluginid = g.id,
                                                    !.acceptedt = at, !.acceptedu = au]]
    BY <1>1, <1>3 DEF Schedule, EDF!rtf_plg_task_schedule
  <2> QED  BY <1>2, <2>1
<1>4. ASSUME NEW b, DOMAIN b = DOMAIN tk,
             \A x \in DOMAIN tk : "ptid" \in DOMAIN b[x] /\ b[x].ptid = tk[x].ptid,
             NEW list, NEW dist
      PROVE  \A x \in DOMAIN tk :
               /\ "ptid" \in DOMAIN RM!assign_priorities(g, list, dist, b)[x]
               /\ RM!assign_priorities(g, list, dist, b)[x].ptid = tk[x].ptid
               /\ "ptid" \in DOMAIN RR!assign_priorities(g, list, dist, b)[x]
               /\ RR!assign_priorities(g, list, dist, b)[x].ptid = tk[x].ptid
  <2> SUFFICES ASSUME NEW x \in DOMAIN tk
               PROVE  /\ "ptid" \in DOMAIN RM!assign_priorities(g, list, dist, b)[x]
                      /\ RM!assign_priorities(g, list, dist, b)[x].ptid = tk[x].ptid
                      /\ "ptid" \in DOMAIN RR!assign_priorities(g, list, dist, b)[x]
                      /\ RR!assign_priorities(g, list, dist, b)[x].ptid = tk[x].ptid
    OBVIOUS
  <2>1. \E p : RM!assign_priorities(g, list, dist, b)[x] = [b[x] EXCEPT !.schedprio = p]
               \/ RM!assign_priorities(g, list, dist, b)[x] = b[x]
    BY <1>4 DEF RM!assign_priorities
  <2>2. \E p : RR!assign_priorities(g, list, dist, b)[x] = [b[x] EXCEPT !.schedprio = p]
               \/ RR!assign_priorities(g, list, dist, b)[x] = b[x]
    BY <1>4 DEF RR!assign_priorities
  <2> QED  BY <1>4, <2>1, <2>2
<1>5. CASE g.kind = "RM"
  <2>1. PICK cpu, at, au, p, list, dist :
          LET b == [tk EXCEPT ![id] = [@ EXCEPT !.cpu = cpu, !.pluginid = g.id,
                                                !.acceptedt = at, !.acceptedu = au]]
          IN  \/ task' = [b EXCEPT ![id].schedprio = p]
              \/ task' = RM!assign_priorities(g, list, dist, b)
    BY <1>1, <1>5 DEF Schedule, RM!rtf_plg_task_schedule
  <2> DEFINE b == [tk EXCEPT ![id] = [@ EXCEPT !.cpu = cpu, !.pluginid = g.id,
                                                !.acceptedt = at, !.acceptedu = au]]
  <2>2. /\ DOMAIN b = DOMAIN tk
        /\ \A x \in DOMAIN tk : "ptid" \in DOMAIN b[x] /\ b[x].ptid = tk[x].ptid
    OBVIOUS
  <2>3. task' = [b EXCEPT ![id].schedprio = p] \/ task' = RM!assign_priorities(g, list, dist, b)
    BY <2>1
  <2> HIDE DEF b
  <2> QED  BY <1>2, <1>4, <2>2, <2>3
<1>6. CASE g.kind = "RR"
  <2>1. PICK cpu, p, list, dist :
          LET b == [tk EXCEPT ![id] = [@ EXCEPT !.cpu = cpu, !.pluginid = g.id]]
          IN  \/ task' = [b EXCEPT ![id].schedprio = p] \/ task' = b
              \/ task' = RR!assign_priorities(g, list, dist, b)
    BY <1>1, <1>6 DEF Schedule, RR!rtf_plg_task_schedule
  <2> DEFINE b == [tk EXCEPT ![id] = [@ EXCEPT !.cpu = cpu, !.pluginid = g.id]]
  <2>2. /\ DOMAIN b = DOMAIN tk
        /\ \A x \in DOMAIN tk : "ptid" \in DOMAIN b[x] /\ b[x].ptid = tk[x].ptid
    OBVIOUS
  <2>3. \/ task' = [b EXCEPT ![id].schedprio = p] \/ task' = b
        \/ task' = RR!assign_priorities(g, list, dist, b)
    BY <2>1
  <2> HIDE DEF b
  <2> QED  BY <1>2, <1>4, <2>2, <2>3
<1>7. CASE g.kind = "FP"
  <2>1. PICK cpu, p : task' = [tk EXCEPT ![id] = [@ EXCEPT !.cpu = cpu, !.pluginid = g.id,
                                                   !.schedprio = p]]
    BY <1>1, <1>7 DEF Schedule, FP!rtf_plg_task_schedule
  <2> QED  BY <1>2, <2>1
<1> QED  BY <1>2, <1>3, <1>5, <1>6, <1>7, PluginConfig DEF Kinds

LEMMA KeptTable ==
  ASSUME DInv, AtHand, Updated(hand), NEW k, NEW rep, rep.type # "create",
         UNCHANGED <<taskset, last_task_id, deleting, owner>>, DOMAIN task' = DOMAIN task,
         \A x \in DOMAIN task : "ptid" \in DOMAIN task'[x] /\ task'[x].ptid = task[x].ptid
  PROVE  ServedTable(k, rep)
<1>1. deleting = NoPid  BY AtHandFacts
<1>2. Table'  BY DEF DInv, Table, TasksetExact
<1>3. owner \in [Ids -> Conns \cup {0}] /\ last_task_id \in Nat
  BY SchedulerAssumption DEF DInv, Types, Table
<1> QED  BY <1>1, <1>2, <1>3 DEF ServedTable

LEMMA CreatedTable ==
  ASSUME DInv, Serving("create"), TaskCreate(Req.tp, client[hand].pid),
         owner' = IF CreateResult(Req.tp) = RTF_NO THEN owner
                  ELSE [owner EXCEPT ![last_task_id'] = fdconn[hand]],
         NEW rep, rep.type = "create", rep.res = CreateResult(Req.tp),
         CreateResult(Req.tp) # RTF_NO => rep.n = last_task_id'
  PROVE  ServedTable(fdconn[hand], rep)
<1> DEFINE id  == last_task_id + 1
           i   == Chosen(CreateTests(Req.tp))
           pid == client[hand].pid
           k   == fdconn[hand]
           tk  == [x \in DOMAIN task \cup {id} |->
                     IF x = id THEN NewTask(Req.tp, pid) ELSE task[x]]
<1>0. /\ k \in Conns /\ k # 0 /\ deleting = NoPid
      /\ pid = conn[k].pid /\ last_req[hand].type = "create"
  BY AtHandFacts DEF Serving
<1>1. /\ last_task_id < MaxTaskId /\ last_task_id' = id /\ UNCHANGED deleting
      /\ last_task_id \in Nat /\ MaxTaskId \in Nat
  BY SchedulerAssumption DEF TaskCreate, DInv, Table
<1>2. /\ owner \in [Ids -> Conns \cup {0}] /\ DOMAIN task \subseteq 1..last_task_id
      /\ \A x \in DOMAIN task : "ptid" \in DOMAIN task[x]
      /\ taskset \in Seq(Ids) /\ Enumerates(taskset, DOMAIN task)
  BY DEF DInv, Types, Table, TasksetExact
<1>3. id \in Ids /\ id \notin DOMAIN task /\ id > last_task_id  BY <1>1, <1>2 DEF Ids
<1>4. CASE i = 0
  <2>1. UNCHANGED <<taskset, task>>  BY <1>4 DEF TaskCreate
  <2>2. CreateResult(Req.tp) = RTF_NO  BY <1>4 DEF CreateResult, Outcome
  <2>3. Table'
    <3>1. DOMAIN task \subseteq 1..last_task_id'  BY <1>1, <1>2
    <3> QED  BY <1>1, <1>2, <2>1, <3>1 DEF Table, TasksetExact
  <2> HIDE DEF id
  <2>4. last_task_id' >= last_task_id  BY <1>1 DEF id
  <2> QED  BY <1>0, <1>1, <1>2, <2>1, <2>2, <2>3, <2>4 DEF ServedTable
<1>5. CASE i # 0
  <2>1. i \in Index  BY <1>5, ChosenType
  <2>2. taskset' = <<id>> \o taskset /\ Place(i, plugin[i], tk, id)  BY <1>5 DEF TaskCreate
  <2>3. CreateResult(Req.tp) # RTF_NO  BY <1>5, ChosenAnswers DEF CreateResult, Outcome
  <2>4. /\ DOMAIN tk = DOMAIN task \cup {id}
        /\ \A x \in DOMAIN tk : "ptid" \in DOMAIN tk[x]
        /\ \A x \in DOMAIN task : tk[x] = task[x]
        /\ tk[id].ptid = pid
    BY <1>2, <1>3 DEF NewTask
  <2> HIDE DEF tk, i
  <2>5. /\ DOMAIN task' = DOMAIN task \cup {id}
        /\ \A x \in DOMAIN tk : "ptid" \in DOMAIN task'[x] /\ task'[x].ptid = tk[x].ptid
    <3>1. id \in DOMAIN tk  BY <2>4
    <3> QED  BY <2>1, <2>2, <2>4, <3>1, PlacePtids
  <2>6. taskset' \in Seq(Ids) /\ Enumerates(taskset', DOMAIN task \cup {id})
    <3>1. InsertAt(taskset, 1, id) = <<id>> \o taskset  BY <1>2, <1>3, FrontInsert
    <3>2. 1 \in 1..Len(taskset) + 1  BY <1>2
    <3> HIDE DEF id
    <3>3. /\ InsertAt(taskset, 1, id) \in Seq(Ids)
          /\ Enumerates(InsertAt(taskset, 1, id), DOMAIN task \cup {id})
      BY <1>2, <1>3, <3>2, InsertEnumerates
    <3> QED  BY <2>2, <3>1, <3>3
  <2>7. Table'
    <3>1. DOMAIN task' \subseteq 1..last_task_id' /\ last_task_id' \in 0..MaxTaskId
      BY <1>1, <1>2, <2>5
    <3> QED  BY <2>4, <2>5, <2>6, <3>1 DEF Table, TasksetExact
  <2>8. /\ owner' = [owner EXCEPT ![id] = k] /\ owner' \in [Ids -> Conns \cup {0}]
        /\ rep.n = id /\ last_task_id' >= last_task_id
    BY <1>0, <1>1, <1>2, <1>3, <2>3
  <2> HIDE DEF id, k, pid
  <2>9. DOMAIN task' \ DOMAIN task = {id} /\ DOMAIN task \ DOMAIN task' = {}
    BY <1>3, <2>5
  <2>10. ServedTable(k, rep)
    BY <1>0, <1>1, <1>2, <1>3, <2>4, <2>5, <2>7, <2>8, <2>9 DEF ServedTable
  <2> QED  BY <2>10 DEF k
<1> QED  BY <1>4, <1>5

\* A destroy takes away a reservation the client has given up, or never had.
LEMMA DestroyedTable ==
  ASSUME DInv, Serving("destroy"), TaskDestroy(Req.id), UNCHANGED owner,
         NEW rep, rep.type # "create"
  PROVE  ServedTable(fdconn[hand], rep)
<1> DEFINE id == last_req[hand].id
           k  == fdconn[hand]
<1>0. /\ k \in Conns /\ k # 0 /\ deleting = NoPid /\ status = "up" /\ owner[id] = k
      /\ conn[k].out = NoMsg /\ conn[k].st \in {"waiting", "closed"}
      /\ conn[k].st = "waiting" => conn[k].asked = last_req[hand]
      /\ last_req[hand].type = "destroy"
  BY AtHandFacts DEF Serving, Received1
<1>1. UNCHANGED <<last_task_id, deleting, status>>  BY DEF TaskDestroy
<1>2. CASE id \notin DOMAIN task
  <2>1. UNCHANGED <<taskset, task>>  BY <1>2 DEF TaskDestroy, Req
  <2> QED  BY <1>1, <2>1, KeptTable DEF Serving, DInv, Table
<1>3. CASE id \in DOMAIN task
  <2>1. RemoveTask(id)  BY <1>3 DEF TaskDestroy, Req
  <2>2. /\ Table' /\ DOMAIN task' = DOMAIN task \ {id}
        /\ \A x \in DOMAIN task' : task'[x] = task[x]
    BY <1>1, <1>3, <2>1, RemovedTable DEF DInv
  <2>3. ASSUME NEW j \in Conns
        PROVE  id \notin conn[j].owns /\ ~(Promises(j) /\ conn[j].out.rep.n = id)
    <3>1. CASE j = k  BY <1>0, <3>1 DEF DInv, Dialogue, Promises
    <3>2. CASE j # k  BY <1>0, <3>2 DEF DInv, ClientKeepsReservations, Promised
    <3> QED  BY <3>1, <3>2
  <2>4. owner \in [Ids -> Conns \cup {0}] /\ last_task_id \in Nat
    BY SchedulerAssumption DEF DInv, Types, Table
  <2> HIDE DEF id, k
  <2>5. ServedTable(k, rep)  BY <1>0, <1>1, <2>2, <2>3, <2>4 DEF ServedTable
  <2> QED  BY <2>5 DEF k
<1> QED  BY <1>2, <1>3

LEMMA ChangedTable ==
  ASSUME DInv, AtHand, Updated(hand), NEW id, TaskChange(id), UNCHANGED owner,
         NEW k, NEW rep, rep.type # "create"
  PROVE  ServedTable(k, rep)
<1> DEFINE i == Chosen(ChangeTests(id))
<1>1. UNCHANGED <<taskset, last_task_id, deleting>>  BY DEF TaskChange
<1>2. \A x \in DOMAIN task : "ptid" \in DOMAIN task[x]  BY DEF DInv, Table
<1>3. CASE UNCHANGED task  BY <1>1, <1>2, <1>3, KeptTable
<1>4. CASE id \in DOMAIN task /\ i # 0 /\ Place(i, Release(i, id), task, id)
  <2>1. i \in Index  BY <1>4, ChosenType
  <2> HIDE DEF i
  <2>2. /\ DOMAIN task' = DOMAIN task
        /\ \A x \in DOMAIN task : "ptid" \in DOMAIN task'[x] /\ task'[x].ptid = task[x].ptid
    BY <1>2, <1>4, <2>1, PlacePtids
  <2> QED  BY <1>1, <2>2, KeptTable
<1> QED  BY <1>3, <1>4 DEF TaskChange

LEMMA AttachedTable ==
  ASSUME DInv, AtHand, Updated(hand), NEW id, NEW tid, NEW sys, TaskAttach(id, tid, sys),
         UNCHANGED owner, NEW k, NEW rep, rep.type # "create"
  PROVE  ServedTable(k, rep)
<1>1. UNCHANGED <<taskset, last_task_id, deleting>>  BY DEF TaskAttach
<1>2. \A x \in DOMAIN task : "ptid" \in DOMAIN task[x]  BY DEF DInv, Table
<1>3. \/ UNCHANGED task
      \/ id \in DOMAIN task /\ task' = [task EXCEPT ![id] = [task[id] EXCEPT !.tid = tid]]
  BY DEF TaskAttach
<1>4. /\ DOMAIN task' = DOMAIN task
      /\ \A x \in DOMAIN task : "ptid" \in DOMAIN task'[x] /\ task'[x].ptid = task[x].ptid
  BY <1>2, <1>3
<1> QED  BY <1>1, <1>4, KeptTable

(***************************************************************************)
(* The requests, one by one.  All but the announcement leave client alone. *)
(***************************************************************************)
LEMMA RequestInv ==
  ASSUME DInv, NEW type, Serving(type), type # "connect", NEW rep, Reply(rep, client),
         ServedTable(fdconn[hand], rep)
  PROVE  DInv'
<1>1. AtHand /\ Updated(hand) /\ last_req[hand].type # "connect"  BY DEF Serving
<1>2. client[hand].pid = conn[fdconn[hand]].pid  BY <1>1, AtHandFacts
<1>3. client \in [Fds -> ClientType]  BY DEF DInv, Types
<1>4. ReplyStep(fdconn[hand], rep)  BY <1>1, <1>2, <1>3, ReplyFacts
<1> QED  BY <1>1, <1>4, ServeInv

LEMMA RequestOrDiedInv ==
  ASSUME DInv, NEW type, Serving(type), type # "connect", NEW rep, ReplyIfUp(rep),
         ServedTable(fdconn[hand], rep)
  PROVE  DInv'
<1>1. CASE status' = "up"
  <2>1. Reply(rep, client)  BY <1>1 DEF ReplyIfUp
  <2> QED  BY <2>1, RequestInv
<1>2. CASE status' # "up"
  <2>1. AtHand /\ Updated(hand) /\ last_req[hand].type # "connect"  BY DEF Serving
  <2>2. UNCHANGED <<conn, backlog, fdconn, connset, client, last_n, last_req, hand, failing, alive>>
    BY <1>2 DEF ReplyIfUp
  <2> QED  BY <1>2, <2>1, <2>2, DiedInv
<1> QED  BY <1>1, <1>2

LEMMA AnswerInv ==
  ASSUME DInv, NEW type, NEW rep, Answer(type, rep), type # "connect", rep.type # "create"
  PROVE  DInv'
<1>1. Serving(type) /\ Reply(rep, client) /\ UNCHANGED <<vars, owner>>  BY DEF Answer
<1>2. ServedTable(fdconn[hand], rep)  BY <1>1, KeptTable DEF Serving, vars, DInv, Table
<1> QED  BY <1>1, <1>2, RequestInv

LEMMA ReqConnectionInv ==
  ASSUME DInv, ReqConnection
  PROVE  DInv'
<1> DEFINE rep == [type |-> "connect", res |-> RTF_OK, n |-> 0]
           new == [client EXCEPT ![hand].pid = Req.pid]
           k   == fdconn[hand]
<1>1. Serving("connect") /\ Reply(rep, new) /\ UNCHANGED <<vars, owner>>  BY DEF ReqConnection
<1>2. AtHand /\ Updated(hand) /\ last_req[hand].type = "connect"  BY <1>1 DEF Serving
<1>3. hand \in Fds /\ k \in Conns /\ last_req[hand].pid = conn[k].pid
  BY <1>2, AtHandFacts DEF Received1
<1>4. conn[k].pid \in Pids \cup {0}  BY <1>3, ConnFields DEF DInv
<1>5. /\ new \in [Fds -> ClientType]
      /\ \A f \in Fds \ {hand} : new[f] = client[f]
      /\ new[hand].state = client[hand].state /\ new[hand].pid = conn[k].pid
  <2>1. client \in [Fds -> ClientType] /\ Req.pid = conn[k].pid  BY <1>3 DEF DInv, Types, Req
  <2>2. [client[hand] EXCEPT !.pid = Req.pid] \in ClientType  BY <1>3, <1>4, <2>1 DEF ClientType
  <2> QED  BY <1>3, <2>1, <2>2 DEF ClientType
<1> HIDE DEF new
<1>6. ReplyStep(k, rep)  BY <1>1, <1>2, <1>5, ReplyFacts
<1>7. ServedTable(k, rep)  BY <1>1, <1>2, KeptTable DEF vars, DInv, Table
<1> QED  BY <1>2, <1>6, <1>7, ServeInv

LEMMA ReqTaskInv ==
  ASSUME DInv,
         ReqTaskCreate \/ ReqTaskModify \/ ReqTaskAttach \/ ReqTaskDetach \/ ReqTaskDestroy
  PROVE  DInv'
<1>1. CASE ReqTaskCreate
  <2> DEFINE rep == [type |-> "create", res |-> CreateResult(Req.tp),
                     n |-> IF CreateResult(Req.tp) = RTF_NO THEN -1 ELSE last_task_id']
  <2>1. /\ Serving("create") /\ ReplyIfUp(rep) /\ TaskCreate(Req.tp, client[hand].pid)
        /\ owner' = IF CreateResult(Req.tp) = RTF_NO THEN owner
                    ELSE [owner EXCEPT ![last_task_id'] = fdconn[hand]]
    BY <1>1 DEF ReqTaskCreate
  <2>2. /\ rep.type = "create" /\ rep.res = CreateResult(Req.tp)
        /\ CreateResult(Req.tp) # RTF_NO => rep.n = last_task_id'
    OBVIOUS
  <2> HIDE DEF rep
  <2>3. ServedTable(fdconn[hand], rep)  BY <2>1, <2>2, CreatedTable
  <2> QED  BY <2>1, <2>3, RequestOrDiedInv
<1>2. CASE ReqTaskModify
  <2> DEFINE rep == [type |-> "modify", res |-> ChangeResult(rsvid(Req.tp)), n |-> 0]
  <2>1. Serving("modify") /\ ReplyIfUp(rep) /\ TaskChange(rsvid(Req.tp)) /\ UNCHANGED owner
    BY <1>2 DEF ReqTaskModify
  <2>2. rep.type # "create"  OBVIOUS
  <2> HIDE DEF rep
  <2>3. ServedTable(fdconn[hand], rep)  BY <2>1, <2>2, ChangedTable DEF Serving
  <2> QED  BY <2>1, <2>3, RequestOrDiedInv
<1>3. CASE ReqTaskAttach
  <2> DEFINE rep(sys) ==
        [type |-> "attach", n |-> 0,
         res |-> IF Req.id \notin DOMAIN task THEN RTF_ERROR
                 ELSE AttachResult(task'[Req.id], kern, Policy(task[Req.id].pluginid), sys)]
  <2>1. PICK sys \in SysOutcomes : TaskAttach(Req.id, Req.tid, sys) /\ Reply(rep(sys), client)
    BY <1>3 DEF ReqTaskAttach
  <2>2. Serving("attach") /\ UNCHANGED owner /\ rep(sys).type # "create"
    BY <1>3 DEF ReqTaskAttach
  <2> HIDE DEF rep
  <2>3. ServedTable(fdconn[hand], rep(sys))  BY <2>1, <2>2, AttachedTable DEF Serving
  <2> QED  BY <2>1, <2>2, <2>3, RequestInv
<1>4. CASE ReqTaskDetach
  <2> DEFINE rep == [type |-> "detach", n |-> 0,
                     res |-> IF Req.id \notin DOMAIN task THEN RTF_ERROR
                             ELSE DetachResult(task[Req.id], kern)]
  <2>1. Serving("detach") /\ Reply(rep, client) /\ TaskDetach(Req.id) /\ UNCHANGED owner
    BY <1>4 DEF ReqTaskDetach
  <2>2. rep.type # "create"  OBVIOUS
  <2> HIDE DEF rep
  <2>3. AtHand /\ Updated(hand) /\ UNCHANGED <<taskset, task, last_task_id, deleting, owner>>
    BY <2>1 DEF Serving, TaskDetach
  <2>4. \A x \in DOMAIN task : "ptid" \in DOMAIN task[x]  BY DEF DInv, Table
  <2>5. ServedTable(fdconn[hand], rep)  BY <2>2, <2>3, <2>4, KeptTable
  <2> QED  BY <2>1, <2>5, RequestInv
<1>5. CASE ReqTaskDestroy
  <2> DEFINE rep == [type |-> "destroy", n |-> 0,
                     res |-> IF Req.id \notin DOMAIN task THEN RTF_ERROR ELSE RTF_OK]
  <2>1. Serving("destroy") /\ Reply(rep, client) /\ TaskDestroy(Req.id) /\ UNCHANGED owner
    BY <1>5 DEF ReqTaskDestroy
  <2>2. rep.type # "create"  OBVIOUS
  <2> HIDE DEF rep
  <2>3. ServedTable(fdconn[hand], rep)  BY <2>1, <2>2, DestroyedTable
  <2> QED  BY <2>1, <2>3, RequestInv
<1> QED  BY <1>1, <1>2, <1>3, <1>4, <1>5

LEMMA QueryInv ==
  ASSUME DInv,
         \/ ReqConnectionsInfo \/ ReqPluginsInfo \/ ReqTasksInfo \/ ReqConnectionInfo
         \/ ReqPluginInfo \/ ReqPluginCpuInfo \/ ReqTaskInfo
  PROVE  DInv'
<1>1. CASE ReqConnectionsInfo
  <2> DEFINE rep == Info("connections_info", Cardinality({f \in Fds : client[f].pid # 0}))
  <2>1. Answer("connections_info", rep)  BY <1>1 DEF ReqConnectionsInfo
  <2>2. rep.type # "create"  BY DEF Info
  <2> HIDE DEF rep
  <2> QED  BY <2>1, <2>2, AnswerInv
<1>2. CASE ReqPluginsInfo
  <2> DEFINE rep == Info("plugins_info", Len(Plugins))
  <2>1. Answer("plugins_info", rep)  BY <1>2 DEF ReqPluginsInfo
  <2>2. rep.type # "create"  BY DEF Info
  <2> HIDE DEF rep
  <2> QED  BY <2>1, <2>2, AnswerInv
<1>3. CASE ReqTasksInfo
  <2> DEFINE rep == Info("plugins_info", Len(taskset))
  <2>1. Answer("tasks_info", rep)  BY <1>3 DEF ReqTasksInfo
  <2>2. rep.type # "create"  BY DEF Info
  <2> HIDE DEF rep
  <2> QED  BY <2>1, <2>2, AnswerInv
<1>4. CASE ReqConnectionInfo
  <2> DEFINE rep == IF ConnectionEntry(Req.desc).pid = 0 THEN Err("connection_info")
                    ELSE Info("connection_info", ConnectionEntry(Req.desc))
  <2>1. Answer("connection_info", rep)  BY <1>4 DEF ReqConnectionInfo
  <2>2. rep.type # "create"  BY DEF Info, Err
  <2> HIDE DEF rep
  <2> QED  BY <2>1, <2>2, AnswerInv
<1>5. CASE ReqPluginInfo
  <2> DEFINE g   == Plugins[Req.desc + 1]
             rep == IF Req.desc >= Len(Plugins) THEN Err("plugin_info")
                    ELSE Info("plugin_info", [name |-> g.name, cputot |-> Len(g.cpulist)])
  <2>1. Answer("plugin_info", rep)  BY <1>5 DEF ReqPluginInfo
  <2>2. rep.type # "create"  BY DEF Info, Err
  <2> HIDE DEF rep
  <2> QED  BY <2>1, <2>2, AnswerInv
<1>6. CASE ReqPluginCpuInfo
  <2> DEFINE rep == IF Req.desc >= Len(Plugins) THEN Err("plugin_cpu_info")
                    ELSE IF Req.id >= Len(Plugins[Req.desc + 1].cpulist)
                    THEN Err("plugin_cpu_info")
                    ELSE Info("plugin_cpu_info", CpuInfo(Req.desc, Req.id))
  <2>1. Answer("plugin_cpu_info", rep)  BY <1>6 DEF ReqPluginCpuInfo
  <2>2. rep.type # "create"  BY DEF Info, Err
  <2> HIDE DEF rep
  <2> QED  BY <2>1, <2>2, AnswerInv
<1>7. CASE ReqTaskInfo
  <2> DEFINE t   == task[Req.desc]
             rep == IF Req.desc \notin DOMAIN task THEN Err("task_info")
                    ELSE Info("task_info", [tid |-> t.tid, ppid |-> t.ptid, priority |-> t.schedprio,
                                            period |-> t.params.period, pluginid |-> t.pluginid])
  <2>1. Answer("task_info", rep)  BY <1>7 DEF ReqTaskInfo
  <2>2. rep.type # "create"  BY DEF Info, Err
  <2> HIDE DEF rep
  <2> QED  BY <2>1, <2>2, AnswerInv
<1> QED  BY <1>1, <1>2, <1>3, <1>4, <1>5, <1>6, <1>7

LEMMA HandleInv == ASSUME DInv, Handle PROVE DInv'
BY SkipInv, FailBeginInv, FailDeleteInv, FailEndInv, ReqConnectionInv, ReqTaskInv, QueryInv
   DEF Handle

LEMMA ClientsInv == ASSUME DInv, Clients PROVE DInv'
BY ConnectInv, AnnounceInv, ReceiveInv, ExitInv, SendInv DEF Clients

LEMMA DaemonStepInv ==
  ASSUME DInv, [DaemonNext]_allvars
  PROVE  DInv'
<1>1. CASE UNCHANGED allvars  BY <1>1, SameDInv DEF allvars, vars
<1>2. ASSUME NEW tid \in Tids, ThreadExit(tid), UNCHANGED dvars PROVE DInv'
  BY <1>2, SameDInv DEF ThreadExit
<1> QED
  BY <1>1, <1>2, ClientsInv, UpdateInv, InterruptedInv, HandleInv, TerminateInv DEF DaemonNext

LEMMA DaemonInitInv == ASSUME DaemonInit PROVE DInv
<1> DEFINE c == [pid |-> 0, st |-> "none", asked |-> NoMsg, in |-> NoMsg, out |-> NoMsg,
                 owns |-> {}]
<1>1. /\ taskset = <<>> /\ task = <<>> /\ DOMAIN task = {} /\ last_task_id = 0
      /\ deleting = NoPid /\ status = "up"
  BY DEF DaemonInit, Init
<1>2. /\ conn = [k \in Conns |-> c] /\ backlog = <<>> /\ fdconn = [f \in Fds |-> 0]
      /\ connset = {} /\ client = [f \in Fds |-> [state |-> "EMPTY", pid |-> 0]]
      /\ last_n = [f \in Fds |-> 0] /\ last_req = [f \in Fds |-> NoMsg]
      /\ hand = 0 /\ failing = 0 /\ owner = [id \in Ids |-> 0] /\ alive = TRUE
  BY DEF DaemonInit
<1>3. /\ c.pid = 0 /\ c.st = "none" /\ c.asked = NoMsg /\ c.in = NoMsg /\ c.out = NoMsg
      /\ c.owns = {} /\ NoMsg.type = "none"
  BY DEF NoMsg
<1>4. Types
  <2>1. NoMsg \in Messages  BY DEF Messages
  <2>2. c \in ConnType({NoMsg})  BY <2>1 DEF ConnType
  <2> HIDE DEF c
  <2>3. conn \in [Conns -> ConnType({NoMsg})]  BY <1>2, <2>2
  <2>4. [state |-> "EMPTY", pid |-> 0] \in ClientType  BY DEF ClientType
  <2>5. MaxFd \in Nat  BY DaemonAssumption
  <2> QED  BY <1>2, <2>1, <2>3, <2>4, <2>5 DEF Types
<1> HIDE DEF c
<1>5. Table
  <2>1. Enumerates(taskset, {})  BY <1>1 DEF Enumerates, ToSet
  <2> QED  BY <1>1, <2>1, SchedulerAssumption DEF Table, TasksetExact
<1>6. Dialogue  BY <1>2, <1>3 DEF Dialogue
<1>7. Wired /\ Introduced  BY <1>2 DEF Wired, Introduced
<1>8. Round  BY <1>1, <1>2 DEF Round, Broken
<1>9. Filed /\ Reuse /\ NoOrphan  BY <1>1, <1>2 DEF Filed, Reuse, NoOrphan
<1>10. Promised /\ ClientKeepsReservations
  BY <1>2, <1>3 DEF Promised, Promises, ClientKeepsReservations
<1> QED  BY <1>4, <1>5, <1>6, <1>7, <1>8, <1>9, <1>10 DEF DInv

-----------------------------------------------------------------------------
(***************************************************************************)
(* The state of the carrier of retif_daemon.c and of its clients keeps its *)
(* type, and the set given to select holds open descriptors only, for any  *)
(* number of descriptors, connections and requests.                        *)
(***************************************************************************)
THEOREM DaemonTypesHold == DaemonSpec => []DaemonTypeOK
<1>1. DInv => DaemonTypeOK
  <2> SUFFICES ASSUME DInv PROVE DaemonTypeOK  OBVIOUS
  <2>1. \A k \in Conns : /\ conn[k].pid \in Pids \cup {0}
                         /\ conn[k].st \in {"none", "new", "ready", "waiting", "closed"}
                         /\ conn[k].owns \subseteq Ids
    BY ConnFields DEF DInv
  <2>2. connset \subseteq {f \in Fds : fdconn[f] # 0}  BY DEF DInv, Types, Wired
  <2> QED  BY <2>1, <2>2 DEF DInv, Types, ClientType, DaemonTypeOK
<1>2. DInv /\ [DaemonNext]_allvars => DInv'  BY DaemonStepInv
<1> QED  BY <1>1, <1>2, DaemonInitInv, PTL DEF DaemonSpec

(***************************************************************************)
(* No reservation is orphaned: as long as it exists, the descriptor it was *)
(* made on is open on the same connection and remembers its pid, so that   *)
(* rtf_daemon_check_for_fail still finds it, even when the client had gone *)
(* before its request was served.                                          *)
(***************************************************************************)
THEOREM NothingIsOrphaned == DaemonSpec => []NoOrphan
<1>1. DInv => NoOrphan  BY DEF DInv
<1>2. DInv /\ [DaemonNext]_allvars => DInv'  BY DaemonStepInv
<1> QED  BY <1>1, <1>2, DaemonInitInv, PTL DEF DaemonSpec

(***************************************************************************)
(* A client that is still connected keeps what it was given: the cleanup   *)
(* of rtf_daemon_check_for_fail goes by pid, and a pid may be used again,  *)
(* yet it never takes a reservation of the new process.                    *)
(***************************************************************************)
THEOREM ClientsKeepReservations == DaemonSpec => []ClientKeepsReservations
<1>1. DInv => ClientKeepsReservations  BY DEF DInv
<1>2. DInv /\ [DaemonNext]_allvars => DInv'  BY DaemonStepInv
<1> QED  BY <1>1, <1>2, DaemonInitInv, PTL DEF DaemonSpec

(***************************************************************************)
(* Every reply goes to the client that asked, while it waits, and answers  *)
(* what it asked: rtf_daemon_handle_req never serves a last_req that was   *)
(* left by an earlier user of the descriptor.                              *)
(***************************************************************************)
THEOREM RepliesAlwaysMatch == DaemonSpec => []RepliesMatch
<1>1. DInv => RepliesMatch  BY DEF DInv, Dialogue, RepliesMatch
<1>2. DInv /\ [DaemonNext]_allvars => DInv'  BY DaemonStepInv
<1> QED  BY <1>1, <1>2, DaemonInitInv, PTL DEF DaemonSpec

-----------------------------------------------------------------------------
(***************************************************************************)
(* The daemon implements ReservationService: every step of RetifDaemon is  *)
(* a step of the service, or none, under the mapping of ImplementsService. *)
(* A call that crashes has no counterpart there, so the invariants of the  *)
(* scheduler go along: they say that no call crashes, and hold while the   *)
(* daemon is up.                                                           *)
(***************************************************************************)
(***************************************************************************)
(* The scheduler under the daemon.                                         *)
(***************************************************************************)
Sound == status \in {"up", "stopped"} /\ (status = "up" => Inv)

LEMMA SoundInit == ASSUME DaemonInit PROVE Sound
BY InitInv DEF DaemonInit, Init, Sound

LEMMA StillSound ==
  ASSUME Sound, UNCHANGED <<taskset, task, plugin, last_task_id, kern, status>>,
         deleting' \in Pids \cup {0, NoPid}
  PROVE  Sound'
<1>1. CASE status = "up"
  <2>1. Inv /\ kern \in [Threads -> ThreadType]  BY <1>1 DEF Sound, Inv, TypeOK
  <2>2. kern' \in [Threads -> ThreadType]  BY <2>1
  <2>3. Inv'  BY <2>1, <2>2, QuietInv
  <2> QED  BY <2>3 DEF Sound
<1>2. CASE status # "up"  BY <1>2 DEF Sound
<1> QED  BY <1>1, <1>2

\* A call of the scheduler that its own specification allows.
LEMMA SoundCall ==
  ASSUME ChangesStayHome, ArraysInBounds, OwnStatics, Sound, status = "up", Next
  PROVE  Sound'
<1>1. Inv'  BY NextInv DEF Sound
<1> QED  BY <1>1 DEF Sound, Inv, Sturdy, NoCrash

LEMMA SoundRequest ==
  ASSUME ChangesStayHome, ArraysInBounds, OwnStatics, DInv, Sound,
         ReqTaskCreate \/ ReqTaskModify \/ ReqTaskAttach \/ ReqTaskDetach \/ ReqTaskDestroy
  PROVE  Sound'
<1>1. AtHand /\ Updated(hand)
  BY DEF ReqTaskCreate, ReqTaskModify, ReqTaskAttach, ReqTaskDetach, ReqTaskDestroy, Serving
<1>2. hand \in Fds /\ status = "up" /\ last_req[hand] \in Messages /\ Inv
  BY <1>1, AtHandFacts DEF Sound
<1>3. CASE ReqTaskCreate
  <2>1. last_req[hand].type = "create" /\ TaskCreate(last_req[hand].tp, client[hand].pid)
    BY <1>3 DEF ReqTaskCreate, Serving, Req
  <2>2. last_req[hand].tp \in CreateParams  BY <1>2, <2>1 DEF Messages, NoMsg
  <2>3. client[hand].pid \in Pids \cup {0}  BY <1>2 DEF DInv, Types, ClientType
  <2>4. Inv'  BY <1>2, <2>1, <2>2, <2>3, CreateInv
  <2> QED  BY <2>4 DEF Sound, Inv, Sturdy, NoCrash
<1>4. CASE ReqTaskModify
  <2>1. last_req[hand].type = "modify" /\ TaskChange(rsvid(last_req[hand].tp))
    BY <1>4 DEF ReqTaskModify, Serving, Req
  <2>2. last_req[hand].tp \in ModifyParams  BY <1>2, <2>1 DEF Messages, NoMsg
  <2> QED  BY <1>2, <2>1, <2>2, SoundCall DEF Next
<1>5. CASE ReqTaskAttach
  <2>1. PICK sys \in SysOutcomes : TaskAttach(last_req[hand].id, last_req[hand].tid, sys)
    BY <1>5 DEF ReqTaskAttach, Req
  <2>2. last_req[hand].type = "attach"  BY <1>5 DEF ReqTaskAttach, Serving
  <2>3. last_req[hand].id \in Ids /\ last_req[hand].tid \in Tids  BY <1>2, <2>2 DEF Messages, NoMsg
  <2> QED  BY <1>2, <2>1, <2>3, SoundCall DEF Next
<1>6. CASE ReqTaskDetach
  <2>1. last_req[hand].type = "detach" /\ TaskDetach(last_req[hand].id)
    BY <1>6 DEF ReqTaskDetach, Serving, Req
  <2>2. last_req[hand].id \in Ids  BY <1>2, <2>1 DEF Messages, NoMsg
  <2> QED  BY <1>2, <2>1, <2>2, SoundCall DEF Next
<1>7. CASE ReqTaskDestroy
  <2>1. last_req[hand].type = "destroy" /\ TaskDestroy(last_req[hand].id)
    BY <1>7 DEF ReqTaskDestroy, Serving, Req
  <2>2. last_req[hand].id \in Ids  BY <1>2, <2>1 DEF Messages, NoMsg
  <2> QED  BY <1>2, <2>1, <2>2, SoundCall DEF Next
<1> QED  BY <1>3, <1>4, <1>5, <1>6, <1>7

\* The requests that leave the scheduler alone.
Asking ==
  \/ ReqConnection \/ ReqConnectionsInfo \/ ReqPluginsInfo \/ ReqTasksInfo \/ ReqConnectionInfo
  \/ ReqPluginInfo \/ ReqPluginCpuInfo \/ ReqTaskInfo

LEMMA AskingKeeps == ASSUME Asking PROVE UNCHANGED <<vars, owner>>
<1>1. CASE ReqConnection  BY <1>1 DEF ReqConnection
<1>2. CASE ReqConnectionsInfo  BY <1>2 DEF ReqConnectionsInfo, Answer
<1>3. CASE ReqPluginsInfo  BY <1>3 DEF ReqPluginsInfo, Answer
<1>4. CASE ReqTasksInfo  BY <1>4 DEF ReqTasksInfo, Answer
<1>5. CASE ReqConnectionInfo  BY <1>5 DEF ReqConnectionInfo, Answer
<1>6. CASE ReqPluginInfo  BY <1>6 DEF ReqPluginInfo, Answer
<1>7. CASE ReqPluginCpuInfo  BY <1>7 DEF ReqPluginCpuInfo, Answer
<1>8. CASE ReqTaskInfo  BY <1>8 DEF ReqTaskInfo, Answer
<1> QED  BY <1>1, <1>2, <1>3, <1>4, <1>5, <1>6, <1>7, <1>8 DEF Asking

LEMMA SoundStep ==
  ASSUME ChangesStayHome, ArraysInBounds, OwnStatics, DInv, Sound, [DaemonNext]_allvars
  PROVE  Sound'
<1>0. deleting \in Pids \cup {0, NoPid}
  <2>1. CASE deleting # NoPid
    <3>1. failing \in Fds /\ deleting = client[failing].pid  BY <2>1, Places DEF DInv, Round
    <3> QED  BY <3>1 DEF DInv, Types, ClientType
  <2> QED  BY <2>1
<1>1. CASE UNCHANGED vars  BY <1>0, <1>1, StillSound DEF vars
<1>2. CASE Clients
  BY <1>1, <1>2 DEF Clients, Connect, Announce, Receive, Exit, Send, clientUnchanged
<1>3. CASE Update \/ Interrupted  BY <1>1, <1>3 DEF Update, Interrupted
<1>4. CASE Skip \/ FailEnd  BY <1>1, <1>4 DEF Skip, FailEnd
<1>5. CASE Asking  BY <1>1, <1>5, AskingKeeps
<1>6. CASE FailBegin
  <2>1. hand \in Fds  BY <1>6, Places DEF FailBegin, AtHand, DInv
  <2>2. client[hand].pid \in Pids \cup {0}  BY <2>1 DEF DInv, Types, ClientType
  <2> QED  BY <1>6, <2>2, StillSound DEF FailBegin, DeleteBegin
<1>7. CASE FailDelete  BY <1>7, SoundCall DEF FailDelete, DeleteStep, Next
<1>8. CASE Terminate  BY <1>8 DEF Terminate, Sound
<1>9. ASSUME NEW tid \in Tids, ThreadExit(tid) PROVE Sound'
  <2>1. CASE status = "up"  BY <1>9, <2>1, SoundCall DEF Next
  <2>2. CASE status # "up"  BY <1>9, <2>2 DEF ThreadExit, Sound
  <2> QED  BY <2>1, <2>2
<1> QED
  BY <1>1, <1>2, <1>3, <1>4, <1>5, <1>6, <1>7, <1>8, <1>9, SoundRequest
     DEF DaemonNext, Handle, Asking, allvars
-----------------------------------------------------------------------------
(***************************************************************************)
(* The service's variables, as ImplementsService maps them.                *)
(***************************************************************************)
Resv == [id \in Ids |-> IF id \in DOMAIN task THEN owner[id] ELSE 0]
Asks == [k \in Conns |-> PendingRequest(k)]
Seen == [k \in Conns |-> SeenReply(k)]
Left == [k \in Conns |-> conn[k].st = "closed"]

(***************************************************************************)
(* A request is pending in the socket, or on the descriptor it was read    *)
(* from, or nowhere; before a step ...                                     *)
(***************************************************************************)
LEMMA PendingNow ==
  ASSUME DInv
  PROVE  /\ \A k \in Conns : conn[k].in # NoMsg => PendingRequest(k) = conn[k].in
         /\ \A f \in Fds : last_n[f] = 1 => /\ fdconn[f] \in Conns /\ conn[fdconn[f]].in = NoMsg
                                            /\ PendingRequest(fdconn[f]) = last_req[f]
         /\ \A k \in Conns : conn[k].in = NoMsg /\ (\A f \in Fds : fdconn[f] = k => last_n[f] # 1)
                               => PendingRequest(k) = NoMsg
<1>1. ASSUME NEW f \in Fds, last_n[f] = 1
      PROVE  /\ fdconn[f] \in Conns /\ conn[fdconn[f]].in = NoMsg
             /\ PendingRequest(fdconn[f]) = last_req[f]
  <2>1. fdconn[f] \in Conns /\ fdconn[f] # 0 /\ conn[fdconn[f]].in = NoMsg
    BY <1>1, Places DEF DInv, Round, Received1
  <2>2. \A g \in Fds : fdconn[g] = fdconn[f] => g = f  BY <2>1 DEF DInv, Wired
  <2>3. (CHOOSE g \in Fds : fdconn[g] = fdconn[f] /\ last_n[g] = 1) = f  BY <1>1, <2>2
  <2> QED  BY <1>1, <2>1, <2>3 DEF PendingRequest
<1>2. \A k \in Conns : conn[k].in # NoMsg => PendingRequest(k) = conn[k].in  BY DEF PendingRequest
<1>3. \A k \in Conns : conn[k].in = NoMsg /\ (\A f \in Fds : fdconn[f] = k => last_n[f] # 1)
                         => PendingRequest(k) = NoMsg
  BY DEF PendingRequest
<1> QED  BY <1>1, <1>2, <1>3

\* ... and after it.
LEMMA PendingNext ==
  ASSUME DInv'
  PROVE  /\ \A k \in Conns : conn'[k].in # NoMsg => PendingRequest(k)' = conn'[k].in
         /\ \A f \in Fds : last_n'[f] = 1 => /\ fdconn'[f] \in Conns
                                             /\ conn'[fdconn'[f]].in = NoMsg
                                             /\ \A k \in Conns : k = fdconn'[f] =>
                                                  PendingRequest(k)' = last_req'[f]
         /\ \A k \in Conns : conn'[k].in = NoMsg /\ (\A f \in Fds : fdconn'[f] = k => last_n'[f] # 1)
                               => PendingRequest(k)' = NoMsg
<1>1. ASSUME NEW f \in Fds, last_n'[f] = 1
      PROVE  /\ fdconn'[f] \in Conns /\ conn'[fdconn'[f]].in = NoMsg
             /\ \A k \in Conns : k = fdconn'[f] => PendingRequest(k)' = last_req'[f]
  <2>1. fdconn'[f] \in Conns /\ fdconn'[f] # 0 /\ conn'[fdconn'[f]].in = NoMsg
    BY <1>1 DEF DInv, Types, Round, Received1
  <2>2. \A g \in Fds : fdconn'[g] = fdconn'[f] => g = f  BY <2>1 DEF DInv, Wired
  <2>3. ASSUME NEW k \in Conns, k = fdconn'[f] PROVE PendingRequest(k)' = last_req'[f]
    <3>1. (CHOOSE g \in Fds : fdconn'[g] = k /\ last_n'[g] = 1) = f  BY <1>1, <2>2, <2>3
    <3> QED  BY <1>1, <2>1, <2>3, <3>1 DEF PendingRequest
  <2> QED  BY <2>1, <2>3
<1>2. \A k \in Conns : conn'[k].in # NoMsg => PendingRequest(k)' = conn'[k].in
  BY DEF PendingRequest
<1>3. \A k \in Conns : conn'[k].in = NoMsg /\ (\A f \in Fds : fdconn'[f] = k => last_n'[f] # 1)
                         => PendingRequest(k)' = NoMsg
  BY DEF PendingRequest
<1> QED  BY <1>1, <1>2, <1>3

LEMMA SamePending ==
  ASSUME NEW k, UNCHANGED <<fdconn, last_n, last_req>>, conn'[k].in = conn[k].in
  PROVE  PendingRequest(k)' = PendingRequest(k)
BY DEF PendingRequest

LEMMA SameReply ==
  ASSUME NEW k, conn'[k].out = conn[k].out
  PROVE  SeenReply(k)' = SeenReply(k)
BY DEF SeenReply

LEMMA SameResv ==
  ASSUME DOMAIN task' = DOMAIN task, \A id \in DOMAIN task : owner'[id] = owner[id]
  PROVE  Resv' = Resv
BY DEF Resv

(***************************************************************************)
(* A step the service does not see.                                        *)
(***************************************************************************)
LEMMA Unseen ==
  ASSUME status' = status, last_task_id' = last_task_id, Resv' = Resv,
         \A k \in Conns : /\ conn'[k].out = conn[k].out
                          /\ conn'[k].st = "closed" <=> conn[k].st = "closed"
                          /\ PendingRequest(k)' = PendingRequest(k)
  PROVE  UNCHANGED Service!sv
<1>1. Seen' = Seen  BY SameReply DEF Seen
<1>2. Asks' = Asks  BY DEF Asks
<1>3. Left' = Left  BY DEF Left
<1> QED  BY <1>1, <1>2, <1>3 DEF Service!sv, Resv, Asks, Seen, Left

(***************************************************************************)
(* The steps of the clients.                                               *)
(***************************************************************************)
LEMMA ConnectUnseen ==
  ASSUME DInv, NEW k \in Conns, NEW pid \in Pids, Connect(k, pid)
  PROVE  UNCHANGED Service!sv
<1>1. UNCHANGED <<vars, fdconn, last_n, last_req, owner>>  BY DEF Connect, clientUnchanged
<1>2. PICK O : conn \in [Conns -> ConnType(O)]  BY DEF DInv, Types
<1>3. conn[k].st = "none" /\ conn' = [conn EXCEPT ![k].pid = pid, ![k].st = "new"]  BY DEF Connect
<1>4. \A j \in Conns : /\ conn'[j].in = conn[j].in /\ conn'[j].out = conn[j].out
                       /\ conn'[j].st = "closed" <=> conn[j].st = "closed"
  BY <1>2, <1>3 DEF ConnType
<1>5. \A j \in Conns : PendingRequest(j)' = PendingRequest(j)  BY <1>1, <1>4, SamePending
<1>6. Resv' = Resv  BY <1>1, SameResv DEF vars
<1> QED  BY <1>1, <1>4, <1>5, <1>6, Unseen DEF vars

LEMMA AskSubmits ==
  ASSUME DInv, DInv', status = "up", NEW k \in Conns, NEW r \in Messages \ {NoMsg}, Ask(k, r),
         conn[k].st \in {"new", "ready"}, clientUnchanged
  PROVE  Service!ServiceNext
<1>1. UNCHANGED <<vars, fdconn, last_n, last_req, owner>>  BY DEF clientUnchanged
<1>2. /\ \A j \in Conns \ {k} : conn'[j] = conn[j]
      /\ conn'[k].st = "waiting" /\ conn'[k].in = r /\ conn'[k].out = conn[k].out
  BY AskFacts DEF DInv
<1>3. conn[k].in = NoMsg /\ conn[k].out = NoMsg  BY DEF DInv, Dialogue
<1>4. \A f \in Fds : fdconn[f] = k => last_n[f] # 1  BY DEF DInv, Round, Received1
<1>5. PendingRequest(k) = NoMsg  BY <1>3, <1>4, PendingNow
<1>6. PendingRequest(k)' = r  BY <1>2, PendingNext
<1>7. \A j \in Conns \ {k} : PendingRequest(j)' = PendingRequest(j)  BY <1>1, <1>2, SamePending
<1>8. /\ Asks[k] = NoMsg /\ Asks'[k] = r /\ Asks' = [Asks EXCEPT ![k] = r]
  <2>1. Asks[k] = NoMsg  BY <1>5 DEF Asks
  <2>2. Asks'[k] = r  BY <1>6 DEF Asks
  <2>3. Asks' = [Asks EXCEPT ![k] = r]  BY <1>6, <1>7 DEF Asks
  <2> QED  BY <2>1, <2>2, <2>3
<1>9. Seen' = Seen /\ Seen[k] = NoMsg
  <2>1. \A j \in Conns : SeenReply(j)' = SeenReply(j)  BY <1>2, SameReply
  <2> QED  BY <1>3, <2>1 DEF Seen, SeenReply
<1>10. Left' = Left /\ ~Left[k]  BY <1>2 DEF Left
<1>11. Resv' = Resv  BY <1>1, SameResv DEF vars
<1>12. Service!Submit(k, r)
  BY <1>1, <1>8, <1>9, <1>10, <1>11
     DEF Service!Submit, Service!None, NoMsg, Resv, Asks, Seen, Left, vars
<1>13. r # Service!None  BY DEF Service!None, NoMsg
<1> QED  BY <1>8, <1>12, <1>13 DEF Service!ServiceNext, Service!Submit, Asks

LEMMA ReceiveTakes ==
  ASSUME DInv, NEW k \in Conns, Receive(k)
  PROVE  Service!ServiceNext
<1>1. UNCHANGED <<vars, fdconn, last_n, last_req, owner>>  BY DEF Receive, clientUnchanged
<1> DEFINE o == IF conn[k].out.rep.type = "create" /\ conn[k].out.rep.res # RTF_NO
                THEN conn[k].owns \cup {conn[k].out.rep.n} ELSE conn[k].owns
<1>2. PICK O : conn \in [Conns -> ConnType(O)]  BY DEF DInv, Types
<1>3. /\ conn[k].st = "waiting" /\ conn[k].out # NoMsg
      /\ conn' = [conn EXCEPT ![k].st = "ready", ![k].asked = NoMsg, ![k].out = NoMsg,
                              ![k].owns = o]
  BY DEF Receive
<1> HIDE DEF o
<1>4. /\ \A j \in Conns \ {k} : conn'[j] = conn[j]
      /\ conn'[k].in = conn[k].in /\ conn'[k].out = NoMsg /\ conn'[k].st = "ready"
  BY <1>2, <1>3 DEF ConnType
<1>5. Asks' = Asks
  <2>1. \A j \in Conns : PendingRequest(j)' = PendingRequest(j)  BY <1>1, <1>4, SamePending
  <2> QED  BY <2>1 DEF Asks
<1>6. Seen[k] # NoMsg /\ Seen' = [Seen EXCEPT ![k] = NoMsg]
  <2>1. \A j \in Conns \ {k} : SeenReply(j)' = SeenReply(j)  BY <1>4, SameReply
  <2>2. SeenReply(k)' = NoMsg  BY <1>4 DEF SeenReply
  <2>3. SeenReply(k) # NoMsg  BY <1>3 DEF SeenReply, NoMsg
  <2>4. Seen[k] # NoMsg  BY <2>3 DEF Seen
  <2>5. Seen' = [Seen EXCEPT ![k] = NoMsg]  BY <2>1, <2>2 DEF Seen
  <2> QED  BY <2>4, <2>5
<1>7. Left' = Left  BY <1>3, <1>4 DEF Left
<1>8. Resv' = Resv  BY <1>1, SameResv DEF vars
<1>9. Service!Take(k)
  BY <1>1, <1>5, <1>6, <1>7, <1>8
     DEF Service!Take, Service!None, NoMsg, Resv, Asks, Seen, Left, vars
<1> QED  BY <1>9 DEF Service!ServiceNext

LEMMA ExitLeaves ==
  ASSUME DInv, NEW k \in Conns, Exit(k)
  PROVE  Service!ServiceNext
<1>1. UNCHANGED <<vars, fdconn, last_n, last_req, owner>>  BY DEF Exit, clientUnchanged
<1>2. PICK O : conn \in [Conns -> ConnType(O)]  BY DEF DInv, Types
<1>3. /\ conn[k].st # "closed"
      /\ conn' = [conn EXCEPT ![k].st = "closed", ![k].asked = NoMsg, ![k].out = NoMsg,
                              ![k].owns = {}]
  BY DEF Exit, Live
<1>4. /\ \A j \in Conns \ {k} : conn'[j] = conn[j]
      /\ conn'[k].in = conn[k].in /\ conn'[k].out = NoMsg /\ conn'[k].st = "closed"
  BY <1>2, <1>3 DEF ConnType
<1>5. Asks' = Asks
  <2>1. \A j \in Conns : PendingRequest(j)' = PendingRequest(j)  BY <1>1, <1>4, SamePending
  <2> QED  BY <2>1 DEF Asks
<1>6. Seen' = [Seen EXCEPT ![k] = NoMsg]
  <2>1. \A j \in Conns \ {k} : SeenReply(j)' = SeenReply(j)  BY <1>4, SameReply
  <2>2. SeenReply(k)' = NoMsg  BY <1>4 DEF SeenReply
  <2> QED  BY <2>1, <2>2 DEF Seen
<1>7. ~Left[k] /\ Left' = [Left EXCEPT ![k] = TRUE]
  <2>1. \A j \in Conns \ {k} : (conn'[j].st = "closed") = (conn[j].st = "closed")  BY <1>4
  <2>2. (conn'[k].st = "closed") = TRUE  BY <1>4
  <2> QED  BY <1>3, <2>1, <2>2 DEF Left
<1>8. Resv' = Resv  BY <1>1, SameResv DEF vars
<1>9. Service!Leave(k)
  BY <1>1, <1>5, <1>6, <1>7, <1>8
     DEF Service!Leave, Service!None, NoMsg, Resv, Asks, Seen, Left, vars
<1> QED  BY <1>9 DEF Service!ServiceNext

(***************************************************************************)
(* The steps of the loop.  A request that is read stays pending.           *)
(***************************************************************************)
LEMMA UpdateUnseen ==
  ASSUME DInv, DInv', Update
  PROVE  UNCHANGED Service!sv
<1>1. UNCHANGED <<vars, owner>> /\ hand = 0  BY DEF Update
<1>2. /\ \A k \in Conns : /\ conn'[k].st = conn[k].st /\ conn'[k].out = conn[k].out
                          /\ conn'[k].in \in {NoMsg, conn[k].in}
      /\ \A f \in Fds : last_n'[f] = Received(f)
      /\ \A f \in Fds : Received(f) = 1 => last_req'[f] = conn[fdconn[f]].in
  BY UpdateFacts
<1>3. \A k \in Conns : (\A f \in Ready : fdconn[f] # k) => conn'[k] = conn[k]  BY DEF Update
<1>4. ASSUME NEW f \in Fds, f \in connset PROVE fdconn'[f] = fdconn[f]
  <2>1. fdconn[f] # 0  BY <1>1, <1>4, BetweenWalks
  <2>2. f # Accepted  BY <2>1, AcceptedFacts, Ranges
  <2> QED  BY <2>2 DEF Update
<1>5. \A f \in Fds : /\ Received(f) = 1 <=> f \in connset /\ HasData(f)
                     /\ last_n[f] # 1
  BY <1>1, ReceivedFacts, BetweenWalks
<1>6. ASSUME NEW k \in Conns PROVE PendingRequest(k)' = PendingRequest(k)
  <2>1. CASE conn[k].in # NoMsg
    <3>1. PendingRequest(k) = conn[k].in  BY <2>1, PendingNow
    <3>2. CASE \E f \in Ready : fdconn[f] = k
      <4>1. PICK f \in Ready : fdconn[f] = k  BY <3>2
      <4>2. f \in Fds /\ f \in connset /\ HasData(f)  BY <2>1, <4>1 DEF Ready, HasData, DInv, Types
      <4>3. last_n'[f] = 1 /\ last_req'[f] = conn[k].in /\ fdconn'[f] = k
        BY <1>2, <1>4, <1>5, <4>1, <4>2
      <4> QED  BY <3>1, <4>2, <4>3, PendingNext
    <3>3. CASE \A f \in Ready : fdconn[f] # k  BY <1>3, <2>1, <3>1, <3>3, PendingNext
    <3> QED  BY <3>2, <3>3
  <2>2. CASE conn[k].in = NoMsg
    <3>1. PendingRequest(k) = NoMsg  BY <1>5, <2>2, PendingNow
    <3>2. \A f \in Fds : fdconn'[f] = k => last_n'[f] # 1
      BY <1>2, <1>4, <1>5, <2>2 DEF HasData
    <3> QED  BY <1>2, <2>2, <3>1, <3>2, PendingNext
  <2> QED  BY <2>1, <2>2
<1>7. Resv' = Resv  BY <1>1, SameResv DEF vars
<1> QED  BY <1>1, <1>2, <1>6, <1>7, Unseen DEF vars

LEMMA InterruptedUnseen ==
  ASSUME DInv, DInv', Interrupted
  PROVE  UNCHANGED Service!sv
<1>1. UNCHANGED <<vars, owner, conn, fdconn>> /\ hand = 0 /\ last_n' = [f \in Fds |-> 0]
  BY DEF Interrupted
<1>2. ASSUME NEW k \in Conns PROVE PendingRequest(k)' = PendingRequest(k)
  <2>1. CASE conn[k].in # NoMsg  BY <1>1, <2>1, PendingNow, PendingNext
  <2>2. CASE conn[k].in = NoMsg  BY <1>1, <2>2, PendingNow, PendingNext, BetweenWalks
  <2> QED  BY <2>1, <2>2
<1>3. Resv' = Resv  BY <1>1, SameResv DEF vars
<1> QED  BY <1>1, <1>2, <1>3, Unseen DEF vars

LEMMA QuietUnseen ==
  ASSUME UNCHANGED <<status, last_task_id, task, owner, conn, fdconn, last_n, last_req>>
  PROVE  UNCHANGED Service!sv
<1>1. \A k \in Conns : PendingRequest(k)' = PendingRequest(k)  BY SamePending
<1>2. Resv' = Resv  BY SameResv
<1> QED  BY <1>1, <1>2, Unseen

\* The descriptor that is closed has no request on it.
LEMMA FailEndUnseen ==
  ASSUME DInv, DInv', FailEnd
  PROVE  UNCHANGED Service!sv
<1>1. /\ UNCHANGED <<vars, owner, conn, last_n, last_req>>
      /\ fdconn' = [fdconn EXCEPT ![failing] = 0] /\ failing # 0
  BY DEF FailEnd, Close
<1>2. failing \in Fds /\ last_n[failing] # 1  BY <1>1, Places DEF DInv, Round
<1>3. ASSUME NEW k \in Conns PROVE PendingRequest(k)' = PendingRequest(k)
  <2>1. CASE conn[k].in # NoMsg  BY <1>1, <2>1, PendingNow, PendingNext
  <2>2. CASE \E f \in Fds : fdconn[f] = k /\ last_n[f] = 1
    <3>1. PICK f \in Fds : fdconn[f] = k /\ last_n[f] = 1  BY <2>2
    <3>2. fdconn'[f] = k /\ last_n'[f] = 1  BY <1>1, <1>2, <3>1 DEF DInv, Types
    <3> QED  BY <1>1, <3>1, <3>2, PendingNow, PendingNext
  <2>3. CASE conn[k].in = NoMsg /\ \A f \in Fds : fdconn[f] = k => last_n[f] # 1
    <3>1. \A f \in Fds : fdconn'[f] = k => fdconn[f] = k
      BY <1>1, <1>2, Ranges DEF DInv, Types
    <3> QED  BY <1>1, <2>3, <3>1, PendingNow, PendingNext
  <2> QED  BY <2>1, <2>2, <2>3
<1>4. Resv' = Resv  BY <1>1, SameResv DEF vars
<1> QED  BY <1>1, <1>3, <1>4, Unseen DEF vars

\* What a user that is gone has left is dropped.
LEMMA DeleteDrops ==
  ASSUME DInv, FailDelete
  PROVE  Service!ServiceNext \/ UNCHANGED Service!sv
<1>1. /\ UNCHANGED <<last_task_id, status, conn, fdconn, last_n, last_req, owner>>
      /\ status = "up" /\ deleting # NoPid
  BY DEF FailDelete, DeleteStep, dvars
<1>2. CASE Owned(deleting) = {}
  <2>1. UNCHANGED task  BY <1>2 DEF FailDelete, DeleteStep
  <2> QED  BY <1>1, <2>1, QuietUnseen
<1>3. CASE Owned(deleting) # {}
  <2> DEFINE id == taskset[Min(Owned(deleting))]
  <2>1. RemoveTask(id)  BY <1>3 DEF FailDelete, DeleteStep
  <2>2. id \in DOMAIN task /\ task[id].ptid = deleting
    <3>1. taskset \in Seq(Ids) /\ ToSet(taskset) = DOMAIN task
      BY DEF DInv, Table, TasksetExact, Enumerates
    <3>2. Owned(deleting) \in SUBSET Nat  BY <3>1 DEF Owned
    <3>3. Min(Owned(deleting)) \in Owned(deleting)  BY <1>3, <3>2, MinIn
    <3> QED  BY <3>1, <3>3 DEF Owned, ToSet
  <2> HIDE DEF id
  <2>3. DOMAIN task' = DOMAIN task \ {id}  BY <2>1 DEF RemoveTask
  <2>4. PICK k \in Conns : k = owner[id] /\ conn[k].st = "closed" /\ id \in Ids
    BY <1>1, <2>2, DeletedAreLeft, Places DEF DInv
  <2>5. Resv[id] = k  BY <2>2, <2>4 DEF Resv
  <2>6. Resv' = [Resv EXCEPT ![id] = 0]  BY <1>1, <2>3, <2>4 DEF Resv
  <2>7. Left[k]  BY <2>4 DEF Left
  <2>8. Asks' = Asks /\ Seen' = Seen /\ Left' = Left
    BY <1>1, SamePending, SameReply DEF Asks, Seen, Left
  <2>9. id \in Service!Holds(k)  BY <2>4, <2>5 DEF Service!Holds, Resv
  <2>10. Service!Drop(k)
    BY <1>1, <2>6, <2>7, <2>8, <2>9 DEF Service!Drop, Resv, Asks, Seen, Left
  <2> QED  BY <2>10 DEF Service!ServiceNext
<1> QED  BY <1>2, <1>3

LEMMA TerminateStops ==
  ASSUME Terminate
  PROVE  Service!ServiceNext
<1>1. /\ status = "up" /\ status' = "stopped" /\ task' = <<>>
      /\ UNCHANGED <<last_task_id, conn, fdconn, last_n, last_req, owner>>
  BY DEF Terminate, Running, dvars
<1>2. Resv' = [id \in Ids |-> 0]
  <2>1. DOMAIN task' = {}  BY <1>1
  <2> QED  BY <2>1 DEF Resv
<1>3. Asks' = Asks /\ Seen' = Seen /\ Left' = Left
  BY <1>1, SamePending, SameReply DEF Asks, Seen, Left
<1>4. (status = "up")' = FALSE  BY <1>1
<1>5. Service!Stop  BY <1>1, <1>2, <1>3, <1>4 DEF Service!Stop, Resv, Asks, Seen, Left
<1> QED  BY <1>5 DEF Service!ServiceNext

-----------------------------------------------------------------------------
(***************************************************************************)
(* A request is served: it is not pending any more, and the user that made *)
(* it, unless it has left, gets a reply that says so.                      *)
(***************************************************************************)
Said(req, rep) ==
  [type |-> "reply", re |-> req, ok |-> rep.res # RTF_NO,
   n |-> IF req.type = "tasks_info" \/ (req.type = "create" /\ rep.res # RTF_NO)
         THEN rep.n ELSE 0]

LEMMA ServedAnswers ==
  ASSUME DInv, DInv', AtHand, Updated(hand), NEW rep, NEW k \in Conns, k = fdconn[hand],
         ReplyStep(k, rep)
  PROVE  /\ Asks[k] = last_req[hand]
         /\ Asks' = [Asks EXCEPT ![k] = NoMsg]
         /\ Left' = Left
         /\ Seen' = IF Left[k] THEN Seen ELSE [Seen EXCEPT ![k] = Said(last_req[hand], rep)]
<1>1. /\ hand \in Fds /\ last_n[hand] = 1 /\ conn[k].in = NoMsg /\ k # 0
  BY AtHandFacts DEF Received1
<1>2. /\ \A j \in Conns \ {k} : conn'[j] = conn[j]
      /\ conn'[k].in = conn[k].in /\ conn'[k].st = conn[k].st
      /\ conn'[k].out = IF conn[k].st = "closed" THEN conn[k].out
                        ELSE [re |-> last_req[hand], rep |-> rep]
      /\ last_n'[hand] = 0 /\ \A f \in Fds \ {hand} : last_n'[f] = last_n[f]
      /\ UNCHANGED <<fdconn, last_req>>
  BY DEF ReplyStep
<1>3. \A f \in Fds : fdconn[f] = k <=> f = hand  BY <1>1 DEF DInv, Wired
<1>4. PendingRequest(k) = last_req[hand]  BY <1>1, PendingNow
<1>5. PendingRequest(k)' = NoMsg  BY <1>1, <1>2, <1>3, PendingNext
<1>6. ASSUME NEW j \in Conns \ {k} PROVE PendingRequest(j)' = PendingRequest(j)
  <2>1. CASE conn[j].in # NoMsg  BY <1>2, <2>1, PendingNow, PendingNext
  <2>2. CASE \E f \in Fds : fdconn[f] = j /\ last_n[f] = 1
    <3>1. PICK f \in Fds : fdconn[f] = j /\ last_n[f] = 1  BY <2>2
    <3>2. fdconn'[f] = j /\ last_n'[f] = 1 /\ last_req'[f] = last_req[f]  BY <1>2, <1>3, <3>1
    <3> QED  BY <3>1, <3>2, PendingNow, PendingNext
  <2>3. CASE conn[j].in = NoMsg /\ \A f \in Fds : fdconn[f] = j => last_n[f] # 1
    BY <1>2, <1>3, <2>3, PendingNow, PendingNext
  <2> QED  BY <2>1, <2>2, <2>3
<1>7. Asks[k] = last_req[hand]  BY <1>4 DEF Asks
<1>8. Asks' = [Asks EXCEPT ![k] = NoMsg]  BY <1>5, <1>6 DEF Asks
<1>9. Left' = Left  BY <1>2 DEF Left
<1>10. \A j \in Conns \ {k} : SeenReply(j)' = SeenReply(j)  BY <1>2, SameReply
<1>11. CASE Left[k]
  <2>1. conn[k].st = "closed"  BY <1>11 DEF Left
  <2>2. SeenReply(k)' = SeenReply(k)  BY <1>2, <2>1, SameReply
  <2>3. Seen' = Seen  BY <1>10, <2>2 DEF Seen
  <2> QED  BY <1>7, <1>8, <1>9, <1>11, <2>3
<1>12. CASE ~Left[k]
  <2>1. conn[k].st # "closed"  BY <1>12 DEF Left
  <2>2. conn'[k].out = [re |-> last_req[hand], rep |-> rep]  BY <1>2, <2>1
  <2>3. conn'[k].out # NoMsg /\ conn'[k].out.re = last_req[hand] /\ conn'[k].out.rep = rep
    BY <2>2 DEF NoMsg
  <2>4. SeenReply(k)' = Said(last_req[hand], rep)  BY <2>3 DEF SeenReply, Said
  <2>5. Seen' = [Seen EXCEPT ![k] = Said(last_req[hand], rep)]  BY <1>10, <2>4 DEF Seen
  <2> QED  BY <1>7, <1>8, <1>9, <1>12, <2>5
<1> QED  BY <1>11, <1>12

\* The same in the service's words.
LEMMA SaysAnswered ==
  ASSUME DInv, DInv', AtHand, Updated(hand), status' = "up", NEW rep, NEW k \in Conns,
         k = fdconn[hand], ReplyStep(k, rep), NEW ok, ok = (rep.res # RTF_NO), NEW n,
         n = IF last_req[hand].type = "tasks_info" \/ (last_req[hand].type = "create" /\ ok)
             THEN rep.n ELSE 0
  PROVE  Asks[k] = last_req[hand] /\ Service!Answered(k, ok, n)
<1>1. /\ Asks[k] = last_req[hand]
      /\ Asks' = [Asks EXCEPT ![k] = NoMsg]
      /\ Left' = Left
      /\ Seen' = IF Left[k] THEN Seen ELSE [Seen EXCEPT ![k] = Said(last_req[hand], rep)]
  BY ServedAnswers
<1>2. Said(last_req[hand], rep) = [type |-> "reply", re |-> Asks[k], ok |-> ok, n |-> n]
  BY <1>1 DEF Said
<1>3. status = "up"  BY AtHandFacts
<1>4. Seen' = IF Left[k] THEN Seen
              ELSE [Seen EXCEPT ![k] = [type |-> "reply", re |-> Asks[k], ok |-> ok, n |-> n]]
  BY <1>1, <1>2
<1>5. (status = "up")' = (status = "up")  BY <1>3
<1> QED
  BY <1>1, <1>3, <1>4, <1>5
     DEF Service!Answered, Service!None, NoMsg, Asks, Seen, Left

\* Every request but the announcement is answered this way.
LEMMA RequestAnswered ==
  ASSUME DInv, DInv', status' = "up", NEW type, Serving(type), type # "connect",
         NEW rep, Reply(rep, client), NEW ok \in BOOLEAN, ok <=> rep.res # RTF_NO, NEW n,
         n = IF type = "tasks_info" \/ (type = "create" /\ rep.res # RTF_NO) THEN rep.n ELSE 0
  PROVE  \E k \in Conns : /\ k = fdconn[hand] /\ Asks[k] = last_req[hand]
                          /\ Service!Answered(k, ok, n)
<1>1. AtHand /\ Updated(hand) /\ last_req[hand].type = type  BY DEF Serving
<1>2. PICK k \in Conns : k = fdconn[hand]  BY <1>1, AtHandFacts
<1>3. client[hand].pid = conn[k].pid  BY <1>1, <1>2, AtHandFacts
<1>4. client \in [Fds -> ClientType]  BY DEF DInv, Types
<1>5. ReplyStep(k, rep)  BY <1>1, <1>2, <1>3, <1>4, ReplyFacts
<1>6. ok = (rep.res # RTF_NO)  OBVIOUS
<1>7. Asks[k] = last_req[hand] /\ Service!Answered(k, ok, n)
  BY <1>1, <1>2, <1>5, <1>6, SaysAnswered
<1> QED  BY <1>2, <1>7

\* It is refused ...
LEMMA AnsweredNo ==
  ASSUME DInv, DInv', status' = "up", NEW type, Serving(type), type \notin {"connect", "tasks_info"},
         NEW rep, Reply(rep, client), rep.res = RTF_NO
  PROVE  \E k \in Conns : /\ k = fdconn[hand] /\ Asks[k] = last_req[hand]
                          /\ Service!Answered(k, FALSE, 0)
<1>1. PICK ok : ok = FALSE  OBVIOUS
<1>2. ok \in BOOLEAN /\ (ok <=> rep.res # RTF_NO)  BY <1>1
<1>3. PICK k \in Conns : /\ k = fdconn[hand] /\ Asks[k] = last_req[hand]
                         /\ Service!Answered(k, ok, 0)
  BY <1>2, RequestAnswered
<1> QED  BY <1>1, <1>3

\* ... or granted.
LEMMA AnsweredYes ==
  ASSUME DInv, DInv', status' = "up", NEW type, Serving(type), type # "connect",
         NEW rep, Reply(rep, client), rep.res # RTF_NO, NEW n,
         type \in {"tasks_info", "create"} => n = rep.n,
         type \notin {"tasks_info", "create"} => n = 0
  PROVE  \E k \in Conns : /\ k = fdconn[hand] /\ Asks[k] = last_req[hand]
                          /\ Service!Answered(k, TRUE, n)
<1>1. PICK ok : ok = TRUE  OBVIOUS
<1>2. ok \in BOOLEAN /\ (ok <=> rep.res # RTF_NO)  BY <1>1
<1>3. PICK k \in Conns : /\ k = fdconn[hand] /\ Asks[k] = last_req[hand]
                         /\ Service!Answered(k, ok, n)
  BY <1>2, RequestAnswered
<1> QED  BY <1>1, <1>3

\* A request that leaves the reservations alone is another request to the service.
LEMMA OtherServed ==
  ASSUME DInv, DInv', status' = "up", NEW type, Serving(type),
         type \notin {"none", "connect", "create", "destroy", "tasks_info", "task_info"},
         NEW rep, Reply(rep, client), UNCHANGED <<last_task_id, owner>>, DOMAIN task' = DOMAIN task
  PROVE  Service!ServiceNext
<1>1. PICK ok \in BOOLEAN : ok <=> rep.res # RTF_NO  OBVIOUS
<1>3. PICK k \in Conns : /\ k = fdconn[hand] /\ Asks[k] = last_req[hand]
                         /\ Service!Answered(k, ok, 0)
  BY <1>1, RequestAnswered
<1>4. Resv' = Resv  BY SameResv
<1>5. Asks[k].type = type  BY <1>3 DEF Serving
<1>6. Service!Other(k)  BY <1>3, <1>4, <1>5 DEF Service!Other, Resv, Asks
<1> QED  BY <1>6 DEF Service!ServiceNext, Service!Serve

LEMMA CreateServed ==
  ASSUME DInv, DInv', Sound', ReqTaskCreate
  PROVE  Service!ServiceNext
<1>1. /\ Serving("create") /\ TaskCreate(Req.tp, client[hand].pid)
      /\ owner' = IF CreateResult(Req.tp) = RTF_NO THEN owner
                  ELSE [owner EXCEPT ![last_task_id'] = fdconn[hand]]
  BY DEF ReqTaskCreate
<1>2. PICK rep : /\ rep = [type |-> "create", res |-> CreateResult(Req.tp),
                           n |-> IF CreateResult(Req.tp) = RTF_NO THEN -1 ELSE last_task_id']
                 /\ status' = "up" => Reply(rep, client)
  BY DEF ReqTaskCreate, ReplyIfUp
<1>3. rep.res = CreateResult(Req.tp) /\ (rep.res # RTF_NO => rep.n = last_task_id')  BY <1>2
<1>4. /\ last_task_id' = last_task_id + 1 /\ last_task_id + 1 \in Ids
      /\ last_task_id + 1 \notin DOMAIN task /\ status = "up"
  BY <1>1, SchedulerAssumption DEF TaskCreate, DInv, Table, Ids, Idle
<1>5. AtHand /\ Updated(hand) /\ last_req[hand].type = "create"  BY <1>1 DEF Serving
<1> DEFINE i == Chosen(CreateTests(Req.tp))
<1>6. CASE i = 0
  <2>1. UNCHANGED <<task, status>> /\ Reply(rep, client)  BY <1>1, <1>2, <1>4, <1>6 DEF TaskCreate
  <2>2. rep.res = RTF_NO  BY <1>3, <1>6 DEF CreateResult, Outcome
  <2>3. PICK k \in Conns : /\ k = fdconn[hand] /\ Asks[k] = last_req[hand]
                           /\ Service!Answered(k, FALSE, 0)
    BY <1>1, <1>2, <1>4, <2>1, <2>2, AnsweredNo
  <2>4. Resv' = Resv  BY <1>1, <1>3, <2>1, <2>2, SameResv
  <2>5. Asks[k].type = "create"  BY <1>5, <2>3
  <2>6. Service!Refuse(k)  BY <1>4, <2>3, <2>4, <2>5 DEF Service!Refuse, Resv, Asks
  <2> QED  BY <2>6 DEF Service!ServiceNext, Service!Serve
<1>7. CASE i # 0
  <2>1. i \in Index  BY <1>7, ChosenType
  <2> DEFINE id == last_task_id + 1
             tk == [x \in DOMAIN task \cup {id} |->
                      IF x = id THEN NewTask(Req.tp, client[hand].pid) ELSE task[x]]
  <2>2. Place(i, plugin[i], tk, id)  BY <1>1, <1>7 DEF TaskCreate
  <2>3. rep.res # RTF_NO  BY <1>3, <1>7, ChosenAnswers DEF CreateResult, Outcome
  <2>4. DOMAIN tk = DOMAIN task \cup {id}  OBVIOUS
  <2>5. status' = "up" /\ Reply(rep, client)
    <3>1. status' \in {"crashed", "up"}  BY <1>4, <2>2 DEF Place
    <3> QED  BY <1>2, <3>1 DEF Sound
  <2> HIDE DEF tk, i
  <2>6. DOMAIN task' = DOMAIN task \cup {id}  BY <2>1, <2>2, <2>4, PlaceDomain
  <2>7. PICK n : n = last_task_id + 1  OBVIOUS
  <2>8. PICK k \in Conns : /\ k = fdconn[hand] /\ Asks[k] = last_req[hand]
                           /\ Service!Answered(k, TRUE, n)
    BY <1>1, <1>2, <1>3, <1>4, <2>3, <2>5, <2>7, AnsweredYes
  <2>9. owner' = [owner EXCEPT ![n] = k] /\ owner \in [Ids -> Conns \cup {0}] /\ n \in Ids
    BY <1>1, <1>3, <1>4, <2>3, <2>7, <2>8 DEF DInv, Types
  <2>10. Resv' = [Resv EXCEPT ![n] = k]  BY <2>6, <2>7, <2>9 DEF Resv
  <2>11. Asks[k].type = "create"  BY <1>5, <2>8
  <2>12. last_task_id' = n  BY <1>4, <2>7
  <2>13. Service!Grant(k)
    BY <1>4, <2>7, <2>8, <2>10, <2>11, <2>12 DEF Service!Grant, Resv, Asks
  <2> QED  BY <2>13 DEF Service!ServiceNext, Service!Serve
<1> QED  BY <1>6, <1>7

LEMMA DestroyServed ==
  ASSUME DInv, DInv', ReqTaskDestroy
  PROVE  Service!ServiceNext
<1>1. Serving("destroy") /\ TaskDestroy(Req.id) /\ UNCHANGED owner  BY DEF ReqTaskDestroy
<1>2. PICK rep : /\ rep = [type |-> "destroy", n |-> 0,
                           res |-> IF Req.id \notin DOMAIN task THEN RTF_ERROR ELSE RTF_OK]
                 /\ Reply(rep, client)
  BY DEF ReqTaskDestroy
<1>3. UNCHANGED <<last_task_id, status>> /\ status' = "up"  BY <1>1 DEF TaskDestroy, Idle
<1>4. AtHand /\ Updated(hand) /\ last_req[hand].type = "destroy"  BY <1>1 DEF Serving
<1>5. PICK id : id = last_req[hand].id  OBVIOUS
<1>6. id \in Ids  BY <1>4, <1>5, AtHandFacts DEF Messages, NoMsg
<1>7. CASE id \notin DOMAIN task
  <2>1. UNCHANGED task  BY <1>1, <1>5, <1>7 DEF TaskDestroy, Req
  <2>2. rep.res = RTF_NO  BY <1>2, <1>5, <1>7 DEF Req, RTF_NO, RTF_ERROR
  <2>3. PICK k \in Conns : /\ k = fdconn[hand] /\ Asks[k] = last_req[hand]
                           /\ Service!Answered(k, FALSE, 0)
    BY <1>1, <1>2, <1>3, <2>2, AnsweredNo
  <2>4. Resv' = Resv  BY <1>1, <2>1, SameResv
  <2>5. Asks[k].type = "destroy" /\ Asks[k].id = id  BY <1>4, <1>5, <2>3
  <2>6. Resv[id] = 0  BY <1>6, <1>7 DEF Resv
  <2>7. id \notin Service!Reserved  BY <2>6 DEF Service!Reserved, Resv
  <2>8. Service!Release(k)
    BY <1>3, <2>3, <2>4, <2>5, <2>7 DEF Service!Release, Resv, Asks
  <2> QED  BY <2>8 DEF Service!ServiceNext, Service!Serve
<1>8. CASE id \in DOMAIN task
  <2>1. DOMAIN task' = DOMAIN task \ {id}  BY <1>1, <1>5, <1>8 DEF TaskDestroy, RemoveTask, Req
  <2>2. rep.res # RTF_NO  BY <1>2, <1>5, <1>8 DEF Req, RTF_NO, RTF_OK
  <2>3. PICK k \in Conns : /\ k = fdconn[hand] /\ Asks[k] = last_req[hand]
                           /\ Service!Answered(k, TRUE, 0)
    <3>1. PICK type, n : type = "destroy" /\ n = 0  OBVIOUS
    <3>2. Serving(type) /\ Reply(rep, client) /\ status' = "up"  BY <1>1, <1>2, <1>3, <3>1
    <3>3. type # "connect" /\ type \notin {"tasks_info", "create"}  BY <3>1
    <3>4. \E k \in Conns : /\ k = fdconn[hand] /\ Asks[k] = last_req[hand]
                          /\ Service!Answered(k, TRUE, n)
      BY <2>2, <3>1, <3>2, <3>3, AnsweredYes
    <3> QED  BY <3>1, <3>4
  <2>4. owner[id] = k /\ k # 0  BY <1>4, <1>5, <2>3, AtHandFacts DEF Received1
  <2>5. Resv' = [Resv EXCEPT ![id] = 0]  BY <1>1, <1>6, <2>1 DEF Resv
  <2>6. Asks[k].type = "destroy" /\ Asks[k].id = id  BY <1>4, <1>5, <2>3
  <2>7. Resv[id] = k  BY <1>6, <1>8, <2>4 DEF Resv
  <2>8. id \in Service!Reserved  BY <1>6, <2>4, <2>7 DEF Service!Reserved, Resv
  <2>9. Service!Release(k)
    BY <1>3, <2>3, <2>5, <2>6, <2>7, <2>8 DEF Service!Release, Resv, Asks
  <2> QED  BY <2>9 DEF Service!ServiceNext, Service!Serve
<1> QED  BY <1>7, <1>8

(***************************************************************************)
(* The queries about reservations.  The length of the task set is the      *)
(* number of reservations, because it lists each of them once.             *)
(***************************************************************************)
LEMMA ReservedAre ==
  ASSUME DInv
  PROVE  Service!Reserved = DOMAIN task
<1>1. DOMAIN task \in SUBSET Ids  BY Places DEF DInv
<1>2. \A id \in DOMAIN task : owner[id] # 0  BY DEF DInv, Filed
<1>3. \A id \in Ids : Resv[id] # 0 <=> id \in DOMAIN task  BY <1>2 DEF Resv
<1>4. Service!Reserved = {id \in Ids : Resv[id] # 0}  BY DEF Service!Reserved, Resv
<1> QED  BY <1>1, <1>3, <1>4

LEMMA SetCounts ==
  ASSUME DInv
  PROVE  Len(taskset) = Cardinality(DOMAIN task)
<1>1. taskset \in Seq(Ids) /\ Enumerates(taskset, DOMAIN task)  BY DEF DInv, Table, TasksetExact
<1> DEFINE n == Len(taskset)
<1>2. n \in Nat /\ taskset \in [1..n -> Ids]  BY <1>1
<1>3. ToSet(taskset) = DOMAIN task  BY <1>1 DEF Enumerates
<1>4. taskset \in [1..n -> DOMAIN task]  BY <1>1, <1>2, <1>3 DEF ToSet
<1>5. taskset \in Bijection(1..n, DOMAIN task)
  <2>1. \A a, b \in 1..n : taskset[a] = taskset[b] => a = b  BY <1>1 DEF Enumerates
  <2>2. \A x \in DOMAIN task : \E a \in 1..n : taskset[a] = x  BY <1>1, <1>3 DEF ToSet
  <2> QED  BY <1>4, <2>1, <2>2 DEF Bijection, Injection, Surjection, IsInjective
<1>6. ExistsBijection(1..n, DOMAIN task)  BY <1>5 DEF ExistsBijection
<1>7. IsFiniteSet(1..n) /\ Cardinality(1..n) = n  BY <1>2, FS_Interval
<1>8. Cardinality(DOMAIN task) = Cardinality(1..n)  BY <1>6, <1>7, FS_Bijection
<1> QED  BY <1>7, <1>8

LEMMA TasksInfoServed ==
  ASSUME DInv, DInv', ReqTasksInfo
  PROVE  Service!ServiceNext
<1>1. Serving("tasks_info") /\ UNCHANGED <<vars, owner>>  BY DEF ReqTasksInfo, Answer
<1>2. PICK rep : rep = [type |-> "plugins_info", res |-> RTF_OK, n |-> Len(taskset)]
                 /\ Reply(rep, client)
  BY DEF ReqTasksInfo, Answer, Info
<1>3. PICK n : n = Len(taskset)  OBVIOUS
<1>4. rep.res # RTF_NO /\ rep.n = n  BY <1>2, <1>3 DEF RTF_OK, RTF_NO
<1>5. status' = "up" /\ AtHand /\ Updated(hand)  BY <1>1, AtHandFacts DEF Serving, vars
<1>6. PICK k \in Conns : /\ k = fdconn[hand] /\ Asks[k] = last_req[hand]
                         /\ Service!Answered(k, TRUE, n)
  BY <1>1, <1>2, <1>4, <1>5, AnsweredYes
<1>7. Resv' = Resv  BY <1>1, SameResv DEF vars
<1>8. n = Service!Cardinality(Service!Reserved)
  <2>1. Service!Cardinality(DOMAIN task) = Cardinality(DOMAIN task)
    BY Zenon DEF Service!Cardinality, Cardinality
  <2> QED  BY <1>3, <2>1, SetCounts, ReservedAre
<1>9. Asks[k].type = "tasks_info"  BY <1>1, <1>6 DEF Serving
<1>10. Service!Answered(k, TRUE, Service!Cardinality(Service!Reserved))  BY <1>6, <1>8
<1>11. UNCHANGED <<last_task_id, Resv>>  BY <1>1, <1>7 DEF vars
<1>12. Service!TellTasks(k)
  BY <1>9, <1>10, <1>11 DEF Service!TellTasks, Resv, Asks
<1> QED  BY <1>12 DEF Service!ServiceNext, Service!Serve

LEMMA TaskInfoServed ==
  ASSUME DInv, DInv', ReqTaskInfo
  PROVE  Service!ServiceNext
<1> DEFINE t == task[Req.desc]
           told == [tid |-> t.tid, ppid |-> t.ptid, priority |-> t.schedprio,
                    period |-> t.params.period, pluginid |-> t.pluginid]
<1>1. Serving("task_info") /\ UNCHANGED <<vars, owner>>  BY DEF ReqTaskInfo, Answer
<1>2. PICK rep : /\ rep = IF Req.desc \notin DOMAIN task THEN Err("task_info")
                          ELSE Info("task_info", told)
                 /\ Reply(rep, client)
  BY DEF ReqTaskInfo, Answer
<1> HIDE DEF told
<1>3. PICK ok \in BOOLEAN : ok <=> Req.desc \in DOMAIN task  OBVIOUS
<1>4. ok <=> rep.res # RTF_NO  BY <1>2, <1>3 DEF Err, Info, RTF_OK, RTF_ERROR, RTF_NO
<1>5. status' = "up" /\ AtHand /\ Updated(hand)  BY <1>1, AtHandFacts DEF Serving, vars
<1>6. PICK k \in Conns : /\ k = fdconn[hand] /\ Asks[k] = last_req[hand]
                         /\ Service!Answered(k, ok, 0)
  BY <1>1, <1>2, <1>4, <1>5, RequestAnswered
<1>7. Resv' = Resv  BY <1>1, SameResv DEF vars
<1>8. ok <=> Asks[k].desc \in Service!Reserved  BY <1>3, <1>6, ReservedAre DEF Req
<1>9. ok = (Asks[k].desc \in Service!Reserved)  BY <1>8
<1>10. Asks[k].type = "task_info"  BY <1>1, <1>6 DEF Serving
<1>11. Service!Answered(k, Asks[k].desc \in Service!Reserved, 0)  BY <1>6, <1>9
<1>12. Service!TellTask(k)
  BY <1>1, <1>7, <1>10, <1>11 DEF Service!TellTask, Resv, Asks, vars
<1> QED  BY <1>12 DEF Service!ServiceNext, Service!Serve

LEMMA ConnectionServed ==
  ASSUME DInv, DInv', ReqConnection
  PROVE  Service!ServiceNext
<1> DEFINE new == [client EXCEPT ![hand].pid = Req.pid]
<1>1. Serving("connect") /\ UNCHANGED <<vars, owner>>  BY DEF ReqConnection
<1>2. PICK rep : rep = [type |-> "connect", res |-> RTF_OK, n |-> 0] /\ Reply(rep, new)
  BY DEF ReqConnection
<1>3. AtHand /\ Updated(hand) /\ last_req[hand].type = "connect" /\ status' = "up"
  BY <1>1, AtHandFacts DEF Serving, vars
<1>4. PICK k \in Conns : k = fdconn[hand]  BY <1>3, AtHandFacts
<1>5. hand \in Fds /\ last_req[hand].pid = conn[k].pid  BY <1>3, <1>4, AtHandFacts DEF Received1
<1>6. conn[k].pid \in Pids \cup {0}  BY ConnFields DEF DInv
<1>7. /\ new \in [Fds -> ClientType]
      /\ \A f \in Fds \ {hand} : new[f] = client[f]
      /\ new[hand].state = client[hand].state /\ new[hand].pid = conn[k].pid
  <2>1. client \in [Fds -> ClientType] /\ Req.pid = conn[k].pid  BY <1>5 DEF DInv, Types, Req
  <2>2. [client[hand] EXCEPT !.pid = Req.pid] \in ClientType  BY <1>5, <1>6, <2>1 DEF ClientType
  <2> QED  BY <1>5, <2>1, <2>2 DEF ClientType
<1> HIDE DEF new
<1>8. ReplyStep(k, rep)  BY <1>2, <1>3, <1>4, <1>7, ReplyFacts
<1>9. PICK ok \in BOOLEAN : ok = (rep.res # RTF_NO)  OBVIOUS
<1>10. Asks[k] = last_req[hand] /\ Service!Answered(k, ok, 0)
  BY <1>3, <1>4, <1>8, <1>9, SaysAnswered
<1>11. Resv' = Resv  BY <1>1, SameResv DEF vars
<1>12. Asks[k].type = "connect"  BY <1>3, <1>10
<1>13. Service!Other(k)
  BY <1>1, <1>10, <1>11, <1>12 DEF Service!Other, Resv, Asks, vars
<1> QED  BY <1>13 DEF Service!ServiceNext, Service!Serve

\* The queries that are not about reservations.
LEMMA QueryServed ==
  ASSUME DInv, DInv', NEW type, NEW rep, Answer(type, rep),
         type \notin {"none", "connect", "create", "destroy", "tasks_info", "task_info"}
  PROVE  Service!ServiceNext
<1>1. Serving(type) /\ Reply(rep, client) /\ UNCHANGED <<vars, owner>>  BY DEF Answer
<1>2. status' = "up"  BY <1>1, AtHandFacts DEF Serving, vars
<1>3. UNCHANGED <<last_task_id, owner>> /\ DOMAIN task' = DOMAIN task  BY <1>1 DEF vars
<1> QED  BY <1>1, <1>2, <1>3, OtherServed

LEMMA QueriesServed ==
  ASSUME DInv, DInv',
         \/ ReqConnectionsInfo \/ ReqPluginsInfo \/ ReqConnectionInfo
         \/ ReqPluginInfo \/ ReqPluginCpuInfo
  PROVE  Service!ServiceNext
<1>1. CASE ReqConnectionsInfo
  <2>1. PICK rep : Answer("connections_info", rep)  BY <1>1 DEF ReqConnectionsInfo
  <2> QED  BY <2>1, QueryServed
<1>2. CASE ReqPluginsInfo
  <2>1. PICK rep : Answer("plugins_info", rep)  BY <1>2 DEF ReqPluginsInfo
  <2> QED  BY <2>1, QueryServed
<1>3. CASE ReqConnectionInfo
  <2>1. PICK rep : Answer("connection_info", rep)  BY <1>3 DEF ReqConnectionInfo
  <2> QED  BY <2>1, QueryServed
<1>4. CASE ReqPluginInfo
  <2>1. PICK rep : Answer("plugin_info", rep)  BY <1>4 DEF ReqPluginInfo
  <2> QED  BY <2>1, QueryServed
<1>5. CASE ReqPluginCpuInfo
  <2>1. PICK rep : Answer("plugin_cpu_info", rep)  BY <1>5 DEF ReqPluginCpuInfo
  <2> QED  BY <2>1, QueryServed
<1> QED  BY <1>1, <1>2, <1>3, <1>4, <1>5

\* A reservation is changed, or a thread is attached to it or detached.
LEMMA TaskServed ==
  ASSUME DInv, DInv', Sound', ReqTaskModify \/ ReqTaskAttach \/ ReqTaskDetach
  PROVE  Service!ServiceNext
<1>1. CASE ReqTaskModify
  <2>1. Serving("modify") /\ TaskChange(rsvid(Req.tp)) /\ UNCHANGED owner
    BY <1>1 DEF ReqTaskModify
  <2>2. PICK rep : status' = "up" => Reply(rep, client)  BY <1>1 DEF ReqTaskModify, ReplyIfUp
  <2> DEFINE id == rsvid(Req.tp)
             i  == Chosen(ChangeTests(id))
  <2>3. UNCHANGED last_task_id /\ status = "up"  BY <2>1 DEF TaskChange, Idle
  <2>4. \/ UNCHANGED <<task, status>>
        \/ i # 0 /\ Place(i, Release(i, id), task, id)
    BY <2>1 DEF TaskChange
  <2>5. i # 0 => i \in Index  BY ChosenType
  <2> HIDE DEF i, id
  <2>6. DOMAIN task' = DOMAIN task  BY <2>4, <2>5, PlaceDomain
  <2>7. status' = "up"
    <3>1. status' \in {"crashed", "up"}  BY <2>3, <2>4 DEF Place
    <3> QED  BY <3>1 DEF Sound
  <2> QED  BY <2>1, <2>2, <2>3, <2>6, <2>7, OtherServed
<1>2. CASE ReqTaskAttach
  <2>1. PICK sys \in SysOutcomes : TaskAttach(Req.id, Req.tid, sys) /\ \E rep : Reply(rep, client)
    BY <1>2 DEF ReqTaskAttach
  <2>2. PICK rep : Reply(rep, client)  BY <2>1
  <2>3. Serving("attach") /\ UNCHANGED owner  BY <1>2 DEF ReqTaskAttach
  <2>4. UNCHANGED last_task_id /\ status' = "up"  BY <2>1 DEF TaskAttach, Idle
  <2>5. DOMAIN task' = DOMAIN task  BY <2>1 DEF TaskAttach
  <2> QED  BY <2>2, <2>3, <2>4, <2>5, OtherServed
<1>3. CASE ReqTaskDetach
  <2>1. Serving("detach") /\ TaskDetach(Req.id) /\ UNCHANGED owner  BY <1>3 DEF ReqTaskDetach
  <2>2. PICK rep : Reply(rep, client)  BY <1>3 DEF ReqTaskDetach
  <2>3. UNCHANGED <<last_task_id, task>> /\ status' = "up"  BY <2>1 DEF TaskDetach, Idle
  <2>4. DOMAIN task' = DOMAIN task  BY <2>3
  <2> QED  BY <2>1, <2>2, <2>3, <2>4, OtherServed
<1> QED  BY <1>1, <1>2, <1>3

-----------------------------------------------------------------------------
LEMMA ServiceStarts ==
  ASSUME DaemonInit
  PROVE  Service!ServiceInit
<1>1. /\ status = "up" /\ last_task_id = 0 /\ task = <<>>
      /\ conn = [k \in Conns |-> [pid |-> 0, st |-> "none", asked |-> NoMsg, in |-> NoMsg,
                                  out |-> NoMsg, owns |-> {}]]
      /\ last_n = [f \in Fds |-> 0]
  BY DEF DaemonInit, Init
<1>2. \A k \in Conns : conn[k].st = "none" /\ conn[k].in = NoMsg /\ conn[k].out = NoMsg  BY <1>1
<1>3. Resv = [id \in Ids |-> 0]
  <2>1. DOMAIN task = {}  BY <1>1
  <2> QED  BY <2>1 DEF Resv
<1>4. Asks = [k \in Conns |-> NoMsg]
  <2>1. \A k \in Conns : PendingRequest(k) = NoMsg  BY <1>1, <1>2 DEF PendingRequest
  <2> QED  BY <2>1 DEF Asks
<1>5. Seen = [k \in Conns |-> NoMsg]  BY <1>2 DEF Seen, SeenReply
<1>6. Left = [k \in Conns |-> FALSE]
  <2>1. \A k \in Conns : (conn[k].st = "closed") = FALSE  BY <1>2
  <2> QED  BY <2>1 DEF Left
<1>7. (status = "up") = TRUE  BY <1>1
<1> QED
  BY <1>1, <1>3, <1>4, <1>5, <1>6, <1>7
     DEF Service!ServiceInit, Service!None, NoMsg, Resv, Asks, Seen, Left

LEMMA ClientsServed ==
  ASSUME DInv, DInv', Clients
  PROVE  Service!ServiceNext \/ UNCHANGED Service!sv
<1>0. status = "up"  BY DEF Clients, Running
<1>1. ASSUME NEW k \in Conns, NEW pid \in Pids, Connect(k, pid) PROVE UNCHANGED Service!sv
  BY <1>1, ConnectUnseen
<1>2. ASSUME NEW k \in Conns, Announce(k) PROVE Service!ServiceNext
  <2>1. conn[k].st = "new" /\ clientUnchanged  BY <1>2 DEF Announce
  <2>2. PICK r : r = [type |-> "connect", pid |-> conn[k].pid] /\ Ask(k, r)
    BY <1>2 DEF Announce
  <2>3. conn[k].pid \in Pids  BY <2>1, ConnFields DEF DInv, Dialogue
  <2>4. r \in Messages \ {NoMsg}  BY <2>2, <2>3 DEF Messages, NoMsg
  <2> QED  BY <1>0, <2>1, <2>2, <2>4, AskSubmits
<1>3. ASSUME NEW k \in Conns, NEW r \in Requests(k), Send(k, r) PROVE Service!ServiceNext
  <2>1. conn[k].st = "ready" /\ clientUnchanged /\ Ask(k, r)  BY <1>3 DEF Send
  <2>2. r \in Messages \ {NoMsg}  BY RequestsAreMessages
  <2> QED  BY <1>0, <2>1, <2>2, AskSubmits
<1> QED  BY <1>1, <1>2, <1>3, ReceiveTakes, ExitLeaves DEF Clients

LEMMA HandleServed ==
  ASSUME DInv, DInv', Sound', Handle
  PROVE  Service!ServiceNext \/ UNCHANGED Service!sv
<1>1. CASE Skip  BY <1>1, QuietUnseen DEF Skip, vars
<1>2. CASE FailBegin  BY <1>2, QuietUnseen DEF FailBegin, DeleteBegin
<1> QED
  BY <1>1, <1>2, DeleteDrops, FailEndUnseen, ConnectionServed, CreateServed, TaskServed,
     DestroyServed, QueriesServed, TasksInfoServed, TaskInfoServed
     DEF Handle

LEMMA DaemonServes ==
  ASSUME DInv, DInv', Sound', [DaemonNext]_allvars
  PROVE  [Service!ServiceNext]_(Service!sv)
<1>1. CASE UNCHANGED allvars  BY <1>1, QuietUnseen DEF allvars, vars, dvars
<1>2. ASSUME NEW tid \in Tids, ThreadExit(tid), UNCHANGED dvars PROVE UNCHANGED Service!sv
  BY <1>2, QuietUnseen DEF ThreadExit, dvars
<1> QED
  BY <1>1, <1>2, ClientsServed, UpdateUnseen, InterruptedUnseen, HandleServed, TerminateStops
     DEF DaemonNext

(***************************************************************************)
(* The daemon implements the service, whatever the connections, the        *)
(* descriptors, the plugins and the parameters: select, the tables of      *)
(* descriptors and pids, the loop that cleans up and the scheduler's task  *)
(* set never grant an id twice, never take a reservation from a user that  *)
(* is there and has not released it, never answer another request than the *)
(* one made.  The hypotheses leave out the configurations in which a call  *)
(* may crash the daemon: a change that moves a reservation to another      *)
(* plugin (bug_change_plugin), core numbers beyond the arrays of a plugin, *)
(* two plugins of one shared object.                                       *)
(***************************************************************************)
THEOREM DaemonImplementsService ==
  ASSUME ChangesStayHome, ArraysInBounds, OwnStatics
  PROVE  DaemonSpec => ImplementsService
<1>1. DaemonInit => DInv /\ Sound /\ Service!ServiceInit
  BY DaemonInitInv, SoundInit, ServiceStarts
<1>2. DInv /\ Sound /\ [DaemonNext]_allvars => DInv' /\ Sound'  BY DaemonStepInv, SoundStep
<1>3. DInv /\ DInv' /\ Sound' /\ [DaemonNext]_allvars => [Service!ServiceNext]_(Service!sv)
  BY DaemonServes
<1> QED  BY <1>1, <1>2, <1>3, PTL DEF DaemonSpec, ImplementsService, Service!ServiceSpec

=============================================================================
