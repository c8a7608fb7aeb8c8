------------------------- MODULE ReservationService --------------------------
(***************************************************************************)
(* What the daemon promises the processes that use it, without its loop,   *)
(* its descriptors, its plugins and its lists: a reservation is granted    *)
(* once, under an id never used before, to the user that asked for it; it  *)
(* goes away when that user releases it, some time after that user has     *)
(* left, or when the daemon stops; and a reply answers the request made.   *)
(*                                                                         *)
(* RetifDaemon implements this module (ImplementsService), and RetifLib    *)
(* and Monitor take it for the daemon they talk to.                        *)
(***************************************************************************)
EXTENDS Integers, FiniteSets

CONSTANTS Users,    \* the connections
          Ids,      \* the ids a reservation may get, 1 and up
          Nobody    \* the holder of an id that is not reserved

VARIABLES
  up,       \* the daemon runs
  lastid,   \* the last id that was used
  resv,     \* the holder of every id
  ask,      \* the request of each user that was not served yet
  rep,      \* the reply on its way to each user
  gone      \* the users that have left

sv == <<up, lastid, resv, ask, rep, gone>>

None == [type |-> "none"]

Reserved == {id \in Ids : resv[id] # Nobody}
Holds(k) == {id \in Ids : resv[id] = k}

ServiceInit ==
  /\ up = TRUE
  /\ lastid = 0
  /\ resv = [id \in Ids |-> Nobody]
  /\ ask = [k \in Users |-> None]
  /\ rep = [k \in Users |-> None]
  /\ gone = [k \in Users |-> FALSE]

-----------------------------------------------------------------------------
\* A user makes one request at a time ...
Submit(k, r) ==
  /\ up /\ ~gone[k]
  /\ ask[k] = None /\ rep[k] = None
  /\ ask' = [ask EXCEPT ![k] = r]
  /\ UNCHANGED <<up, lastid, resv, rep, gone>>

\* ... and takes the reply.
Take(k) ==
  /\ rep[k] # None
  /\ rep' = [rep EXCEPT ![k] = None]
  /\ UNCHANGED <<up, lastid, resv, ask, gone>>

\* The request is served; the reply of a user that has left is lost.
Answered(k, ok, n) ==
  /\ up
  /\ ask' = [ask EXCEPT ![k] = None]
  /\ rep' = IF gone[k] THEN rep
            ELSE [rep EXCEPT ![k] = [type |-> "reply", re |-> ask[k], ok |-> ok, n |-> n]]
  /\ UNCHANGED <<up, gone>>

Grant(k) ==
  /\ ask[k].type = "create"
  /\ lastid + 1 \in Ids
  /\ lastid' = lastid + 1
  /\ resv' = [resv EXCEPT ![lastid'] = k]
  /\ Answered(k, TRUE, lastid')

\* A refused request may use up an id.
Refuse(k) ==
  /\ ask[k].type = "create"
  /\ lastid' \in {lastid} \cup ({lastid + 1} \cap Ids)
  /\ Answered(k, FALSE, 0)
  /\ UNCHANGED resv

\* Only the holder's own request takes a reservation away.
Release(k) ==
  /\ ask[k].type = "destroy"
  /\ IF ask[k].id \in Reserved
     THEN /\ resv[ask[k].id] = k
          /\ resv' = [resv EXCEPT ![ask[k].id] = Nobody]
          /\ Answered(k, TRUE, 0)
     ELSE Answered(k, FALSE, 0) /\ UNCHANGED resv
  /\ UNCHANGED lastid

TellTasks(k) ==
  /\ ask[k].type = "tasks_info"
  /\ Answered(k, TRUE, Cardinality(Reserved))
  /\ UNCHANGED <<lastid, resv>>

TellTask(k) ==
  /\ ask[k].type = "task_info"
  /\ Answered(k, ask[k].desc \in Reserved, 0)
  /\ UNCHANGED <<lastid, resv>>

\* Any other request leaves the reservations alone.
Other(k) ==
  /\ ask[k].type \notin {"none", "create", "destroy", "tasks_info", "task_info"}
  /\ \E ok \in BOOLEAN : Answered(k, ok, 0)
  /\ UNCHANGED <<lastid, resv>>

Serve(k) ==
  Grant(k) \/ Refuse(k) \/ Release(k) \/ TellTasks(k) \/ TellTask(k) \/ Other(k)

-----------------------------------------------------------------------------
\* A user leaves, with the reply that was on its way.
Leave(k) ==
  /\ ~gone[k]
  /\ gone' = [gone EXCEPT ![k] = TRUE]
  /\ rep' = [rep EXCEPT ![k] = None]
  /\ UNCHANGED <<up, lastid, resv, ask>>

\* What it left behind is dropped: a reservation, or a request nobody waits for.
Drop(k) ==
  /\ up /\ gone[k]
  /\ \/ /\ \E id \in Holds(k) : resv' = [resv EXCEPT ![id] = Nobody]
        /\ UNCHANGED ask
     \/ /\ ask[k] # None
        /\ ask' = [ask EXCEPT ![k] = None]
        /\ UNCHANGED resv
  /\ UNCHANGED <<up, lastid, rep, gone>>

Stop ==
  /\ up
  /\ up' = FALSE
  /\ resv' = [id \in Ids |-> Nobody]
  /\ UNCHANGED <<lastid, ask, rep, gone>>

ServiceNext ==
  \/ \E k \in Users : Take(k) \/ Serve(k) \/ Leave(k) \/ Drop(k)
  \/ \E k \in Users : ask'[k] # None /\ Submit(k, ask'[k])
  \/ Stop

ServiceSpec == ServiceInit /\ [][ServiceNext]_sv

==============================================================================
