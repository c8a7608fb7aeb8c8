---------------------------- MODULE LibraryProofs ----------------------------
(***************************************************************************)
(* The library and the monitor keep their invariants, for every number of  *)
(* threads, of reservations, of calls and of users, and for every choice   *)
(* of calls: Monitor's specification implies LibraryTypeOK,                *)
(* ExchangesPaired, BlindOnce, TasksTrue and WalkTrue.                     *)
(***************************************************************************)
EXTENDS Monitor, FiniteSetTheorems, TLAPS

-----------------------------------------------------------------------------
(***************************************************************************)
(* The inductive invariant.                                                *)
(***************************************************************************)
Kinds == {"connect", "create", "modify", "attach", "detach", "destroy",
          "connections_info", "plugins_info", "tasks_info"}

Requests ==
  {None} \cup [type : Kinds, id : Nat] \cup [type : {"tasks_info"}]
  \cup [type : {"task_info"}, desc : Nat]

Replies == [type : {"reply"}, re : Requests, ok : BOOLEAN, n : Ids \cup {0}]

ServiceTypes ==
  /\ up \in BOOLEAN
  /\ lastid \in Ids \cup {0}
  /\ resv \in [Ids -> Users \cup {Nobody}]
  /\ ask \in [Users -> Requests]
  /\ rep \in [Users -> Replies \cup {None}]
  /\ gone = [k \in Users |-> FALSE]

ThreadStates ==
  [pc : {"idle", "payload", "lock", "send", "recv", "unlock", "check", "read"},
   type : Kinds \cup {"none"}, word : Nat, sent : Requests,
   ret : {"none", "OK", "FAIL", "ERROR"}, own : SUBSET (Ids \cup {0})]

LibraryTypes ==
  /\ req \in [type : Kinds, word : Nat]
  /\ buf \in Replies
  /\ mutex \in Threads \cup {Free}
  /\ th \in [Threads -> ThreadStates]
  /\ calls \in 0..MaxCalls
  /\ overlap \in BOOLEAN
  /\ blind \in Nat

MonitorTypes ==
  /\ mon \in [pc : {"start", "counting", "walk", "asking"}, ntask : Nat, desc : Nat \ {0},
              count : Nat, seen : SUBSET Nat]
  /\ counted \subseteq Ids
  /\ removed \in BOOLEAN

Types == ServiceTypes /\ LibraryTypes /\ MonitorTypes

\* The thread that waits for an answer is the one that has the mutex, and what is on the
\* connection is its request or the answer to it.
Wire ==
  /\ \A t \in Threads : mutex = t <=> th[t].pc \in {"send", "recv", "unlock"}
  /\ (\A t \in Threads : th[t].pc # "recv") => ask[Me] = None /\ rep[Me] = None
  /\ \A t \in Threads : th[t].pc = "recv" =>
       \/ ask[Me] = th[t].sent /\ rep[Me] = None
       \/ ask[Me] = None /\ rep[Me] # None /\ rep[Me].re = th[t].sent
  /\ \A t \in Threads : th[t].pc = "unlock" /\ th[t].ret = "OK" /\ th[t].sent # None =>
       buf.re = th[t].sent
  /\ \A t \in Threads : th[t].pc # "idle" => calls >= 1

\* A blind receive needs a daemon that has gone, and after it nobody waits any more.
Blinded ==
  blind # 0 => blind = 1 /\ ~up /\ calls >= 1 /\ \A t \in Threads : th[t].pc # "recv"

Owned == UNION {th[t].own : t \in Threads}

\* What the reply r to the call of thread t says of the reservations.
Settled(t, r) ==
  /\ r.re.type = th[t].type
  /\ CASE th[t].type = "create" /\ r.ok ->
            Holds(Me) = Owned \cup {r.n} /\ r.n \notin Owned
       [] th[t].type = "destroy" -> r.ok /\ Holds(Me) = Owned \ {th[t].word}
       [] OTHER                  -> Holds(Me) = Owned

\* The one call under way, as long as calls do not overlap: the request is the one it wrote,
\* the reply is the one to it, and until the reply is applied it accounts for the difference
\* between the tasks of the threads and the reservations of the daemon.
CallTrue(t) ==
  /\ th[t].type = "destroy" => th[t].word \in th[t].own
  /\ th[t].type # "none"
  /\ th[t].pc \in {"payload", "lock", "send"} => Holds(Me) = Owned /\ req.type = th[t].type
  /\ th[t].pc = "payload" => HasPayload(th[t].type)
  /\ th[t].pc \in {"lock", "send"} /\ HasPayload(th[t].type) => req.word = th[t].word
  /\ th[t].pc = "recv" =>
       /\ th[t].sent.type = th[t].type
       /\ HasPayload(th[t].type) => th[t].sent.id = th[t].word
       /\ ask[Me] # None => Holds(Me) = Owned
       /\ rep[Me] # None => Settled(t, rep[Me])
  /\ th[t].pc \in {"unlock", "check", "read"} => th[t].ret = "OK" /\ Settled(t, buf)
  /\ th[t].pc = "read" => th[t].type = "create" /\ buf.ok

Ours ==
  up /\ ~overlap =>
    /\ \A t, u \in Threads : t # u => th[t].own \cap th[u].own = {}
    /\ \A t, u \in Threads : th[t].pc # "idle" /\ th[u].pc # "idle" => t = u
    /\ (\A t \in Threads : th[t].pc = "idle") => Holds(Me) = Owned
    /\ \A t \in Threads : th[t].pc # "idle" => CallTrue(t)

\* The monitor's side of its connection, and what a walk has seen so far.
Asked == [type |-> "task_info", desc |-> mon.desc]

Walk ==
  /\ \A id \in Reserved : id <= lastid
  /\ \A id \in counted : id <= lastid
  /\ ~removed =>
       /\ counted \subseteq Reserved
       /\ \A a \in counted, b \in Reserved \ counted : a < b
  /\ mon.pc \in {"start", "walk"} => ask[Mon] = None /\ rep[Mon] = None
  /\ mon.pc = "counting" =>
       \/ ask[Mon] = [type |-> "tasks_info"] /\ rep[Mon] = None
       \/ ask[Mon] = None /\ rep[Mon] # None /\ rep[Mon].n = Cardinality(counted)
  /\ mon.pc = "asking" =>
       /\ mon.count < mon.ntask
       /\ \/ ask[Mon] = Asked /\ rep[Mon] = None
          \/ /\ ask[Mon] = None /\ rep[Mon] # None
             /\ ~removed => (rep[Mon].ok <=> mon.desc \in counted)
  /\ mon.pc \in {"walk", "asking"} /\ ~removed =>
       /\ mon.ntask = Cardinality(counted)
       /\ mon.seen = {id \in counted : id < mon.desc}
       /\ mon.count = Cardinality(mon.seen)

LibInv == Types /\ Wire /\ Blinded /\ Ours /\ Walk

-----------------------------------------------------------------------------
(***************************************************************************)
(* The types.                                                              *)
(***************************************************************************)

(***************************************************************************)
(* The ids in use are finitely many: their number is itself an id, or 0.   *)
(***************************************************************************)
LEMMA Counting ==
  ASSUME NEW S \in SUBSET Ids
  PROVE  IsFiniteSet(S) /\ Cardinality(S) \in Ids \cup {0}
<1>1. IsFiniteSet(Ids) /\ Ids = 1..Cardinality(Ids)
  BY LibraryAssumption
<1>2. IsFiniteSet(S) /\ Cardinality(S) <= Cardinality(Ids)
  BY <1>1, FS_Subset
<1>3. Cardinality(S) \in Nat /\ Cardinality(Ids) \in Nat
  BY <1>1, <1>2, FS_CardinalityType
<1>4. Cardinality(S) \in 1..Cardinality(Ids) \/ Cardinality(S) = 0
  BY <1>2, <1>3
<1> QED
  BY <1>1, <1>2, <1>4

\* Ids are numbers from 1.
LEMMA IdsAreNumbers == \A id \in Ids : id \in Nat /\ id >= 1
<1>1. Cardinality(Ids) \in Nat
  BY LibraryAssumption, FS_CardinalityType
<1> QED
  BY <1>1, LibraryAssumption

(***************************************************************************)
(* What serving a request does: the request is replaced by a reply to it.  *)
(***************************************************************************)
LEMMA Serving ==
  ASSUME ServiceTypes, NEW k \in Users, Serve(k)
  PROVE  /\ up /\ up' = up /\ gone' = gone /\ ask[k] # None
         /\ ask' = [ask EXCEPT ![k] = None]
         /\ lastid' \in Ids \cup {0} /\ resv' \in [Ids -> Users \cup {Nobody}]
         /\ \E r \in Replies : r.re = ask[k] /\ r # None /\ rep' = [rep EXCEPT ![k] = r]
<1> DEFINE A(r) == r.re = ask[k] /\ r # None /\ rep' = [rep EXCEPT ![k] = r]
<1>1. ask[k] \in Requests /\ gone[k] = FALSE
  BY DEF ServiceTypes
<1>2. ASSUME NEW ok \in BOOLEAN, NEW n \in Ids \cup {0}, Answered(k, ok, n)
      PROVE  /\ up /\ up' = up /\ gone' = gone
             /\ ask' = [ask EXCEPT ![k] = None]
             /\ \E r \in Replies : A(r)
  <2> DEFINE r == [type |-> "reply", re |-> ask[k], ok |-> ok, n |-> n]
  <2>1. r \in Replies /\ r.re = ask[k] /\ r.type = "reply"
    BY <1>1 DEF Replies
  <2>2. r # None
    BY <2>1 DEF None
  <2>3. rep' = [rep EXCEPT ![k] = r]
    BY <1>1, <1>2 DEF Answered
  <2> QED
    BY <1>2, <2>1, <2>2, <2>3 DEF Answered
<1>3. ask[k].type # "none"
  BY DEF Serve, Grant, Refuse, Release, TellTasks, TellTask, Other
<1>4. ask[k] # None
  BY <1>3 DEF None
<1> HIDE DEF A
<1>5. CASE Grant(k)
  <2>1. lastid' \in Ids /\ Answered(k, TRUE, lastid')
    BY <1>5 DEF Grant
  <2>2. resv' \in [Ids -> Users \cup {Nobody}]
    BY <1>5 DEF Grant, ServiceTypes
  <2> QED
    BY <1>2, <1>4, <2>1, <2>2 DEF A
<1>6. CASE Refuse(k)
  BY <1>2, <1>4, <1>6 DEF Refuse, ServiceTypes, A
<1>7. CASE Release(k)
  <2>1. lastid' = lastid /\ \E ok \in BOOLEAN : Answered(k, ok, 0)
    BY <1>7 DEF Release
  <2>2. resv' \in [Ids -> Users \cup {Nobody}]
    BY <1>7 DEF Release, ServiceTypes
  <2> QED
    BY <1>2, <1>4, <2>1, <2>2 DEF A, ServiceTypes
<1>8. CASE TellTasks(k)
  <2>1. Cardinality(Reserved) \in Ids \cup {0}
    BY Counting DEF Reserved
  <2> QED
    BY <1>2, <1>4, <1>8, <2>1 DEF TellTasks, ServiceTypes, A
<1>9. CASE TellTask(k)
  <2>1. (ask[k].desc \in Reserved) \in BOOLEAN
    OBVIOUS
  <2>2. Answered(k, ask[k].desc \in Reserved, 0) /\ lastid' = lastid /\ resv' = resv
    BY <1>9 DEF TellTask
  <2>3. \E r \in Replies : A(r)
    BY <1>2, <2>1, <2>2
  <2>4. up /\ up' = up /\ gone' = gone /\ ask' = [ask EXCEPT ![k] = None]
    BY <2>2 DEF Answered
  <2> QED
    BY <1>4, <2>2, <2>3, <2>4 DEF ServiceTypes, A
<1>10. CASE Other(k)
  BY <1>2, <1>4, <1>10 DEF Other, ServiceTypes, A
<1> QED
  BY <1>5, <1>6, <1>7, <1>8, <1>9, <1>10 DEF Serve, A

\* A request on its way to the daemon.
LEMMA Submitting ==
  ASSUME ServiceTypes, NEW k \in Users, NEW r \in Requests, Submit(k, r)
  PROVE  ServiceTypes'
BY DEF ServiceTypes, Submit

\* A reply that is taken.
LEMMA Taking ==
  ASSUME ServiceTypes, NEW k \in Users, Take(k)
  PROVE  ServiceTypes' /\ rep[k] \in Replies
BY DEF ServiceTypes, Take

\* A thread's new state has its type.
LEMMA NextState ==
  ASSUME th \in [Threads -> ThreadStates], NEW t \in Threads, NEW s \in ThreadStates,
         th' = [th EXCEPT ![t] = s]
  PROVE  th' \in [Threads -> ThreadStates]
OBVIOUS

LEMMA ReturnState ==
  ASSUME th \in [Threads -> ThreadStates], NEW t \in Threads,
         NEW r \in {"none", "OK", "FAIL", "ERROR"}, NEW o \in SUBSET (Ids \cup {0})
  PROVE  Return(t, r, o) \in [Threads -> ThreadStates]
BY DEF Return, ThreadStates, Requests

(***************************************************************************)
(* Every step of a thread keeps the types.                                 *)
(***************************************************************************)
LEMMA ThreadTypes ==
  ASSUME ServiceTypes, LibraryTypes, NEW t \in Threads, Thread(t)
  PROVE  ServiceTypes' /\ LibraryTypes'
<1>1. th[t] \in ThreadStates /\ th \in [Threads -> ThreadStates]
  BY DEF LibraryTypes
<1>2. None \in Requests
  BY DEF Requests
<1>3. CASE Payload(t)
  <2>1. th' \in [Threads -> ThreadStates]
    BY <1>1, <1>3 DEF Payload, ThreadStates
  <2>2. req' \in [type : Kinds, word : Nat]
    BY <1>1, <1>3 DEF Payload, ThreadStates, LibraryTypes
  <2> QED
    BY <1>3, <2>1, <2>2 DEF Payload, LibraryTypes, ServiceTypes, sv
<1>4. CASE Lock(t)
  <2>1. th' \in [Threads -> ThreadStates]
    BY <1>1, <1>4 DEF Lock, ThreadStates
  <2> QED
    BY <1>4, <2>1 DEF Lock, LibraryTypes, ServiceTypes, sv
<1>5. CASE Send(t)
  <2>1. Sent \in Requests
    BY DEF Sent, Requests, LibraryTypes
  <2>2. th' \in [Threads -> ThreadStates]
    BY <1>1, <1>5, <2>1 DEF Send, ThreadStates
  <2>3. ServiceTypes'
    <3>1. CASE Submit(Me, Sent)
      BY <2>1, <3>1, Submitting, LibraryAssumption
    <3>2. CASE UNCHANGED sv
      BY <3>2 DEF ServiceTypes, sv
    <3> QED
      BY <1>5, <3>1, <3>2 DEF Send
  <2> QED
    BY <1>5, <2>2, <2>3 DEF Send, LibraryTypes
<1>6. CASE Recv(t)
  <2>1. th' \in [Threads -> ThreadStates]
    BY <1>1, <1>2, <1>6 DEF Recv, ThreadStates
  <2>2. blind' \in Nat
    BY <1>6 DEF Recv, LibraryTypes
  <2>3. ServiceTypes' /\ buf' \in Replies
    <3>1. CASE Take(Me) /\ buf' = rep[Me]
      BY <3>1, Taking, LibraryAssumption
    <3>2. CASE ask' = [ask EXCEPT ![Me] = None] /\ UNCHANGED <<up, lastid, resv, rep, gone, buf>>
      BY <1>2, <3>2 DEF ServiceTypes, LibraryTypes
    <3> QED
      BY <1>6, <3>1, <3>2 DEF Recv
  <2> QED
    BY <1>6, <2>1, <2>2, <2>3 DEF Recv, LibraryTypes
<1>7. CASE Unlock(t)
  <2>1. Return(t, "ERROR", th[t].own) \in [Threads -> ThreadStates]
    BY <1>1, ReturnState DEF ThreadStates
  <2>2. [th EXCEPT ![t].pc = "check"] \in [Threads -> ThreadStates]
    BY <1>1 DEF ThreadStates
  <2> QED
    BY <1>7, <2>1, <2>2 DEF Unlock, LibraryTypes, ServiceTypes, sv
<1>8. CASE Check(t)
  <2>1. Return(t, "FAIL", th[t].own) \in [Threads -> ThreadStates]
    BY <1>1, ReturnState DEF ThreadStates
  <2>2. Return(t, "OK", th[t].own) \in [Threads -> ThreadStates]
    BY <1>1, ReturnState DEF ThreadStates
  <2>3. Return(t, "OK", th[t].own \ {th[t].word}) \in [Threads -> ThreadStates]
    BY <1>1, ReturnState DEF ThreadStates
  <2>4. [th EXCEPT ![t].pc = "read"] \in [Threads -> ThreadStates]
    BY <1>1 DEF ThreadStates
  <2>5. th' \in [Threads -> ThreadStates]
    BY <1>8, <2>1, <2>2, <2>3, <2>4 DEF Check
  <2> QED
    BY <1>8, <2>5 DEF Check, LibraryTypes, ServiceTypes, sv
<1>9. CASE Read(t)
  <2>1. buf.n \in Ids \cup {0}
    BY DEF LibraryTypes, Replies
  <2>2. th[t].own \cup {buf.n} \in SUBSET (Ids \cup {0})
    BY <1>1, <2>1 DEF ThreadStates
  <2>3. Return(t, "OK", th[t].own \cup {buf.n}) \in [Threads -> ThreadStates]
    BY <1>1, <2>2, ReturnState
  <2> QED
    BY <1>9, <2>3 DEF Read, LibraryTypes, ServiceTypes, sv
<1> QED
  BY <1>3, <1>4, <1>5, <1>6, <1>7, <1>8, <1>9 DEF Thread

LEMMA CallTypesKept ==
  ASSUME ServiceTypes, LibraryTypes, NEW t \in Threads, NEW type \in CallTypes,
         NEW w \in Words(t, type), Call(t, type, w)
  PROVE  ServiceTypes' /\ LibraryTypes' /\ type \in Kinds \ {"connect"} /\ w \in Nat
<1>1. th[t] \in ThreadStates /\ th \in [Threads -> ThreadStates]
  BY DEF LibraryTypes
<1>2. type \in Kinds \ {"connect"}
  BY LibraryAssumption DEF Kinds
<1>3. w \in Nat
  <2>1. Runtime[t] \in Nat
    BY LibraryAssumption
  <2>2. th[t].own \subseteq Nat
    BY <1>1, IdsAreNumbers DEF ThreadStates
  <2> QED
    BY <2>1, <2>2 DEF Words
<1>4. th' \in [Threads -> ThreadStates]
  BY <1>1, <1>2, <1>3 DEF Call, ThreadStates
<1>5. req' \in [type : Kinds, word : Nat]
  BY <1>2 DEF Call, LibraryTypes
<1>6. calls' \in 0..MaxCalls
  BY LibraryAssumption DEF Call, LibraryTypes
<1>7. overlap' \in BOOLEAN
  BY DEF Call
<1> QED
  BY <1>2, <1>3, <1>4, <1>5, <1>6, <1>7 DEF Call, LibraryTypes, ServiceTypes, sv

-----------------------------------------------------------------------------
(***************************************************************************)
(* The connection: Wire and Blinded.                                       *)
(***************************************************************************)

\* Only one thread is between its lock and its unlock.
LEMMA OneHolder ==
  ASSUME Wire, NEW t \in Threads, NEW u \in Threads,
         th[t].pc \in {"send", "recv", "unlock"}, th[u].pc \in {"send", "recv", "unlock"}
  PROVE  t = u
BY DEF Wire

(***************************************************************************)
(* A step that changes no thread's place, nor what is on the connection.   *)
(***************************************************************************)
LEMMA WireFrame ==
  ASSUME Wire, Blinded, UNCHANGED lv, ask'[Me] = ask[Me], rep'[Me] = rep[Me], up' => up
  PROVE  Wire' /\ Blinded'
BY DEF Wire, Blinded, lv

LEMMA ThreadWire ==
  ASSUME ServiceTypes, LibraryTypes, Wire, Blinded, NEW t \in Threads, Thread(t)
  PROVE  Wire' /\ Blinded'
<1>1. th[t] \in ThreadStates /\ th \in [Threads -> ThreadStates] /\ t # Free
  BY LibraryAssumption DEF LibraryTypes
<1>2. Me \in Users /\ ask \in [Users -> Requests] /\ rep \in [Users -> Replies \cup {None}]
  BY LibraryAssumption DEF ServiceTypes
<1>3. CASE Payload(t)
  <2>1. \A u \in Threads : u # t => th'[u] = th[u]
    BY <1>1, <1>3 DEF Payload
  <2>2. th'[t].pc = "lock" /\ th[t].pc = "payload"
    BY <1>1, <1>3 DEF Payload, ThreadStates
  <2>3. UNCHANGED <<ask, rep, up, buf, mutex, calls, blind>>
    BY <1>3 DEF Payload, sv
  <2> QED
    BY <2>1, <2>2, <2>3 DEF Wire, Blinded
<1>4. CASE Lock(t)
  <2>1. \A u \in Threads : u # t => th'[u] = th[u]
    BY <1>1, <1>4 DEF Lock
  <2>2. th'[t].pc = "send" /\ th[t].pc = "lock" /\ mutex = Free /\ mutex' = t
    BY <1>1, <1>4 DEF Lock, ThreadStates
  <2>3. UNCHANGED <<ask, rep, up, buf, calls, blind>>
    BY <1>4 DEF Lock, sv
  <2>4. \A u \in Threads : mutex # u
    BY <2>2, LibraryAssumption
  <2> QED
    BY <2>1, <2>2, <2>3, <2>4 DEF Wire, Blinded
<1>5. CASE Send(t)
  <2>1. \A u \in Threads : u # t => th'[u] = th[u]
    BY <1>1, <1>5 DEF Send
  <2>2. th[t].pc = "send" /\ UNCHANGED <<buf, mutex, calls, blind>>
    BY <1>5 DEF Send
  <2>3. \A u \in Threads : th[u].pc # "recv"
    BY <2>2, OneHolder
  <2>4. ask[Me] = None /\ rep[Me] = None
    BY <2>3 DEF Wire
  <2>5. CASE Submit(Me, Sent) /\ th' = [th EXCEPT ![t].sent = Sent, ![t].pc = "recv"]
    <3>1. th'[t].pc = "recv" /\ th'[t].sent = Sent
      BY <1>1, <2>5 DEF ThreadStates
    <3>2. ask'[Me] = Sent /\ rep' = rep /\ up /\ up' = up
      BY <1>2, <2>5 DEF Submit
    <3> QED
      BY <2>1, <2>2, <2>3, <2>4, <3>1, <3>2 DEF Wire, Blinded
  <2>6. CASE ~up /\ th' = [th EXCEPT ![t].ret = "ERROR", ![t].pc = "unlock"] /\ UNCHANGED sv
    <3>1. th'[t].pc = "unlock" /\ th'[t].ret = "ERROR"
      BY <1>1, <2>6 DEF ThreadStates
    <3> QED
      BY <2>1, <2>2, <2>3, <2>4, <2>6, <3>1 DEF Wire, Blinded, sv
  <2> QED
    BY <1>5, <2>5, <2>6 DEF Send
<1>6. CASE Recv(t)
  <2>1. \A u \in Threads : u # t => th'[u] = th[u]
    BY <1>1, <1>6 DEF Recv
  <2>2. th[t].pc = "recv" /\ UNCHANGED <<mutex, calls>> /\ calls >= 1 /\ blind = 0
    BY <1>6 DEF Recv, Wire, Blinded
  <2>3. \A u \in Threads : u # t => th[u].pc \notin {"send", "recv", "unlock"}
    BY <2>2, OneHolder
  <2>4. \/ ask[Me] = th[t].sent /\ rep[Me] = None
        \/ ask[Me] = None /\ rep[Me] # None /\ rep[Me].re = th[t].sent
    BY <2>2 DEF Wire
  <2>5. th'[t].pc = "unlock"
    BY <1>1, <1>6 DEF Recv, ThreadStates
  <2>6. CASE /\ Take(Me) /\ buf' = rep[Me] /\ UNCHANGED blind
             /\ th' = [th EXCEPT ![t].ret = "OK", ![t].pc = "unlock"]
    <3>1. rep[Me] # None /\ rep'[Me] = None /\ ask' = ask
      BY <1>2, <2>6 DEF Take
    <3>2. th'[t].sent = th[t].sent
      BY <1>1, <2>6 DEF ThreadStates
    <3> QED
      BY <2>1, <2>2, <2>3, <2>4, <2>5, <2>6, <3>1, <3>2 DEF Wire, Blinded
  <2>7. CASE /\ ~up /\ rep[Me] = None /\ ask' = [ask EXCEPT ![Me] = None]
             /\ UNCHANGED <<up, lastid, resv, rep, gone, buf>>
    <3>1. ask'[Me] = None /\ rep'[Me] = None
      BY <1>2, <2>7
    <3>2. \/ th'[t].ret = "ERROR" /\ blind' = blind
          \/ th'[t].sent = None /\ blind' = blind + 1
      BY <1>1, <1>6, <2>7 DEF Recv, ThreadStates, Take
    <3> QED
      BY <2>1, <2>2, <2>3, <2>5, <2>7, <3>1, <3>2 DEF Wire, Blinded
  <2> QED
    BY <1>6, <2>6, <2>7 DEF Recv
<1>7. CASE Unlock(t)
  <2>1. \A u \in Threads : u # t => th'[u] = th[u]
    BY <1>1, <1>7 DEF Unlock, Return
  <2>2. th'[t].pc \in {"idle", "check"} /\ th[t].pc = "unlock" /\ mutex' = Free
    BY <1>1, <1>7 DEF Unlock, ThreadStates, Return
  <2>3. UNCHANGED <<ask, rep, up, buf, calls, blind>>
    BY <1>7 DEF Unlock, sv
  <2>4. \A u \in Threads : u # t => th[u].pc \notin {"send", "recv", "unlock"}
    BY <2>2, OneHolder
  <2>5. \A u \in Threads : mutex' # u
    BY <2>2, LibraryAssumption
  <2> QED
    BY <2>1, <2>2, <2>3, <2>4, <2>5 DEF Wire, Blinded
<1>8. CASE Check(t)
  <2>1. \A u \in Threads : u # t => th'[u] = th[u]
    BY <1>1, <1>8 DEF Check, Return
  <2>2. th'[t].pc \in {"idle", "read"} /\ th[t].pc = "check"
    BY <1>1, <1>8 DEF Check, ThreadStates, Return
  <2>3. UNCHANGED <<ask, rep, up, buf, mutex, calls, blind>>
    BY <1>8 DEF Check, sv
  <2> QED
    BY <2>1, <2>2, <2>3 DEF Wire, Blinded
<1>9. CASE Read(t)
  <2>1. \A u \in Threads : u # t => th'[u] = th[u]
    BY <1>1, <1>9 DEF Read, Return
  <2>2. th'[t].pc = "idle" /\ th[t].pc = "read"
    BY <1>1, <1>9 DEF Read, ThreadStates, Return
  <2>3. UNCHANGED <<ask, rep, up, buf, mutex, calls, blind>>
    BY <1>9 DEF Read, sv
  <2> QED
    BY <2>1, <2>2, <2>3 DEF Wire, Blinded
<1> QED
  BY <1>3, <1>4, <1>5, <1>6, <1>7, <1>8, <1>9 DEF Thread

LEMMA CallWire ==
  ASSUME LibraryTypes, Wire, Blinded, NEW t \in Threads, NEW type, NEW w, Call(t, type, w)
  PROVE  Wire' /\ Blinded'
<1>1. th[t] \in ThreadStates /\ th \in [Threads -> ThreadStates] /\ calls \in Nat
  BY DEF LibraryTypes
<1>2. \A u \in Threads : u # t => th'[u] = th[u]
  BY <1>1 DEF Call
<1>3. th'[t].pc \in {"payload", "lock"} /\ th[t].pc = "idle" /\ calls' = calls + 1
  BY <1>1 DEF Call, ThreadStates
<1>4. UNCHANGED <<ask, rep, up, buf, mutex, blind>>
  BY DEF Call, sv
<1> QED
  BY <1>1, <1>2, <1>3, <1>4 DEF Wire, Blinded

LEMMA ServeWire ==
  ASSUME ServiceTypes, Wire, Blinded, NEW k \in Users, Serve(k), UNCHANGED lv
  PROVE  Wire' /\ Blinded'
<1>1. Me \in Users /\ ask \in [Users -> Requests] /\ rep \in [Users -> Replies \cup {None}]
  BY LibraryAssumption DEF ServiceTypes
<1>2. PICK r \in Replies : r.re = ask[k] /\ r # None /\ rep' = [rep EXCEPT ![k] = r]
  BY Serving
<1>3. up /\ up' = up /\ ask[k] # None /\ ask' = [ask EXCEPT ![k] = None]
  BY Serving
<1>4. CASE k # Me
  BY <1>1, <1>2, <1>3, <1>4, WireFrame
<1>5. CASE k = Me
  <2>1. ask'[Me] = None /\ rep'[Me] = r /\ r.re = ask[Me]
    BY <1>1, <1>2, <1>3, <1>5
  <2> QED
    BY <1>2, <1>3, <1>5, <2>1 DEF Wire, Blinded, lv
<1> QED
  BY <1>4, <1>5

-----------------------------------------------------------------------------
(***************************************************************************)
(* The tasks: Ours.                                                        *)
(***************************************************************************)
Disjoint == \A t, u \in Threads : t # u => th[t].own \cap th[u].own = {}

LEMMA OwnedSame ==
  ASSUME \A u \in Threads : th'[u].own = th[u].own
  PROVE  Owned' = Owned /\ (Disjoint => Disjoint')
BY DEF Owned, Disjoint

LEMMA OwnedMore ==
  ASSUME NEW t \in Threads, NEW n, \A u \in Threads : u # t => th'[u].own = th[u].own,
         th'[t].own = th[t].own \cup {n}, n \notin Owned, Disjoint
  PROVE  Owned' = Owned \cup {n} /\ Disjoint'
<1>1. Owned' = Owned \cup {n}
  BY DEF Owned
<1>2. \A u \in Threads : n \notin th[u].own
  BY DEF Owned
<1> QED
  BY <1>1, <1>2 DEF Disjoint

LEMMA OwnedLess ==
  ASSUME NEW t \in Threads, NEW n \in th[t].own,
         \A u \in Threads : u # t => th'[u].own = th[u].own,
         th'[t].own = th[t].own \ {n}, Disjoint
  PROVE  Owned' = Owned \ {n} /\ Disjoint'
<1>1. \A u \in Threads : u # t => n \notin th[u].own
  BY DEF Disjoint
<1>2. Owned' = Owned \ {n}
  BY <1>1 DEF Owned
<1> QED
  BY <1>2 DEF Disjoint

(***************************************************************************)
(* Thread t is the only one that has a call under way.                     *)
(***************************************************************************)
LEMMA OursOf ==
  ASSUME NEW t \in Threads, \A u \in Threads : u # t => th'[u].pc = "idle", Disjoint',
         th'[t].pc = "idle" => Holds(Me)' = Owned', th'[t].pc # "idle" => CallTrue(t)'
  PROVE  Ours'
BY DEF Ours, Disjoint

LEMMA OursAlone ==
  ASSUME Ours, up, ~overlap, NEW t \in Threads, th[t].pc # "idle"
  PROVE  CallTrue(t) /\ Disjoint /\ \A u \in Threads : u # t => th[u].pc = "idle"
BY DEF Ours, Disjoint

\* The reservations of the process, while the daemon's table does not change.
LEMMA SameHolds ==
  ASSUME resv' = resv
  PROVE  Holds(Me)' = Holds(Me)
BY DEF Holds

LEMMA ThreadOurs ==
  ASSUME ServiceTypes, LibraryTypes, Wire, Ours, NEW t \in Threads, Thread(t)
  PROVE  Ours'
<1>1. th[t] \in ThreadStates /\ th \in [Threads -> ThreadStates]
  BY DEF LibraryTypes
<1>2. up' = up /\ overlap' = overlap /\ resv' = resv /\ th[t].pc # "idle"
  BY DEF Thread, Payload, Lock, Send, Recv, Unlock, Check, Read, sv, Submit, Take
<1> SUFFICES ASSUME up, ~overlap
             PROVE  Ours'
  BY <1>2 DEF Ours
<1>3. CallTrue(t) /\ Disjoint /\ \A u \in Threads : u # t => th[u].pc = "idle"
  BY <1>2, OursAlone
<1>4. \A u \in Threads : u # t => th'[u] = th[u]
  BY <1>1 DEF Thread, Payload, Lock, Send, Recv, Unlock, Check, Read, Return
<1>5. Holds(Me)' = Holds(Me)
  BY <1>2, SameHolds
<1>6. ASSUME th'[t].own = th[t].own
      PROVE  Owned' = Owned /\ Disjoint'
  BY <1>3, <1>4, <1>6, OwnedSame
<1>7. CASE Payload(t)
  <2>1. /\ th'[t].pc = "lock" /\ th'[t].own = th[t].own /\ th'[t].type = th[t].type
        /\ th'[t].word = th[t].word /\ th[t].pc = "payload"
    BY <1>1, <1>7 DEF Payload, ThreadStates
  <2>2. req'.word = th[t].word /\ req'.type = req.type
    BY <1>7 DEF Payload, LibraryTypes
  <2>3. CallTrue(t)'
    BY <1>3, <1>5, <1>6, <2>1, <2>2 DEF CallTrue
  <2> QED
    BY <1>3, <1>4, <1>6, <2>1, <2>3, OursOf
<1>8. CASE Lock(t)
  <2>1. /\ th'[t].pc = "send" /\ th'[t].own = th[t].own /\ th'[t].type = th[t].type
        /\ th'[t].word = th[t].word /\ th[t].pc = "lock" /\ req' = req
    BY <1>1, <1>8 DEF Lock, ThreadStates
  <2>2. CallTrue(t)'
    BY <1>3, <1>5, <1>6, <2>1 DEF CallTrue
  <2> QED
    BY <1>3, <1>4, <1>6, <2>1, <2>2, OursOf
<1>9. CASE Send(t)
  <2>1. Submit(Me, Sent) /\ th' = [th EXCEPT ![t].sent = Sent, ![t].pc = "recv"]
    BY <1>9 DEF Send
  <2>2. /\ th'[t].pc = "recv" /\ th'[t].own = th[t].own /\ th'[t].type = th[t].type
        /\ th'[t].word = th[t].word /\ th[t].pc = "send" /\ th'[t].sent = Sent
    BY <1>1, <1>9, <2>1 DEF Send, ThreadStates
  <2>3. rep'[Me] = None
    BY <2>1 DEF Submit
  <2>4. Sent.type = req.type /\ Sent.id = req.word
    BY DEF Sent
  <2>5. CallTrue(t)'
    BY <1>3, <1>5, <1>6, <2>2, <2>3, <2>4 DEF CallTrue
  <2> QED
    BY <1>3, <1>4, <1>6, <2>2, <2>5, OursOf
<1>10. CASE Recv(t)
  <2>1. /\ rep[Me] # None /\ buf' = rep[Me] /\ th[t].pc = "recv"
        /\ th' = [th EXCEPT ![t].ret = "OK", ![t].pc = "unlock"]
    BY <1>10 DEF Recv, Take
  <2>2. /\ th'[t].pc = "unlock" /\ th'[t].own = th[t].own /\ th'[t].type = th[t].type
        /\ th'[t].word = th[t].word /\ th'[t].ret = "OK"
    BY <1>1, <2>1 DEF ThreadStates
  <2>3. Settled(t, rep[Me])
    BY <1>3, <2>1 DEF CallTrue
  <2>4. Settled(t, buf)'
    BY <1>5, <1>6, <2>1, <2>2, <2>3 DEF Settled
  <2>5. CallTrue(t)'
    BY <1>3, <2>1, <2>2, <2>4 DEF CallTrue
  <2> QED
    BY <1>3, <1>4, <1>6, <2>2, <2>5, OursOf
<1>11. CASE Unlock(t)
  <2>1. th[t].pc = "unlock" /\ buf' = buf /\ th[t].ret = "OK" /\ Settled(t, buf)
    BY <1>3, <1>11 DEF Unlock, CallTrue
  <2>2. /\ th'[t].pc = "check" /\ th'[t].own = th[t].own /\ th'[t].type = th[t].type
        /\ th'[t].word = th[t].word /\ th'[t].ret = "OK"
    BY <1>1, <1>11, <2>1 DEF Unlock, ThreadStates
  <2>3. Settled(t, buf)'
    BY <1>5, <1>6, <2>1, <2>2 DEF Settled
  <2>4. CallTrue(t)'
    BY <1>3, <2>1, <2>2, <2>3 DEF CallTrue
  <2> QED
    BY <1>3, <1>4, <1>6, <2>2, <2>4, OursOf
<1>12. CASE Check(t)
  <2>1. th[t].pc = "check" /\ buf' = buf /\ th[t].ret = "OK" /\ Settled(t, buf)
    BY <1>3, <1>12 DEF Check, CallTrue
  <2>2. CASE Refused(t)
    <3>1. th'[t].pc = "idle" /\ th'[t].own = th[t].own
      BY <1>1, <1>12, <2>2 DEF Check, Return
    <3>2. Holds(Me) = Owned
      BY <2>1, <2>2 DEF Settled, Refused
    <3> QED
      BY <1>3, <1>4, <1>5, <1>6, <3>1, <3>2, OursOf
  <2>3. CASE ~Refused(t) /\ th[t].type = "create"
    <3>1. th' = [th EXCEPT ![t].pc = "read"]
      BY <1>12, <2>3 DEF Check
    <3>2. /\ th'[t].pc = "read" /\ th'[t].own = th[t].own /\ th'[t].type = th[t].type
          /\ th'[t].word = th[t].word /\ th'[t].ret = "OK"
      BY <1>1, <2>1, <3>1 DEF ThreadStates
    <3>3. Settled(t, buf)' /\ buf.ok
      BY <1>5, <1>6, <2>1, <2>3, <3>2 DEF Settled, Refused, HasPayload
    <3>4. CallTrue(t)'
      BY <2>1, <2>3, <3>2, <3>3 DEF CallTrue
    <3> QED
      BY <1>3, <1>4, <1>6, <3>2, <3>4, OursOf
  <2>4. CASE ~Refused(t) /\ th[t].type = "destroy"
    <3>1. th'[t].pc = "idle" /\ th'[t].own = th[t].own \ {th[t].word}
      BY <1>1, <1>12, <2>4 DEF Check, Return
    <3>2. Holds(Me) = Owned \ {th[t].word} /\ th[t].word \in th[t].own
      BY <1>3, <2>1, <2>4 DEF Settled, CallTrue
    <3>3. Owned' = Owned \ {th[t].word} /\ Disjoint'
      BY <1>3, <1>4, <3>1, <3>2, OwnedLess
    <3> QED
      BY <1>3, <1>4, <1>5, <3>1, <3>2, <3>3, OursOf
  <2>5. CASE ~Refused(t) /\ th[t].type \notin {"create", "destroy"}
    <3>1. th'[t].pc = "idle" /\ th'[t].own = th[t].own
      BY <1>1, <1>12, <2>5 DEF Check, Return
    <3>2. Holds(Me) = Owned
      BY <2>1, <2>5 DEF Settled
    <3> QED
      BY <1>3, <1>4, <1>5, <1>6, <3>1, <3>2, OursOf
  <2> QED
    BY <2>2, <2>3, <2>4, <2>5
<1>13. CASE Read(t)
  <2>1. Settled(t, buf) /\ th[t].type = "create" /\ buf.ok
    BY <1>3, <1>13 DEF Read, CallTrue
  <2>2. th'[t].pc = "idle" /\ th'[t].own = th[t].own \cup {buf.n}
    BY <1>1, <1>13 DEF Read, Return
  <2>3. Holds(Me) = Owned \cup {buf.n} /\ buf.n \notin Owned
    BY <2>1 DEF Settled
  <2>4. Owned' = Owned \cup {buf.n} /\ Disjoint'
    BY <1>3, <1>4, <2>2, <2>3, OwnedMore
  <2> QED
    BY <1>3, <1>4, <1>5, <2>2, <2>3, <2>4, OursOf
<1> QED
  BY <1>7, <1>8, <1>9, <1>10, <1>11, <1>12, <1>13 DEF Thread

LEMMA CallOurs ==
  ASSUME ServiceTypes, LibraryTypes, Ours, NEW t \in Threads, NEW type \in CallTypes,
         NEW w \in Words(t, type), Call(t, type, w)
  PROVE  Ours'
<1>1. th[t] \in ThreadStates /\ th \in [Threads -> ThreadStates]
  BY DEF LibraryTypes
<1>2. up' = up /\ resv' = resv
  BY DEF Call, sv
<1> SUFFICES ASSUME up, ~overlap, \A u \in Threads : th[u].pc = "idle"
             PROVE  Ours'
  BY <1>2 DEF Ours, Call
<1>3. \A u \in Threads : u # t => th'[u] = th[u]
  BY <1>1 DEF Call
<1>4. /\ th'[t].own = th[t].own /\ th'[t].type = type /\ th'[t].word = w
      /\ th'[t].pc = IF HasPayload(type) THEN "payload" ELSE "lock"
  BY <1>1 DEF Call, ThreadStates
<1>5. Holds(Me)' = Owned' /\ Disjoint'
  <2>1. Holds(Me) = Owned /\ Disjoint
    BY DEF Ours, Disjoint
  <2> QED
    BY <1>2, <1>3, <1>4, <2>1, OwnedSame, SameHolds
<1>6. type = "destroy" => w \in th[t].own
  BY DEF Words
<1>7. type # "none" /\ req'.type = type
  BY CallTypesKept DEF Call, LibraryTypes, Kinds
<1>8. CallTrue(t)'
  BY <1>4, <1>5, <1>6, <1>7 DEF CallTrue
<1> QED
  BY <1>3, <1>4, <1>5, <1>8, OursOf

(***************************************************************************)
(* What serving a request does to the reservations of the process.         *)
(***************************************************************************)
LEMMA HoldsAfter ==
  ASSUME ServiceTypes, \A id \in Reserved : id <= lastid, NEW k \in Users, Serve(k)
  PROVE  \/ k # Me /\ Holds(Me)' = Holds(Me)
         \/ /\ k = Me /\ ask[Me].type = "create"
            /\ rep'[Me].ok
            /\ Holds(Me)' = Holds(Me) \cup {rep'[Me].n} /\ rep'[Me].n \notin Holds(Me)
         \/ /\ k = Me /\ ask[Me].type = "create" /\ ~rep'[Me].ok /\ Holds(Me)' = Holds(Me)
         \/ /\ k = Me /\ ask[Me].type = "destroy"
            /\ ask[Me].id \in Holds(Me) =>
                 rep'[Me].ok /\ Holds(Me)' = Holds(Me) \ {ask[Me].id}
         \/ /\ k = Me /\ ask[Me].type \notin {"create", "destroy"} /\ Holds(Me)' = Holds(Me)
<1>1. /\ Me \in Users /\ Nobody # Me /\ gone[k] = FALSE /\ rep \in [Users -> Replies \cup {None}]
      /\ resv \in [Ids -> Users \cup {Nobody}] /\ \A id \in Ids : id \in Nat
      /\ lastid \in Nat
  BY LibraryAssumption, IdsAreNumbers DEF ServiceTypes
<1>2. ASSUME NEW ok, NEW n, Answered(k, ok, n), k = Me
      PROVE  rep'[Me].ok = ok /\ rep'[Me].n = n
  BY <1>1, <1>2 DEF Answered
<1>3. CASE Grant(k)
  <2>1. lastid' = lastid + 1 /\ lastid' \in Ids /\ resv' = [resv EXCEPT ![lastid'] = k]
        /\ Answered(k, TRUE, lastid') /\ ask[k].type = "create"
    BY <1>3 DEF Grant
  <2>2. lastid' \notin Reserved
    BY <1>1, <2>1
  <2>3. resv[lastid'] = Nobody
    BY <2>1, <2>2 DEF Reserved
  <2>4. lastid' \notin Holds(Me)
    BY <1>1, <2>3 DEF Holds
  <2>5. Holds(Me)' = IF k = Me THEN Holds(Me) \cup {lastid'} ELSE Holds(Me)
    BY <1>1, <2>1, <2>3 DEF Holds
  <2> QED
    BY <1>2, <2>1, <2>4, <2>5
<1>4. CASE Refuse(k)
  <2>1. ask[k].type = "create" /\ Answered(k, FALSE, 0) /\ Holds(Me)' = Holds(Me)
    BY <1>4, SameHolds DEF Refuse
  <2> QED
    BY <1>2, <2>1
<1>5. CASE Release(k)
  <2>1. ask[k].type = "destroy"
    BY <1>5 DEF Release
  <2>2. CASE ask[k].id \in Reserved
    <3>1. /\ resv[ask[k].id] = k /\ resv' = [resv EXCEPT ![ask[k].id] = Nobody]
          /\ Answered(k, TRUE, 0) /\ ask[k].id \in Ids
      BY <1>5, <2>2 DEF Release, Reserved
    <3>2. Holds(Me)' = IF k = Me THEN Holds(Me) \ {ask[k].id} ELSE Holds(Me)
      BY <1>1, <3>1 DEF Holds
    <3> QED
      BY <1>2, <2>1, <3>1, <3>2
  <2>3. CASE ask[k].id \notin Reserved
    <3>1. Holds(Me)' = Holds(Me) /\ ask[k].id \notin Holds(Me)
      BY <1>1, <1>5, <2>3, SameHolds DEF Release, Reserved, Holds
    <3> QED
      BY <2>1, <3>1
  <2> QED
    BY <2>2, <2>3
<1>6. CASE TellTasks(k)
  BY <1>6, SameHolds DEF TellTasks
<1>7. CASE TellTask(k)
  BY <1>7, SameHolds DEF TellTask
<1>8. CASE Other(k)
  BY <1>8, SameHolds DEF Other
<1> QED
  BY <1>3, <1>4, <1>5, <1>6, <1>7, <1>8 DEF Serve

(***************************************************************************)
(* A step that changes nothing of the process.                             *)
(***************************************************************************)
LEMMA OursFrame ==
  ASSUME Ours, UNCHANGED lv, ask'[Me] = ask[Me], rep'[Me] = rep[Me],
         up' => up /\ Holds(Me)' = Holds(Me)
  PROVE  Ours'
<1>1. UNCHANGED <<th, req, buf, overlap>>
  BY DEF lv
<1> SUFFICES ASSUME up, ~overlap, Holds(Me)' = Holds(Me)
             PROVE  Ours'
  BY <1>1 DEF Ours
<1>2. Owned' = Owned
  BY <1>1 DEF Owned
<1>3. ASSUME NEW t \in Threads, CallTrue(t)
      PROVE  CallTrue(t)'
  <2>1. Settled(t, rep[Me]) => Settled(t, rep[Me])'
    BY <1>1, <1>2 DEF Settled
  <2>2. Settled(t, buf) => Settled(t, buf)'
    BY <1>1, <1>2 DEF Settled
  <2> QED
    BY <1>1, <1>2, <1>3, <2>1, <2>2 DEF CallTrue
<1> QED
  BY <1>1, <1>2, <1>3 DEF Ours

LEMMA ServeOurs ==
  ASSUME ServiceTypes, LibraryTypes, Wire, Ours, \A id \in Reserved : id <= lastid,
         NEW k \in Users, Serve(k), UNCHANGED lv
  PROVE  Ours'
<1>1. Me \in Users /\ ask \in [Users -> Requests] /\ rep \in [Users -> Replies \cup {None}]
  BY LibraryAssumption DEF ServiceTypes
<1>2. PICK r \in Replies : r.re = ask[k] /\ r # None /\ rep' = [rep EXCEPT ![k] = r]
  BY Serving
<1>3. up /\ up' = up /\ ask[k] # None /\ ask' = [ask EXCEPT ![k] = None]
  BY Serving
<1>4. CASE k # Me
  BY <1>1, <1>2, <1>3, <1>4, HoldsAfter, OursFrame
<1>5. CASE k = Me
  <2>1. UNCHANGED <<th, req, buf, overlap>>
    BY DEF lv
  <2> SUFFICES ASSUME ~overlap
               PROVE  Ours'
    BY <2>1 DEF Ours
  <2>2. PICK t \in Threads : th[t].pc = "recv"
    BY <1>3, <1>5 DEF Wire
  <2>3. ask[Me] = th[t].sent
    BY <1>3, <1>5, <2>2 DEF Wire
  <2>4. CallTrue(t) /\ Disjoint /\ \A u \in Threads : u # t => th[u].pc = "idle"
    BY <1>3, <2>2, OursAlone
  <2>5. /\ ask[Me].type = th[t].type /\ Holds(Me) = Owned
        /\ HasPayload(th[t].type) => ask[Me].id = th[t].word
        /\ th[t].type = "destroy" => th[t].word \in th[t].own
    BY <1>3, <1>5, <2>2, <2>3, <2>4 DEF CallTrue
  <2>6. Owned' = Owned /\ Disjoint'
    BY <2>1, <2>4, OwnedSame
  <2>7. ask'[Me] = None /\ rep'[Me].re = ask[Me]
    BY <1>1, <1>2, <1>3, <1>5
  <2>8. th[t].type = "destroy" => ask[Me].id = th[t].word /\ ask[Me].id \in Holds(Me)
    BY <2>5 DEF HasPayload, Owned
  <2>9. Settled(t, rep[Me])'
    BY <1>5, <2>1, <2>5, <2>6, <2>7, <2>8, HoldsAfter DEF Settled
  <2>10. CallTrue(t)'
    BY <2>1, <2>2, <2>4, <2>7, <2>9 DEF CallTrue
  <2> QED
    BY <2>1, <2>2, <2>4, <2>6, <2>10, OursOf
<1> QED
  BY <1>4, <1>5

-----------------------------------------------------------------------------
(***************************************************************************)
(* The monitor: Walk.                                                      *)
(***************************************************************************)

\* As long as the monitor's request waits, nothing is counted.
LEMMA NotTelling ==
  ASSUME ask'[Mon] = ask[Mon], History
  PROVE  counted' = counted /\ removed' = (removed \/ ~(Reserved \subseteq Reserved'))
<1>1. ~Telling
  BY DEF Telling, None
<1> QED
  BY <1>1 DEF History

(***************************************************************************)
(* A step on somebody else's connection: reservations may come, with a new *)
(* id, and they may go, which removed records.                             *)
(***************************************************************************)
LEMMA WalkElsewhere ==
  ASSUME MonitorTypes, Walk, History, mon' = mon, ask'[Mon] = ask[Mon], rep'[Mon] = rep[Mon],
         lastid \in Nat, lastid' \in Nat, lastid <= lastid',
         \A id \in Reserved' : id \in Reserved \/ (lastid < id /\ id <= lastid')
  PROVE  MonitorTypes' /\ Walk'
<1>1. counted' = counted /\ removed' = (removed \/ ~(Reserved \subseteq Reserved'))
  BY NotTelling
<1>2. MonitorTypes'
  BY <1>1 DEF MonitorTypes
<1>3. Reserved' \subseteq Nat /\ Reserved \subseteq Nat /\ counted \subseteq Nat
  BY IdsAreNumbers DEF Reserved, MonitorTypes
<1>4. \A id \in Reserved' : id <= lastid'
  BY <1>3 DEF Walk
<1>5. \A id \in counted' : id <= lastid'
  BY <1>1, <1>3 DEF Walk
<1>6. ASSUME ~removed'
      PROVE  ~removed /\ counted' \subseteq Reserved'
             /\ \A a \in counted', b \in Reserved' \ counted' : a < b
  <2>1. ~removed /\ Reserved \subseteq Reserved'
    BY <1>1, <1>6
  <2>2. counted' \subseteq Reserved'
    BY <1>1, <2>1 DEF Walk
  <2>3. ASSUME NEW a \in counted, NEW b \in Reserved' \ counted
        PROVE  a < b
    <3>1. CASE b \in Reserved
      BY <2>1, <3>1 DEF Walk
    <3>2. CASE lastid < b
      BY <1>3, <3>2 DEF Walk
    <3> QED
      BY <3>1, <3>2
  <2> QED
    BY <1>1, <2>1, <2>2, <2>3
<1>7. Asked' = Asked
  BY DEF Asked
<1> QED
  BY <1>1, <1>2, <1>4, <1>5, <1>6, <1>7 DEF Walk

\* How serving a request changes the ids in use.
LEMMA ReservedAfter ==
  ASSUME ServiceTypes, NEW k \in Users, Serve(k)
  PROVE  /\ lastid \in Nat /\ lastid' \in Nat /\ lastid <= lastid'
         /\ \A id \in Reserved' : id \in Reserved \/ (lastid < id /\ id <= lastid')
<1>1. /\ lastid \in Nat /\ resv \in [Ids -> Users \cup {Nobody}]
      /\ \A id \in Ids : id \in Nat
  BY IdsAreNumbers DEF ServiceTypes
<1>2. CASE Grant(k)
  <2>1. lastid' = lastid + 1 /\ resv' = [resv EXCEPT ![lastid'] = k]
    BY <1>2 DEF Grant
  <2>2. \A id \in Reserved' : id \in Reserved \/ id = lastid'
    BY <1>1, <2>1 DEF Reserved
  <2> QED
    BY <1>1, <2>1, <2>2
<1>3. CASE Release(k)
  <2>1. lastid' = lastid
    BY <1>3 DEF Release
  <2>2. resv' = resv \/ resv' = [resv EXCEPT ![ask[k].id] = Nobody]
    BY <1>3 DEF Release
  <2>3. Reserved' \subseteq Reserved
    BY <1>1, <2>2 DEF Reserved
  <2> QED
    BY <1>1, <2>1, <2>3
<1>4. CASE Refuse(k) \/ TellTasks(k) \/ TellTask(k) \/ Other(k)
  <2>1. lastid' \in {lastid, lastid + 1} /\ resv' = resv
    BY <1>4 DEF Refuse, TellTasks, TellTask, Other
  <2> QED
    BY <1>1, <2>1 DEF Reserved
<1> QED
  BY <1>2, <1>3, <1>4 DEF Serve

\* The monitor's own request is served: the number of tasks is told ...
LEMMA WalkCounted ==
  ASSUME ServiceTypes, MonitorTypes, Walk, History, mon' = mon, TellTasks(Mon)
  PROVE  MonitorTypes' /\ Walk'
<1>1. Mon \in Users /\ gone[Mon] = FALSE
  BY MonitorAssumption DEF ServiceTypes
<1>2. ask[Mon].type = "tasks_info" /\ ask'[Mon] = None
  BY <1>1 DEF TellTasks, Answered, ServiceTypes
<1>3. counted' = Reserved /\ removed' = FALSE
  BY <1>2 DEF History, Telling
<1>4. Reserved' = Reserved /\ lastid' = lastid
  BY DEF TellTasks, Reserved
<1>5. MonitorTypes'
  BY <1>3 DEF MonitorTypes, Reserved
<1>6. mon.pc = "counting"
  <2>1. ask[Mon] # None
    BY <1>2 DEF None
  <2>2. Asked.type = "task_info"
    BY DEF Asked
  <2> QED
    BY <1>2, <2>1, <2>2 DEF Walk, MonitorTypes
<1>7. rep'[Mon] = [type |-> "reply", re |-> ask[Mon], ok |-> TRUE, n |-> Cardinality(Reserved)]
  BY <1>1 DEF TellTasks, Answered, ServiceTypes
<1>8. rep'[Mon] # None /\ rep'[Mon].n = Cardinality(counted')
  BY <1>3, <1>7 DEF None
<1> QED
  BY <1>2, <1>3, <1>4, <1>5, <1>6, <1>8 DEF Walk

(***************************************************************************)
(* ... or a task is told: while nothing went away, it is one that was      *)
(* counted, since a later one has an id above all those still to be found. *)
(***************************************************************************)
LEMMA WalkTold ==
  ASSUME ServiceTypes, MonitorTypes, Walk, History, mon' = mon, TellTask(Mon)
  PROVE  MonitorTypes' /\ Walk'
<1>1. Mon \in Users /\ gone[Mon] = FALSE
  BY MonitorAssumption DEF ServiceTypes
<1>2. ask[Mon].type = "task_info" /\ ask'[Mon] = None
  BY <1>1 DEF TellTask, Answered, ServiceTypes
<1>3. Reserved' = Reserved /\ lastid' = lastid
  BY DEF TellTask, Reserved
<1>4. counted' = counted /\ removed' = removed
  BY <1>2, <1>3 DEF History, Telling, MonitorTypes
<1>5. mon.pc = "asking" /\ ask[Mon] = Asked
  <2>1. ask[Mon] # None
    BY <1>2 DEF None
  <2> QED
    BY <1>2, <2>1 DEF Walk, MonitorTypes
<1>6. ask[Mon].desc = mon.desc
  BY <1>5 DEF Asked
<1>7. Answered(Mon, mon.desc \in Reserved, 0)
  BY <1>6 DEF TellTask
<1>8. rep'[Mon] # None /\ (rep'[Mon].ok <=> mon.desc \in Reserved)
  <2> DEFINE r(b) == [type |-> "reply", re |-> ask[Mon], ok |-> b, n |-> 0]
  <2>1. rep' = [rep EXCEPT ![Mon] = r(mon.desc \in Reserved)]
    BY <1>1, <1>7 DEF Answered
  <2>2. rep'[Mon] = r(mon.desc \in Reserved)
    BY <1>1, <2>1 DEF ServiceTypes
  <2>3. CASE mon.desc \in Reserved
    <3>1. (mon.desc \in Reserved) = TRUE
      BY <2>3
    <3>2. rep'[Mon] = r(TRUE)
      BY <2>2, <3>1
    <3> QED
      BY <2>3, <3>2 DEF None
  <2>4. CASE mon.desc \notin Reserved
    <3>1. (mon.desc \in Reserved) = FALSE
      BY <2>4
    <3>2. rep'[Mon] = r(FALSE)
      BY <2>2, <3>1
    <3> QED
      BY <2>4, <3>2 DEF None
  <2> QED
    BY <2>3, <2>4
<1>9. ~removed => (mon.desc \in Reserved <=> mon.desc \in counted)
  <2> SUFFICES ASSUME ~removed, mon.desc \in Reserved, mon.desc \notin counted
               PROVE  FALSE
    BY DEF Walk
  <2>1. \A a \in counted : a < mon.desc
    BY DEF Walk
  <2>2. mon.seen = counted
    BY <1>5, <2>1 DEF Walk
  <2>3. mon.count = mon.ntask
    BY <1>5, <2>2 DEF Walk
  <2> QED
    BY <1>5, <2>3 DEF Walk, MonitorTypes
<1>10. MonitorTypes'
  BY <1>4 DEF MonitorTypes
<1> QED
  BY <1>2, <1>3, <1>4, <1>5, <1>8, <1>9, <1>10 DEF Walk

LEMMA ServeWalk ==
  ASSUME ServiceTypes, MonitorTypes, Walk, History, mon' = mon, NEW k \in Users, Serve(k)
  PROVE  MonitorTypes' /\ Walk'
<1>1. Mon \in Users /\ ask \in [Users -> Requests] /\ rep \in [Users -> Replies \cup {None}]
  BY MonitorAssumption DEF ServiceTypes
<1>2. CASE k # Mon
  <2>1. ask'[Mon] = ask[Mon] /\ rep'[Mon] = rep[Mon]
    BY <1>1, <1>2, Serving
  <2> QED
    BY <2>1, ReservedAfter, WalkElsewhere
<1>3. CASE k = Mon
  <2>1. ask[Mon] # None
    BY <1>3, Serving
  <2>2. ask[Mon].type \in {"tasks_info", "task_info"}
    BY <2>1 DEF Walk, MonitorTypes, Asked
  <2>3. TellTasks(Mon) \/ TellTask(Mon)
    BY <1>3, <2>2 DEF Serve, Grant, Refuse, Release, Other
  <2> QED
    BY <2>3, WalkCounted, WalkTold
<1> QED
  BY <1>2, <1>3

(***************************************************************************)
(* The steps of the monitor.                                               *)
(***************************************************************************)
LEMMA PrintingWalk ==
  ASSUME ServiceTypes, MonitorTypes, Walk, History, Printing
  PROVE  /\ ServiceTypes' /\ MonitorTypes' /\ Walk'
         /\ ask'[Me] = ask[Me] /\ rep'[Me] = rep[Me] /\ up' = up /\ resv' = resv
<1>1. /\ Mon \in Users /\ Me \in Users /\ Me # Mon
      /\ ask \in [Users -> Requests] /\ rep \in [Users -> Replies \cup {None}]
  BY LibraryAssumption, MonitorAssumption DEF ServiceTypes
<1>2. /\ mon.desc \in Nat \ {0} /\ mon.count \in Nat /\ mon.ntask \in Nat
      /\ mon.seen \subseteq Nat
  BY DEF MonitorTypes
<1>3. [type |-> "tasks_info"] \in Requests /\ Asked \in Requests
  BY <1>2 DEF Requests, Asked
<1>4. up' = up /\ lastid' = lastid /\ resv' = resv
  BY DEF Printing, Count, Counted, AskTask, TaskAnswer, WalkDone, Submit, Take, sv
<1>5. Reserved' = Reserved
  BY <1>4 DEF Reserved
<1>6. ask'[Me] = ask[Me] /\ rep'[Me] = rep[Me]
  BY <1>1 DEF Printing, Count, Counted, AskTask, TaskAnswer, WalkDone, Submit, Take, sv
<1>7. ~Telling
  BY DEF Telling, None, Printing, Count, Counted, AskTask, TaskAnswer, WalkDone, Submit, Take, sv
<1>8. counted' = counted /\ removed' = removed
  BY <1>5, <1>7 DEF History, MonitorTypes
<1>9. CASE Count
  <2>1. ServiceTypes'
    BY <1>1, <1>3, <1>9, Submitting DEF Count
  <2>2. mon' = [mon EXCEPT !.pc = "counting"] /\ MonitorTypes'
    BY <1>8, <1>9 DEF Count, MonitorTypes
  <2>3. mon'.pc = "counting"
    BY <2>2 DEF MonitorTypes
  <2>4. ask'[Mon] = [type |-> "tasks_info"] /\ rep'[Mon] = None
    BY <1>1, <1>9 DEF Count, Submit
  <2>5. Walk'
    BY <1>4, <1>5, <1>8, <2>3, <2>4 DEF Walk
  <2> QED
    BY <1>4, <1>6, <2>1, <2>2, <2>5
<1>10. CASE Counted
  <2>1. ServiceTypes' /\ rep[Mon] \in Replies
    BY <1>1, <1>10, Taking DEF Counted
  <2>2. rep[Mon].n = Cardinality(counted) /\ ask[Mon] = None
    BY <1>10 DEF Counted, Take, Walk
  <2>3. rep[Mon].n \in Nat
    BY <2>1, IdsAreNumbers DEF Replies
  <2>4. mon' = [pc |-> "walk", ntask |-> rep[Mon].n, desc |-> 1, count |-> 0, seen |-> {}]
    BY <1>10 DEF Counted
  <2>5. MonitorTypes'
    BY <1>8, <2>3, <2>4 DEF MonitorTypes
  <2>6. ask'[Mon] = None /\ rep'[Mon] = None
    BY <1>1, <1>10, <2>2 DEF Counted, Take
  <2>7. {id \in counted : id < 1} = {}
    BY IdsAreNumbers DEF MonitorTypes
  <2>8. Cardinality({}) = 0
    BY FS_EmptySet
  <2>9. /\ mon'.pc = "walk" /\ mon'.ntask = Cardinality(counted') /\ mon'.seen = {}
        /\ mon'.count = 0 /\ {id \in counted' : id < mon'.desc} = {}
    BY <1>8, <2>2, <2>4, <2>7
  <2>10. Walk'
    BY <1>4, <1>5, <1>8, <2>6, <2>8, <2>9 DEF Walk
  <2> QED
    BY <1>4, <1>6, <2>1, <2>5, <2>10
<1>11. CASE AskTask
  <2>1. ServiceTypes'
    BY <1>1, <1>3, <1>11, Submitting DEF AskTask, Asked
  <2>2. mon' = [mon EXCEPT !.pc = "asking"] /\ MonitorTypes'
    BY <1>8, <1>11 DEF AskTask, MonitorTypes
  <2>3. /\ mon'.pc = "asking" /\ mon'.desc = mon.desc /\ mon'.count = mon.count
        /\ mon'.ntask = mon.ntask /\ mon'.seen = mon.seen
    BY <2>2 DEF MonitorTypes
  <2>4. ask'[Mon] = Asked' /\ rep'[Mon] = None
    BY <1>1, <1>11, <2>3 DEF AskTask, Submit, Asked
  <2>5. mon.pc = "walk" /\ mon.count < mon.ntask
    BY <1>11 DEF AskTask
  <2>6. Walk'
    BY <1>4, <1>5, <1>8, <2>3, <2>4, <2>5 DEF Walk
  <2> QED
    BY <1>4, <1>6, <2>1, <2>2, <2>6
<1>12. CASE TaskAnswer
  <2>1. ServiceTypes' /\ rep[Mon] \in Replies
    BY <1>1, <1>12, Taking DEF TaskAnswer
  <2>2. mon.pc = "asking" /\ rep[Mon] # None /\ ask'[Mon] = ask[Mon] /\ rep'[Mon] = None
    BY <1>1, <1>12 DEF TaskAnswer, Take
  <2>3. ask[Mon] = None /\ (~removed => (rep[Mon].ok <=> mon.desc \in counted))
    BY <2>2 DEF Walk
  <2>4. /\ mon'.pc = "walk" /\ mon'.ntask = mon.ntask /\ mon'.desc = mon.desc + 1
    BY <1>12 DEF TaskAnswer, MonitorTypes
  <2>5. \/ rep[Mon].ok /\ mon'.count = mon.count + 1 /\ mon'.seen = mon.seen \cup {mon.desc}
        \/ ~rep[Mon].ok /\ mon'.count = mon.count /\ mon'.seen = mon.seen
    BY <1>12 DEF TaskAnswer, MonitorTypes
  <2>6. ASSUME ~removed
        PROVE  /\ mon'.ntask = Cardinality(counted)
               /\ mon'.seen = {id \in counted : id < mon'.desc}
               /\ mon'.count = Cardinality(mon'.seen)
    <3>1. /\ mon.ntask = Cardinality(counted) /\ mon.seen = {id \in counted : id < mon.desc}
          /\ mon.count = Cardinality(mon.seen)
      BY <2>2, <2>6 DEF Walk
    <3>2. \A id \in counted : id \in Nat
      BY IdsAreNumbers DEF MonitorTypes
    <3>3. CASE rep[Mon].ok
      <4>1. mon.desc \in counted /\ mon.desc \notin mon.seen
        BY <2>3, <2>6, <3>1, <3>2, <3>3
      <4>2. mon'.seen = {id \in counted : id < mon'.desc}
        BY <1>2, <2>4, <2>5, <3>1, <3>2, <3>3, <4>1
      <4>3. mon.seen \subseteq Ids
        BY <3>1 DEF MonitorTypes
      <4>4. Cardinality(mon.seen \cup {mon.desc}) = Cardinality(mon.seen) + 1
        BY <4>1, <4>3, Counting, FS_AddElement
      <4> QED
        BY <2>4, <2>5, <3>1, <3>3, <4>2, <4>4
    <3>4. CASE ~rep[Mon].ok
      <4>1. mon.desc \notin counted
        BY <2>3, <2>6, <3>4
      <4>2. {id \in counted : id < mon.desc + 1} = {id \in counted : id < mon.desc}
        BY <1>2, <3>2, <4>1
      <4> QED
        BY <2>4, <2>5, <3>1, <3>4, <4>2
    <3> QED
      BY <3>3, <3>4
  <2>7. MonitorTypes'
    <3>1. mon' \in [pc : {"start", "counting", "walk", "asking"}, ntask : Nat,
                    desc : Nat \ {0}, count : Nat, seen : SUBSET Nat]
      <4> DEFINE D == mon.desc + 1
                 C == mon.count + 1
                 S == mon.seen \cup {mon.desc}
      <4>1. S \in SUBSET Nat /\ D \in Nat \ {0} /\ C \in Nat
        BY <1>2
      <4>2. \/ mon' = [mon EXCEPT !.pc = "walk", !.desc = D, !.count = C, !.seen = S]
            \/ mon' = [mon EXCEPT !.pc = "walk", !.desc = D]
        BY <1>12 DEF TaskAnswer
      <4> HIDE DEF D, C, S
      <4> QED
        BY <4>1, <4>2 DEF MonitorTypes
    <3> QED
      BY <1>8, <3>1 DEF MonitorTypes
  <2>8. Walk'
    BY <1>4, <1>5, <1>8, <2>2, <2>3, <2>4, <2>6 DEF Walk
  <2> QED
    BY <1>4, <1>6, <2>1, <2>7, <2>8
<1>13. CASE WalkDone
  <2>1. ServiceTypes'
    BY <1>13 DEF WalkDone, ServiceTypes, sv
  <2>2. mon' = [mon EXCEPT !.pc = "start"] /\ MonitorTypes'
    BY <1>8, <1>13 DEF WalkDone, MonitorTypes
  <2>3. mon'.pc = "start" /\ mon.pc = "walk"
    BY <1>13, <2>2 DEF WalkDone, MonitorTypes
  <2>4. ask' = ask /\ rep' = rep
    BY <1>13 DEF WalkDone, sv
  <2>5. Walk'
    BY <1>4, <1>5, <1>8, <2>3, <2>4 DEF Walk
  <2> QED
    BY <1>4, <1>6, <2>1, <2>2, <2>5
<1> QED
  BY <1>9, <1>10, <1>11, <1>12, <1>13 DEF Printing

-----------------------------------------------------------------------------
(***************************************************************************)
(* The invariant, put together.                                            *)
(***************************************************************************)
LEMMA LibInitInv ==
  ASSUME MonitorInit
  PROVE  LibInv
<1> USE DEF MonitorInit, ServiceInit, LibInit
<1>1. None \in Requests /\ [type |-> "connect", id |-> 0] \in Requests
  BY DEF Requests, Kinds
<1>2. ServiceTypes
  BY <1>1 DEF ServiceTypes
<1>3. LibraryTypes
  <2>1. buf \in Replies
    BY <1>1 DEF Replies
  <2>2. th \in [Threads -> ThreadStates]
    BY <1>1 DEF ThreadStates
  <2>3. req \in [type : Kinds, word : Nat]
    BY DEF Kinds
  <2>4. overlap \in BOOLEAN
    OBVIOUS
  <2>5. calls \in 0..MaxCalls /\ blind \in Nat /\ mutex \in Threads \cup {Free}
    BY LibraryAssumption
  <2> QED
    BY <2>1, <2>2, <2>3, <2>4, <2>5 DEF LibraryTypes
<1>4. MonitorTypes
  <2>1. removed \in BOOLEAN /\ counted \subseteq Ids
    OBVIOUS
  <2>2. mon \in [pc : {"start", "counting", "walk", "asking"}, ntask : Nat, desc : Nat \ {0},
                 count : Nat, seen : SUBSET Nat]
    OBVIOUS
  <2> QED
    BY <2>1, <2>2 DEF MonitorTypes
<1>5. ask[Me] = None /\ rep[Me] = None /\ ask[Mon] = None /\ rep[Mon] = None
  BY LibraryAssumption, MonitorAssumption
<1>6. \A t \in Threads : th[t].pc = "idle" /\ th[t].own = {}
  OBVIOUS
<1>7. Wire /\ Blinded
  BY <1>5, <1>6, LibraryAssumption DEF Wire, Blinded
<1>8. Reserved = {} /\ Holds(Me) = {} /\ Owned = {}
  BY <1>6, LibraryAssumption DEF Reserved, Holds, Owned
<1>9. Ours
  BY <1>6, <1>8 DEF Ours
<1>10. Walk
  BY <1>5, <1>8 DEF Walk
<1> QED
  BY <1>2, <1>3, <1>4, <1>7, <1>9, <1>10 DEF LibInv, Types

\* A step of the process leaves the monitor's connection and the reservations alone.
LEMMA LibraryWalk ==
  ASSUME ServiceTypes, MonitorTypes, Walk, History, mon' = mon, Library
  PROVE  MonitorTypes' /\ Walk'
<1>1. Mon \in Users /\ Me \in Users /\ Me # Mon /\ ask \in [Users -> Requests]
      /\ rep \in [Users -> Replies \cup {None}] /\ lastid \in Nat
  BY LibraryAssumption, MonitorAssumption, IdsAreNumbers DEF ServiceTypes
<1>2. lastid' = lastid /\ resv' = resv /\ ask'[Mon] = ask[Mon] /\ rep'[Mon] = rep[Mon]
  <2>1. PICK t \in Threads :
          Thread(t) \/ \E type \in CallTypes : \E w \in Words(t, type) : Call(t, type, w)
    BY DEF Library
  <2>2. CASE Payload(t) \/ Lock(t) \/ Unlock(t) \/ Check(t) \/ Read(t)
    BY <2>2 DEF Payload, Lock, Unlock, Check, Read, sv
  <2>3. CASE Send(t)
    BY <1>1, <2>3 DEF Send, Submit, sv
  <2>4. CASE Recv(t)
    BY <1>1, <2>4 DEF Recv, Take
  <2>5. CASE \E type \in CallTypes : \E w \in Words(t, type) : Call(t, type, w)
    BY <2>5 DEF Call, sv
  <2> QED
    BY <2>1, <2>2, <2>3, <2>4, <2>5 DEF Thread
<1>3. Reserved' = Reserved
  BY <1>2 DEF Reserved
<1> QED
  BY <1>1, <1>2, <1>3, WalkElsewhere

LEMMA LibNextInv ==
  ASSUME LibInv, [MonitorNext]_all
  PROVE  LibInv'
<1> USE DEF LibInv, Types
<1>1. CASE Library /\ UNCHANGED mon /\ History
  <2>1. MonitorTypes' /\ Walk'
    BY <1>1, LibraryWalk
  <2>2. PICK t \in Threads :
          Thread(t) \/ \E type \in CallTypes : \E w \in Words(t, type) : Call(t, type, w)
    BY <1>1 DEF Library
  <2>3. CASE Thread(t)
    BY <2>1, <2>3, ThreadTypes, ThreadWire, ThreadOurs
  <2>4. CASE \E type \in CallTypes : \E w \in Words(t, type) : Call(t, type, w)
    <3>1. PICK type \in CallTypes : \E w \in Words(t, type) : Call(t, type, w)
      BY <2>4
    <3>2. PICK w \in Words(t, type) : Call(t, type, w)
      BY <3>1
    <3> QED
      BY <2>1, <3>2, CallTypesKept, CallWire, CallOurs
  <2> QED
    BY <2>2, <2>3, <2>4
<1>2. CASE Stop /\ UNCHANGED <<lv, mon>> /\ History
  <2>1. up' = FALSE /\ ask' = ask /\ rep' = rep /\ lastid' = lastid
    BY <1>2 DEF Stop
  <2>2. ServiceTypes'
    BY <1>2 DEF Stop, ServiceTypes
  <2>3. LibraryTypes'
    BY <1>2 DEF LibraryTypes, lv
  <2>4. Wire' /\ Blinded'
    BY <1>2, <2>1, WireFrame
  <2>5. Ours'
    BY <2>1 DEF Ours
  <2>6. Reserved' = {} /\ lastid \in Nat
    BY <1>2, IdsAreNumbers DEF Stop, Reserved, ServiceTypes
  <2>7. MonitorTypes' /\ Walk'
    BY <1>2, <2>1, <2>6, WalkElsewhere
  <2> QED
    BY <2>2, <2>3, <2>4, <2>5, <2>7
<1>3. ASSUME NEW k \in Users, Serve(k), UNCHANGED <<lv, mon>>, History
      PROVE  LibInv'
  <2>1. ServiceTypes'
    <3>1. None \in Requests
      BY DEF Requests
    <3> QED
      BY <1>3, <3>1, Serving DEF ServiceTypes
  <2>2. LibraryTypes'
    BY <1>3 DEF LibraryTypes, lv
  <2>3. Wire' /\ Blinded'
    BY <1>3, ServeWire
  <2>4. Ours'
    BY <1>3, ServeOurs DEF Walk
  <2>5. MonitorTypes' /\ Walk'
    BY <1>3, ServeWalk
  <2> QED
    BY <2>1, <2>2, <2>3, <2>4, <2>5
<1>4. CASE Printing /\ UNCHANGED lv /\ History
  <2>1. /\ ServiceTypes' /\ MonitorTypes' /\ Walk'
        /\ ask'[Me] = ask[Me] /\ rep'[Me] = rep[Me] /\ up' = up /\ resv' = resv
    BY <1>4, PrintingWalk
  <2>2. LibraryTypes'
    BY <1>4 DEF LibraryTypes, lv
  <2>3. Wire' /\ Blinded'
    BY <1>4, <2>1, WireFrame
  <2>4. Ours'
    BY <1>4, <2>1, SameHolds, OursFrame
  <2> QED
    BY <2>1, <2>2, <2>3, <2>4
<1>5. CASE UNCHANGED all
  <2>1. /\ UNCHANGED <<up, lastid, resv, ask, rep, gone>>
        /\ UNCHANGED <<req, buf, mutex, th, calls, overlap, blind>>
        /\ UNCHANGED <<mon, counted, removed>> /\ UNCHANGED lv
    BY <1>5 DEF all, sv, lv, mv
  <2>2. Types'
    BY <2>1 DEF ServiceTypes, LibraryTypes, MonitorTypes
  <2>3. Wire' /\ Blinded'
    BY <2>1, WireFrame
  <2>4. Ours'
    BY <2>1, SameHolds, OursFrame
  <2>5. Reserved' = Reserved /\ Asked' = Asked
    BY <2>1 DEF Reserved, Asked
  <2>6. Walk'
    BY <2>1, <2>5 DEF Walk
  <2> QED
    BY <2>2, <2>3, <2>4, <2>6
<1> QED
  BY <1>1, <1>2, <1>3, <1>4, <1>5 DEF MonitorNext, Daemon

\* LibInv holds in every reachable state.
THEOREM LibInvariant == MonitorSpec => []LibInv
<1>1. MonitorInit => LibInv
  BY LibInitInv
<1>2. LibInv /\ [MonitorNext]_all => LibInv'
  BY LibNextInv
<1> QED
  BY <1>1, <1>2, PTL DEF MonitorSpec

-----------------------------------------------------------------------------
(***************************************************************************)
(* The properties.                                                         *)
(***************************************************************************)

(***************************************************************************)
(* Types: whatever the threads of a process call and however their calls   *)
(* interleave, the ids they hold are ids the daemon hands out, or 0.       *)
(***************************************************************************)
THEOREM LibraryTypesHold == MonitorSpec => []LibraryTypeOK
<1>1. LibInv => LibraryTypeOK
  <2> SUFFICES ASSUME LibInv
               PROVE  LibraryTypeOK
    OBVIOUS
  <2>1. blind \in 0..MaxCalls
    BY LibraryAssumption DEF LibInv, Types, LibraryTypes, Blinded
  <2> QED
    BY <2>1 DEF LibInv, Types, LibraryTypes, ThreadStates, LibraryTypeOK
<1> QED
  BY <1>1, LibInvariant, PTL

(***************************************************************************)
(* The mutex of rtf_task_communicate is enough to pair requests and        *)
(* replies: what a thread receives under it answers what it sent under it. *)
(***************************************************************************)
THEOREM RepliesArePaired == MonitorSpec => []ExchangesPaired
<1>1. LibInv => ExchangesPaired
  <2> SUFFICES ASSUME LibInv, NEW t \in Threads
               PROVE  /\ th[t].pc = "send" /\ up => ask[Me] = None /\ rep[Me] = None
                      /\ th[t].pc = "unlock" /\ th[t].ret = "OK" /\ th[t].sent # None =>
                           buf.re = th[t].sent
    BY DEF ExchangesPaired
  <2>1. ASSUME th[t].pc = "send"
        PROVE  ask[Me] = None /\ rep[Me] = None
    <3>1. \A u \in Threads : th[u].pc # "recv"
      BY <2>1, OneHolder DEF LibInv
    <3> QED
      BY <3>1 DEF LibInv, Wire
  <2> QED
    BY <2>1 DEF LibInv, Wire
<1> QED
  BY <1>1, LibInvariant, PTL

(***************************************************************************)
(* A process is told at most once that a request succeeded which the       *)
(* daemon did not live to answer.                                          *)
(***************************************************************************)
THEOREM BlindAtMostOnce == MonitorSpec => []BlindOnce
<1>1. LibInv => BlindOnce
  BY DEF LibInv, Blinded, BlindOnce
<1> QED
  BY <1>1, LibInvariant, PTL

(***************************************************************************)
(* As long as calls do not overlap, the tasks a process believes it has    *)
(* are the reservations the daemon holds for it.                           *)
(***************************************************************************)
THEOREM TasksAreTrue == MonitorSpec => []TasksTrue
<1>1. LibInv => TasksTrue
  BY DEF LibInv, Ours, TasksTrue, Owned
<1> QED
  BY <1>1, LibInvariant, PTL

(***************************************************************************)
(* A walk of the monitor during which no reservation goes away prints      *)
(* exactly the reservations that were counted, although others may be      *)
(* created while it walks.                                                 *)
(***************************************************************************)
THEOREM WalksAreTrue == MonitorSpec => []WalkTrue
<1>1. LibInv => WalkTrue
  <2> SUFFICES ASSUME LibInv, mon.pc = "walk", mon.count >= mon.ntask, ~removed
               PROVE  mon.seen = counted
    BY DEF WalkTrue
  <2>1. /\ mon.ntask = Cardinality(counted) /\ mon.count = Cardinality(mon.seen)
        /\ mon.seen \subseteq counted
    BY DEF LibInv, Walk
  <2>2. IsFiniteSet(counted) /\ counted \subseteq Ids
    BY Counting DEF LibInv, Types, MonitorTypes
  <2>3. Cardinality(mon.seen) <= Cardinality(counted) /\ Cardinality(mon.seen) \in Nat
        /\ Cardinality(counted) \in Nat
    BY <2>1, <2>2, FS_Subset, FS_CardinalityType
  <2>4. Cardinality(mon.seen) = Cardinality(counted)
    BY <2>1, <2>3
  <2> QED
    BY <2>1, <2>2, <2>4, FS_Subset
<1> QED
  BY <1>1, LibInvariant, PTL

==============================================================================
