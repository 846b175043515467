---------------------------- MODULE RemoteServer ----------------------------
(***************************************************************************)
(* The server of remoted function calls (gpu-offload remoter.py): the      *)
(* receiving thread of each connection, the thread pool in which functions *)
(* run, the cleanup thread that answers, and what is released when a       *)
(* connection closes.  Functions run in the thread pool, the default       *)
(* functype.  The connections are FIFO streams (msgtcp.py); each use of    *)
(* one is a new incarnation, a member of Conns.                            *)
(***************************************************************************)
EXTENDS Naturals, Sequences, FiniteSets

LOCAL INSTANCE Functions

CONSTANTS
    Calls,         \* function calls, by their uid
    Shared,        \* calls of one function declared singleinstance
    Methods,       \* calls of methods of one remoted object
    Object,        \* the uid of that object
    MaxConns,      \* bound: connections that are ever made
    PoolSize,      \* workers of the thread pool; 6 in createThreadPool
    MaxOverdue,    \* bound: how often the cleanup thread is late
    NoCall,        \* no call, no value
    Stopped        \* FunctionStoppedException in place of a value

ASSUME RemoteAssumption ==
    /\ Shared \subseteq Calls /\ Methods \subseteq Calls /\ Shared \cap Methods = {}
    /\ Object \notin Calls /\ NoCall \notin Calls \cup {Object}
    /\ Stopped \notin Calls \cup {NoCall, Object}
    /\ MaxConns \in Nat /\ PoolSize \in Nat \ {0} /\ MaxOverdue \in Nat

Conns == 1..MaxConns

(* The value of a call is named by the call whose body computed it.        *)
Values == Calls \cup {Stopped}

VARIABLES
    link,          \* state of each connection on the wire
    toServer,      \* messages on their way to the server
    toClient,      \* answers on their way to the client
    srv,           \* recvconn of the server: open while it has the key
    handler,       \* what msgHandler is doing for the connection
    fns,           \* conn["fns"]: calls registered with their task
    markers,       \* conn["fns"]: entries None, made by sendResult
    home,          \* connection a call came in on, 0 before that
    role,          \* how callfunction runs a call
    memo,          \* first result of the single-instance function
    running,       \* runningTasks
    pool,          \* tasks submitted to the pool that have not started
    cancelled,     \* tasks cancelled before they started
    workers,       \* tasks that run in the pool
    cleaned,       \* alreadyCleaned
    cleanup,       \* cleanupQueue, its order left out
    cleaning,      \* the item whose callback the cleanup thread runs
    inCache,       \* the object is in remotedClasses
    owners,        \* connections with the object in conn["classes"]
    spoiled,       \* connections whose closeconn raised
    overdue,       \* history: how often a uid left alreadyCleaned while queued
    executed,      \* history: calls whose own body has started
    answers        \* history: answers sent for each call

connVars == <<link, toServer, toClient, srv, handler, fns, markers, spoiled>>
poolVars == <<pool, cancelled, workers, executed>>
cleanVars == <<running, cleaned, cleanup, overdue>>
objectVars == <<inCache, owners>>
serverVars == <<connVars, poolVars, cleanVars, objectVars, home, role, memo, cleaning, answers>>

(* What is queued: the uid, the connection callback answers to, 0 if there *)
(* is none, and the result.  nth tells items of one uid apart.             *)
Items == [id : Calls \cup {Object}, nth : Nat, answer : Conns \cup {0}, first : BOOLEAN,
          value : Values]
Idle == [stage |-> "idle", call |-> NoCall]
NoItem == [id |-> NoCall, nth |-> 0, answer |-> 0, first |-> FALSE, value |-> Stopped]

ServerTypeOK ==
    /\ link \in [Conns -> {"unused", "open", "broken"}]
    /\ toServer \in [Conns -> Seq([type : {"call", "cancel"}, call : Calls])]
    /\ toClient \in [Conns -> Seq([call : Calls, value : Values])]
    /\ srv \in [Conns -> {"unused", "open", "closed"}]
    /\ handler \in [Conns -> [stage : {"idle", "entered", "submitted"}, call : Calls \cup {NoCall}]]
    /\ \A k \in Conns : handler[k].stage = "idle" <=> handler[k].call = NoCall
    /\ fns \in [Conns -> SUBSET Calls] /\ markers \in [Conns -> SUBSET Calls]
    /\ home \in [Calls -> Conns \cup {0}]
    /\ role \in [Calls -> {"none", "own", "first", "follower"}]
    /\ memo \in Calls \cup {NoCall}
    /\ running \subseteq Calls /\ pool \in Seq(Calls) /\ cancelled \subseteq Calls
    /\ workers \subseteq Calls /\ executed \subseteq Calls
    /\ cleaned \subseteq Calls \cup {Object} /\ cleanup \subseteq Items
    /\ cleaning \in Items \cup {NoItem}
    /\ inCache \in BOOLEAN /\ owners \subseteq Conns /\ spoiled \subseteq Conns
    /\ overdue \in [Calls \cup {Object} -> Nat] /\ answers \in [Calls -> Nat]

ServerInit ==
    /\ link = [k \in Conns |-> "unused"] /\ srv = [k \in Conns |-> "unused"]
    /\ toServer = [k \in Conns |-> <<>>] /\ toClient = [k \in Conns |-> <<>>]
    /\ handler = [k \in Conns |-> Idle]
    /\ fns = [k \in Conns |-> {}] /\ markers = [k \in Conns |-> {}]
    /\ home = [c \in Calls |-> 0] /\ role = [c \in Calls |-> "none"]
    /\ memo = NoCall
    /\ running = {} /\ pool = <<>> /\ cancelled = {} /\ workers = {}
    /\ executed = {} /\ answers = [c \in Calls |-> 0]
    /\ overdue = [c \in Calls \cup {Object} |-> 0]
    /\ cleaned = {} /\ cleanup = {} /\ cleaning = NoItem
    /\ inCache = FALSE /\ owners = {} /\ spoiled = {}

-----------------------------------------------------------------------------
(* addForCleanup, stopfn *)

(* The items in S whose cleanup is not under way already are queued.       *)
QueueAlways(S) == S
QueueNew(S) == {i \in S : i.id \notin cleaned /\ i.id \in running \cup (IF inCache THEN {Object} ELSE {})}
AddForCleanup(S) ==
    /\ cleaned' = cleaned \cup {i.id : i \in QueueNew(S)}
    /\ cleanup' = cleanup \cup QueueNew(S)
    /\ UNCHANGED overdue

StopItemEmpty(c, k) ==
    [id |-> c, nth |-> overdue[c], answer |-> k, first |-> FALSE, value |-> NoCall]
StopItem(c, k) ==
    [id |-> c, nth |-> overdue[c], answer |-> k, first |-> FALSE, value |-> Stopped]
ObjectItem == StopItem(Object, 0)

(* Future.cancel has an effect only before the task starts.                *)
CancelTasks(S) == cancelled' = cancelled \cup (S \ workers)

-----------------------------------------------------------------------------
(* msgHandler *)

Incoming(k, type) ==
    /\ srv[k] = "open" /\ handler[k] = Idle
    /\ toServer[k] # <<>> /\ Head(toServer[k]).type = type

(* modifycall_singleinstance: the first caller runs the body, the others   *)
(* wait for its result.                                                    *)
RoleUnmarked(c) ==
    IF c \notin Shared THEN "own" ELSE IF memo = NoCall THEN "first" ELSE "follower"
RoleOf(c) ==
    IF c \notin Shared THEN "own"
    ELSE IF \E d \in Calls : role[d] = "first" THEN "follower" ELSE "first"

(* execfunction up to the submission: the arguments are rehydrated, which  *)
(* creates an object that is not there, and the call gets its role.        *)
ReceiveCall(k) ==
    /\ Incoming(k, "call")
    /\ LET c == Head(toServer[k]).call
       IN  /\ handler' = [handler EXCEPT ![k] = [stage |-> "entered", call |-> c]]
           /\ role' = [role EXCEPT ![c] = RoleOf(c)]
           /\ home' = [home EXCEPT ![c] = k]
           /\ inCache' = (inCache \/ c \in Methods)
           /\ owners' = IF c \in Methods /\ ~inCache THEN owners \cup {k} ELSE owners
    /\ toServer' = [toServer EXCEPT ![k] = Tail(@)]
    /\ UNCHANGED <<link, toClient, srv, fns, markers, spoiled, memo, poolVars, cleanVars,
                   cleaning, answers>>

(* callfunction: the task is recorded and submitted.                       *)
Submit(k) ==
    /\ handler[k].stage = "entered"
    /\ running' = running \cup {handler[k].call}
    /\ pool' = Append(pool, handler[k].call)
    /\ handler' = [handler EXCEPT ![k].stage = "submitted"]
    /\ UNCHANGED <<link, toServer, toClient, srv, fns, markers, spoiled, home, role, memo,
                   cancelled, workers, executed, cleaned, cleanup, overdue, cleaning, objectVars, answers>>

(* Back in msgHandler the call is registered with the connection, unless   *)
(* its answer was quicker.  The connection is alive: this thread closes it.*)
RegisterAnswered(k) ==
    /\ handler[k].stage = "submitted"
    /\ handler' = [handler EXCEPT ![k] = Idle]
    /\ fns' = IF handler[k].call \in running THEN fns
              ELSE [fns EXCEPT ![k] = @ \cup {handler[k].call}]
    /\ markers' = [markers EXCEPT ![k] = @ \ {handler[k].call}]
    /\ UNCHANGED <<link, toServer, toClient, srv, spoiled, home, role, memo, poolVars,
                   cleanVars, cleaning, objectVars, answers>>
Register(k) ==
    /\ handler[k].stage = "submitted"
    /\ handler' = [handler EXCEPT ![k] = Idle]
    /\ fns' = IF handler[k].call \in markers[k] THEN fns
              ELSE [fns EXCEPT ![k] = @ \cup {handler[k].call}]
    /\ markers' = [markers EXCEPT ![k] = @ \ {handler[k].call}]
    /\ UNCHANGED <<link, toServer, toClient, srv, spoiled, home, role, memo, poolVars,
                   cleanVars, cleaning, objectVars, answers>>

(* A cancellation stops what runs, and is lost on what has not arrived.    *)
(* A task that is not in runningTasks yet is answered for, and runs.       *)
ReceiveCancel(k) ==
    /\ Incoming(k, "cancel")
    /\ LET c == Head(toServer[k]).call
       IN  IF c \in running
           THEN /\ CancelTasks({c}) \/ (handler[home[c]].call = c /\ UNCHANGED cancelled)
                /\ AddForCleanup({StopItem(c, k)})
           ELSE UNCHANGED <<cancelled, cleaned, cleanup, overdue>>
    /\ toServer' = [toServer EXCEPT ![k] = Tail(@)]
    /\ UNCHANGED <<link, toClient, srv, handler, fns, markers, spoiled, home, role, memo,
                   running, pool, workers, executed, cleaning, objectVars, answers>>

-----------------------------------------------------------------------------
(* The thread pool and funcWrap *)

(* A worker takes the next task, and skips one that was cancelled.         *)
StartTask ==
    /\ pool # <<>> /\ Cardinality(workers) < PoolSize
    /\ pool' = Tail(pool)
    /\ workers' = IF Head(pool) \in cancelled THEN workers ELSE workers \cup {Head(pool)}
    /\ executed' = IF Head(pool) \in cancelled \/ role[Head(pool)] = "follower"
                   THEN executed ELSE executed \cup {Head(pool)}
    /\ UNCHANGED <<connVars, cancelled, cleanVars, objectVars, home, role, memo, cleaning, answers>>

(* The body ends.  funcnotfirst has waited for the result of the first.    *)
FinishTask(c) ==
    /\ c \in workers
    /\ role[c] = "follower" => memo # NoCall
    /\ workers' = workers \ {c}
    /\ AddForCleanup({[id |-> c, nth |-> overdue[c], answer |-> home[c], first |-> role[c] = "first",
                       value |-> IF role[c] = "follower" THEN memo ELSE c]})
    /\ UNCHANGED <<connVars, pool, cancelled, executed, running, objectVars, home, role, memo,
                   cleaning, answers>>

-----------------------------------------------------------------------------
(* cleanupFunctions *)

TakeItem ==
    /\ cleaning = NoItem
    /\ \E i \in cleanup :
          /\ cleanup' = cleanup \ {i}
          /\ running' = running \ {i.id}
          /\ inCache' = (inCache /\ i.id # Object)
          /\ cleaning' = IF i.answer = 0 THEN NoItem ELSE i
    /\ UNCHANGED <<connVars, poolVars, cleaned, overdue, owners, home, role, memo, answers>>

(* callbackfirst, if it is the callback, and sendResult.  An answer to a   *)
(* connection that is broken is lost.                                      *)
Answer ==
    /\ cleaning # NoItem
    /\ LET c == cleaning.id
           k == cleaning.answer
       IN  /\ memo' = IF cleaning.first THEN cleaning.value ELSE memo
           /\ answers' = [answers EXCEPT ![c] = @ + 1]
           /\ toClient' = IF link[k] = "open"
                  THEN [toClient EXCEPT ![k] = Append(@, [call |-> c, value |-> cleaning.value])]
                  ELSE toClient
           /\ fns' = [fns EXCEPT ![k] = @ \ {c}]
           /\ markers' = [markers EXCEPT ![k] =
                  IF c \in fns[k] \cup markers[k] THEN @ \ {c} ELSE @ \cup {c}]
    /\ cleaning' = NoItem
    /\ UNCHANGED <<link, toServer, srv, handler, spoiled, home, role, poolVars, cleanVars, objectVars>>

(* removeFromCleanup, five seconds after the item was queued: also when    *)
(* the cleanup thread has not come to it by then, and then the call, which *)
(* is still in runningTasks, can be queued again.  A call whose item was   *)
(* taken is never in runningTasks again: when its uid leaves makes no      *)
(* difference.  An object can be created anew.                             *)
IsQueued(x) == \E i \in cleanup : i.id = x
TimesOverdue == FoldFunction(+, 0, overdue)
ForgetCleaned(x) ==
    /\ x \in cleaned /\ (x \in Calls => IsQueued(x))
    /\ IsQueued(x) => TimesOverdue < MaxOverdue
    /\ cleaned' = cleaned \ {x}
    /\ overdue' = IF IsQueued(x) THEN [overdue EXCEPT ![x] = @ + 1] ELSE overdue
    /\ UNCHANGED <<connVars, poolVars, running, cleanup, objectVars, home, role, memo, cleaning, answers>>

-----------------------------------------------------------------------------
(* closeconn, by the receiving thread, when the stream has ended.  stopfn  *)
(* raises at an entry None: what comes after it is neither stopped nor     *)
(* released.                                                               *)
CloseConn(k) ==
    /\ srv[k] = "open" /\ handler[k] = Idle /\ link[k] = "broken"
    /\ srv' = [srv EXCEPT ![k] = "closed"]
    /\ toServer' = [toServer EXCEPT ![k] = <<>>]
    /\ spoiled' = IF markers[k] = {} THEN spoiled ELSE spoiled \cup {k}
    /\ \E S \in SUBSET fns[k] :
          /\ markers[k] = {} => S = fns[k]
          /\ CancelTasks(S)
          /\ AddForCleanup({StopItem(c, 0) : c \in S} \cup
                 (IF markers[k] = {} /\ k \in owners THEN {ObjectItem} ELSE {}))
    /\ UNCHANGED <<link, toClient, handler, fns, markers, home, role, memo, running, pool,
                   workers, executed, cleaning, objectVars, answers>>

ServerNext ==
    \/ \E k \in Conns :
          ReceiveCall(k) \/ Submit(k) \/ Register(k) \/ ReceiveCancel(k) \/ CloseConn(k)
    \/ StartTask
    \/ \E c \in Calls : FinishTask(c)
    \/ TakeItem \/ Answer
    \/ \E x \in Calls \cup {Object} : ForgetCleaned(x)
=============================================================================
