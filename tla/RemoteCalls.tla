----------------------------- MODULE RemoteCalls -----------------------------
(***************************************************************************)
(* Remoted function calls end to end: the callers of one client process    *)
(* (runSyncFunction and what it calls in remoter.py), its connections to   *)
(* one location, and the server of that location (RemoteServer).           *)
(* Connections break at any time; what is in flight may still arrive until *)
(* the receiving side sees the end of the stream.                          *)
(***************************************************************************)
EXTENDS RemoteServer

CONSTANTS
    Timed,         \* calls made with a timeout
    MaxBegun,      \* bound: calls that are made
    MaxCancels     \* bound: calls that are cancelled by their id

VARIABLES
    phase,         \* where a caller is
    via,           \* connection a call goes out on, 0 before
    conn,          \* conns[loc], 0 if there is none
    fnuid,         \* conn["fnuid"]: calls to wake when it closes
    woken,         \* calls whose event is set
    results,       \* results, NoCall where there is none
    outcome,       \* history: what a caller got
    objConn,       \* remotedClassesConn of the object, 0 if none
    objOn,         \* connections with the object in conn["classes"]
    objFailed,     \* failed_rmt0bf of the object
    asked          \* calls that were cancelled by their id

callerVars == <<phase, via, woken, results, outcome, asked>>
clientVars == <<callerVars, conn, fnuid, objConn, objOn, objFailed>>
vars == <<serverVars, clientVars>>

TypeOK ==
    /\ ServerTypeOK
    /\ phase \in [Calls -> {"idle", "chosen", "unsent", "waiting", "returned", "failed", "timedout"}]
    /\ via \in [Calls -> Conns \cup {0}] /\ conn \in Conns \cup {0}
    /\ fnuid \in [Conns -> SUBSET Calls]
    /\ woken \subseteq Calls
    /\ results \in [Calls -> Values \cup {NoCall}] /\ outcome \in [Calls -> Values \cup {NoCall}]
    /\ objConn \in Conns \cup {0} /\ objOn \subseteq Conns /\ objFailed \in BOOLEAN
    /\ asked \subseteq Calls

Init ==
    /\ ServerInit
    /\ phase = [c \in Calls |-> "idle"] /\ via = [c \in Calls |-> 0]
    /\ conn = 0 /\ fnuid = [k \in Conns |-> {}]
    /\ woken = {}
    /\ results = [c \in Calls |-> NoCall] /\ outcome = [c \in Calls |-> NoCall]
    /\ objConn = 0 /\ objOn = {} /\ objFailed = FALSE
    /\ asked = {}

-----------------------------------------------------------------------------
(* runRemotedfunction *)

(* getconn connects if there is no connection, and has the call woken when *)
(* the connection closes.                                                  *)
Connect(k) ==
    /\ conn = 0 /\ link[k] = "unused" /\ \A j \in Conns : j < k => link[j] # "unused"
    /\ link' = [link EXCEPT ![k] = "open"]
    /\ srv' = [srv EXCEPT ![k] = "open"]
    /\ conn' = k

GetConnFirst(c, k) ==
    \/ Connect(k) /\ fnuid' = [fnuid EXCEPT ![k] = @ \cup {c}]
                  /\ objOn' = IF c \in Methods THEN objOn \cup {k} ELSE objOn
    \/ conn = k /\ UNCHANGED <<link, srv, conn, fnuid, objOn>>
GetConn(c, k) ==
    /\ \/ Connect(k)
       \/ conn = k /\ UNCHANGED <<link, srv, conn>>
    /\ fnuid' = [fnuid EXCEPT ![k] = @ \cup {c}]
    /\ objOn' = IF c \in Methods THEN objOn \cup {k} ELSE objOn

(* A method goes out on the connection of its object; then nobody enters   *)
(* the call in fnuid.                                                      *)
Begin(c) ==
    /\ phase[c] = "idle" /\ (c \in Methods => ~objFailed)
    /\ Cardinality({d \in Calls : phase[d] # "idle"}) < MaxBegun
    /\ phase' = [phase EXCEPT ![c] = "chosen"]
    /\ \E k \in Conns :
          /\ via' = [via EXCEPT ![c] = k]
          /\ IF c \in Methods /\ objConn # 0
             THEN k = objConn /\ UNCHANGED <<link, srv, conn, fnuid, objOn>>
             ELSE GetConn(c, k)
    /\ UNCHANGED <<toServer, toClient, handler, fns, markers, spoiled, poolVars, cleanVars,
                   objectVars, home, role, memo, cleaning, answers,
                   woken, results, outcome, objConn, objFailed, asked>>

(* senddata: on a broken connection the message may be lost unnoticed, as  *)
(* long as the messenger is open.                                          *)
Transmit(c, k) ==
    \/ /\ link[k] = "open"
       /\ toServer' = [toServer EXCEPT ![k] = Append(@, [type |-> "call", call |-> c])]
       /\ phase' = [phase EXCEPT ![c] = "waiting"]
    \/ /\ link[k] = "broken" /\ conn = k /\ UNCHANGED toServer
       /\ phase' = [phase EXCEPT ![c] = "waiting"]
    \/ /\ link[k] = "broken" /\ UNCHANGED toServer
       /\ phase' = [phase EXCEPT ![c] = "unsent"]

Send(c) ==
    /\ phase[c] = "chosen"
    /\ IF c \in Methods /\ objFailed
       THEN phase' = [phase EXCEPT ![c] = "unsent"] /\ UNCHANGED <<toServer, objConn>>
       ELSE /\ objConn' = IF c \in Methods /\ objConn = 0 THEN via[c] ELSE objConn
            /\ Transmit(c, via[c])
    /\ UNCHANGED <<link, toClient, srv, handler, fns, markers, spoiled, poolVars, cleanVars,
                   objectVars, home, role, memo, cleaning, answers,
                   via, woken, results, outcome, asked, conn, fnuid, objOn, objFailed>>

-----------------------------------------------------------------------------
(* Answers, timeouts, cancellations *)

(* unpackResult and qcallback *)
ReceiveResult(k) ==
    /\ conn = k /\ toClient[k] # <<>>
    /\ LET m == Head(toClient[k])
       IN  /\ results' = [results EXCEPT ![m.call] = m.value]
           /\ woken' = woken \cup {m.call}
    /\ toClient' = [toClient EXCEPT ![k] = Tail(@)]
    /\ UNCHANGED <<link, toServer, srv, handler, fns, markers, spoiled, poolVars, cleanVars,
                   objectVars, home, role, memo, cleaning, answers,
                   phase, via, outcome, asked, conn, fnuid, objConn, objOn, objFailed>>

(* getResult: an event without a result raises.                            *)
Return(c) ==
    /\ phase[c] = "waiting" /\ c \in woken
    /\ phase' = [phase EXCEPT ![c] = IF results[c] = NoCall THEN "failed" ELSE "returned"]
    /\ outcome' = [outcome EXCEPT ![c] = results[c]]
    /\ results' = [results EXCEPT ![c] = NoCall]
    /\ woken' = IF results[c] = NoCall THEN woken ELSE woken \ {c}
    /\ UNCHANGED <<serverVars, via, asked, conn, fnuid, objConn, objOn, objFailed>>

(* cancelRemotedFunction: the message goes out on the connection there is  *)
(* now, even if the call went out on an earlier one or has not gone out.   *)
SendCancel(c) ==
    toServer' = IF conn # 0 /\ link[conn] = "open"
                THEN [toServer EXCEPT ![conn] = Append(@, [type |-> "cancel", call |-> c])]
                ELSE toServer

Timeout(c) ==
    /\ c \in Timed /\ phase[c] = "waiting" /\ c \notin woken
    /\ phase' = [phase EXCEPT ![c] = "timedout"]
    /\ SendCancel(c)
    /\ UNCHANGED <<link, toClient, srv, handler, fns, markers, spoiled, poolVars, cleanVars,
                   objectVars, home, role, memo, cleaning, answers,
                   via, woken, results, outcome, asked, conn, fnuid, objConn, objOn, objFailed>>

(* cancelTaskById, once per call.  A call leaves tasks in getResult alone: *)
(* one that timed out or was not sent is still there.                      *)
CancelTask(c) ==
    /\ phase[c] \in {"chosen", "unsent", "waiting", "timedout"} /\ c \notin asked
    /\ Cardinality(asked) < MaxCancels
    /\ asked' = asked \cup {c}
    /\ SendCancel(c)
    /\ UNCHANGED <<link, toClient, srv, handler, fns, markers, spoiled, poolVars, cleanVars,
                   objectVars, home, role, memo, cleaning, answers,
                   phase, via, woken, results, outcome, conn, fnuid, objConn, objOn, objFailed>>

-----------------------------------------------------------------------------
(* Connections *)

(* Either side dies, or the heartbeat thread or a failed send closes.      *)
Break(k) ==
    /\ link[k] = "open"
    /\ link' = [link EXCEPT ![k] = "broken"]
    /\ UNCHANGED <<toServer, toClient, srv, handler, fns, markers, spoiled, poolVars, cleanVars,
                   objectVars, home, role, memo, cleaning, answers, clientVars>>

(* closeclientconn: the callers are woken, and find no result.             *)
CloseQuietly(k) ==
    /\ conn = k /\ link[k] = "broken"
    /\ conn' = 0
    /\ toClient' = [toClient EXCEPT ![k] = <<>>]
    /\ objFailed' = (objFailed \/ k \in objOn)
    /\ objConn' = IF k \in objOn THEN 0 ELSE objConn
    /\ UNCHANGED <<link, toServer, srv, handler, fns, markers, spoiled, poolVars, cleanVars,
                   objectVars, home, role, memo, cleaning, answers, woken,
                   phase, via, results, outcome, asked, fnuid, objOn>>
CloseClientConn(k) ==
    /\ conn = k /\ link[k] = "broken"
    /\ conn' = 0
    /\ toClient' = [toClient EXCEPT ![k] = <<>>]
    /\ woken' = woken \cup fnuid[k]
    /\ objFailed' = (objFailed \/ k \in objOn)
    /\ objConn' = IF k \in objOn THEN 0 ELSE objConn
    /\ UNCHANGED <<link, toServer, srv, handler, fns, markers, spoiled, poolVars, cleanVars,
                   objectVars, home, role, memo, cleaning, answers,
                   phase, via, results, outcome, asked, fnuid, objOn>>

ClientNext ==
    \/ \E c \in Calls : Begin(c) \/ Send(c) \/ Return(c) \/ Timeout(c) \/ CancelTask(c)
    \/ \E k \in Conns : ReceiveResult(k) \/ Break(k) \/ CloseClientConn(k)

Next == ClientNext \/ (ServerNext /\ UNCHANGED clientVars)

(* No thread stops for good while one can go on, and the functions end;    *)
(* connections need not break nor callers cancel.                          *)
ClientStep ==
    \/ \E c \in Calls : Send(c) \/ Return(c)
    \/ \E k \in Conns : ReceiveResult(k) \/ CloseClientConn(k)
ServerStep == ServerNext /\ UNCHANGED clientVars
Fairness == WF_vars(ClientStep) /\ WF_vars(ServerStep)

Spec == Init /\ [][Next]_vars
FairSpec == Spec /\ Fairness

-----------------------------------------------------------------------------
(* Properties *)

(* However the completion of a call, its cancellations over several        *)
(* connections and the closing of its connection interleave, a second      *)
(* answer takes a uid that left alreadyCleaned while its item was queued,  *)
(* and each further one another: addForCleanup lets nothing else through.  *)
AnswersBounded == \A c \in Calls : answers[c] <= 1 + overdue[c]

(* A call is answered at most once: remoter.py on alreadyCleaned, "to      *)
(* avoid cleaning up the same function multiple times".                    *)
AnsweredOnce == \A c \in Calls : answers[c] <= 1

(* The body of a single-instance function runs once, and no two callers    *)
(* get different results: remote-spec-schema.md, "the function body runs   *)
(* exactly once".                                                          *)
RunsOnce ==
    /\ \A c, d \in executed \cap Shared : c = d
    /\ \A c, d \in Shared :
          {outcome[c], outcome[d]} \cap {NoCall, Stopped} = {} => outcome[c] = outcome[d]

(* A caller that waits will be woken at the latest when its connection     *)
(* closes, unless it went out on the connection of its object.             *)
Reused(c) == c \in Methods /\ via[c] # 0 /\ c \notin fnuid[via[c]]
WaitersWatched ==
    \A c \in Calls :
        phase[c] = "waiting" /\ c \notin woken /\ ~Reused(c) => via[c] = conn

(* Once a connection has closed, the calls it brought are stopped and its  *)
(* object is let go, unless closeconn raised at an entry None.             *)
ClosedReleased ==
    \A k \in Conns \ spoiled : srv[k] = "closed" =>
        /\ \A c \in running : home[c] = k => IsQueued(c)
        /\ inCache /\ k \in owners => IsQueued(Object)

(* A caller gets its answer or learns that there will be none, with or     *)
(* without timeouts, unless callers of a single-instance function wait for *)
(* a first result that does not come and hold their workers.               *)
FollowersWait == memo = NoCall /\ \E c \in workers : role[c] = "follower"
CallsReturn ==
    \A c \in Calls :
        (<>[]FollowersWait) \/ (phase[c] = "waiting" /\ ~Reused(c) ~> phase[c] # "waiting")
=============================================================================
