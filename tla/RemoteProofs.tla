------------------------------ MODULE RemoteProofs ------------------------------
(***************************************************************************)
(* Proofs about RemoteCalls, for all constants: a waiting caller is        *)
(* watched, a single-instance function runs once and has one result, a     *)
(* connection that closed keeps nothing, and a call is answered again only *)
(* if its uid was forgotten while it was queued.                           *)
(***************************************************************************)
EXTENDS RemoteTypeProofs, FiniteSetTheorems

-----------------------------------------------------------------------------
(* What the callers leave alone                                            *)

\* The callers do not touch what the cleanup thread works from.
LEMMA ClientLeaves ==
    ASSUME ClientNext
    PROVE  UNCHANGED <<poolVars, cleanVars, cleaning, answers, role, memo, home, handler, fns, markers,
                       objectVars, spoiled>>
BY DEF ClientNext, Begin, Send, Return, Timeout, CancelTask, ReceiveResult, Break,
       CloseClientConn, serverVars, connVars

-----------------------------------------------------------------------------
(* Waiting callers                                                         *)

Waits(c) == phase[c] \in {"chosen", "waiting"} /\ c \notin woken
WatchInv ==
    /\ \A k \in Conns : \A c \in fnuid[k] : via[c] = k /\ phase[c] # "idle"
    /\ \A c \in Calls :
          /\ phase[c] # "idle" /\ c \notin Methods => c \in fnuid[via[c]]
          /\ Waits(c) /\ c \in fnuid[via[c]] => via[c] = conn

LEMMA WatchClient ==
    ASSUME TypeInv, WatchInv, ClientNext
    PROVE  WatchInv'
<1> USE DEF TypeInv, TypeOK, ChosenOK
<1>1. ASSUME NEW c \in Calls, Begin(c) PROVE WatchInv'
    <2>1. PICK k \in Conns :
              /\ via' = [via EXCEPT ![c] = k]
              /\ IF c \in Methods /\ objConn # 0
                 THEN k = objConn /\ UNCHANGED <<link, srv, conn, fnuid, objOn>>
                 ELSE GetConn(c, k)
        BY <1>1 DEF Begin
    <2>2. phase[c] = "idle" /\ phase' = [phase EXCEPT ![c] = "chosen"] /\ UNCHANGED woken
        BY <1>1 DEF Begin
    <2>3. \A j \in Conns : c \notin fnuid[j]
        BY <2>2 DEF WatchInv
    <2>4. \A d \in Calls \ {c} : via'[d] = via[d] /\ phase'[d] = phase[d]
        BY <2>1, <2>2
    <2>5. via'[c] = k /\ phase'[c] = "chosen"
        BY <2>1, <2>2
    <2>6. CASE c \in Methods /\ objConn # 0
        BY <2>1, <2>2, <2>3, <2>4, <2>5, <2>6 DEF WatchInv, Waits
    <2>7. CASE ~(c \in Methods /\ objConn # 0)
        <3>1. /\ fnuid' = [fnuid EXCEPT ![k] = @ \cup {c}] /\ conn' = k
              /\ conn = 0 \/ conn = k
            BY <2>1, <2>7 DEF GetConn, Connect
        <3>2. \A d \in Calls \ {c}, j \in Conns : d \in fnuid'[j] <=> d \in fnuid[j]
            BY <3>1
        <3>3. c \in fnuid'[k] /\ \A j \in Conns \ {k} : c \notin fnuid'[j]
            BY <2>3, <3>1
        <3>4. ASSUME NEW d \in Calls \ {c}, Waits(d)', d \in fnuid'[via'[d]]
              PROVE  via'[d] = conn'
            <4>1. Waits(d) /\ via[d] \in Conns
                BY <2>2, <2>4, <3>4 DEF Waits
            <4>2. via[d] = conn
                BY <2>4, <3>2, <3>4, <4>1 DEF WatchInv
            <4> QED BY <2>4, <3>1, <4>1, <4>2 DEF Conns
        <3>5. ASSUME NEW d \in Calls \ {c}, phase'[d] # "idle", d \notin Methods
              PROVE  d \in fnuid'[via'[d]]
            BY <2>4, <3>2, <3>5 DEF WatchInv
        <3>6. \A j \in Conns : \A d \in fnuid'[j] : via'[d] = j /\ phase'[d] # "idle"
            BY <2>4, <2>5, <3>1, <3>3 DEF WatchInv
        <3> QED BY <2>5, <3>1, <3>3, <3>4, <3>5, <3>6 DEF WatchInv
    <2> QED BY <2>6, <2>7
<1>2. ASSUME NEW c \in Calls, Send(c) PROVE WatchInv'
    <2>1. phase[c] = "chosen" /\ \E p \in {"waiting", "unsent"} : phase' = [phase EXCEPT ![c] = p]
        BY <1>2 DEF Send, Transmit
    <2>2. UNCHANGED <<via, fnuid, conn, woken>>
        BY <1>2 DEF Send
    <2> QED BY <2>1, <2>2 DEF WatchInv, Waits
<1>3. ASSUME NEW c \in Calls, Return(c) PROVE WatchInv'
    <2>1. phase[c] = "waiting" /\ \E p \in {"returned", "failed"} : phase' = [phase EXCEPT ![c] = p]
        BY <1>3 DEF Return
    <2>2. UNCHANGED <<via, fnuid, conn>> /\ woken \subseteq woken' \cup {c}
        BY <1>3 DEF Return
    <2> QED BY <2>1, <2>2 DEF WatchInv, Waits
<1>4. ASSUME NEW c \in Calls, Timeout(c) PROVE WatchInv'
    <2>1. phase[c] = "waiting" /\ phase' = [phase EXCEPT ![c] = "timedout"]
        BY <1>4 DEF Timeout
    <2>2. UNCHANGED <<via, fnuid, conn, woken>>
        BY <1>4 DEF Timeout
    <2> QED BY <2>1, <2>2 DEF WatchInv, Waits
<1>5. ASSUME NEW c \in Calls, CancelTask(c) PROVE WatchInv'
    BY <1>5 DEF CancelTask, WatchInv, Waits
<1>6. ASSUME NEW k \in Conns, ReceiveResult(k) PROVE WatchInv'
    <2>1. UNCHANGED <<via, fnuid, conn, phase>> /\ woken \subseteq woken'
        BY <1>6 DEF ReceiveResult
    <2> QED BY <2>1 DEF WatchInv, Waits
<1>7. ASSUME NEW k \in Conns, Break(k) PROVE WatchInv'
    BY <1>7 DEF Break, clientVars, callerVars, WatchInv, Waits
<1>8. ASSUME NEW k \in Conns, CloseClientConn(k) PROVE WatchInv'
    <2>1. UNCHANGED <<via, fnuid, phase>> /\ woken' = woken \cup fnuid[k] /\ conn = k
        BY <1>8 DEF CloseClientConn
    <2>2. \A c \in Calls : ~(Waits(c)' /\ c \in fnuid[via[c]])
        BY <2>1 DEF WatchInv, Waits
    <2> QED BY <2>1, <2>2 DEF WatchInv
<1> QED BY <1>1, <1>2, <1>3, <1>4, <1>5, <1>6, <1>7, <1>8 DEF ClientNext

LEMMA WatchStep ==
    ASSUME TypeInv, WatchInv, [Next]_vars
    PROVE  WatchInv'
<1>1. ASSUME UNCHANGED clientVars PROVE WatchInv'
    BY <1>1 DEF clientVars, callerVars, WatchInv, Waits
<1> QED BY <1>1, WatchClient DEF Next, vars

LEMMA WatchImplies ==
    ASSUME TypeInv, WatchInv
    PROVE  WaitersWatched
<1> SUFFICES ASSUME NEW c \in Calls, phase[c] = "waiting", c \notin woken, ~Reused(c)
             PROVE  via[c] = conn
    BY DEF WaitersWatched
<1>1. via[c] \in Conns
    BY DEF TypeInv, ChosenOK
<1>2. c \in fnuid[via[c]]
    BY <1>1 DEF WatchInv, Reused, Conns
<1> QED BY <1>2 DEF WatchInv, Waits

(* Whoever waits, and did not go out on the connection of the object, is   *)
(* woken when the connection closes: getconn entered the call in "fnuid".  *)
THEOREM WaitersWatchedTheorem == Spec => []WaitersWatched
<1>1. Init => TypeInv /\ WatchInv
    <2>1. Init => WatchInv
        BY DEF Init, WatchInv, Waits
    <2> QED BY <2>1, InitType
<1>2. TypeInv /\ WatchInv /\ [Next]_vars => TypeInv' /\ WatchInv'
    BY TypeStep, WatchStep
<1>3. TypeInv /\ WatchInv => WaitersWatched
    BY WatchImplies
<1> QED BY <1>1, <1>2, <1>3, PTL DEF Spec
-----------------------------------------------------------------------------
(* One execution of a single-instance function: the messages               *)

\* Each call is on the wire once, and until it is received it has no role.
MsgInv ==
    /\ \A k \in Conns : \A n \in 1..Len(toServer[k]) :
          toServer[k][n].type = "call" =>
              /\ role[toServer[k][n].call] = "none" /\ via[toServer[k][n].call] = k
              /\ phase[toServer[k][n].call] \notin {"idle", "chosen"}
    /\ \A k \in Conns : \A m, n \in 1..Len(toServer[k]) :
          /\ toServer[k][m].type = "call" /\ toServer[k][n].type = "call"
          /\ toServer[k][m].call = toServer[k][n].call
          => m = n
    /\ \A c \in Calls : phase[c] \in {"idle", "chosen"} => role[c] = "none"

LEMMA Popped ==
    ASSUME NEW S, NEW f \in [Conns -> Seq(S)], NEW k \in Conns, f[k] # <<>>,
           NEW g, g = [f EXCEPT ![k] = Tail(@)]
    PROVE  /\ 1 \in 1..Len(f[k]) /\ f[k][1] = Head(f[k])
           /\ \A n \in 1..Len(g[k]) : 
                  n + 1 \in 1..Len(f[k]) /\ n + 1 # 1 /\ g[k][n] = f[k][n + 1]
           /\ \A j \in Conns \ {k} : g[j] = f[j]
<1>1. f[k] \in Seq(S) /\ g[k] = Tail(f[k])
    OBVIOUS
<1>2. Len(f[k]) \in Nat /\ Len(f[k]) > 0 /\ Len(g[k]) = Len(f[k]) - 1
    BY <1>1
<1>3. \A n \in 1..Len(g[k]) : g[k][n] = f[k][n + 1]
    BY <1>1, <1>2
<1> QED BY <1>1, <1>2, <1>3

LEMMA Appended ==
    ASSUME NEW S, NEW f \in [Conns -> Seq(S)], NEW k \in Conns, NEW x \in S,
           NEW g, g = [f EXCEPT ![k] = Append(@, x)]
    PROVE  /\ \A n \in 1..Len(g[k]) :
                  \/ n \in 1..Len(f[k]) /\ g[k][n] = f[k][n]
                  \/ n = Len(f[k]) + 1 /\ g[k][n] = x
           /\ \A j \in Conns \ {k} : g[j] = f[j]
<1>1. f[k] \in Seq(S) /\ g[k] = Append(f[k], x)
    OBVIOUS
<1>2. Len(f[k]) \in Nat /\ Len(g[k]) = Len(f[k]) + 1
    BY <1>1
<1> QED BY <1>1, <1>2

LEMMA StreamTypes ==
    ASSUME TypeInv
    PROVE  /\ toServer \in [Conns -> Seq(Message)] /\ toClient \in [Conns -> Seq(Reply)]
           /\ \A k \in Conns : \A n \in 1..Len(toServer[k]) : toServer[k][n] \in Message
           /\ \A k \in Conns : \A n \in 1..Len(toClient[k]) : toClient[k][n] \in Reply
<1>1. toServer \in [Conns -> Seq(Message)] /\ toClient \in [Conns -> Seq(Reply)]
    BY DEF TypeInv, TypeOK, ServerTypeOK, Message, Reply
<1>2. \A k \in Conns : toServer[k] \in Seq(Message) /\ toClient[k] \in Seq(Reply)
    BY <1>1
<1> QED BY <1>1, <1>2

\* A cancellation says nothing of calls.
LEMMA MsgCancelSent ==
    ASSUME TypeInv, MsgInv, NEW c \in Calls, SendCancel(c), UNCHANGED <<role, via>>,
           NEW p, phase' = p, \A d \in Calls : p[d] = phase[d] \/ (phase[d] = "waiting" /\ p[d] = "timedout")
    PROVE  MsgInv'
<1> DEFINE x == [type |-> "cancel", call |-> c]
<1>1. x \in Message
    BY DEF Message
<1>2. conn \in Conns \cup {0}
    BY DEF TypeInv, TypeOK
<1>3. CASE toServer' = toServer
    <2>1. \A k \in Conns : \A n \in 1..Len(toServer[k]) : toServer[k][n].call \in Calls
        BY StreamTypes DEF Message
    <2> QED BY <1>3, <2>1 DEF MsgInv
<1>4. CASE conn \in Conns /\ toServer' = [toServer EXCEPT ![conn] = Append(@, x)]
    <2>1. /\ \A n \in 1..Len(toServer'[conn]) :
                 toServer'[conn][n].type = "call" =>
                     n \in 1..Len(toServer[conn]) /\ toServer'[conn][n] = toServer[conn][n]
          /\ \A j \in Conns \ {conn} : toServer'[j] = toServer[j]
        BY <1>1, <1>4, Appended, StreamTypes
    <2>2. ASSUME NEW k \in Conns, NEW n \in 1..Len(toServer'[k]), toServer'[k][n].type = "call"
          PROVE  n \in 1..Len(toServer[k]) /\ toServer'[k][n] = toServer[k][n]
        BY <2>1, <2>2
    <2>3. ASSUME NEW k \in Conns, NEW n \in 1..Len(toServer'[k]), toServer'[k][n].type = "call"
          PROVE  /\ role'[toServer'[k][n].call] = "none" /\ via'[toServer'[k][n].call] = k
                 /\ phase'[toServer'[k][n].call] \notin {"idle", "chosen"}
        <3>1. n \in 1..Len(toServer[k]) /\ toServer'[k][n] = toServer[k][n] /\ toServer[k][n] \in Message
            BY <2>2, <2>3, StreamTypes
        <3> QED BY <2>3, <3>1 DEF MsgInv, Message
    <2>4. \A k \in Conns : \A m, n \in 1..Len(toServer'[k]) :
              /\ toServer'[k][m].type = "call" /\ toServer'[k][n].type = "call"
              /\ toServer'[k][m].call = toServer'[k][n].call
              => m = n
        BY <2>2 DEF MsgInv
    <2> QED BY <2>3, <2>4 DEF MsgInv
<1> QED BY <1>2, <1>3, <1>4 DEF SendCancel

LEMMA MsgClient ==
    ASSUME TypeInv, MsgInv, ClientNext
    PROVE  MsgInv'
<1> USE DEF TypeInv, TypeOK
<1>r. UNCHANGED role
    BY ClientLeaves
<1>1. ASSUME NEW c \in Calls, Begin(c) PROVE MsgInv'
    <2>1. \E k \in Conns : via' = [via EXCEPT ![c] = k]
        BY <1>1 DEF Begin
    <2>2. phase[c] = "idle" /\ phase' = [phase EXCEPT ![c] = "chosen"] /\ UNCHANGED toServer
        BY <1>1 DEF Begin
    <2>3. \A k \in Conns : \A n \in 1..Len(toServer[k]) :
              toServer[k][n].type = "call" => toServer[k][n].call \in Calls \ {c}
        BY <2>2, StreamTypes DEF MsgInv, Message
    <2>4. \A d \in Calls \ {c} : via'[d] = via[d] /\ phase'[d] = phase[d]
        BY <2>1, <2>2
    <2> QED BY <1>r, <2>2, <2>3, <2>4 DEF MsgInv
<1>2. ASSUME NEW c \in Calls, Send(c) PROVE MsgInv'
    <2> DEFINE x == [type |-> "call", call |-> c]
    <2>1. phase[c] = "chosen" /\ \E p \in {"waiting", "unsent"} : phase' = [phase EXCEPT ![c] = p]
        BY <1>2 DEF Send, Transmit
    <2>2. via[c] \in Conns /\ UNCHANGED via /\ x \in Message
        BY <1>2, <2>1 DEF Send, ChosenOK, Message
    <2>3. \A k \in Conns : \A n \in 1..Len(toServer[k]) :
              toServer[k][n].type = "call" => toServer[k][n].call \in Calls \ {c}
        <3>1. phase[c] = "chosen"
            BY <2>1
        <3> HIDE DEF TypeInv, TypeOK
        <3> QED BY <3>1, StreamTypes DEF MsgInv, Message
    <2>4. /\ \A d \in Calls \ {c} : phase'[d] = phase[d]
          /\ phase'[c] \notin {"idle", "chosen"} /\ role[c] = "none"
        BY <2>1 DEF MsgInv
    <2>5. CASE UNCHANGED toServer
        BY <1>r, <2>2, <2>3, <2>4, <2>5 DEF MsgInv
    <2>6. CASE toServer' = [toServer EXCEPT ![via[c]] = Append(@, x)]
        <3>1. /\ \A n \in 1..Len(toServer'[via[c]]) :
                     \/ n \in 1..Len(toServer[via[c]]) /\ toServer'[via[c]][n] = toServer[via[c]][n]
                     \/ n = Len(toServer[via[c]]) + 1 /\ toServer'[via[c]][n] = x
              /\ \A j \in Conns \ {via[c]} : toServer'[j] = toServer[j]
            BY <2>2, <2>6, Appended, StreamTypes
        <3>2. \A k \in Conns : \A n \in 1..Len(toServer'[k]) : toServer'[k][n].type = "call" =>
                  /\ role'[toServer'[k][n].call] = "none" /\ via'[toServer'[k][n].call] = k
                  /\ phase'[toServer'[k][n].call] \notin {"idle", "chosen"}
            <4> SUFFICES ASSUME NEW k \in Conns, NEW n \in 1..Len(toServer'[k]),
                                toServer'[k][n].type = "call"
                         PROVE  /\ role'[toServer'[k][n].call] = "none" /\ via'[toServer'[k][n].call] = k
                                /\ phase'[toServer'[k][n].call] \notin {"idle", "chosen"}
                OBVIOUS
            <4>1. CASE n \in 1..Len(toServer[k]) /\ toServer'[k][n] = toServer[k][n]
                BY <1>r, <2>2, <2>3, <2>4, <4>1 DEF MsgInv
            <4>2. CASE k = via[c] /\ toServer'[k][n] = x
                BY <1>r, <2>2, <2>4, <4>2
            <4> QED BY <3>1, <4>1, <4>2
        <3>3. \A k \in Conns : \A m, n \in 1..Len(toServer'[k]) :
                  /\ toServer'[k][m].type = "call" /\ toServer'[k][n].type = "call"
                  /\ toServer'[k][m].call = toServer'[k][n].call
                  => m = n
            <4> SUFFICES ASSUME NEW k \in Conns, NEW m \in 1..Len(toServer'[k]),
                                NEW n \in 1..Len(toServer'[k]),
                                toServer'[k][m].type = "call", toServer'[k][n].type = "call",
                                toServer'[k][m].call = toServer'[k][n].call
                         PROVE  m = n
                OBVIOUS
            <4>1. CASE k # via[c]
                BY <3>1, <4>1 DEF MsgInv
            <4>2. CASE k = via[c]
                BY <2>3, <3>1, <4>2 DEF MsgInv
            <4> QED BY <4>1, <4>2
        <3> QED BY <1>r, <2>4, <3>2, <3>3 DEF MsgInv
    <2> QED BY <1>2, <2>5, <2>6 DEF Send, Transmit
<1>3. ASSUME NEW c \in Calls, Return(c) PROVE MsgInv'
    <2>1. phase[c] = "waiting" /\ \E p \in {"returned", "failed"} : phase' = [phase EXCEPT ![c] = p]
        BY <1>3 DEF Return
    <2>2. UNCHANGED <<via, toServer>>
        BY <1>3 DEF Return, serverVars, connVars
    <2> QED BY <1>r, <2>1, <2>2, StreamTypes DEF MsgInv, Message
<1>4. ASSUME NEW c \in Calls, Timeout(c) PROVE MsgInv'
    <2>1. phase[c] = "waiting" /\ phase' = [phase EXCEPT ![c] = "timedout"]
        BY <1>4 DEF Timeout
    <2>2. UNCHANGED via /\ SendCancel(c)
        BY <1>4 DEF Timeout
    <2>3. \A d \in Calls : phase'[d] = phase[d] \/ (phase[d] = "waiting" /\ phase'[d] = "timedout")
        BY <2>1
    <2> QED BY <1>r, <2>2, <2>3, MsgCancelSent
<1>5. ASSUME NEW c \in Calls, CancelTask(c) PROVE MsgInv'
    <2>1. UNCHANGED <<via, phase>> /\ SendCancel(c)
        BY <1>5 DEF CancelTask
    <2> QED BY <1>r, <2>1, MsgCancelSent
<1>6. ASSUME NEW k \in Conns, ReceiveResult(k) \/ Break(k) \/ CloseClientConn(k) PROVE MsgInv'
    <2>1. UNCHANGED <<via, phase, toServer>>
        BY <1>6 DEF ReceiveResult, Break, CloseClientConn, clientVars, callerVars
    <2> QED BY <1>r, <2>1 DEF MsgInv
<1> QED BY <1>1, <1>2, <1>3, <1>4, <1>5, <1>6 DEF ClientNext

\* What is left of a stream when its first message is taken.
LEMMA MsgRest ==
    ASSUME TypeInv, MsgInv, NEW k \in Conns, toServer[k] # <<>>,
           toServer' = [toServer EXCEPT ![k] = Tail(@)], UNCHANGED <<via, phase>>,
           \A c \in Calls : role'[c] = role[c] \/
               (c = Head(toServer[k]).call /\ Head(toServer[k]).type = "call")
    PROVE  MsgInv'
<1> DEFINE h == Head(toServer[k])
<1>1. /\ 1 \in 1..Len(toServer[k]) /\ toServer[k][1] = h
      /\ \A n \in 1..Len(toServer'[k]) :
             n + 1 \in 1..Len(toServer[k]) /\ n + 1 # 1 /\ toServer'[k][n] = toServer[k][n + 1]
      /\ \A j \in Conns \ {k} : toServer'[j] = toServer[j]
    BY Popped, StreamTypes
<1>2. ASSUME NEW j \in Conns, NEW n \in 1..Len(toServer'[j]), toServer'[j][n].type = "call"
      PROVE  /\ role'[toServer'[j][n].call] = "none" /\ via'[toServer'[j][n].call] = j
             /\ phase'[toServer'[j][n].call] \notin {"idle", "chosen"}
    <2>1. CASE j = k
        <3> DEFINE m == n + 1
        <3>0. m \in 1..Len(toServer[k]) /\ m # 1 /\ toServer'[j][n] = toServer[k][m]
            BY <1>1, <2>1
        <3> HIDE DEF m
        <3>1. toServer[k][m] \in Message
            BY <3>0, StreamTypes
        <3>2. ~(toServer[k][m].call = h.call /\ h.type = "call")
            <4>1. toServer[k][m].type = "call"
                BY <1>2, <3>0
            <4>2. 1 \in 1..Len(toServer[k]) /\ toServer[k][1] = h
                BY <1>1
            <4> HIDE DEF h
            <4>3. toServer[k][m].call = h.call /\ h.type = "call" => m = 1
                BY <3>0, <4>1, <4>2 DEF MsgInv
            <4> QED BY <3>0, <4>3
        <3> QED BY <1>2, <2>1, <3>0, <3>1, <3>2 DEF MsgInv, Message
    <2>2. CASE j # k
        <3>1. /\ n \in 1..Len(toServer[j]) /\ toServer'[j][n] = toServer[j][n]
              /\ toServer[j][n] \in Message
            BY <1>1, <2>2, StreamTypes
        <3>2. ~(toServer[j][n].call = h.call /\ h.type = "call")
            BY <1>1, <1>2, <2>2, <3>1 DEF MsgInv
        <3> QED BY <1>2, <3>1, <3>2 DEF MsgInv, Message
    <2> QED BY <2>1, <2>2
<1>3. \A j \in Conns : \A m, n \in 1..Len(toServer'[j]) :
          /\ toServer'[j][m].type = "call" /\ toServer'[j][n].type = "call"
          /\ toServer'[j][m].call = toServer'[j][n].call
          => m = n
    BY <1>1 DEF MsgInv
<1>4. \A c \in Calls : phase'[c] \in {"idle", "chosen"} => role'[c] = "none"
    BY <1>1 DEF MsgInv
<1> QED BY <1>2, <1>3, <1>4 DEF MsgInv

LEMMA MsgServer ==
    ASSUME TypeInv, MsgInv, ServerNext, UNCHANGED clientVars
    PROVE  MsgInv'
<1>1. UNCHANGED <<via, phase>>
    BY DEF clientVars, callerVars
<1>2. ASSUME NEW k \in Conns, ReceiveCall(k) PROVE MsgInv'
    <2>1. /\ toServer[k] # <<>> /\ toServer' = [toServer EXCEPT ![k] = Tail(@)]
          /\ Head(toServer[k]).type = "call" /\ \E r : role' = [role EXCEPT ![Head(toServer[k]).call] = r]
        BY <1>2 DEF ReceiveCall, Incoming
    <2>2. \A c \in Calls : role'[c] = role[c] \/ c = Head(toServer[k]).call
        BY <2>1 DEF TypeInv, TypeOK, ServerTypeOK
    <2> QED BY <1>1, <2>1, <2>2, MsgRest
<1>3. ASSUME NEW k \in Conns, ReceiveCancel(k) PROVE MsgInv'
    <2>1. toServer[k] # <<>> /\ toServer' = [toServer EXCEPT ![k] = Tail(@)] /\ UNCHANGED role
        BY <1>3 DEF ReceiveCancel, Incoming
    <2> QED BY <1>1, <2>1, MsgRest
<1>4. ASSUME NEW k \in Conns, CloseConn(k) PROVE MsgInv'
    <2>1. toServer' = [toServer EXCEPT ![k] = <<>>] /\ UNCHANGED role
        BY <1>4 DEF CloseConn
    <2>2. \A j \in Conns : toServer'[j] = IF j = k THEN <<>> ELSE toServer[j]
        BY <2>1, StreamTypes
    <2> QED BY <1>1, <2>1, <2>2 DEF MsgInv
<1>5. ASSUME UNCHANGED <<role, toServer>> PROVE MsgInv'
    BY <1>1, <1>5 DEF MsgInv
<1>6. ASSUME NEW k \in Conns, Submit(k) \/ Register(k) PROVE MsgInv'
    BY <1>5, <1>6 DEF Submit, Register
<1>7. ASSUME StartTask \/ TakeItem \/ Answer \/ (\E x \in Calls \cup {Object} : ForgetCleaned(x)) \/
                \E c \in Calls : FinishTask(c)
      PROVE  MsgInv'
    BY <1>5, <1>7 DEF StartTask, TakeItem, Answer, ForgetCleaned, FinishTask, connVars
<1> QED BY <1>2, <1>3, <1>4, <1>6, <1>7 DEF ServerNext
-----------------------------------------------------------------------------
(* One execution of a single-instance function: roles and results          *)

\* There is one first caller, and only it runs the body.
RoleInv ==
    /\ \A c, d \in Calls : role[c] = "first" /\ role[d] = "first" => c = d
    /\ \A c \in Calls : role[c] # "none" => (role[c] = "own" <=> c \notin Shared)
    /\ \A k \in Conns : handler[k].call \in Calls => role[handler[k].call] # "none"
    /\ \A n \in 1..Len(pool) : role[pool[n]] # "none"
    /\ \A c \in workers : role[c] # "none"
    /\ \A c \in executed \cap Shared : role[c] = "first"

\* Every value on its way to a caller of the function is the first caller's.
FirstValue(c, v) == c \in Shared /\ v \in Calls => role[v] = "first"
FirstItem(i) == FirstValue(i.id, i.value) /\ (i.first => role[i.value] = "first")
ValueInv ==
    /\ \A i \in cleanup : FirstItem(i)
    /\ cleaning # NoItem => FirstItem(cleaning)
    /\ memo # NoCall => role[memo] = "first"
    /\ \A k \in Conns : \A n \in 1..Len(toClient[k]) :
          FirstValue(toClient[k][n].call, toClient[k][n].value)
    /\ \A c \in Calls : FirstValue(c, results[c]) /\ FirstValue(c, outcome[c])

FirstInv == MsgInv /\ RoleInv /\ ValueInv

LEMMA Received ==
    ASSUME TypeInv, FirstInv, NEW k \in Conns, ReceiveCall(k)
    PROVE  LET c == Head(toServer[k]).call
           IN  /\ c \in Calls /\ role[c] = "none" /\ role'[c] = RoleOf(c)
               /\ \A d \in Calls \ {c} : role'[d] = role[d]
               /\ handler' = [handler EXCEPT ![k] = [stage |-> "entered", call |-> c]]
<1> DEFINE c == Head(toServer[k]).call
<1>1. toServer[k] # <<>> /\ Head(toServer[k]).type = "call"
    BY DEF ReceiveCall, Incoming
<1>2. Head(toServer[k]) \in Message
    BY <1>1, StreamTypes, StreamTail
<1>3. 1 \in 1..Len(toServer[k]) /\ toServer[k][1] = Head(toServer[k])
    BY <1>1, StreamTypes, Popped
<1>4. c \in Calls /\ role[c] = "none"
    BY <1>1, <1>2, <1>3 DEF FirstInv, MsgInv, Message
<1>5. role' = [role EXCEPT ![c] = RoleOf(c)]
    BY DEF ReceiveCall
<1>6. role \in [Calls -> {"none", "own", "first", "follower"}]
    BY DEF TypeInv, TypeOK, ServerTypeOK
<1>7. handler' = [handler EXCEPT ![k] = [stage |-> "entered", call |-> c]]
    BY DEF ReceiveCall
<1> QED BY <1>4, <1>5, <1>6, <1>7

LEMMA RoleStable ==
    ASSUME TypeInv, FirstInv, ServerNext
    PROVE  \A c \in Calls : role[c] # "none" => role'[c] = role[c]
<1>1. ASSUME NEW k \in Conns, ReceiveCall(k)
      PROVE  \A c \in Calls : role[c] # "none" => role'[c] = role[c]
    BY <1>1, Received
<1>2. ASSUME NEW k \in Conns, Submit(k) \/ Register(k) \/ ReceiveCancel(k) \/ CloseConn(k)
      PROVE  UNCHANGED role
    BY <1>2 DEF Submit, Register, ReceiveCancel, CloseConn
<1>3. ASSUME StartTask \/ TakeItem \/ Answer \/ (\E x \in Calls \cup {Object} : ForgetCleaned(x)) \/
                \E c \in Calls : FinishTask(c)
      PROVE  UNCHANGED role
    BY <1>3 DEF StartTask, TakeItem, Answer, ForgetCleaned, FinishTask
<1> QED BY <1>1, <1>2, <1>3 DEF ServerNext

LEMMA RoleServer ==
    ASSUME TypeInv, FirstInv, ServerNext
    PROVE  RoleInv'
<1> USE DEF FirstInv
<1>01. /\ \A k \in Conns : handler[k].call \in Calls \cup {NoCall}
      /\ handler \in [Conns -> [stage : {"idle", "entered", "submitted"}, call : Calls \cup {NoCall}]]
      /\ pool \in Seq(Calls) /\ executed \subseteq Calls /\ workers \subseteq Calls
    BY DEF TypeInv, TypeOK, ServerTypeOK
<1>p. \A n \in 1..Len(pool) : pool[n] \in Calls
    BY <1>01
<1>1. ASSUME NEW k \in Conns, ReceiveCall(k) PROVE RoleInv'
    <2> DEFINE c == Head(toServer[k]).call
    <2>1. /\ c \in Calls /\ role[c] = "none" /\ role'[c] = RoleOf(c)
          /\ \A d \in Calls \ {c} : role'[d] = role[d]
          /\ handler' = [handler EXCEPT ![k] = [stage |-> "entered", call |-> c]]
        BY <1>1, Received
    <2>2. UNCHANGED <<pool, workers, executed>>
        BY <1>1 DEF ReceiveCall, poolVars
    <2> HIDE DEF c
    <2>3. RoleOf(c) # "none" /\ (RoleOf(c) = "own" <=> c \notin Shared)
        BY DEF RoleOf
    <2>4. RoleOf(c) = "first" => \A d \in Calls : role[d] # "first"
        BY DEF RoleOf
    <2>5. \A d, e \in Calls : role'[d] = "first" /\ role'[e] = "first" => d = e
        BY <2>1, <2>4 DEF RoleInv
    <2>6. \A d \in Calls : role[d] # "none" => role'[d] = role[d]
        BY <2>1
    <2>7. \A j \in Conns : handler'[j].call \in Calls => role'[handler'[j].call] # "none"
        BY <1>01, <2>1, <2>3, <2>6 DEF RoleInv
    <2>8. \A d \in Calls : role'[d] # "none" => (role'[d] = "own" <=> d \notin Shared)
        BY <2>1, <2>3 DEF RoleInv
    <2> QED BY <1>01, <1>p, <2>2, <2>5, <2>6, <2>7, <2>8 DEF RoleInv
<1>2. ASSUME NEW k \in Conns, Submit(k) PROVE RoleInv'
    <2>1. /\ pool' = Append(pool, handler[k].call) /\ handler' = [handler EXCEPT ![k].stage = "submitted"]
          /\ handler[k].stage = "entered" /\ UNCHANGED <<role, workers, executed>>
        BY <1>2 DEF Submit
    <2>2. handler[k].call \in Calls
        BY <2>1 DEF TypeInv, TypeOK, ServerTypeOK
    <2>3. \A n \in 1..Len(pool') : (n \in 1..Len(pool) /\ pool'[n] = pool[n]) \/ pool'[n] = handler[k].call
        BY <1>01, <2>1, <2>2
    <2>4. \A j \in Conns : handler'[j].call = handler[j].call
        BY <1>01, <2>1
    <2> QED BY <2>1, <2>2, <2>3, <2>4 DEF RoleInv
<1>3. ASSUME NEW k \in Conns, Register(k) PROVE RoleInv'
    <2>1. handler' = [handler EXCEPT ![k] = Idle] /\ UNCHANGED <<role, pool, workers, executed>>
        BY <1>3 DEF Register, poolVars
    <2>2. \A j \in Conns : handler'[j].call = handler[j].call \/ handler'[j].call \notin Calls
        BY <1>01, <2>1, RemoteAssumption DEF Idle
    <2> QED BY <2>1, <2>2 DEF RoleInv
<1>4. ASSUME NEW k \in Conns, ReceiveCancel(k) \/ CloseConn(k) PROVE RoleInv'
    BY <1>4 DEF ReceiveCancel, CloseConn, RoleInv
<1>5. ASSUME StartTask PROVE RoleInv'
    <2> DEFINE h == Head(pool)
    <2>1. /\ pool # <<>> /\ pool' = Tail(pool)
          /\ workers' \subseteq workers \cup {h}
          /\ executed' \subseteq executed \cup {h}
          /\ role[h] = "follower" => executed' = executed
          /\ UNCHANGED <<role, handler>>
        BY <1>5 DEF StartTask, connVars
    <2>2. /\ h \in Calls /\ Len(pool) \in Nat /\ 1 \in 1..Len(pool) /\ h = pool[1]
          /\ \A n \in 1..Len(pool') : n + 1 \in 1..Len(pool) /\ pool'[n] = pool[n + 1]
        BY <1>01, <2>1
    <2>3. role[h] # "none"
        BY <2>2 DEF RoleInv
    <2> HIDE DEF h
    <2>4. role[h] \in {"none", "own", "first", "follower"}
        BY <2>2 DEF TypeInv, TypeOK, ServerTypeOK
    <2>5. \A c \in executed' \cap Shared : role[c] = "first"
        BY <2>1, <2>2, <2>3, <2>4 DEF RoleInv
    <2>6. \A n \in 1..Len(pool') : role[pool'[n]] # "none"
        BY <2>2 DEF RoleInv
    <2>7. \A c \in workers' : role[c] # "none"
        BY <2>1, <2>3 DEF RoleInv
    <2> QED BY <2>1, <2>5, <2>6, <2>7 DEF RoleInv
<1>6. ASSUME NEW c \in Calls, FinishTask(c) PROVE RoleInv'
    BY <1>6 DEF FinishTask, connVars, RoleInv
<1>7. ASSUME TakeItem \/ Answer \/ \E x \in Calls \cup {Object} : ForgetCleaned(x) PROVE RoleInv'
    BY <1>7 DEF TakeItem, Answer, ForgetCleaned, connVars, poolVars, RoleInv
<1> QED BY <1>1, <1>2, <1>3, <1>4, <1>5, <1>6, <1>7 DEF ServerNext

LEMMA ValueTypes ==
    ASSUME TypeInv
    PROVE  /\ \A i \in cleanup : i.first => i.value \in Calls
           /\ cleaning # NoItem => cleaning.id \in Calls /\ (cleaning.first => cleaning.value \in Calls)
           /\ memo \in Calls \cup {NoCall}
           /\ \A c \in Calls : role[c] # "none" => role[c] \in {"own", "first", "follower"}
BY DEF TypeInv, TypeOK, ServerTypeOK, ItemsOK

\* Values whose producer has a role stay what they are.
LEMMA ValueStable ==
    ASSUME TypeInv, FirstInv, \A c \in Calls : role[c] # "none" => role'[c] = role[c]
    PROVE  /\ \A c, v : FirstValue(c, v) => FirstValue(c, v)'
           /\ \A i : FirstItem(i) /\ (i.first => i.value \in Calls) => FirstItem(i)'
           /\ \A c \in Calls : role[c] = "first" => role'[c] = "first"
<1>1. \A c, v : FirstValue(c, v) => FirstValue(c, v)'
    BY DEF FirstValue
<1>2. \A i : FirstItem(i) /\ (i.first => i.value \in Calls) => FirstItem(i)'
    BY <1>1 DEF FirstItem
<1> QED BY <1>1, <1>2

\* The results of the callers are not the server's to change.
LEMMA ValueKept ==
    ASSUME TypeInv, FirstInv, \A c \in Calls : role[c] # "none" => role'[c] = role[c],
           UNCHANGED <<results, outcome>>,
           \A i \in cleanup' : i \in cleanup \/ FirstItem(i)',
           cleaning' # NoItem => cleaning' = cleaning \/ cleaning' \in cleanup,
           memo' # NoCall => memo' = memo \/ (cleaning # NoItem /\ cleaning.first /\ memo' = cleaning.value),
           \A k \in Conns : \A n \in 1..Len(toClient'[k]) :
              FirstValue(toClient'[k][n].call, toClient'[k][n].value)
    PROVE  ValueInv'
<1>1. \A i \in cleanup : FirstItem(i)'
    BY ValueStable, ValueTypes DEF FirstInv, ValueInv
<1>2. cleaning' # NoItem => FirstItem(cleaning)'
    <2>1. ASSUME NEW i, i = cleaning, cleaning # NoItem PROVE FirstItem(i)'
        BY <2>1, ValueStable, ValueTypes DEF FirstInv, ValueInv
    <2>2. cleaning' # NoItem => \E i : i = cleaning' /\ FirstItem(i)'
        BY <1>1, <2>1
    <2> QED BY <2>2 DEF FirstItem, FirstValue
<1>3. memo' # NoCall => role'[memo'] = "first"
    BY ValueStable, ValueTypes DEF FirstInv, ValueInv, FirstItem
<1>4. ASSUME NEW k \in Conns, NEW n \in 1..Len(toClient'[k])
      PROVE  FirstValue(toClient[k][n].call, toClient[k][n].value)'
    <2>1. FirstValue(toClient'[k][n].call, toClient'[k][n].value)
        OBVIOUS
    <2> QED BY <2>1, ValueStable DEF FirstValue
<1>5. \A c \in Calls : FirstValue(c, results[c])' /\ FirstValue(c, outcome[c])'
    BY ValueStable DEF FirstInv, ValueInv, FirstValue
<1> QED BY <1>1, <1>2, <1>3, <1>4, <1>5 DEF ValueInv

LEMMA ValueServer ==
    ASSUME TypeInv, FirstInv, ServerNext, UNCHANGED clientVars
    PROVE  ValueInv'
<1> DEFINE Sent == \A k \in Conns : \A n \in 1..Len(toClient'[k]) :
                       FirstValue(toClient'[k][n].call, toClient'[k][n].value)
<1>r. /\ \A c \in Calls : role[c] # "none" => role'[c] = role[c]
      /\ UNCHANGED <<results, outcome>>
    BY RoleStable DEF clientVars, callerVars
<1>s. UNCHANGED toClient => Sent
    BY DEF FirstInv, ValueInv
<1> HIDE DEF Sent
<1>u. ASSUME UNCHANGED <<cleanup, cleaning, memo, toClient>> PROVE ValueInv'
    <2>1. Sent
        BY <1>s, <1>u
    <2> QED BY <1>r, <1>u, <2>1, ValueKept DEF Sent
<1>a. ASSUME NEW S, AddForCleanup(S), UNCHANGED <<cleaning, memo, toClient>>, \A i \in S : FirstItem(i)'
      PROVE  ValueInv'
    <2>1. Sent
        BY <1>s, <1>a
    <2>2. \A i \in cleanup' : i \in cleanup \/ FirstItem(i)'
        BY <1>a, QueueNewSubset DEF AddForCleanup
    <2> QED BY <1>r, <1>a, <2>1, <2>2, ValueKept DEF Sent
<1>b. \A i : i.value = Stopped /\ ~i.first => FirstItem(i)'
    BY RemoteAssumption DEF FirstItem, FirstValue
<1>c. \A c, k : StopItem(c, k).value = Stopped /\ ~StopItem(c, k).first
    BY DEF StopItem
<1>1. ASSUME NEW k \in Conns, ReceiveCall(k) \/ Submit(k) \/ Register(k) PROVE ValueInv'
    BY <1>u, <1>1 DEF ReceiveCall, Submit, Register, cleanVars
<1>2. ASSUME NEW k \in Conns, ReceiveCancel(k) PROVE ValueInv'
    <2> DEFINE c == Head(toServer[k]).call
    <2>1. CASE c \in running
        <3>1. AddForCleanup({StopItem(c, k)}) /\ UNCHANGED <<cleaning, memo, toClient>>
            BY <1>2, <2>1 DEF ReceiveCancel
        <3>2. \A i \in {StopItem(c, k)} : FirstItem(i)'
            BY <1>b, <1>c
        <3> QED BY <1>a, <3>1, <3>2
    <2>2. CASE c \notin running
        BY <1>u, <1>2, <2>2 DEF ReceiveCancel
    <2> QED BY <2>1, <2>2
<1>3. ASSUME NEW k \in Conns, CloseConn(k) PROVE ValueInv'
    <2> DEFINE T(S) == {StopItem(c, 0) : c \in S} \cup
                           (IF markers[k] = {} /\ k \in owners THEN {ObjectItem} ELSE {})
    <2>1. PICK S \in SUBSET fns[k] : AddForCleanup(T(S))
        BY <1>3 DEF CloseConn
    <2>2. UNCHANGED <<cleaning, memo, toClient>>
        BY <1>3 DEF CloseConn
    <2>3. \A i \in T(S) : FirstItem(i)'
        BY <1>b, <1>c DEF ObjectItem
    <2> HIDE DEF T
    <2> QED BY <1>a, <2>1, <2>2, <2>3
<1>4. ASSUME StartTask PROVE ValueInv'
    BY <1>u, <1>4 DEF StartTask, cleanVars, connVars
<1>5. ASSUME NEW c \in Calls, FinishTask(c) PROVE ValueInv'
    <2> DEFINE v == IF role[c] = "follower" THEN memo ELSE c
               i == [id |-> c, nth |-> overdue[c], answer |-> home[c], first |-> role[c] = "first", value |-> v]
    <2>1. /\ AddForCleanup({i}) /\ UNCHANGED <<cleaning, memo, toClient, role>>
          /\ role[c] = "follower" => memo # NoCall
          /\ c \in workers
        BY <1>5 DEF FinishTask, connVars
    <2>2. role[c] # "none" /\ (role[c] = "own" <=> c \notin Shared)
        BY <2>1 DEF FirstInv, RoleInv
    <2>3. c \in Shared => role[v] = "first"
        BY <2>1, <2>2, ValueTypes DEF FirstInv, ValueInv
    <2>4. role[c] = "first" => role[v] = "first"
        OBVIOUS
    <2>5. i.id = c /\ i.value = v /\ (i.first <=> role[c] = "first")
        OBVIOUS
    <2>6. FirstItem(i)
        BY <2>3, <2>4, <2>5 DEF FirstItem, FirstValue
    <2> HIDE DEF i
    <2>7. \A j \in {i} : FirstItem(j)'
        BY <2>1, <2>6 DEF FirstItem, FirstValue
    <2> QED BY <1>a, <2>1, <2>7
<1>6. ASSUME TakeItem PROVE ValueInv'
    <2>1. PICK i \in cleanup :
              cleanup' = cleanup \ {i} /\ cleaning' = IF i.answer = 0 THEN NoItem ELSE i
        BY <1>6 DEF TakeItem
    <2>2. UNCHANGED <<memo, toClient>>
        BY <1>6 DEF TakeItem, connVars
    <2>3. Sent
        BY <1>s, <2>2
    <2> QED BY <1>r, <2>1, <2>2, <2>3, ValueKept DEF Sent
<1>7. ASSUME Answer PROVE ValueInv'
    <2> DEFINE k == cleaning.answer
               x == [call |-> cleaning.id, value |-> cleaning.value]
    <2>1. /\ cleaning # NoItem /\ cleaning' = NoItem /\ UNCHANGED cleanup
          /\ memo' = IF cleaning.first THEN cleaning.value ELSE memo
          /\ toClient' = [toClient EXCEPT ![k] = Append(@, x)] \/ UNCHANGED toClient
        BY <1>7 DEF Answer, cleanVars
    <2>2. k \in Conns /\ cleaning.id \in Calls /\ cleaning.value \in Values
        <3>1. cleaning \in Items
            BY <2>1 DEF TypeInv, TypeOK, ServerTypeOK
        <3> QED BY <2>1, <3>1 DEF TypeInv, ItemsOK, Items
    <2>3. x \in Reply /\ FirstValue(x.call, x.value)
        BY <2>1, <2>2 DEF Reply, FirstInv, ValueInv, FirstItem
    <2> HIDE DEF x, k
    <2>4. CASE toClient' = [toClient EXCEPT ![k] = Append(@, x)]
        <3>1. /\ \A n \in 1..Len(toClient'[k]) :
                     \/ n \in 1..Len(toClient[k]) /\ toClient'[k][n] = toClient[k][n]
                     \/ n = Len(toClient[k]) + 1 /\ toClient'[k][n] = x
              /\ \A j \in Conns \ {k} : toClient'[j] = toClient[j]
            BY <2>2, <2>3, <2>4, Appended, StreamTypes
        <3> QED BY <1>r, <2>1, <2>3, <3>1, ValueKept DEF FirstInv, ValueInv
    <2>5. CASE UNCHANGED toClient
        <3>1. Sent
            BY <1>s, <2>5
        <3> QED BY <1>r, <2>1, <3>1, ValueKept DEF Sent
    <2> QED BY <2>1, <2>4, <2>5
<1>8. ASSUME NEW x \in Calls \cup {Object}, ForgetCleaned(x) PROVE ValueInv'
    BY <1>u, <1>8 DEF ForgetCleaned, connVars
<1> QED BY <1>1, <1>2, <1>3, <1>4, <1>5, <1>6, <1>7, <1>8 DEF ServerNext

LEMMA FirstClient ==
    ASSUME TypeInv, FirstInv, ClientNext
    PROVE  RoleInv' /\ ValueInv'
<1>1. UNCHANGED <<poolVars, cleanVars, cleaning, role, memo, handler>>
    BY ClientLeaves
<1>2. RoleInv'
    BY <1>1 DEF FirstInv, RoleInv, poolVars
<1> DEFINE Sent == \A k \in Conns : \A n \in 1..Len(toClient'[k]) :
                       FirstValue(toClient'[k][n].call, toClient'[k][n].value)
           Got == \A c \in Calls : FirstValue(c, results'[c]) /\ FirstValue(c, outcome'[c])
<1>3. Sent /\ Got => ValueInv'
    BY <1>1 DEF FirstInv, ValueInv, FirstItem, FirstValue, cleanVars
<1>4. /\ UNCHANGED toClient => Sent
      /\ UNCHANGED <<results, outcome>> => Got
    BY DEF FirstInv, ValueInv
<1> HIDE DEF Sent, Got
<1>5. ASSUME NEW c \in Calls, Begin(c) \/ Send(c) \/ Timeout(c) \/ CancelTask(c)
      PROVE  Sent /\ Got
    BY <1>4, <1>5 DEF Begin, Send, Timeout, CancelTask
<1>6. ASSUME NEW c \in Calls, Return(c) PROVE Sent /\ Got
    <2>1. /\ outcome' = [outcome EXCEPT ![c] = results[c]] /\ results' = [results EXCEPT ![c] = NoCall]
          /\ UNCHANGED toClient
        BY <1>6 DEF Return, serverVars, connVars
    <2>2. /\ outcome \in [Calls -> Values \cup {NoCall}] /\ results \in [Calls -> Values \cup {NoCall}]
        BY DEF TypeInv, TypeOK
    <2>3. Got
        BY <2>1, <2>2, RemoteAssumption DEF Got, FirstInv, ValueInv, FirstValue
    <2> QED BY <1>4, <2>1, <2>3
<1>7. ASSUME NEW k \in Conns, ReceiveResult(k) PROVE Sent /\ Got
    <2> DEFINE m == Head(toClient[k])
    <2>1. /\ toClient[k] # <<>> /\ results' = [results EXCEPT ![m.call] = m.value]
          /\ toClient' = [toClient EXCEPT ![k] = Tail(@)] /\ UNCHANGED outcome
        BY <1>7 DEF ReceiveResult
    <2>2. /\ 1 \in 1..Len(toClient[k]) /\ toClient[k][1] = m
          /\ \A n \in 1..Len(toClient'[k]) :
                 n + 1 \in 1..Len(toClient[k]) /\ toClient'[k][n] = toClient[k][n + 1]
          /\ \A j \in Conns \ {k} : toClient'[j] = toClient[j]
        BY <2>1, Popped, StreamTypes
    <2>3. FirstValue(m.call, m.value)
        BY <2>2 DEF FirstInv, ValueInv
    <2> HIDE DEF m
    <2>4. results \in [Calls -> Values \cup {NoCall}]
        BY DEF TypeInv, TypeOK
    <2>5. Got
        BY <2>1, <2>3, <2>4 DEF Got, FirstInv, ValueInv
    <2>6. Sent
        BY <2>2 DEF Sent, FirstInv, ValueInv
    <2> QED BY <2>5, <2>6
<1>8. ASSUME NEW k \in Conns, Break(k) PROVE Sent /\ Got
    BY <1>4, <1>8 DEF Break, clientVars, callerVars
<1>9. ASSUME NEW k \in Conns, CloseClientConn(k) PROVE Sent /\ Got
    <2>1. toClient' = [toClient EXCEPT ![k] = <<>>] /\ UNCHANGED <<results, outcome>>
        BY <1>9 DEF CloseClientConn
    <2>2. \A j \in Conns : toClient'[j] = IF j = k THEN <<>> ELSE toClient[j]
        BY <2>1, StreamTypes
    <2>3. Sent
        BY <2>2 DEF Sent, FirstInv, ValueInv
    <2> QED BY <1>4, <2>1, <2>3
<1> QED BY <1>2, <1>3, <1>5, <1>6, <1>7, <1>8, <1>9 DEF ClientNext

LEMMA FirstStep ==
    ASSUME TypeInv, FirstInv, [Next]_vars
    PROVE  FirstInv'
<1>1. CASE ClientNext
    BY <1>1, MsgClient, FirstClient DEF FirstInv
<1>2. CASE ServerNext /\ UNCHANGED clientVars
    BY <1>2, MsgServer, RoleServer, ValueServer DEF FirstInv
<1>3. CASE UNCHANGED vars
    <2>1. UNCHANGED <<toServer, toClient, role, memo, handler, pool, workers, executed, cleanup,
                      cleaning, via, phase, results, outcome>>
        BY <1>3 DEF vars, serverVars, connVars, poolVars, cleanVars, clientVars, callerVars
    <2>2. MsgInv' /\ RoleInv'
        BY <2>1 DEF FirstInv, MsgInv, RoleInv
    <2>3. ValueInv'
        BY <2>1 DEF FirstInv, ValueInv, FirstItem, FirstValue
    <2> QED BY <2>2, <2>3 DEF FirstInv
<1> QED BY <1>1, <1>2, <1>3 DEF Next

LEMMA FirstInitially == Init => FirstInv
<1>1. Init => MsgInv /\ RoleInv
    BY RemoteAssumption DEF Init, ServerInit, MsgInv, RoleInv, Idle
<1>2. Init => ValueInv
    BY RemoteAssumption DEF Init, ServerInit, ValueInv, FirstItem, FirstValue
<1> QED BY <1>1, <1>2 DEF FirstInv

(* The body of a single-instance function runs once, and its callers never *)
(* get different results: modifycall_singleinstance picks one first caller *)
(* and every other result is read from what callbackfirst stored.          *)
THEOREM RunsOnceTheorem == Spec => []RunsOnce
<1>1. Init => TypeInv /\ FirstInv
    BY InitType, FirstInitially
<1>2. TypeInv /\ FirstInv /\ [Next]_vars => TypeInv' /\ FirstInv'
    BY TypeStep, FirstStep
<1>3. TypeInv /\ FirstInv => RunsOnce
    <2> SUFFICES ASSUME TypeInv, FirstInv PROVE RunsOnce
        OBVIOUS
    <2>1. \A c, d \in executed \cap Shared : c = d
        BY RemoteAssumption DEF FirstInv, RoleInv
    <2>2. ASSUME NEW c \in Shared, NEW d \in Shared, {outcome[c], outcome[d]} \cap {NoCall, Stopped} = {}
          PROVE  outcome[c] = outcome[d]
        <3>1. outcome[c] \in Calls /\ outcome[d] \in Calls
            BY <2>2, RemoteAssumption DEF TypeInv, TypeOK, Values
        <3> QED BY <2>2, <3>1, RemoteAssumption DEF FirstInv, ValueInv, FirstValue, RoleInv
    <2> QED BY <2>1, <2>2 DEF RunsOnce
<1> QED BY <1>1, <1>2, <1>3, PTL DEF Spec
-----------------------------------------------------------------------------
(* What a closed connection leaves behind: calls                           *)

Closed(k) == srv[k] = "closed" /\ k \notin spoiled
Known(c) ==
    \/ c \in running \cup cleaned \/ IsQueued(c) \/ cleaning.id = c \/ answers[c] # 0
    \/ \E k \in Conns : c \in markers[k]

\* A call enters runningTasks once, after it is received and before it is
\* queued for cleanup; from then on its connection holds it.
HandlerInv ==
    \A k \in Conns :
        /\ srv[k] # "open" => handler[k] = Idle
        /\ srv[k] = "closed" => link[k] # "unused"
        /\ handler[k].stage # "idle" => home[handler[k].call] = k
        /\ handler[k].stage = "entered" => ~Known(handler[k].call)
RunningInv ==
    /\ \A c \in Calls : Known(c) => role[c] # "none"
    /\ \A k \in Conns : markers[k] \cap running = {}
    /\ cleaning # NoItem => cleaning.id \notin running
    /\ \A c \in running :
          /\ home[c] \in Conns
          /\ handler[home[c]].call = c \/ c \in fns[home[c]]
          /\ c \in cleaned => IsQueued(c)
          /\ Closed(home[c]) => IsQueued(c)

\* The remoted object lives on one connection; while somebody may call its
\* methods, that connection is there.
ObjectInv ==
    /\ \A c \in Methods : phase[c] # "idle" => via[c] \in objOn
    /\ \A j, k \in objOn : j = k
    /\ \A k \in objOn : conn = k \/ objFailed
    /\ objConn # 0 => objConn \in objOn
    /\ owners \subseteq objOn
    /\ Object \in cleaned => \E k \in owners : srv[k] = "closed"
    /\ inCache => \A k \in owners : Closed(k) => IsQueued(Object)

HeldInv == HandlerInv /\ RunningInv /\ ObjectInv

LEMMA ItemsQueued ==
    ASSUME TypeInv, NEW S, AddForCleanup(S)
    PROVE  /\ cleaned \subseteq cleaned' /\ \A x : IsQueued(x) => IsQueued(x)'
           /\ \A x : IsQueued(x)' => IsQueued(x) \/ x \in running \/ (x = Object /\ inCache)
           /\ \A x \in cleaned' \ cleaned :
                 IsQueued(x)' /\ (x \in running \/ (x = Object /\ inCache)) /\ \E i \in S : i.id = x
           /\ \A i \in S : i.id \in running \/ (i.id = Object /\ inCache) =>
                 i.id \in cleaned \/ IsQueued(i.id)'
<1> DEFINE Q == QueueNew(S)
<1>1. /\ cleaned' = cleaned \cup {i.id : i \in Q} /\ cleanup' = cleanup \cup Q
    BY DEF AddForCleanup
<1>2. \A i \in Q : i \in S /\ (i.id \in running \/ (i.id = Object /\ inCache))
    BY DEF QueueNew
<1>3. \A i \in S : i.id \in running \/ (i.id = Object /\ inCache) => i.id \in cleaned \/ i \in Q
    BY DEF QueueNew
<1> HIDE DEF Q
<1>4. \A x : IsQueued(x) => IsQueued(x)'
    BY <1>1 DEF IsQueued
<1>5. \A i \in Q : IsQueued(i.id)'
    BY <1>1 DEF IsQueued
<1>6. \A x : IsQueued(x)' => IsQueued(x) \/ \E i \in Q : i.id = x
    BY <1>1 DEF IsQueued
<1> QED BY <1>1, <1>2, <1>3, <1>4, <1>5, <1>6

\* A connection is closed once, and every one is a new one.
LEMMA ClientConns ==
    ASSUME TypeInv, HandlerInv, ClientNext
    PROVE  \A k \in Conns :
              /\ srv'[k] = "closed" <=> srv[k] = "closed"
              /\ srv[k] = "open" => srv'[k] = "open"
              /\ link[k] # "unused" => link'[k] # "unused"
<1>0. link \in [Conns -> {"unused", "open", "broken"}] /\ srv \in [Conns -> {"unused", "open", "closed"}]
    BY DEF TypeInv, TypeOK, ServerTypeOK
<1>1. ASSUME NEW j \in Conns, Connect(j)
      PROVE  /\ link[j] = "unused" /\ link' = [link EXCEPT ![j] = "open"]
             /\ srv[j] # "closed" /\ srv' = [srv EXCEPT ![j] = "open"]
    BY <1>1 DEF Connect, HandlerInv
<1>2. CASE \E c \in Calls : Begin(c)
    <2>1. UNCHANGED <<link, srv>> \/ \E j \in Conns : Connect(j)
        BY <1>2 DEF Begin, GetConn
    <2> QED BY <1>0, <1>1, <2>1
<1>3. CASE \E j \in Conns : Break(j)
    BY <1>0, <1>3 DEF Break
<1>4. CASE \E c \in Calls : Send(c) \/ Return(c) \/ Timeout(c) \/ CancelTask(c)
    <2>1. UNCHANGED <<link, srv>>
        BY <1>4 DEF Send, Return, Timeout, CancelTask, serverVars, connVars
    <2> QED BY <2>1
<1>5. CASE \E j \in Conns : ReceiveResult(j) \/ CloseClientConn(j)
    <2>1. UNCHANGED <<link, srv>>
        BY <1>5 DEF ReceiveResult, CloseClientConn
    <2> QED BY <2>1
<1> QED BY <1>2, <1>3, <1>4, <1>5 DEF ClientNext

LEMMA HeldClient ==
    ASSUME TypeInv, HeldInv, ClientNext
    PROVE  HandlerInv' /\ RunningInv'
<1>1. UNCHANGED <<running, cleaned, cleanup, cleaning, answers, role, home, handler, fns, markers,
                  spoiled>>
    BY ClientLeaves DEF cleanVars
<1>2. \A k \in Conns :
          /\ srv'[k] = "closed" <=> srv[k] = "closed"
          /\ srv[k] = "open" => srv'[k] = "open"
          /\ link[k] # "unused" => link'[k] # "unused"
    BY ClientConns DEF HeldInv
<1>3. HandlerInv'
    BY <1>1, <1>2 DEF HeldInv, HandlerInv, Known, IsQueued
<1>4. RunningInv'
    BY <1>1, <1>2 DEF HeldInv, RunningInv, Known, Closed, IsQueued
<1> QED BY <1>3, <1>4

\* A call that comes in is new to the server.
LEMMA HeldReceiveCall ==
    ASSUME TypeInv, FirstInv, HandlerInv, RunningInv, NEW k \in Conns, ReceiveCall(k)
    PROVE  HandlerInv' /\ RunningInv'
<1> DEFINE c == Head(toServer[k]).call
<1>1. /\ c \in Calls /\ role[c] = "none"
      /\ \A d \in Calls \ {c} : role'[d] = role[d]
      /\ handler' = [handler EXCEPT ![k] = [stage |-> "entered", call |-> c]]
    BY Received
<1>2. /\ home' = [home EXCEPT ![c] = k] /\ srv[k] = "open" /\ handler[k] = Idle
      /\ UNCHANGED <<link, srv, fns, markers, spoiled, running, cleaned, cleanup, cleaning,
                  answers>>
    BY DEF ReceiveCall, Incoming, cleanVars
<1> HIDE DEF c
<1>3. ~Known(c)
    BY <1>1 DEF RunningInv
<1>4. \A j \in Conns : handler[j].stage # "idle" => handler[j].call \in Calls \ {c}
    BY <1>1 DEF TypeInv, TypeOK, ServerTypeOK, FirstInv, RoleInv
<1>5. /\ handler \in [Conns -> [stage : {"idle", "entered", "submitted"}, call : Calls \cup {NoCall}]]
      /\ home \in [Calls -> Conns \cup {0}] /\ running \subseteq Calls
    BY DEF TypeInv, TypeOK, ServerTypeOK
<1>6. \A d : Known(d)' <=> Known(d)
    BY <1>2 DEF Known, IsQueued
<1>7. HandlerInv'
    <2> SUFFICES ASSUME NEW j \in Conns
                 PROVE  /\ srv[j] # "open" => handler'[j] = Idle
                        /\ srv[j] = "closed" => link[j] # "unused"
                        /\ handler'[j].stage # "idle" => home'[handler'[j].call] = j
                        /\ handler'[j].stage = "entered" => ~Known(handler'[j].call)
        BY <1>2, <1>6 DEF HandlerInv
    <2>1. CASE j = k
        BY <1>1, <1>2, <1>3, <1>5, <2>1
    <2>2. CASE j # k
        BY <1>1, <1>2, <1>4, <1>5, <2>2 DEF HandlerInv
    <2> QED BY <2>1, <2>2
<1>8. RunningInv'
    <2>1. \A d \in Calls : Known(d)' => role'[d] # "none"
        BY <1>1, <1>3, <1>6 DEF RunningInv
    <2>2. ASSUME NEW d \in running
          PROVE  /\ home'[d] \in Conns
                 /\ handler'[home'[d]].call = d \/ d \in fns[home'[d]]
                 /\ d \in cleaned => IsQueued(d)'
                 /\ Closed(home[d])' => IsQueued(d)'
        <3>1. d # c /\ home'[d] = home[d]
            BY <1>1, <1>2, <1>3, <1>5 DEF Known
        <3>2. handler[k].call # d
            BY <1>2, <1>5, RemoteAssumption DEF Idle
        <3>3. handler[home[d]].call = d => handler'[home[d]].call = d
            BY <1>1, <1>5, <3>2
        <3> QED BY <1>2, <3>1, <3>3 DEF RunningInv, IsQueued, Closed
    <2> QED BY <1>2, <2>1, <2>2 DEF RunningInv
<1> QED BY <1>7, <1>8

LEMMA HeldSubmit ==
    ASSUME TypeInv, FirstInv, HandlerInv, RunningInv, NEW k \in Conns, Submit(k)
    PROVE  HandlerInv' /\ RunningInv'
<1> DEFINE c == handler[k].call
<1>1. /\ handler[k].stage = "entered" /\ running' = running \cup {c}
      /\ handler' = [handler EXCEPT ![k].stage = "submitted"]
      /\ UNCHANGED <<link, srv, fns, markers, spoiled, home, role, cleaned, cleanup, cleaning,
                  answers>>
    BY DEF Submit
<1>2. /\ handler \in [Conns -> [stage : {"idle", "entered", "submitted"}, call : Calls \cup {NoCall}]]
      /\ c \in Calls
    BY <1>1 DEF TypeInv, TypeOK, ServerTypeOK
<1>3. /\ home[c] = k /\ ~Known(c) /\ srv[k] = "open" /\ role[c] # "none"
    BY <1>1, <1>2 DEF HandlerInv, Idle, FirstInv, RoleInv
<1>4. /\ \A j \in Conns : handler'[j].call = handler[j].call
      /\ \A j \in Conns \ {k} : handler'[j] = handler[j]
      /\ handler'[k].stage = "submitted"
    BY <1>1, <1>2
<1>5. \A d : Known(d)' <=> Known(d) \/ d = c
    BY <1>1 DEF Known, IsQueued
<1> HIDE DEF c
<1>6. HandlerInv'
    <2>1. ASSUME NEW j \in Conns, handler'[j].stage = "entered" PROVE ~Known(handler[j].call)'
        <3>1. j # k /\ handler'[j] = handler[j] /\ handler[j].stage = "entered"
            BY <1>4, <2>1
        <3>2. home[handler[j].call] = j /\ ~Known(handler[j].call)
            BY <3>1 DEF HandlerInv
        <3> QED BY <1>3, <1>5, <3>1, <3>2
    <2>2. ASSUME NEW j \in Conns, handler'[j].stage # "idle" PROVE home[handler'[j].call] = j
        BY <1>1, <1>4, <2>2 DEF HandlerInv
    <2>3. \A j \in Conns : srv[j] # "open" => handler'[j] = Idle
        BY <1>3, <1>4 DEF HandlerInv
    <2> QED BY <1>1, <2>1, <2>2, <2>3 DEF HandlerInv
<1>7. RunningInv'
    <2>1. \A d \in Calls : Known(d)' => role'[d] # "none"
        BY <1>1, <1>3, <1>5 DEF RunningInv
    <2>2. \A j \in Conns : markers'[j] \cap running' = {}
        BY <1>1, <1>3 DEF RunningInv, Known
    <2>3. cleaning' # NoItem => cleaning'.id \notin running'
        BY <1>1, <1>3 DEF RunningInv, Known
    <2>4. ASSUME NEW d \in running'
          PROVE  /\ home'[d] \in Conns
                 /\ handler'[home'[d]].call = d \/ d \in fns'[home'[d]]
                 /\ d \in cleaned' => IsQueued(d)'
                 /\ Closed(home[d])' => IsQueued(d)'
        <3>1. CASE d = c
            BY <1>1, <1>3, <1>4, <3>1 DEF Closed, Known, c
        <3>2. CASE d \in running
            BY <1>1, <1>4, <3>2 DEF RunningInv, Closed, IsQueued
        <3> QED BY <1>1, <3>1, <3>2
    <2> QED BY <2>1, <2>2, <2>3, <2>4 DEF RunningInv
<1> QED BY <1>6, <1>7

\* A call that was answered before it was registered does not run.
LEMMA HeldRegister ==
    ASSUME TypeInv, HandlerInv, RunningInv, NEW k \in Conns, Register(k)
    PROVE  HandlerInv' /\ RunningInv'
<1> DEFINE c == handler[k].call
<1>1. /\ handler' = [handler EXCEPT ![k] = Idle]
      /\ fns' = IF c \in markers[k] THEN fns ELSE [fns EXCEPT ![k] = @ \cup {c}]
      /\ markers' = [markers EXCEPT ![k] = @ \ {c}]
      /\ UNCHANGED <<link, srv, spoiled, home, role, running, cleaned, cleanup, cleaning,
                  answers>>
    BY DEF Register, cleanVars
<1>2. /\ handler \in [Conns -> [stage : {"idle", "entered", "submitted"}, call : Calls \cup {NoCall}]]
      /\ fns \in [Conns -> SUBSET Calls] /\ markers \in [Conns -> SUBSET Calls]
      /\ running \subseteq Calls
    BY DEF TypeInv, TypeOK, ServerTypeOK
<1> HIDE DEF c
<1>3. /\ handler'[k] = Idle /\ \A j \in Conns \ {k} : handler'[j] = handler[j]
      /\ \A j \in Conns : markers'[j] \subseteq markers[j] /\ fns[j] \subseteq fns'[j]
      /\ c \notin markers[k] => c \in fns'[k]
    BY <1>1, <1>2
<1>4. \A d : Known(d)' => Known(d)
    BY <1>1, <1>3 DEF Known, IsQueued
<1>5. HandlerInv'
    BY <1>1, <1>3, <1>4 DEF HandlerInv, Idle
<1>6. RunningInv'
    <2>1. ASSUME NEW d \in running
          PROVE  handler'[home[d]].call = d \/ d \in fns'[home[d]]
        <3>1. CASE home[d] = k /\ d = c
            <4>1. c \notin markers[k]
                BY <3>1 DEF RunningInv
            <4> QED BY <1>3, <3>1, <4>1
        <3>2. CASE home[d] # k \/ d # c
            BY <1>3, <3>2 DEF RunningInv, c
        <3> QED BY <3>1, <3>2
    <2> QED BY <1>1, <1>2, <1>3, <1>4, <2>1 DEF RunningInv, Closed, IsQueued
<1> QED BY <1>5, <1>6

\* Queueing calls for cleanup, on a connection that may close with it.
LEMMA HeldAdded ==
    ASSUME TypeInv, HandlerInv, RunningInv, NEW S, AddForCleanup(S),
           UNCHANGED <<link, handler, fns, markers, home, role, running, cleaning, answers>>,
           spoiled \subseteq spoiled',
           \A k \in Conns : srv[k] # "closed" => srv'[k] = srv[k] \/
               (/\ srv[k] = "open" /\ srv'[k] = "closed" /\ handler[k] = Idle /\ link[k] # "unused"
                /\ k \in spoiled' \/ \A c \in fns[k] : \E i \in S : i.id = c),
           \A k \in Conns : srv[k] = "closed" => srv'[k] = "closed"
    PROVE  HandlerInv' /\ RunningInv'
<1>1. /\ cleaned \subseteq cleaned' /\ \A x : IsQueued(x) => IsQueued(x)'
      /\ \A x : IsQueued(x)' => IsQueued(x) \/ x \in running \/ x = Object
      /\ \A x \in cleaned' \ cleaned : IsQueued(x)' /\ (x \in running \/ x = Object)
      /\ \A i \in S : i.id \in running => i.id \in cleaned \/ IsQueued(i.id)'
    BY ItemsQueued
<1>2. \A c \in Calls : Known(c)' => Known(c)
    BY <1>1, RemoteAssumption DEF Known
<1>3. \A k \in Conns : handler[k].stage # "idle" => handler[k].call \in Calls
    BY DEF TypeInv, TypeOK, ServerTypeOK
<1>4. HandlerInv'
    BY <1>2, <1>3 DEF HandlerInv
<1>5. running \subseteq Calls
    BY DEF TypeInv, TypeOK, ServerTypeOK
<1>6. ASSUME NEW c \in running
      PROVE  /\ c \in cleaned' => IsQueued(c)'
             /\ Closed(home[c])' => IsQueued(c)'
    <2>1. c \in cleaned' => IsQueued(c)'
        BY <1>1 DEF RunningInv
    <2>2. ASSUME Closed(home[c])' PROVE IsQueued(c)'
        <3> DEFINE k == home[c]
        <3>0. k \in Conns /\ srv'[k] = "closed" /\ k \notin spoiled'
            BY <2>2 DEF RunningInv, Closed
        <3>1. CASE srv[k] = "closed"
            BY <1>1, <3>0, <3>1 DEF RunningInv, Closed
        <3>2. CASE srv[k] # "closed"
            <4>1. handler[k] = Idle /\ \A d \in fns[k] : \E i \in S : i.id = d
                BY <3>0, <3>2
            <4>2. c \in fns[k]
                BY <1>5, <4>1, RemoteAssumption DEF RunningInv, Idle
            <4>3. c \in cleaned \/ IsQueued(c)'
                BY <1>1, <4>1, <4>2
            <4> QED BY <1>1, <4>3 DEF RunningInv
        <3> QED BY <3>1, <3>2
    <2> QED BY <2>1, <2>2
<1>7. RunningInv'
    BY <1>2, <1>6 DEF RunningInv
<1> QED BY <1>4, <1>7

LEMMA HeldServer ==
    ASSUME TypeInv, FirstInv, HeldInv, ServerNext
    PROVE  HandlerInv' /\ RunningInv'
<1> USE DEF HeldInv
<1>0. ASSUME UNCHANGED <<link, srv, spoiled, handler, fns, markers, home, role, running, cleaning,
                         cleanup, answers>>,
             cleaned' \subseteq cleaned
      PROVE  HandlerInv' /\ RunningInv'
    <2>1. /\ running \subseteq Calls
          /\ \A k \in Conns : handler[k].stage # "idle" => handler[k].call \in Calls
        BY DEF TypeInv, TypeOK, ServerTypeOK
    <2>2. \A c \in Calls : Known(c)' => Known(c)
        BY <1>0 DEF Known, IsQueued
    <2> QED BY <1>0, <2>1, <2>2 DEF HandlerInv, RunningInv, Closed, IsQueued
<1>1. ASSUME NEW k \in Conns, ReceiveCall(k) PROVE HandlerInv' /\ RunningInv'
    BY <1>1, HeldReceiveCall
<1>2. ASSUME NEW k \in Conns, Submit(k) PROVE HandlerInv' /\ RunningInv'
    BY <1>2, HeldSubmit
<1>3. ASSUME NEW k \in Conns, Register(k) PROVE HandlerInv' /\ RunningInv'
    BY <1>3, HeldRegister
<1>4. ASSUME NEW k \in Conns, ReceiveCancel(k) PROVE HandlerInv' /\ RunningInv'
    <2> DEFINE c == Head(toServer[k]).call
    <2>1. CASE c \in running
        <3>1. /\ AddForCleanup({StopItem(c, k)})
              /\ UNCHANGED <<link, srv, spoiled, handler, fns, markers, home, role, running, cleaning,
                          answers>>
            BY <1>4, <2>1 DEF ReceiveCancel
        <3> QED BY <3>1, HeldAdded
    <2>2. CASE c \notin running
        BY <1>0, <1>4, <2>2 DEF ReceiveCancel
    <2> QED BY <2>1, <2>2
<1>5. ASSUME NEW k \in Conns, CloseConn(k) PROVE HandlerInv' /\ RunningInv'
    <2> DEFINE T(S) == {StopItem(c, 0) : c \in S} \cup
                           (IF markers[k] = {} /\ k \in owners THEN {ObjectItem} ELSE {})
    <2>1. PICK S \in SUBSET fns[k] : AddForCleanup(T(S)) /\ (markers[k] = {} => S = fns[k])
        BY <1>5 DEF CloseConn
    <2>2. /\ srv[k] = "open" /\ handler[k] = Idle /\ link[k] = "broken"
          /\ srv' = [srv EXCEPT ![k] = "closed"]
          /\ spoiled' = IF markers[k] = {} THEN spoiled ELSE spoiled \cup {k}
          /\ UNCHANGED <<link, handler, fns, markers, home, role, running, cleaning,
                          answers>>
        BY <1>5 DEF CloseConn
    <2>3. srv \in [Conns -> {"unused", "open", "closed"}]
        BY DEF TypeInv, TypeOK, ServerTypeOK
    <2>4. \A j \in Conns \ {k} : srv'[j] = srv[j]
        BY <2>2, <2>3
    <2>5. srv'[k] = "closed" /\ spoiled \subseteq spoiled'
        BY <2>2, <2>3
    <2>6. k \in spoiled' \/ \A c \in fns[k] : \E i \in T(S) : i.id = c
        <3>1. \A c \in S : StopItem(c, 0) \in T(S) /\ StopItem(c, 0).id = c
            BY DEF StopItem
        <3>2. k \in spoiled' \/ S = fns[k]
            BY <2>1, <2>2
        <3> HIDE DEF T
        <3> QED BY <3>1, <3>2
    <2> HIDE DEF T
    <2> QED BY <2>1, <2>2, <2>4, <2>5, <2>6, HeldAdded
<1>6. ASSUME StartTask \/ \E x \in Calls \cup {Object} : ForgetCleaned(x)
      PROVE  HandlerInv' /\ RunningInv'
    BY <1>0, <1>6 DEF StartTask, ForgetCleaned, connVars, cleanVars
<1>7. ASSUME NEW c \in Calls, FinishTask(c) PROVE HandlerInv' /\ RunningInv'
    <2> DEFINE i == [id |-> c, nth |-> overdue[c], answer |-> home[c], first |-> role[c] = "first",
                     value |-> IF role[c] = "follower" THEN memo ELSE c]
    <2>1. /\ AddForCleanup({i})
          /\ UNCHANGED <<link, srv, spoiled, handler, fns, markers, home, role, running, cleaning,
                          answers>>
        BY <1>7 DEF FinishTask, connVars
    <2> HIDE DEF i
    <2> QED BY <2>1, HeldAdded
<1>8. ASSUME TakeItem PROVE HandlerInv' /\ RunningInv'
    <2>1. PICK i \in cleanup : /\ cleanup' = cleanup \ {i} /\ running' = running \ {i.id}
                               /\ cleaning' = IF i.answer = 0 THEN NoItem ELSE i
        BY <1>8 DEF TakeItem
    <2>2. UNCHANGED <<link, srv, spoiled, handler, fns, markers, home, role, cleaned, answers>>
        BY <1>8 DEF TakeItem, connVars
    <2>3. \A x : x # i.id /\ IsQueued(x) => IsQueued(x)'
        BY <2>1 DEF IsQueued
    <2>4. \A c \in Calls : Known(c)' => Known(c)
        <3>1. \A c \in Calls : cleaning'.id = c => IsQueued(c)
            BY <2>1, RemoteAssumption DEF IsQueued, NoItem
        <3>2. \A c : IsQueued(c)' => IsQueued(c)
            BY <2>1 DEF IsQueued
        <3> QED BY <2>1, <2>2, <3>1, <3>2 DEF Known
    <2>c. \A k \in Conns : handler[k].stage # "idle" => handler[k].call \in Calls
        BY DEF TypeInv, TypeOK, ServerTypeOK
    <2>5. HandlerInv'
        BY <2>2, <2>4, <2>c DEF HandlerInv
    <2>6. RunningInv'
        BY <2>1, <2>2, <2>3, <2>4 DEF RunningInv, Closed
    <2> QED BY <2>5, <2>6
<1>9. ASSUME Answer PROVE HandlerInv' /\ RunningInv'
    <2> DEFINE c == cleaning.id
               k == cleaning.answer
    <2>1. /\ cleaning # NoItem /\ cleaning' = NoItem
          /\ fns' = [fns EXCEPT ![k] = @ \ {c}]
          /\ \E m \in {markers[k] \ {c}, markers[k] \cup {c}} : markers' = [markers EXCEPT ![k] = m]
          /\ answers' = [answers EXCEPT ![c] = @ + 1]
          /\ UNCHANGED <<link, srv, spoiled, handler, home, role, running, cleaned, cleanup>>
        BY <1>9 DEF Answer, cleanVars
    <2>2. Known(c) /\ c \in Calls /\ c \notin running
        BY <2>1 DEF RunningInv, TypeInv, ItemsOK, Known
    <2>3. /\ fns \in [Conns -> SUBSET Calls] /\ markers \in [Conns -> SUBSET Calls]
          /\ answers \in [Calls -> Nat]
          /\ \A j \in Conns : handler[j].stage # "idle" => handler[j].call \in Calls
        BY DEF TypeInv, TypeOK, ServerTypeOK
    <2> HIDE DEF c, k
    <2>4. \A j \in Conns : markers'[j] \subseteq markers[j] \cup {c} /\ fns[j] \ {c} \subseteq fns'[j]
        BY <2>1, <2>3
    <2>5. \A x \in Calls : Known(x)' => Known(x)
        <3>1. \A x \in Calls \ {c} : answers'[x] = answers[x] /\ cleaning'.id # x
            BY <2>1, <2>3, RemoteAssumption DEF NoItem
        <3>2. \A x \in Calls \ {c} : (\E j \in Conns : x \in markers'[j]) => \E j \in Conns : x \in markers[j]
            BY <2>4
        <3> QED BY <2>1, <2>2, <3>1, <3>2 DEF Known, IsQueued
    <2>6. HandlerInv'
        BY <2>1, <2>3, <2>5 DEF HandlerInv
    <2>7. RunningInv'
        BY <2>1, <2>2, <2>4, <2>5 DEF RunningInv, Closed, IsQueued
    <2> QED BY <2>6, <2>7
<1> QED BY <1>1, <1>2, <1>3, <1>4, <1>5, <1>6, <1>7, <1>8, <1>9 DEF ServerNext

-----------------------------------------------------------------------------
(* What a closed connection leaves behind: the remoted object              *)

LEMMA ObjectAdded ==
    ASSUME TypeInv, ObjectInv, NEW S, AddForCleanup(S), UNCHANGED <<clientVars, objectVars>>,
           spoiled \subseteq spoiled',
           \A k \in Conns : srv[k] = "closed" => srv'[k] = "closed",
           \A k \in owners : srv'[k] = "closed" =>
               srv[k] = "closed" \/ k \in spoiled' \/ \E i \in S : i.id = Object,
           (\E i \in S : i.id = Object) => \E k \in owners : srv'[k] = "closed"
    PROVE  ObjectInv'
<1>1. /\ \A x : IsQueued(x) => IsQueued(x)'
      /\ Object \in cleaned' => Object \in cleaned \/ \E i \in S : i.id = Object
      /\ inCache /\ (\E i \in S : i.id = Object) => Object \in cleaned \/ IsQueued(Object)'
    BY ItemsQueued
<1>2. UNCHANGED <<phase, via, objOn, conn, objConn, objFailed, inCache, owners>>
    BY DEF clientVars, callerVars, objectVars
<1>3. owners \subseteq Conns
    BY DEF TypeInv, TypeOK, ServerTypeOK
<1>4. Object \in cleaned' => \E k \in owners : srv'[k] = "closed"
    BY <1>1, <1>3 DEF ObjectInv
<1>5. ASSUME inCache, NEW k \in owners, Closed(k)'
      PROVE  IsQueued(Object)'
    <2>1. CASE srv[k] = "closed"
        BY <1>1, <1>5, <2>1 DEF ObjectInv, Closed
    <2>2. CASE srv[k] # "closed"
        <3>1. Object \in cleaned \/ IsQueued(Object)'
            BY <1>1, <1>5, <2>2 DEF Closed
        <3>2. Object \notin cleaned
            BY <2>2 DEF ObjectInv
        <3> QED BY <3>1, <3>2
    <2> QED BY <2>1, <2>2
<1> QED BY <1>2, <1>4, <1>5 DEF ObjectInv

\* The object is made by a call of one of its methods, and those come in on
\* its connection.
LEMMA ObjectReceiveCall ==
    ASSUME TypeInv, FirstInv, ObjectInv, UNCHANGED clientVars, NEW k \in Conns, ReceiveCall(k)
    PROVE  ObjectInv'
<1> DEFINE c == Head(toServer[k]).call
<1>1. /\ toServer[k] # <<>> /\ Head(toServer[k]).type = "call" /\ srv[k] = "open"
      /\ inCache' = (inCache \/ c \in Methods)
      /\ owners' = IF c \in Methods /\ ~inCache THEN owners \cup {k} ELSE owners
      /\ UNCHANGED <<srv, spoiled, cleaned, cleanup>>
    BY DEF ReceiveCall, Incoming, cleanVars
<1>2. 1 \in 1..Len(toServer[k]) /\ toServer[k][1] = Head(toServer[k])
    BY <1>1, StreamTypes, Popped
<1>3. via[c] = k /\ phase[c] # "idle"
    BY <1>1, <1>2 DEF FirstInv, MsgInv
<1> HIDE DEF c
<1>4. UNCHANGED <<phase, via, objOn, conn, objConn, objFailed>>
    BY DEF clientVars, callerVars
<1>5. c \in Methods => k \in objOn
    BY <1>3 DEF ObjectInv
<1>6. owners' \subseteq objOn
    BY <1>1, <1>5 DEF ObjectInv
<1>7. ASSUME c \in Methods, NEW j \in owners' PROVE ~Closed(j)
    BY <1>1, <1>5, <1>6, <1>7 DEF ObjectInv, Closed
<1>8. ASSUME inCache', NEW j \in owners', Closed(j) PROVE IsQueued(Object)
    BY <1>1, <1>7, <1>8 DEF ObjectInv
<1> QED BY <1>1, <1>4, <1>6, <1>8 DEF ObjectInv, Closed, IsQueued

LEMMA ObjectServer ==
    ASSUME TypeInv, FirstInv, ObjectInv, ServerNext, UNCHANGED clientVars
    PROVE  ObjectInv'
<1>0. ASSUME UNCHANGED <<srv, spoiled, objectVars, cleanup>>, cleaned' \subseteq cleaned
      PROVE  ObjectInv'
    BY <1>0 DEF ObjectInv, Closed, IsQueued, clientVars, callerVars, objectVars
<1>c. ASSUME NEW S, AddForCleanup(S), UNCHANGED <<srv, spoiled, objectVars>>,
             \A i \in S : i.id # Object
      PROVE  ObjectInv'
    BY <1>c, ObjectAdded
<1>1. ASSUME NEW k \in Conns, ReceiveCall(k) PROVE ObjectInv'
    BY <1>1, ObjectReceiveCall
<1>2. ASSUME NEW k \in Conns, Submit(k) \/ Register(k) PROVE ObjectInv'
    BY <1>0, <1>2 DEF Submit, Register, cleanVars
<1>3. ASSUME NEW k \in Conns, ReceiveCancel(k) PROVE ObjectInv'
    <2> DEFINE c == Head(toServer[k]).call
    <2>1. CASE c \in running
        <3>1. AddForCleanup({StopItem(c, k)}) /\ UNCHANGED <<srv, spoiled, objectVars>>
            BY <1>3, <2>1 DEF ReceiveCancel
        <3>2. c # Object
            BY <2>1, RemoteAssumption DEF TypeInv, TypeOK, ServerTypeOK
        <3>3. \A i \in {StopItem(c, k)} : i.id # Object
            BY <3>2 DEF StopItem
        <3> QED BY <1>c, <3>1, <3>3
    <2>2. CASE c \notin running
        BY <1>0, <1>3, <2>2 DEF ReceiveCancel
    <2> QED BY <2>1, <2>2
<1>4. ASSUME NEW k \in Conns, CloseConn(k) PROVE ObjectInv'
    <2> DEFINE T(S) == {StopItem(c, 0) : c \in S} \cup
                           (IF markers[k] = {} /\ k \in owners THEN {ObjectItem} ELSE {})
    <2>1. PICK S \in SUBSET fns[k] : AddForCleanup(T(S))
        BY <1>4 DEF CloseConn
    <2>2. /\ srv' = [srv EXCEPT ![k] = "closed"]
          /\ spoiled' = IF markers[k] = {} THEN spoiled ELSE spoiled \cup {k}
          /\ UNCHANGED objectVars
        BY <1>4 DEF CloseConn
    <2>3. srv \in [Conns -> {"unused", "open", "closed"}] /\ owners \subseteq Conns /\ S \subseteq Calls
        BY DEF TypeInv, TypeOK, ServerTypeOK
    <2>4. /\ \A j \in Conns \ {k} : srv'[j] = srv[j]
          /\ srv'[k] = "closed" /\ spoiled \subseteq spoiled'
        BY <2>2, <2>3
    <2>5. ASSUME NEW i \in T(S), i.id = Object PROVE k \in owners
        BY <2>3, <2>5, RemoteAssumption DEF StopItem
    <2>6. k \in owners /\ k \notin spoiled' => \E i \in T(S) : i.id = Object
        <3>1. ObjectItem.id = Object
            BY DEF ObjectItem, StopItem
        <3>2. k \in owners /\ markers[k] = {} => ObjectItem \in T(S)
            OBVIOUS
        <3> HIDE DEF T
        <3> QED BY <2>2, <3>1, <3>2
    <2> HIDE DEF T
    <2> QED BY <2>1, <2>2, <2>3, <2>4, <2>5, <2>6, ObjectAdded
<1>5. ASSUME StartTask \/ Answer \/ \E x \in Calls \cup {Object} : ForgetCleaned(x)
      PROVE  ObjectInv'
    BY <1>0, <1>5 DEF StartTask, Answer, ForgetCleaned, connVars, cleanVars
<1>6. ASSUME NEW c \in Calls, FinishTask(c) PROVE ObjectInv'
    <2> DEFINE i == [id |-> c, nth |-> overdue[c], answer |-> home[c], first |-> role[c] = "first",
                     value |-> IF role[c] = "follower" THEN memo ELSE c]
    <2>1. AddForCleanup({i}) /\ UNCHANGED <<srv, spoiled, objectVars>>
        BY <1>6 DEF FinishTask, connVars
    <2>2. \A j \in {i} : j.id # Object
        BY RemoteAssumption
    <2> HIDE DEF i
    <2> QED BY <1>c, <2>1, <2>2
<1>7. ASSUME TakeItem PROVE ObjectInv'
    <2>1. PICK i \in cleanup : cleanup' = cleanup \ {i} /\ inCache' = (inCache /\ i.id # Object)
        BY <1>7 DEF TakeItem
    <2>2. UNCHANGED <<srv, spoiled, cleaned, owners>>
        BY <1>7 DEF TakeItem, connVars
    <2>3. inCache' /\ IsQueued(Object) => IsQueued(Object)'
        BY <2>1 DEF IsQueued
    <2> QED BY <2>1, <2>2, <2>3 DEF ObjectInv, Closed, clientVars, callerVars
<1> QED BY <1>1, <1>2, <1>3, <1>4, <1>5, <1>6, <1>7 DEF ServerNext

\* A method goes out on the connection of the object, or makes it.
LEMMA ObjectBegin ==
    ASSUME TypeInv, ObjectInv, NEW c \in Calls, Begin(c)
    PROVE  /\ \A d \in Methods : phase'[d] # "idle" => via'[d] \in objOn'
           /\ \A j, k \in objOn' : j = k
           /\ \A k \in objOn' : conn' = k \/ objFailed
           /\ objOn \subseteq objOn'
<1>1. PICK k \in Conns :
          /\ via' = [via EXCEPT ![c] = k]
          /\ IF c \in Methods /\ objConn # 0
             THEN k = objConn /\ UNCHANGED <<link, srv, conn, fnuid, objOn>>
             ELSE GetConn(c, k)
    BY DEF Begin
<1>2. phase[c] = "idle" /\ phase' = [phase EXCEPT ![c] = "chosen"] /\ (c \in Methods => ~objFailed)
    BY DEF Begin
<1>3. /\ \A d \in Calls \ {c} : via'[d] = via[d] /\ phase'[d] = phase[d]
      /\ via'[c] = k
    BY <1>1, <1>2 DEF TypeInv, TypeOK
<1>4. \A d \in Methods : d \in Calls
    BY RemoteAssumption
<1>5. CASE c \in Methods /\ objConn # 0
    BY <1>1, <1>3, <1>4, <1>5 DEF ObjectInv
<1>6. CASE ~(c \in Methods /\ objConn # 0)
    <2>1. /\ conn' = k /\ (conn = 0 \/ conn = k)
          /\ objOn' = IF c \in Methods THEN objOn \cup {k} ELSE objOn
        BY <1>1, <1>6 DEF GetConn, Connect
    <2>2. objOn \subseteq Conns /\ 0 \notin Conns
        BY DEF TypeInv, TypeOK, Conns
    <2>3. \A j \in objOn : objFailed \/ j = k
        BY <2>1, <2>2 DEF ObjectInv
    <2>4. \A j, l \in objOn' : j = l
        BY <1>2, <2>1, <2>3 DEF ObjectInv
    <2>5. \A d \in Methods : phase'[d] # "idle" => via'[d] \in objOn'
        BY <1>3, <1>4, <2>1 DEF ObjectInv
    <2> QED BY <2>1, <2>3, <2>4, <2>5
<1> QED BY <1>5, <1>6

LEMMA ObjectClient ==
    ASSUME TypeInv, HandlerInv, ObjectInv, ClientNext
    PROVE  ObjectInv'
<1>1. UNCHANGED <<inCache, owners, cleaned, cleanup, spoiled>>
    BY ClientLeaves DEF cleanVars, objectVars
<1>2. \A k \in Conns : srv'[k] = "closed" <=> srv[k] = "closed"
    BY ClientConns
<1>3. owners \subseteq Conns
    BY DEF TypeInv, TypeOK, ServerTypeOK
<1>4. /\ Object \in cleaned' => \E k \in owners' : srv'[k] = "closed"
      /\ inCache' => \A k \in owners' : Closed(k)' => IsQueued(Object)'
    BY <1>1, <1>2, <1>3 DEF ObjectInv, Closed, IsQueued
<1>5. ASSUME /\ \A c \in Methods : phase'[c] # "idle" => via'[c] \in objOn'
             /\ \A j, k \in objOn' : j = k
             /\ \A k \in objOn' : conn' = k \/ objFailed'
             /\ objOn \subseteq objOn'
             /\ objConn' # 0 => objConn' \in objOn'
      PROVE  ObjectInv'
    BY <1>1, <1>4, <1>5 DEF ObjectInv
<1>6. \A c \in Methods : c \in Calls
    BY RemoteAssumption
<1>7. CASE \E c \in Calls : Begin(c)
    <2>1. UNCHANGED <<objConn, objFailed>>
        BY <1>7 DEF Begin
    <2> QED BY <1>5, <1>7, <2>1, ObjectBegin DEF ObjectInv
<1>8. ASSUME NEW c \in Calls, Send(c) PROVE ObjectInv'
    <2>1. phase[c] = "chosen" /\ \E p \in {"waiting", "unsent"} : phase' = [phase EXCEPT ![c] = p]
        BY <1>8 DEF Send, Transmit
    <2>2. /\ UNCHANGED <<via, objOn, conn, objFailed>>
          /\ objConn' = objConn \/ (c \in Methods /\ objConn' = via[c])
        BY <1>8 DEF Send
    <2>3. \A d \in Calls : phase'[d] # "idle" => phase[d] # "idle"
        BY <2>1 DEF TypeInv, TypeOK
    <2> QED BY <1>5, <1>6, <2>1, <2>2, <2>3 DEF ObjectInv
<1>9. ASSUME NEW c \in Calls, Return(c) \/ Timeout(c) \/ CancelTask(c) PROVE ObjectInv'
    <2>1. phase' = phase \/ (phase[c] = "waiting" /\ \E p : phase' = [phase EXCEPT ![c] = p])
        BY <1>9 DEF Return, Timeout, CancelTask
    <2>2. UNCHANGED <<via, objOn, conn, objConn, objFailed>>
        BY <1>9 DEF Return, Timeout, CancelTask
    <2>3. \A d \in Calls : phase'[d] # "idle" => phase[d] # "idle"
        BY <2>1 DEF TypeInv, TypeOK
    <2> QED BY <1>5, <1>6, <2>2, <2>3 DEF ObjectInv
<1>10. ASSUME NEW k \in Conns, ReceiveResult(k) \/ Break(k) PROVE ObjectInv'
    <2>1. UNCHANGED <<phase, via, objOn, conn, objConn, objFailed>>
        BY <1>10 DEF ReceiveResult, Break, clientVars, callerVars
    <2> QED BY <1>5, <2>1 DEF ObjectInv
<1>11. ASSUME NEW k \in Conns, CloseClientConn(k) PROVE ObjectInv'
    <2>1. /\ UNCHANGED <<phase, via, objOn>> /\ conn = k
          /\ objFailed' = (objFailed \/ k \in objOn)
          /\ objConn' = IF k \in objOn THEN 0 ELSE objConn
        BY <1>11 DEF CloseClientConn
    <2> QED BY <1>5, <2>1 DEF ObjectInv
<1> QED BY <1>7, <1>8, <1>9, <1>10, <1>11 DEF ClientNext

LEMMA HeldStep ==
    ASSUME TypeInv, FirstInv, HeldInv, [Next]_vars
    PROVE  HeldInv'
<1>1. CASE ClientNext
    BY <1>1, HeldClient, ObjectClient DEF HeldInv
<1>2. CASE ServerNext /\ UNCHANGED clientVars
    BY <1>2, HeldServer, ObjectServer DEF HeldInv
<1>3. CASE UNCHANGED vars
    BY <1>3 DEF vars, serverVars, connVars, cleanVars, objectVars, clientVars, callerVars,
                HeldInv, HandlerInv, RunningInv, ObjectInv, Known, Closed, IsQueued
<1> QED BY <1>1, <1>2, <1>3 DEF Next

LEMMA HeldInitially == Init => HeldInv
BY RemoteAssumption DEF Init, ServerInit, HeldInv, HandlerInv, RunningInv, ObjectInv, Known, Idle,
                        IsQueued, NoItem

(* Once closeconn has come to its end on a connection, every call of it in *)
(* runningTasks is queued to be stopped, and its object to be released:    *)
(* whatever order registrations, answers and cancellations came in, no     *)
(* running call is missing from conn["fns"], and the five seconds a uid    *)
(* stays in alreadyCleaned never hide one that is to be released.          *)
THEOREM ClosedReleasedTheorem == Spec => []ClosedReleased
<1> DEFINE AllInv == TypeInv /\ FirstInv /\ HeldInv
<1>1. Init => AllInv
    BY InitType, FirstInitially, HeldInitially
<1>2. AllInv /\ [Next]_vars => AllInv'
    BY TypeStep, FirstStep, HeldStep
<1>3. AllInv => ClosedReleased
    BY DEF HeldInv, RunningInv, ObjectInv, Closed, ClosedReleased
<1> HIDE DEF AllInv
<1> QED BY <1>1, <1>2, <1>3, PTL DEF Spec
-----------------------------------------------------------------------------
(* How often a call is answered                                            *)

\* Answers that a call has had, will have from the queue, and is about to
\* have.  While it runs and its uid is forgotten, one more may be queued.
ItemsOf(c) == {i \in cleanup : i.id = c}
InHand(c) == IF cleaning.id = c THEN 1 ELSE 0
Turns(c) == answers[c] + Cardinality(ItemsOf(c)) + InHand(c)
TurnsInv ==
    \A c \in Calls :
        /\ IsFiniteSet(ItemsOf(c))
        /\ Turns(c) <= overdue[c] + 1
        /\ c \in running \ cleaned => Turns(c) <= overdue[c]

LEMMA TurnsTypes ==
    ASSUME TypeInv, TurnsInv, NEW c \in Calls
    PROVE  /\ answers[c] \in Nat /\ overdue[c] \in Nat /\ InHand(c) \in {0, 1}
           /\ Cardinality(ItemsOf(c)) \in Nat
<1>1. answers[c] \in Nat /\ overdue[c] \in Nat
    BY DEF TypeInv, TypeOK, ServerTypeOK
<1>2. Cardinality(ItemsOf(c)) \in Nat
    BY FS_CardinalityType DEF TurnsInv
<1> QED BY <1>1, <1>2 DEF InHand

\* addForCleanup queues one item of a call that runs and is not in
\* alreadyCleaned, and then it is.
LEMMA TurnsAdded ==
    ASSUME TypeInv, TurnsInv, NEW S, AddForCleanup(S), UNCHANGED <<running, cleaning, answers>>,
           \A i, j \in S : i.id = j.id => i = j
    PROVE  TurnsInv'
<1> DEFINE Q == QueueNew(S)
<1>1. /\ cleaned' = cleaned \cup {i.id : i \in Q} /\ cleanup' = cleanup \cup Q /\ overdue' = overdue
      /\ \A i, j \in Q : i.id = j.id => i = j
      /\ \A i \in Q : i.id \in Calls => i.id \in running \ cleaned
    <2>1. \A i \in Q : i \in S /\ i.id \notin cleaned
                       /\ (i.id \in running \/ i.id = Object)
        BY DEF QueueNew
    <2> QED BY <2>1, RemoteAssumption DEF AddForCleanup
<1> HIDE DEF Q
<1> SUFFICES ASSUME NEW c \in Calls
             PROVE  /\ IsFiniteSet(ItemsOf(c)')
                    /\ Turns(c)' <= overdue'[c] + 1
                    /\ c \in running' \ cleaned' => Turns(c)' <= overdue'[c]
    BY DEF TurnsInv
<1>2. /\ IsFiniteSet(ItemsOf(c)) /\ Turns(c) <= overdue[c] + 1
      /\ c \in running \ cleaned => Turns(c) <= overdue[c]
    BY DEF TurnsInv
<1>3. InHand(c)' = InHand(c)
    BY DEF InHand
<1>4. CASE \E i \in Q : i.id = c
    <2>1. PICK i \in Q : i.id = c
        BY <1>4
    <2>2. ItemsOf(c)' = ItemsOf(c) \cup {i}
        BY <1>1, <2>1 DEF ItemsOf
    <2>3. IsFiniteSet(ItemsOf(c)') /\ Cardinality(ItemsOf(c)') <= Cardinality(ItemsOf(c)) + 1
        <3>1. IsFiniteSet(ItemsOf(c) \cup {i})
            BY <1>2, FS_AddElement
        <3>2. Cardinality(ItemsOf(c) \cup {i}) \in {Cardinality(ItemsOf(c)), Cardinality(ItemsOf(c)) + 1}
            BY <1>2, FS_AddElement
        <3> QED BY <2>2, <3>1, <3>2, TurnsTypes
    <2>4. c \in running \ cleaned /\ c \in cleaned'
        BY <1>1, <2>1
    <2>5. Cardinality(ItemsOf(c)') \in Nat
        BY <2>3, FS_CardinalityType
    <2> QED BY <1>1, <1>2, <1>3, <2>3, <2>4, <2>5, TurnsTypes DEF Turns
<1>5. CASE ~\E i \in Q : i.id = c
    <2>1. ItemsOf(c)' = ItemsOf(c) /\ (c \in cleaned' <=> c \in cleaned)
        BY <1>1, <1>5 DEF ItemsOf
    <2> QED BY <1>1, <1>2, <1>3, <2>1 DEF Turns
<1> QED BY <1>4, <1>5

LEMMA TurnsServer ==
    ASSUME TypeInv, HeldInv, TurnsInv, ServerNext
    PROVE  TurnsInv'
<1>0. ASSUME UNCHANGED <<cleanup, cleaned, overdue, cleaning, answers>>, running' \subseteq running
      PROVE  TurnsInv'
    BY <1>0 DEF TurnsInv, Turns, ItemsOf, InHand
<1>1. ASSUME NEW k \in Conns, ReceiveCall(k) \/ Register(k) PROVE TurnsInv'
    BY <1>0, <1>1 DEF ReceiveCall, Register, cleanVars
<1>2. ASSUME NEW k \in Conns, Submit(k) PROVE TurnsInv'
    <2> DEFINE c == handler[k].call
    <2>1. /\ UNCHANGED <<cleanup, cleaned, overdue, cleaning, answers>> /\ running' = running \cup {c}
          /\ handler[k].stage = "entered"
        BY <1>2 DEF Submit
    <2>2. ~Known(c)
        BY <2>1 DEF HeldInv, HandlerInv
    <2> HIDE DEF c
    <2>3. c \in Calls => Turns(c) <= overdue[c]
        <3>1. ItemsOf(c) = {} /\ InHand(c) = 0 /\ answers[c] = 0
            BY <2>2 DEF Known, IsQueued, ItemsOf, InHand
        <3> QED BY <3>1, FS_EmptySet, TurnsTypes DEF Turns
    <2> QED BY <2>1, <2>3 DEF TurnsInv, Turns, ItemsOf, InHand
<1>3. ASSUME NEW k \in Conns, ReceiveCancel(k) PROVE TurnsInv'
    <2> DEFINE c == Head(toServer[k]).call
    <2>1. CASE c \in running
        <3>1. AddForCleanup({StopItem(c, k)}) /\ UNCHANGED <<running, cleaning, answers>>
            BY <1>3, <2>1 DEF ReceiveCancel
        <3> QED BY <3>1, TurnsAdded
    <2>2. CASE c \notin running
        BY <1>0, <1>3, <2>2 DEF ReceiveCancel
    <2> QED BY <2>1, <2>2
<1>4. ASSUME NEW k \in Conns, CloseConn(k) PROVE TurnsInv'
    <2> DEFINE T(S) == {StopItem(c, 0) : c \in S} \cup
                           (IF markers[k] = {} /\ k \in owners THEN {ObjectItem} ELSE {})
    <2>1. PICK S \in SUBSET fns[k] : AddForCleanup(T(S))
        BY <1>4 DEF CloseConn
    <2>2. UNCHANGED <<running, cleaning, answers>>
        BY <1>4 DEF CloseConn
    <2>3. \A i \in T(S) : i = StopItem(i.id, 0)
        BY DEF ObjectItem, StopItem
    <2> HIDE DEF T
    <2> QED BY <2>1, <2>2, <2>3, TurnsAdded
<1>5. ASSUME StartTask PROVE TurnsInv'
    BY <1>0, <1>5 DEF StartTask, cleanVars
<1>6. ASSUME NEW c \in Calls, FinishTask(c) PROVE TurnsInv'
    <2> DEFINE i == [id |-> c, nth |-> overdue[c], answer |-> home[c], first |-> role[c] = "first",
                     value |-> IF role[c] = "follower" THEN memo ELSE c]
    <2>1. AddForCleanup({i}) /\ UNCHANGED <<running, cleaning, answers>>
        BY <1>6 DEF FinishTask
    <2> HIDE DEF i
    <2> QED BY <2>1, TurnsAdded
<1>7. ASSUME TakeItem PROVE TurnsInv'
    <2>1. PICK i \in cleanup :
              /\ cleanup' = cleanup \ {i} /\ running' = running \ {i.id}
              /\ cleaning' = IF i.answer = 0 THEN NoItem ELSE i
        BY <1>7 DEF TakeItem
    <2>2. UNCHANGED <<cleaned, overdue, answers>> /\ cleaning = NoItem
        BY <1>7 DEF TakeItem
    <2> SUFFICES ASSUME NEW c \in Calls
                 PROVE  /\ IsFiniteSet(ItemsOf(c)') /\ Turns(c)' \in Nat /\ Turns(c)' <= Turns(c)
        <3>1. ASSUME NEW c \in Calls, Turns(c)' \in Nat, Turns(c)' <= Turns(c)
              PROVE  \A n \in Nat : Turns(c) <= n => Turns(c)' <= n
            <4>1. Turns(c) \in Nat
                BY TurnsTypes DEF Turns
            <4> QED BY <3>1, <4>1
        <3>2. \A c \in Calls : overdue[c] \in Nat /\ overdue[c] + 1 \in Nat
            BY TurnsTypes
        <3> HIDE DEF Turns
        <3> QED BY <2>1, <2>2, <3>1, <3>2 DEF TurnsInv
    <2>3. InHand(c) = 0
        BY <2>2, RemoteAssumption DEF InHand, NoItem
    <2>4. IsFiniteSet(ItemsOf(c))
        BY DEF TurnsInv
    <2>5. CASE i.id = c
        <3>1. ItemsOf(c)' = ItemsOf(c) \ {i} /\ i \in ItemsOf(c)
            BY <2>1, <2>5 DEF ItemsOf
        <3>2. IsFiniteSet(ItemsOf(c)') /\ Cardinality(ItemsOf(c)') = Cardinality(ItemsOf(c)) - 1
            BY <2>4, <3>1, FS_RemoveElement
        <3>3. InHand(c)' \in {0, 1} /\ Cardinality(ItemsOf(c)') \in Nat
            BY <3>2, FS_CardinalityType DEF InHand
        <3> QED BY <2>2, <2>3, <3>2, <3>3, TurnsTypes DEF Turns
    <2>6. CASE i.id # c
        <3>1. ItemsOf(c)' = ItemsOf(c)
            BY <2>1, <2>6 DEF ItemsOf
        <3>2. InHand(c)' = 0
            BY <2>1, <2>6, RemoteAssumption DEF InHand, NoItem
        <3> QED BY <2>2, <2>3, <2>4, <3>1, <3>2, TurnsTypes DEF Turns
    <2> QED BY <2>5, <2>6
<1>8. ASSUME Answer PROVE TurnsInv'
    <2>1. /\ UNCHANGED <<cleaned, cleanup, overdue, running>> /\ cleaning # NoItem
          /\ cleaning' = NoItem /\ answers' = [answers EXCEPT ![cleaning.id] = @ + 1]
        BY <1>8 DEF Answer, cleanVars
    <2>2. answers \in [Calls -> Nat] /\ cleaning.id \in Calls
        BY <2>1 DEF TypeInv, TypeOK, ServerTypeOK, ItemsOK
    <2> SUFFICES ASSUME NEW c \in Calls PROVE Turns(c)' = Turns(c) /\ ItemsOf(c)' = ItemsOf(c)
        BY <2>1 DEF TurnsInv
    <2>3. InHand(c)' = 0 /\ ItemsOf(c)' = ItemsOf(c)
        BY <2>1, RemoteAssumption DEF InHand, NoItem, ItemsOf
    <2>4. answers'[c] = answers[c] + InHand(c)
        BY <2>1, <2>2 DEF InHand
    <2> QED BY <2>3, <2>4, TurnsTypes DEF Turns
<1>9. ASSUME NEW x \in Calls \cup {Object}, ForgetCleaned(x) PROVE TurnsInv'
    <2>1. /\ UNCHANGED <<cleanup, cleaning, answers, running>> /\ cleaned' = cleaned \ {x}
          /\ x \in Calls => IsQueued(x)
          /\ overdue' = IF IsQueued(x) THEN [overdue EXCEPT ![x] = @ + 1] ELSE overdue
        BY <1>9 DEF ForgetCleaned
    <2>2. overdue \in [Calls \cup {Object} -> Nat]
        BY DEF TypeInv, TypeOK, ServerTypeOK
    <2> SUFFICES ASSUME NEW c \in Calls
                 PROVE  /\ Turns(c)' <= overdue'[c] + 1
                        /\ c \in running' \ cleaned' => Turns(c)' <= overdue'[c]
        BY <2>1 DEF TurnsInv, ItemsOf
    <2>3. Turns(c)' = Turns(c) /\ Turns(c) \in Nat
        BY <2>1, TurnsTypes DEF Turns, ItemsOf, InHand
    <2>4. Turns(c) <= overdue[c] + 1 /\ (c \in running \ cleaned => Turns(c) <= overdue[c])
        BY DEF TurnsInv
    <2>5. CASE c = x
        <3>1. overdue'[c] = overdue[c] + 1 /\ overdue[c] \in Nat
            BY <2>1, <2>2, <2>5
        <3> QED BY <2>3, <2>4, <3>1
    <2>6. CASE c # x
        <3>1. overdue'[c] = overdue[c]
            BY <2>1, <2>2, <2>6
        <3> QED BY <2>1, <2>3, <2>4, <2>6, <3>1
    <2> QED BY <2>5, <2>6
<1> QED BY <1>1, <1>2, <1>3, <1>4, <1>5, <1>6, <1>7, <1>8, <1>9 DEF ServerNext

LEMMA TurnsStep ==
    ASSUME TypeInv, HeldInv, TurnsInv, [Next]_vars
    PROVE  TurnsInv'
<1>1. CASE ServerNext
    BY <1>1, TurnsServer
<1>2. CASE ClientNext \/ UNCHANGED vars
    <2>1. UNCHANGED <<cleaned, cleanup, overdue, running, cleaning, answers>>
        BY <1>2, ClientLeaves DEF vars, serverVars, cleanVars
    <2> QED BY <2>1 DEF TurnsInv, Turns, ItemsOf, InHand
<1> QED BY <1>1, <1>2 DEF Next

(* A call is answered again only after its uid left alreadyCleaned while   *)
(* its item was still queued, once for each time: whatever order its       *)
(* completion, its cancellations and the closing of its connection come    *)
(* in, and however late the cleanup thread is, addForCleanup lets a call   *)
(* into the queue once per stay of its uid in alreadyCleaned.              *)
THEOREM AnswersBoundedTheorem == Spec => []AnswersBounded
<1> DEFINE AllInv == TypeInv /\ FirstInv /\ HeldInv /\ TurnsInv
<1>1. Init => AllInv
    <2> SUFFICES ASSUME Init PROVE HeldInv /\ TurnsInv
        BY InitType, FirstInitially
    <2>1. HeldInv
        BY HeldInitially
    <2>2. ASSUME NEW c \in Calls PROVE ItemsOf(c) = {} /\ InHand(c) = 0 /\ answers[c] = 0 /\ overdue[c] = 0
        BY RemoteAssumption DEF Init, ServerInit, ItemsOf, InHand, NoItem
    <2>3. running = {}
        BY DEF Init, ServerInit
    <2>4. TurnsInv
        BY <2>2, <2>3, FS_EmptySet DEF TurnsInv, Turns
    <2> QED BY <2>1, <2>4
<1>2. AllInv /\ [Next]_vars => AllInv'
    BY TypeStep, FirstStep, HeldStep, TurnsStep
<1>3. AllInv => AnswersBounded
    <2> SUFFICES ASSUME AllInv, NEW c \in Calls PROVE answers[c] <= 1 + overdue[c]
        BY DEF AnswersBounded
    <2>1. Turns(c) <= overdue[c] + 1
        BY DEF TurnsInv
    <2> QED BY <2>1, TurnsTypes DEF Turns
<1> HIDE DEF AllInv
<1> QED BY <1>1, <1>2, <1>3, PTL DEF Spec
=============================================================================
