--------------------------- MODULE RemoteTypeProofs ---------------------------
(***************************************************************************)
(* Type correctness of RemoteCalls, for all constants.  TypeOK alone is    *)
(* not inductive: which value an answer carries, and to whom it goes, is   *)
(* decided when an item is queued for cleanup.                             *)
(***************************************************************************)
EXTENDS RemoteCalls, TLAPS

\* Only items of calls have somebody to answer, and the first caller of a
\* single-instance function brings its own value.
ItemsOK ==
    /\ \A i \in cleanup : (i.id = Object => i.answer = 0) /\ (i.first => i.value \in Calls)
    /\ cleaning # NoItem =>
          /\ cleaning.id \in Calls /\ cleaning.answer \in Conns
          /\ cleaning.first => cleaning.value \in Calls

\* A call that has begun has its connection.
ChosenOK == \A c \in Calls : phase[c] # "idle" => via[c] \in Conns

TypeInv == TypeOK /\ ItemsOK /\ ChosenOK

-----------------------------------------------------------------------------
(* Messages, answers and items of the cleanup queue                        *)

Message == [type : {"call", "cancel"}, call : Calls]
Reply == [call : Calls, value : Values]

LEMMA SeqTail ==
    ASSUME NEW S, NEW q \in Seq(S), q # <<>>
    PROVE  Head(q) \in S /\ Tail(q) \in Seq(S)
OBVIOUS

LEMMA StreamTail ==
    ASSUME NEW S, NEW f \in [Conns -> Seq(S)], NEW k \in Conns, f[k] # <<>>
    PROVE  Head(f[k]) \in S /\ [f EXCEPT ![k] = Tail(@)] \in [Conns -> Seq(S)]
<1>1. f[k] \in Seq(S)
    OBVIOUS
<1>2. Head(f[k]) \in S /\ Tail(f[k]) \in Seq(S)
    BY <1>1, SeqTail
<1> QED BY <1>2

LEMMA StreamAppend ==
    ASSUME NEW S, NEW f \in [Conns -> Seq(S)], NEW k \in Conns, NEW x \in S
    PROVE  [f EXCEPT ![k] = Append(@, x)] \in [Conns -> Seq(S)]
<1>1. Append(f[k], x) \in Seq(S)
    OBVIOUS
<1> QED BY <1>1

LEMMA StopItemType ==
    ASSUME ServerTypeOK, NEW c \in Calls \cup {Object}, NEW k \in Conns \cup {0}
    PROVE  StopItem(c, k) \in Items
<1>1. overdue[c] \in Nat
    BY DEF ServerTypeOK
<1> QED BY <1>1 DEF StopItem, Items, Values

LEMMA QueueNewSubset == \A S : QueueNew(S) \subseteq S
BY DEF QueueNew

LEMMA AddForCleanupType ==
    ASSUME ServerTypeOK, NEW S, S \subseteq Items, AddForCleanup(S)
    PROVE  cleaned' \subseteq Calls \cup {Object} /\ cleanup' \subseteq Items /\ overdue' = overdue
<1>1. QueueNew(S) \subseteq Items
    BY QueueNewSubset
<1>2. {i.id : i \in QueueNew(S)} \subseteq Calls \cup {Object}
    BY <1>1 DEF Items
<1> QED BY <1>1, <1>2 DEF AddForCleanup, ServerTypeOK

LEMMA CancelTasksType ==
    ASSUME ServerTypeOK, NEW S, S \subseteq Calls, CancelTasks(S)
    PROVE  cancelled' \subseteq Calls
BY DEF CancelTasks, ServerTypeOK

-----------------------------------------------------------------------------
(* The server                                                              *)

LEMMA ReceiveCallType ==
    ASSUME ServerTypeOK, NEW k \in Conns, ReceiveCall(k)
    PROVE  ServerTypeOK'
<1> DEFINE c == Head(toServer[k]).call
<1> USE DEF ReceiveCall, Incoming
<1>1. toServer \in [Conns -> Seq(Message)]
    BY DEF ServerTypeOK, Message
<1>2. Head(toServer[k]) \in Message /\ toServer' \in [Conns -> Seq(Message)]
    BY <1>1, StreamTail
<1>3. c \in Calls
    BY <1>2 DEF Message
<1>4. RoleOf(c) \in {"own", "first", "follower"}
    BY DEF RoleOf
<1>5. role' \in [Calls -> {"none", "own", "first", "follower"}]
    BY <1>3, <1>4 DEF ServerTypeOK
<1>6. home' \in [Calls -> Conns \cup {0}]
    BY <1>3 DEF ServerTypeOK
<1>7. /\ handler' \in [Conns -> [stage : {"idle", "entered", "submitted"}, call : Calls \cup {NoCall}]]
      /\ \A j \in Conns : handler'[j].stage = "idle" <=> handler'[j].call = NoCall
    BY <1>3, RemoteAssumption DEF ServerTypeOK
<1>8. inCache' \in BOOLEAN /\ owners' \subseteq Conns
    BY DEF ServerTypeOK
<1>9. toServer' \in [Conns -> Seq([type : {"call", "cancel"}, call : Calls])]
    BY <1>2 DEF Message
<1> QED BY <1>5, <1>6, <1>7, <1>8, <1>9 DEF ServerTypeOK, poolVars, cleanVars

LEMMA SubmitType ==
    ASSUME ServerTypeOK, NEW k \in Conns, Submit(k)
    PROVE  ServerTypeOK'
<1> USE DEF Submit
<1>1. handler[k].call \in Calls
    BY DEF ServerTypeOK
<1>2. pool' \in Seq(Calls) /\ running' \subseteq Calls
    BY <1>1 DEF ServerTypeOK
<1>3. handler[k] \in [stage : {"idle", "entered", "submitted"}, call : Calls \cup {NoCall}]
    BY DEF ServerTypeOK
<1>4. /\ handler'[k] = [handler[k] EXCEPT !.stage = "submitted"]
      /\ \A j \in Conns \ {k} : handler'[j] = handler[j]
    BY DEF ServerTypeOK
<1>5. /\ handler'[k] \in [stage : {"idle", "entered", "submitted"}, call : Calls \cup {NoCall}]
      /\ handler'[k].call = handler[k].call /\ handler'[k].stage = "submitted"
    BY <1>3, <1>4
<1>6. handler' \in [Conns -> [stage : {"idle", "entered", "submitted"}, call : Calls \cup {NoCall}]]
    <2>1. handler' = [j \in Conns |-> handler'[j]]
        BY DEF ServerTypeOK
    <2> QED BY <1>4, <1>5, <2>1 DEF ServerTypeOK
<1>7. \A j \in Conns : handler'[j].stage = "idle" <=> handler'[j].call = NoCall
    BY <1>1, <1>4, <1>5, RemoteAssumption DEF ServerTypeOK
<1> QED BY <1>2, <1>6, <1>7 DEF ServerTypeOK, objectVars

LEMMA RegisterType ==
    ASSUME ServerTypeOK, NEW k \in Conns, Register(k)
    PROVE  ServerTypeOK'
<1> USE DEF Register
<1>1. handler[k].call \in Calls
    BY DEF ServerTypeOK
<1>2. fns' \in [Conns -> SUBSET Calls] /\ markers' \in [Conns -> SUBSET Calls]
    BY <1>1 DEF ServerTypeOK
<1>3. /\ handler' \in [Conns -> [stage : {"idle", "entered", "submitted"}, call : Calls \cup {NoCall}]]
      /\ \A j \in Conns : handler'[j].stage = "idle" <=> handler'[j].call = NoCall
    BY RemoteAssumption DEF ServerTypeOK, Idle
<1> QED BY <1>2, <1>3 DEF ServerTypeOK, objectVars, poolVars, cleanVars

LEMMA ReceiveCancelType ==
    ASSUME ServerTypeOK, NEW k \in Conns, ReceiveCancel(k)
    PROVE  ServerTypeOK'
<1> DEFINE c == Head(toServer[k]).call
<1> USE DEF ReceiveCancel, Incoming
<1>1. toServer \in [Conns -> Seq(Message)]
    BY DEF ServerTypeOK, Message
<1>2. Head(toServer[k]) \in Message /\ toServer' \in [Conns -> Seq(Message)]
    BY <1>1, StreamTail
<1>3. c \in Calls
    BY <1>2 DEF Message
<1>4. {StopItem(c, k)} \subseteq Items
    BY <1>3, StopItemType
<1>5. cancelled' \subseteq Calls
    BY <1>3, CancelTasksType DEF ServerTypeOK
<1>6. /\ cleaned' \subseteq Calls \cup {Object} /\ cleanup' \subseteq Items
      /\ overdue' = overdue
    BY <1>4, AddForCleanupType DEF ServerTypeOK
<1>7. toServer' \in [Conns -> Seq([type : {"call", "cancel"}, call : Calls])]
    BY <1>2 DEF Message
<1> QED BY <1>5, <1>6, <1>7 DEF ServerTypeOK, objectVars

LEMMA StartTaskType ==
    ASSUME ServerTypeOK, StartTask
    PROVE  ServerTypeOK'
<1> USE DEF StartTask
<1>1. Head(pool) \in Calls /\ pool' \in Seq(Calls)
    BY SeqTail DEF ServerTypeOK
<1>2. workers' \subseteq Calls /\ executed' \subseteq Calls
    BY <1>1 DEF ServerTypeOK
<1> QED BY <1>1, <1>2 DEF ServerTypeOK, connVars, objectVars, cleanVars

LEMMA FinishTaskType ==
    ASSUME ServerTypeOK, NEW c \in Calls, FinishTask(c)
    PROVE  ServerTypeOK'
<1> USE DEF FinishTask
<1> DEFINE i == [id |-> c, nth |-> overdue[c], answer |-> home[c], first |-> role[c] = "first",
                 value |-> IF role[c] = "follower" THEN memo ELSE c]
<1>1. home[c] \in Conns \cup {0} /\ overdue[c] \in Nat /\ (IF role[c] = "follower" THEN memo ELSE c) \in Values
    BY DEF ServerTypeOK, Values
<1>2. i \in Items
    BY <1>1, Zenon DEF Items
<1>3. cleaned' \subseteq Calls \cup {Object} /\ cleanup' \subseteq Items /\ overdue' = overdue
    BY <1>2, AddForCleanupType
<1>4. workers' \subseteq Calls
    BY DEF ServerTypeOK
<1> QED BY <1>3, <1>4 DEF ServerTypeOK, connVars, objectVars

LEMMA TakeItemType ==
    ASSUME ServerTypeOK, TakeItem
    PROVE  ServerTypeOK'
<1> USE DEF TakeItem
<1>1. PICK i \in cleanup : /\ cleanup' = cleanup \ {i} /\ running' = running \ {i.id}
                           /\ inCache' = (inCache /\ i.id # Object)
                           /\ cleaning' = IF i.answer = 0 THEN NoItem ELSE i
    OBVIOUS
<1>2. cleaning' \in Items \cup {NoItem}
    BY <1>1 DEF ServerTypeOK
<1>3. cleanup' \subseteq Items /\ running' \subseteq Calls
    BY <1>1 DEF ServerTypeOK
<1>4. inCache' \in BOOLEAN
    BY <1>1, Zenon
<1> QED BY <1>2, <1>3, <1>4 DEF ServerTypeOK, connVars, poolVars

LEMMA AnswerType ==
    ASSUME ServerTypeOK, ItemsOK, Answer
    PROVE  ServerTypeOK'
<1> USE DEF Answer
<1>a. /\ cleaning \in Items /\ cleaning.id \in Calls /\ cleaning.answer \in Conns
      /\ cleaning.first => cleaning.value \in Calls
    BY DEF ServerTypeOK, ItemsOK, Items
<1>1. cleaning.value \in Values
    BY <1>a DEF Items
<1>2. memo' \in Calls \cup {NoCall}
    BY <1>a DEF ServerTypeOK
<1>3. answers' \in [Calls -> Nat]
    BY <1>a DEF ServerTypeOK
<1>4. [call |-> cleaning.id, value |-> cleaning.value] \in Reply
    BY <1>1, <1>a DEF Reply
<1>5. toClient \in [Conns -> Seq(Reply)]
    BY DEF ServerTypeOK, Reply
<1>6. toClient' \in [Conns -> Seq(Reply)]
    BY <1>4, <1>5, <1>a, StreamAppend
<1>7. fns' \in [Conns -> SUBSET Calls] /\ markers' \in [Conns -> SUBSET Calls]
    BY <1>a DEF ServerTypeOK
<1>8. cleaning' \in Items \cup {NoItem}
    OBVIOUS
<1>9. toClient' \in [Conns -> Seq([call : Calls, value : Values])]
    BY <1>6 DEF Reply
<1> QED BY <1>2, <1>3, <1>7, <1>8, <1>9 DEF ServerTypeOK, poolVars, cleanVars, objectVars

LEMMA ForgetCleanedType ==
    ASSUME ServerTypeOK, NEW x \in Calls \cup {Object}, ForgetCleaned(x)
    PROVE  ServerTypeOK'
<1>1. overdue' \in [Calls \cup {Object} -> Nat] /\ cleaned' \subseteq Calls \cup {Object}
    BY DEF ServerTypeOK, ForgetCleaned
<1> QED BY <1>1 DEF ServerTypeOK, ForgetCleaned, connVars, poolVars, objectVars

LEMMA CloseConnType ==
    ASSUME ServerTypeOK, NEW k \in Conns, CloseConn(k)
    PROVE  ServerTypeOK'
<1> USE DEF CloseConn
<1>1. PICK S \in SUBSET fns[k] :
          /\ CancelTasks(S)
          /\ AddForCleanup({StopItem(c, 0) : c \in S} \cup
                 (IF markers[k] = {} /\ k \in owners THEN {ObjectItem} ELSE {}))
    OBVIOUS
<1>2. S \subseteq Calls
    BY DEF ServerTypeOK
<1>3. {StopItem(c, 0) : c \in S} \subseteq Items /\ {ObjectItem} \subseteq Items
    BY <1>2, StopItemType DEF ObjectItem
<1>4. cancelled' \subseteq Calls
    BY <1>1, <1>2, CancelTasksType
<1>5. cleaned' \subseteq Calls \cup {Object} /\ cleanup' \subseteq Items /\ overdue' = overdue
    BY <1>1, <1>3, AddForCleanupType
<1>6. <<>> \in Seq([type : {"call", "cancel"}, call : Calls])
    OBVIOUS
<1>7. toServer' \in [Conns -> Seq([type : {"call", "cancel"}, call : Calls])]
    BY <1>6 DEF ServerTypeOK
<1>8. srv' \in [Conns -> {"unused", "open", "closed"}] /\ spoiled' \subseteq Conns
    BY DEF ServerTypeOK
<1> QED BY <1>4, <1>5, <1>7, <1>8 DEF ServerTypeOK, objectVars

-----------------------------------------------------------------------------
(* What is known of the items                                              *)

LEMMA ItemsAdded ==
    ASSUME ItemsOK, UNCHANGED cleaning, NEW S, AddForCleanup(S),
           \A i \in S : (i.id = Object => i.answer = 0) /\ (i.first => i.value \in Calls)
    PROVE  ItemsOK'
<1>1. cleanup' \subseteq cleanup \cup S
    BY QueueNewSubset DEF AddForCleanup
<1> QED BY <1>1 DEF ItemsOK

LEMMA StopItemOK ==
    ASSUME NEW c, NEW k, k = 0 \/ c # Object
    PROVE  LET i == StopItem(c, k)
           IN  (i.id = Object => i.answer = 0) /\ (i.first => i.value \in Calls)
BY DEF StopItem

LEMMA ItemsStep ==
    ASSUME TypeOK, ItemsOK, ServerNext
    PROVE  ItemsOK'
<1>1. ASSUME UNCHANGED <<cleanup, cleaning>> PROVE ItemsOK'
    BY <1>1 DEF ItemsOK
<1>2. ASSUME NEW k \in Conns, ReceiveCall(k) \/ Submit(k) \/ Register(k) PROVE ItemsOK'
    BY <1>1, <1>2 DEF ReceiveCall, Submit, Register, cleanVars
<1>3. ASSUME NEW k \in Conns, ReceiveCancel(k) PROVE ItemsOK'
    <2> DEFINE c == Head(toServer[k]).call
    <2>1. toServer[k] # <<>> /\ toServer \in [Conns -> Seq(Message)]
        BY <1>3 DEF ReceiveCancel, Incoming, TypeOK, ServerTypeOK, Message
    <2>a. Head(toServer[k]) \in Message
        BY <2>1, StreamTail
    <2>2. c # Object
        BY <2>a, RemoteAssumption DEF Message
    <2>3. CASE c \in running
        <3>1. AddForCleanup({StopItem(c, k)}) /\ UNCHANGED cleaning
            BY <1>3, <2>3 DEF ReceiveCancel
        <3> QED BY <2>2, <3>1, ItemsAdded, StopItemOK
    <2>4. CASE c \notin running
        BY <1>1, <1>3, <2>4 DEF ReceiveCancel
    <2> QED BY <2>3, <2>4
<1>4. ASSUME NEW k \in Conns, CloseConn(k) PROVE ItemsOK'
    <2>1. PICK S \in SUBSET fns[k] :
              AddForCleanup({StopItem(c, 0) : c \in S} \cup
                  (IF markers[k] = {} /\ k \in owners THEN {ObjectItem} ELSE {}))
        BY <1>4 DEF CloseConn
    <2>2. UNCHANGED cleaning
        BY <1>4 DEF CloseConn
    <2> QED BY <2>1, <2>2, ItemsAdded, StopItemOK DEF ObjectItem
<1>5. ASSUME StartTask PROVE ItemsOK'
    BY <1>1, <1>5 DEF StartTask, cleanVars
<1>6. ASSUME NEW c \in Calls, FinishTask(c) PROVE ItemsOK'
    <2> DEFINE i == [id |-> c, nth |-> overdue[c], answer |-> home[c], first |-> role[c] = "first",
                     value |-> IF role[c] = "follower" THEN memo ELSE c]
    <2>1. AddForCleanup({i}) /\ UNCHANGED cleaning
        BY <1>6 DEF FinishTask
    <2>2. (i.id = Object => i.answer = 0) /\ (i.first => i.value \in Calls)
        BY RemoteAssumption
    <2> HIDE DEF i
    <2> QED BY <2>1, <2>2, ItemsAdded
<1>7. ASSUME TakeItem PROVE ItemsOK'
    <2>1. PICK i \in cleanup : cleanup' = cleanup \ {i} /\ cleaning' = IF i.answer = 0 THEN NoItem ELSE i
        BY <1>7 DEF TakeItem
    <2>2. i \in Items
        BY DEF TypeOK, ServerTypeOK
    <2>3. i.id \in Calls \cup {Object} /\ i.answer \in Conns \cup {0}
        BY <2>2 DEF Items
    <2> QED BY <2>1, <2>3 DEF ItemsOK
<1>8. ASSUME Answer PROVE ItemsOK'
    BY <1>8 DEF Answer, ItemsOK, cleanVars
<1>9. ASSUME NEW x \in Calls \cup {Object}, ForgetCleaned(x) PROVE ItemsOK'
    BY <1>1, <1>9 DEF ForgetCleaned
<1> QED BY <1>2, <1>3, <1>4, <1>5, <1>6, <1>7, <1>8, <1>9 DEF ServerNext

LEMMA ServerStepType ==
    ASSUME TypeOK, ItemsOK, ServerNext
    PROVE  ServerTypeOK'
<1>1. ServerTypeOK
    BY DEF TypeOK
<1> QED
    BY <1>1, ReceiveCallType, SubmitType, RegisterType, ReceiveCancelType, CloseConnType,
       StartTaskType, FinishTaskType, TakeItemType, AnswerType, ForgetCleanedType
    DEF ServerNext

-----------------------------------------------------------------------------
(* The callers                                                             *)

\* What a step of the callers may change of the server's side.
LEMMA WireType ==
    ASSUME ServerTypeOK,
           link' \in [Conns -> {"unused", "open", "broken"}],
           toServer' \in [Conns -> Seq([type : {"call", "cancel"}, call : Calls])],
           toClient' \in [Conns -> Seq([call : Calls, value : Values])],
           srv' \in [Conns -> {"unused", "open", "closed"}],
           UNCHANGED <<handler, fns, markers, spoiled, poolVars, cleanVars,
                       objectVars, home, role, memo, cleaning, answers>>
    PROVE  ServerTypeOK'
BY DEF ServerTypeOK, poolVars, cleanVars, objectVars

LEMMA BeginType ==
    ASSUME TypeOK, NEW c \in Calls, Begin(c)
    PROVE  TypeOK'
<1>1. PICK k \in Conns :
          /\ via' = [via EXCEPT ![c] = k]
          /\ IF c \in Methods /\ objConn # 0
             THEN k = objConn /\ UNCHANGED <<link, srv, conn, fnuid, objOn>>
             ELSE GetConn(c, k)
    BY DEF Begin
<1>2. /\ link' \in [Conns -> {"unused", "open", "broken"}]
      /\ srv' \in [Conns -> {"unused", "open", "closed"}]
      /\ conn' \in Conns \cup {0}
      /\ fnuid' \in [Conns -> SUBSET Calls] /\ objOn' \subseteq Conns
    <2>1. CASE c \in Methods /\ objConn # 0
        BY <1>1, <2>1 DEF TypeOK, ServerTypeOK
    <2>2. CASE ~(c \in Methods /\ objConn # 0)
        <3>1. GetConn(c, k)
            BY <1>1, <2>2
        <3>2. fnuid' \in [Conns -> SUBSET Calls] /\ objOn' \subseteq Conns
            BY <3>1 DEF TypeOK, GetConn
        <3> QED BY ZenonT(60), <3>1, <3>2 DEF TypeOK, ServerTypeOK, GetConn, Connect
    <2> QED BY <2>1, <2>2
<1>3. via' \in [Calls -> Conns \cup {0}]
    BY <1>1 DEF TypeOK
<1>4. phase' \in [Calls -> {"idle", "chosen", "unsent", "waiting", "returned", "failed", "timedout"}]
    BY DEF TypeOK, Begin
<1>5. ServerTypeOK'
    BY <1>2, WireType DEF TypeOK, ServerTypeOK, Begin
<1> QED BY <1>2, <1>3, <1>4, <1>5 DEF TypeOK, Begin

LEMMA CallSent ==
    ASSUME ServerTypeOK, NEW k \in Conns, NEW c \in Calls, NEW t \in {"call", "cancel"}
    PROVE  [toServer EXCEPT ![k] = Append(@, [type |-> t, call |-> c])]
               \in [Conns -> Seq([type : {"call", "cancel"}, call : Calls])]
<1>1. [type |-> t, call |-> c] \in [type : {"call", "cancel"}, call : Calls]
    OBVIOUS
<1> QED BY <1>1, StreamAppend DEF ServerTypeOK

\* A call goes out on the connection that was chosen for it.
LEMMA SendType ==
    ASSUME TypeOK, NEW c \in Calls, Send(c), via[c] \in Conns
    PROVE  TypeOK'
<1>1. toServer' \in [Conns -> Seq([type : {"call", "cancel"}, call : Calls])]
    <2>1. \/ UNCHANGED toServer
          \/ toServer' = [toServer EXCEPT ![via[c]] = Append(@, [type |-> "call", call |-> c])]
        BY DEF Send, Transmit
    <2>2. [toServer EXCEPT ![via[c]] = Append(@, [type |-> "call", call |-> c])]
              \in [Conns -> Seq([type : {"call", "cancel"}, call : Calls])]
        BY CallSent DEF TypeOK
    <2> QED BY <2>1, <2>2 DEF TypeOK, ServerTypeOK
<1>2. phase' \in [Calls -> {"idle", "chosen", "unsent", "waiting", "returned", "failed", "timedout"}]
    BY DEF TypeOK, Send, Transmit
<1>3. objConn' \in Conns \cup {0}
    BY DEF TypeOK, Send
<1>4. ServerTypeOK'
    BY <1>1, WireType DEF TypeOK, ServerTypeOK, Send
<1> QED BY <1>2, <1>3, <1>4 DEF TypeOK, Send

LEMMA ReceiveResultType ==
    ASSUME TypeOK, NEW k \in Conns, ReceiveResult(k)
    PROVE  TypeOK'
<1> DEFINE r == Head(toClient[k])
<1>1. toClient \in [Conns -> Seq(Reply)] /\ toClient[k] # <<>>
    BY DEF TypeOK, ServerTypeOK, Reply, ReceiveResult
<1>2. r \in Reply /\ toClient' \in [Conns -> Seq(Reply)]
    BY <1>1, StreamTail DEF ReceiveResult
<1>3. r.call \in Calls /\ r.value \in Values
    BY <1>2 DEF Reply
<1>4. results' \in [Calls -> Values \cup {NoCall}] /\ woken' \subseteq Calls
    BY <1>3 DEF TypeOK, ReceiveResult
<1>5. ServerTypeOK'
    BY <1>2, WireType DEF TypeOK, ServerTypeOK, ReceiveResult, Reply
<1> QED BY <1>4, <1>5 DEF TypeOK, ReceiveResult

LEMMA ServerKept ==
    ASSUME ServerTypeOK, UNCHANGED serverVars
    PROVE  ServerTypeOK'
BY DEF ServerTypeOK, serverVars, connVars, poolVars, cleanVars, objectVars

LEMMA ReturnType ==
    ASSUME TypeOK, NEW c \in Calls, Return(c)
    PROVE  TypeOK'
<1>1. ServerTypeOK'
    BY ServerKept DEF TypeOK, Return
<1> QED BY <1>1 DEF TypeOK, Return

LEMMA CancelSent ==
    ASSUME TypeOK, NEW c \in Calls, SendCancel(c)
    PROVE  toServer' \in [Conns -> Seq([type : {"call", "cancel"}, call : Calls])]
BY CallSent DEF TypeOK, ServerTypeOK, SendCancel

LEMMA TimeoutType ==
    ASSUME TypeOK, NEW c \in Calls, Timeout(c)
    PROVE  TypeOK'
<1>1. ServerTypeOK'
    BY CancelSent, WireType DEF TypeOK, ServerTypeOK, Timeout
<1> QED BY <1>1 DEF TypeOK, Timeout

LEMMA CancelTaskType ==
    ASSUME TypeOK, NEW c \in Calls, CancelTask(c)
    PROVE  TypeOK'
<1>1. ServerTypeOK'
    BY CancelSent, WireType DEF TypeOK, ServerTypeOK, CancelTask
<1> QED BY <1>1 DEF TypeOK, CancelTask

LEMMA BreakType ==
    ASSUME TypeOK, NEW k \in Conns, Break(k)
    PROVE  TypeOK'
<1>1. ServerTypeOK'
    BY WireType DEF TypeOK, ServerTypeOK, Break
<1> QED BY <1>1 DEF TypeOK, Break, clientVars, callerVars

LEMMA CloseClientConnType ==
    ASSUME TypeOK, NEW k \in Conns, CloseClientConn(k)
    PROVE  TypeOK'
<1>1. <<>> \in Seq([call : Calls, value : Values])
    OBVIOUS
<1>2. toClient' \in [Conns -> Seq([call : Calls, value : Values])]
    BY <1>1 DEF TypeOK, ServerTypeOK, CloseClientConn
<1>3. ServerTypeOK'
    BY <1>2, WireType DEF TypeOK, ServerTypeOK, CloseClientConn
<1>4. woken' \subseteq Calls /\ objFailed' \in BOOLEAN /\ objConn' \in Conns \cup {0} /\ conn' = 0
    BY DEF TypeOK, CloseClientConn
<1> QED BY <1>3, <1>4 DEF TypeOK, CloseClientConn

-----------------------------------------------------------------------------
(* Every step, and the specification                                       *)

LEMMA InitType ==
    ASSUME Init
    PROVE  TypeInv
<1>1. ServerTypeOK
    <2> USE DEF Init, ServerInit
    <2>1. /\ toServer \in [Conns -> Seq([type : {"call", "cancel"}, call : Calls])]
          /\ toClient \in [Conns -> Seq([call : Calls, value : Values])]
        <3>1. /\ <<>> \in Seq([type : {"call", "cancel"}, call : Calls])
              /\ <<>> \in Seq([call : Calls, value : Values])
            OBVIOUS
        <3> QED BY <3>1
    <2>2. handler \in [Conns -> [stage : {"idle", "entered", "submitted"}, call : Calls \cup {NoCall}]]
        BY DEF Idle
    <2>3. \A k \in Conns : handler[k].stage = "idle" <=> handler[k].call = NoCall
        BY DEF Idle
    <2>4. pool \in Seq(Calls) /\ cleanup \subseteq Items /\ cleaning \in Items \cup {NoItem}
        OBVIOUS
    <2>5. 0 \in Nat
        OBVIOUS
    <2>6. answers \in [Calls -> Nat]
        BY <2>5
    <2> QED BY <2>1, <2>2, <2>3, <2>4, <2>6 DEF ServerTypeOK
<1>2. TypeOK /\ ChosenOK
    BY <1>1 DEF Init, TypeOK, ChosenOK
<1>3. ItemsOK
    BY DEF Init, ServerInit, ItemsOK
<1> QED BY <1>1, <1>2, <1>3 DEF TypeInv

LEMMA ChosenStep ==
    ASSUME TypeOK, ChosenOK, ClientNext
    PROVE  ChosenOK'
<1>1. ASSUME NEW c \in Calls, Begin(c) PROVE ChosenOK'
    BY <1>1 DEF TypeOK, ChosenOK, Begin
<1>2. ASSUME NEW c \in Calls, Send(c) PROVE ChosenOK'
    BY <1>2 DEF TypeOK, ChosenOK, Send, Transmit
<1>3. ASSUME NEW c \in Calls, Return(c) PROVE ChosenOK'
    BY <1>3 DEF TypeOK, ChosenOK, Return
<1>4. ASSUME NEW c \in Calls, Timeout(c) PROVE ChosenOK'
    BY <1>4 DEF TypeOK, ChosenOK, Timeout
<1>5. ASSUME NEW c \in Calls, CancelTask(c) PROVE ChosenOK'
    BY <1>5 DEF TypeOK, ChosenOK, CancelTask
<1>6. ASSUME NEW k \in Conns, ReceiveResult(k) \/ Break(k) \/ CloseClientConn(k) PROVE ChosenOK'
    BY <1>6 DEF ChosenOK, ReceiveResult, Break, CloseClientConn, clientVars, callerVars
<1> QED BY <1>1, <1>2, <1>3, <1>4, <1>5, <1>6 DEF ClientNext

LEMMA ClientStepType ==
    ASSUME TypeOK, ChosenOK, ClientNext
    PROVE  TypeOK' /\ UNCHANGED <<cleanup, cleaning>>
<1>1. TypeOK'
    <2>1. ASSUME NEW c \in Calls, Send(c) PROVE TypeOK'
        BY <2>1, SendType DEF Send, ChosenOK
    <2> QED
        BY <2>1, BeginType, ReturnType, TimeoutType, CancelTaskType, ReceiveResultType,
           BreakType, CloseClientConnType
        DEF ClientNext
<1>2. UNCHANGED <<cleanup, cleaning>>
    BY DEF ClientNext, Begin, Send, Return, Timeout, CancelTask, ReceiveResult, Break,
           CloseClientConn, serverVars, cleanVars
<1> QED BY <1>1, <1>2

LEMMA TypeStep ==
    ASSUME TypeInv, [Next]_vars
    PROVE  TypeInv'
<1> USE DEF TypeInv
<1>1. CASE ClientNext
    <2>1. TypeOK' /\ UNCHANGED <<cleanup, cleaning>>
        BY <1>1, ClientStepType
    <2>2. ItemsOK'
        BY <2>1 DEF ItemsOK
    <2> QED BY <1>1, <2>1, <2>2, ChosenStep
<1>2. CASE ServerNext /\ UNCHANGED clientVars
    <2>1. ServerTypeOK' /\ ItemsOK'
        BY <1>2, ServerStepType, ItemsStep
    <2> QED BY <1>2, <2>1 DEF TypeOK, ChosenOK, clientVars, callerVars
<1>3. CASE UNCHANGED vars
    <2>1. UNCHANGED serverVars /\ UNCHANGED clientVars
        BY <1>3 DEF vars
    <2>2. ServerTypeOK'
        BY <2>1, ServerKept DEF TypeOK
    <2>3. TypeOK' /\ ChosenOK'
        BY <2>1, <2>2 DEF TypeOK, ChosenOK, clientVars, callerVars
    <2>4. ItemsOK'
        BY <2>1 DEF ItemsOK, serverVars, cleanVars
    <2> QED BY <2>3, <2>4
<1> QED BY <1>1, <1>2, <1>3 DEF Next

(* The variables of the remoted calls keep their types, for any calls,     *)
(* number of connections and size of the thread pool.                      *)
THEOREM RemoteTypeTheorem == Spec => []TypeOK
<1>1. Init => TypeInv
    BY InitType
<1>2. TypeInv /\ [Next]_vars => TypeInv'
    BY TypeStep
<1>3. TypeInv => TypeOK
    BY DEF TypeInv
<1> QED BY <1>1, <1>2, <1>3, PTL DEF Spec
=============================================================================
