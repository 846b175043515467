----------------------------- MODULE ServersProofs -----------------------------
(***************************************************************************)
(* Proofs about the servers of the GPU-offload controller, for any         *)
(* workloads, kinds, stages, pods and addresses.                           *)
(*   ServerReconcile: the servers of a workload that exists are covered by *)
(*   their policies, and a cleanup takes away no other workload's servers, *)
(*   but for kinds that have stages in common.                             *)
(*   ServerDiscovery: once the watch has caught up, the configuration file *)
(*   holds the servers there are, whatever the events and the restarts.    *)
(***************************************************************************)
EXTENDS ServerReconcile, ServerDiscovery, TLAPS

-----------------------------------------------------------------------------
(* Reconciliation *)

Work == [root : Roots \cup {NoRoot}, at : {"idle", "config", "servers", "orphans"},
         want : SUBSET Stages, todo : SUBSET Stages, half : Stages \cup {NoStage}]

ThreadOK(k, w) ==
    /\ w.root = NoRoot \/ (w.root \in past /\ KindOf[w.root] = k)
    /\ w.root = NoRoot <=> w.at = "idle"
    /\ w.at \in {"idle", "config"} => w.half = NoStage
    /\ w.half # NoStage => w.half \in w.todo

\* A thread has to do only with workloads of its kind.
ReconcileType ==
    /\ alive \subseteq past /\ past \subseteq Roots
    /\ config \in [KindSet -> SUBSET Stages]
    /\ deployed \in [Stages -> SUBSET past] /\ policy \in [Stages -> SUBSET Roots]
    /\ ownedBy \in [Stages -> SUBSET past] /\ removers \in [KindSet -> [Stages -> SUBSET KindSet]]
    /\ inbox \in [KindSet -> Seq(past)]
    /\ \A k \in KindSet : \A n \in 1..Len(inbox[k]) : KindOf[inbox[k][n]] = k
    /\ work \in [KindSet -> Work]
    /\ \A k \in KindSet : ThreadOK(k, work[k])

\* One workload of a kind exists at a time.
OneAlive == \A q, r \in alive : KindOf[q] = KindOf[r] => q = r

\* Behind a workload that exists, its thread has no other one to do.
Only(q) == \A n \in 1..Len(inbox[KindOf[q]]) : inbox[KindOf[q]][n] = q
InTurn ==
    \A q \in alive :
        /\ \A n \in 1..Len(inbox[KindOf[q]]) : inbox[KindOf[q]][n] = q =>
              \A m \in n..Len(inbox[KindOf[q]]) : inbox[KindOf[q]][m] = q
        /\ work[KindOf[q]].root = q => Only(q)
        /\ (\E s \in Stages : q \in deployed[s]) => work[KindOf[q]].root \in {NoRoot, q} /\ Only(q)

\* What owns a server has owned it, a cleanup is of a workload that has, and
\* so is every removal of a policy that a thread remembers.
Owners ==
    /\ \A s \in Stages : deployed[s] \subseteq ownedBy[s]
    /\ \A k \in KindSet : work[k].at = "orphans" => \A s \in work[k].todo : work[k].root \in ownedBy[s]
    /\ \A k \in KindSet : \A s \in Stages : \A l \in removers[k][s] : \E q \in ownedBy[s] : KindOf[q] = l

\* Every owner that exists owns the policy as well, or a cleanup removed it
\* after the owner's thread put it there.
Covered ==
    /\ \A s \in Stages : \A q \in deployed[s] \cap alive :
          q \in policy[s] \/ removers[KindOf[q]][s] # {}
    /\ \A k \in KindSet : \A s \in Stages :
          work[k].at = "servers" /\ work[k].half = s =>
              work[k].root \in policy[s] \/ work[k].root \notin alive \/ removers[k][s] # {}

ReconcileInv == ReconcileType /\ OneAlive /\ InTurn /\ Owners /\ Covered
-----------------------------------------------------------------------------
(* Queues of objects                                                       *)

LEMMA InboxType ==
    ASSUME ReconcileInv, NEW k \in KindSet
    PROVE  /\ inbox[k] \in Seq(past) /\ Len(inbox[k]) \in Nat
           /\ \A n \in 1..Len(inbox[k]) : inbox[k][n] \in past /\ KindOf[inbox[k][n]] = k
<1>1. inbox[k] \in Seq(past)
    BY DEF ReconcileInv, ReconcileType, ThreadOK
<1>2. Len(inbox[k]) \in Nat /\ \A n \in 1..Len(inbox[k]) : inbox[k][n] \in past
    BY <1>1
<1>3. \A n \in 1..Len(inbox[k]) : KindOf[inbox[k][n]] = k
    BY DEF ReconcileInv, ReconcileType, ThreadOK
<1> QED BY <1>1, <1>2, <1>3

LEMMA KindType ==
    ASSUME ReconcileInv, NEW q \in alive
    PROVE  KindOf[q] \in KindSet /\ q # NoRoot /\ q \in past
BY ReconcileAssumption DEF ReconcileInv, ReconcileType, ThreadOK

LEMMA ListingType ==
    ASSUME ReconcileInv, NEW k \in KindSet
    PROVE  /\ Listing(k) \in Seq(past)
           /\ \A n \in 1..Len(Listing(k)) : Listing(k)[n] \in alive /\ KindOf[Listing(k)[n]] = k
<1>1. CASE AliveOf(k) = {}
    BY <1>1 DEF Listing
<1>2. CASE AliveOf(k) # {}
    <2>1. PICK r \in AliveOf(k) : Listing(k) = <<r>>
        BY <1>2 DEF Listing
    <2>2. r \in alive /\ KindOf[r] = k /\ r \in past
        BY <2>1 DEF AliveOf, ReconcileInv, ReconcileType
    <2> QED BY <2>1, <2>2
<1> QED BY <1>1, <1>2

LEMMA Stable ==
    ASSUME ReconcileInv, UNCHANGED <<alive, past, config, deployed, policy, inbox, work, ownedBy, removers>>
    PROVE  ReconcileInv'
<1>1. ReconcileType'
    BY DEF ReconcileInv, ReconcileType, ThreadOK
<1>2. OneAlive' /\ InTurn' /\ Owners' /\ Covered'
    BY DEF ReconcileInv, OneAlive, InTurn, Only, Owners, Covered
<1> QED BY <1>1, <1>2 DEF ReconcileInv

\* The objects there are take the place of what a queue held.
LEMMA Relisted ==
    ASSUME ReconcileInv, NEW k \in KindSet, inbox' = [inbox EXCEPT ![k] = Listing(k)],
           UNCHANGED <<alive, past, config, deployed, policy, work, ownedBy, removers>>
    PROVE  ReconcileInv'
<1>1. inbox \in [KindSet -> Seq(past)]
    BY DEF ReconcileInv, ReconcileType, ThreadOK
<1>2. /\ inbox' \in [KindSet -> Seq(past)] /\ inbox'[k] = Listing(k)
      /\ \A l \in KindSet \ {k} : inbox'[l] = inbox[l]
    BY <1>1, ListingType
<1>3. ReconcileType'
    BY <1>2, ListingType DEF ReconcileInv, ReconcileType, ThreadOK
<1>4. ASSUME NEW q \in alive, KindOf[q] = k PROVE Only(q)'
    BY <1>2, <1>4, ListingType DEF ReconcileInv, OneAlive, Only
<1>5. ASSUME NEW q \in alive PROVE KindOf[q] \in KindSet
    BY <1>5, ReconcileAssumption DEF ReconcileInv, ReconcileType, ThreadOK
<1>6. InTurn'
    <2> SUFFICES ASSUME NEW q \in alive
                 PROVE  /\ \A n \in 1..Len(inbox'[KindOf[q]]) : inbox'[KindOf[q]][n] = q =>
                               \A m \in n..Len(inbox'[KindOf[q]]) : inbox'[KindOf[q]][m] = q
                        /\ work[KindOf[q]].root = q => Only(q)'
                        /\ (\E s \in Stages : q \in deployed[s]) =>
                               work[KindOf[q]].root \in {NoRoot, q} /\ Only(q)'
        BY DEF InTurn
    <2>1. CASE KindOf[q] = k
        <3>1. Only(q)'
            BY <1>4, <2>1
        <3>2. \A n \in 1..Len(inbox'[k]) : \A m \in n..Len(inbox'[k]) : m \in 1..Len(inbox'[k])
            BY <1>2
        <3>3. (\E s \in Stages : q \in deployed[s]) => work[KindOf[q]].root \in {NoRoot, q}
            BY DEF ReconcileInv, InTurn
        <3> QED BY <2>1, <3>1, <3>2, <3>3 DEF Only
    <2>2. CASE KindOf[q] # k
        BY <1>2, <1>5, <2>2 DEF ReconcileInv, InTurn, Only
    <2> QED BY <2>1, <2>2
<1>7. OneAlive' /\ Owners' /\ Covered'
    BY DEF ReconcileInv, OneAlive, Owners, Covered
<1> QED BY <1>3, <1>6, <1>7 DEF ReconcileInv

\* A thread that drops what it does disturbs nothing.
LEMMA Dropped ==
    ASSUME ReconcileInv, NEW k \in KindSet, work' = [work EXCEPT ![k] = NotReconciling],
           UNCHANGED <<alive, past, config, deployed, policy, inbox, ownedBy, removers>>
    PROVE  ReconcileInv'
<1>1. work \in [KindSet -> Work] /\ NotReconciling \in Work
    BY DEF ReconcileInv, ReconcileType, ThreadOK, Work, NotReconciling
<1>2. /\ work' \in [KindSet -> Work] /\ work'[k] = NotReconciling
      /\ \A l \in KindSet \ {k} : work'[l] = work[l]
    BY <1>1
<1>3. ReconcileType'
    BY <1>2 DEF ReconcileInv, ReconcileType, ThreadOK, NotReconciling
<1>4. \A q \in alive : KindOf[q] \in KindSet /\ q # NoRoot
    BY ReconcileAssumption DEF ReconcileInv, ReconcileType, ThreadOK
<1>5. InTurn'
    BY <1>2, <1>4 DEF ReconcileInv, InTurn, Only, NotReconciling
<1>6. OneAlive' /\ Owners' /\ Covered'
    BY <1>2 DEF ReconcileInv, OneAlive, Owners, Covered, NotReconciling
<1> QED BY <1>3, <1>5, <1>6 DEF ReconcileInv

LEMMA StartedOver ==
    ASSUME ReconcileInv, StartOver, UNCHANGED <<alive, past, config, deployed, policy, ownedBy, removers>>
    PROVE  ReconcileInv'
<1>1. \A k \in KindSet : inbox'[k] = <<>> /\ work'[k] = NotReconciling
    BY DEF StartOver
<1>2. <<>> \in Seq(past) /\ NotReconciling \in Work
    BY DEF Work, NotReconciling
<1>3. inbox' \in [KindSet -> Seq(past)] /\ work' \in [KindSet -> Work]
    BY <1>2 DEF StartOver
<1>4. ReconcileType'
    BY <1>1, <1>3 DEF ReconcileInv, ReconcileType, ThreadOK, NotReconciling
<1>5. \A q \in alive : KindOf[q] \in KindSet /\ q # NoRoot
    BY ReconcileAssumption DEF ReconcileInv, ReconcileType, ThreadOK
<1>6. InTurn'
    BY <1>1, <1>5 DEF InTurn, Only, NotReconciling
<1>7. OneAlive' /\ Owners' /\ Covered'
    BY <1>1 DEF ReconcileInv, OneAlive, Owners, Covered, NotReconciling
<1> QED BY <1>4, <1>6, <1>7 DEF ReconcileInv

-----------------------------------------------------------------------------
(* The cluster                                                             *)

LEMMA CreateRootKeeps ==
    ASSUME ReconcileInv, NEW r \in Roots, CreateRoot(r)
    PROVE  ReconcileInv'
<1> DEFINE k == KindOf[r]
<1>1. /\ r \notin past /\ alive' = alive \cup {r} /\ past' = past \cup {r}
      /\ \A q \in alive : KindOf[q] # k
      /\ UNCHANGED <<config, deployed, policy, work, ownedBy, removers>>
      /\ inbox' = inbox \/ inbox' = [inbox EXCEPT ![k] = Append(@, r)]
    BY DEF CreateRoot, serverVarsR
<1>2. k \in KindSet
    BY ReconcileAssumption
<1>3. inbox \in [KindSet -> Seq(past)] /\ past \subseteq past' /\ r \in past'
    BY <1>1 DEF ReconcileInv, ReconcileType, ThreadOK
<1> HIDE DEF k
<1>4. inbox[k] \in Seq(past) /\ Len(inbox[k]) \in Nat
    BY <1>2, <1>3
<1>5. \A l \in KindSet : \A n \in 1..Len(inbox[l]) : inbox[l][n] \in past
    BY <1>3
<1>6. inbox' \in [KindSet -> Seq(past')]
    <2>1. \A l \in KindSet : inbox[l] \in Seq(past')
        BY <1>3
    <2>2. Append(inbox[k], r) \in Seq(past')
        BY <1>2, <1>3, <2>1
    <2> QED BY <1>1, <1>2, <1>3, <2>1, <2>2
<1>7. /\ \A l \in KindSet \ {k} : inbox'[l] = inbox[l]
      /\ inbox'[k] = inbox[k] \/ inbox'[k] = Append(inbox[k], r)
    BY <1>1, <1>2, <1>3
<1>8. \A n \in 1..Len(inbox'[k]) :
          (n \in 1..Len(inbox[k]) /\ inbox'[k][n] = inbox[k][n]) \/ (n = Len(inbox'[k]) /\ inbox'[k][n] = r)
    BY <1>4, <1>7
<1>9. ReconcileType'
    <2>1. alive' \subseteq past' /\ past' \subseteq Roots
        BY <1>1 DEF ReconcileInv, ReconcileType, ThreadOK
    <2>2. deployed' \in [Stages -> SUBSET past'] /\ ownedBy' \in [Stages -> SUBSET past']
        BY <1>1 DEF ReconcileInv, ReconcileType, ThreadOK
    <2>3. \A l \in KindSet : \A n \in 1..Len(inbox'[l]) : KindOf[inbox'[l][n]] = l
        BY <1>7, <1>8, InboxType DEF k
    <2>4. \A l \in KindSet :
              ThreadOK(l, work[l])'
        BY <1>1 DEF ReconcileInv, ReconcileType, ThreadOK
    <2>5. /\ config' \in [KindSet -> SUBSET Stages] /\ policy' \in [Stages -> SUBSET Roots]
          /\ removers' \in [KindSet -> [Stages -> SUBSET KindSet]] /\ work' \in [KindSet -> Work]
        BY <1>1 DEF ReconcileInv, ReconcileType, ThreadOK
    <2> QED BY <1>6, <2>1, <2>2, <2>3, <2>4, <2>5 DEF ReconcileType
<1>10. OneAlive'
    BY <1>1 DEF ReconcileInv, OneAlive, k
<1>11. InTurn'
    <2> SUFFICES ASSUME NEW q \in alive'
                 PROVE  /\ \A n \in 1..Len(inbox'[KindOf[q]]) : inbox'[KindOf[q]][n] = q =>
                               \A m \in n..Len(inbox'[KindOf[q]]) : inbox'[KindOf[q]][m] = q
                        /\ work'[KindOf[q]].root = q => Only(q)'
                        /\ (\E s \in Stages : q \in deployed'[s]) =>
                               work'[KindOf[q]].root \in {NoRoot, q} /\ Only(q)'
        BY DEF InTurn
    <2>1. CASE q = r
        <3>1. \A n \in 1..Len(inbox'[k]) : inbox'[k][n] = r => n = Len(inbox'[k])
            BY <1>1, <1>2, <1>5, <1>8
        <3>2. work[k].root # r
            BY <1>1, <1>2, ReconcileAssumption DEF ReconcileInv, ReconcileType, ThreadOK
        <3>3. \A s \in Stages : r \notin deployed[s]
            BY <1>1 DEF ReconcileInv, ReconcileType, ThreadOK
        <3>4. Len(inbox'[k]) \in Nat
            BY <1>2, <1>6
        <3>5. \A n \in 1..Len(inbox'[k]) : \A m \in n..Len(inbox'[k]) : n = Len(inbox'[k]) => m = n
            BY <3>4
        <3> QED BY <1>1, <2>1, <3>1, <3>2, <3>3, <3>5 DEF k
    <2>2. CASE q # r
        <3>1. q \in alive /\ KindOf[q] # k
            BY <1>1, <2>2
        <3>2. KindOf[q] \in KindSet
            BY <3>1, ReconcileAssumption DEF ReconcileInv, ReconcileType, ThreadOK
        <3> QED BY <1>1, <1>7, <3>1, <3>2 DEF ReconcileInv, InTurn, Only
    <2> QED BY <2>1, <2>2
<1>12. Owners' /\ Covered'
    <2>1. \A s \in Stages : r \notin deployed[s]
        BY <1>1 DEF ReconcileInv, ReconcileType, ThreadOK
    <2>2. \A l \in KindSet : work[l].root # r
        BY <1>1, ReconcileAssumption DEF ReconcileInv, ReconcileType, ThreadOK
    <2>3. Owners'
        BY <1>1 DEF ReconcileInv, Owners
    <2> QED BY <1>1, <2>1, <2>2, <2>3 DEF ReconcileInv, Covered
<1> QED BY <1>9, <1>10, <1>11, <1>12 DEF ReconcileInv

LEMMA DeleteRootKeeps ==
    ASSUME ReconcileInv, NEW r \in Roots, DeleteRoot(r)
    PROVE  ReconcileInv'
<1>1. /\ alive' \subseteq alive
      /\ UNCHANGED <<past, config, deployed, policy, work, ownedBy, removers, inbox>>
    BY DEF DeleteRoot, serverVarsR
<1>2. ReconcileType'
    BY <1>1 DEF ReconcileInv, ReconcileType, ThreadOK
<1>3. OneAlive'
    BY <1>1 DEF ReconcileInv, OneAlive
<1>4. InTurn'
    BY <1>1 DEF ReconcileInv, InTurn, Only
<1>5. Owners' /\ Covered'
    BY <1>1 DEF ReconcileInv, Owners, Covered
<1> QED BY <1>2, <1>3, <1>4, <1>5 DEF ReconcileInv

LEMMA EditConfigKeeps ==
    ASSUME ReconcileInv, NEW k \in KindSet, EditConfig(k)
    PROVE  ReconcileInv'
<1>1. PICK S \in SUBSET StagesOf[k] : config' = [config EXCEPT ![k] = S]
    BY DEF EditConfig
<1>2. UNCHANGED <<alive, past, deployed, policy, work, ownedBy, removers, inbox>>
    BY DEF EditConfig, serverVarsR
<1>3. S \subseteq Stages
    BY <1>1 DEF Stages
<1>4. config' \in [KindSet -> SUBSET Stages]
    BY <1>1, <1>3 DEF ReconcileInv, ReconcileType, ThreadOK
<1>5. ReconcileType'
    BY <1>2, <1>4 DEF ReconcileInv, ReconcileType, ThreadOK
<1>6. OneAlive' /\ Owners'
    BY <1>2 DEF ReconcileInv, OneAlive, Owners
<1>7. InTurn'
    BY <1>2 DEF ReconcileInv, InTurn, Only
<1>8. Covered'
    BY <1>2 DEF ReconcileInv, Covered
<1> QED BY <1>5, <1>6, <1>7, <1>8 DEF ReconcileInv

LEMMA CollectKeeps ==
    ASSUME ReconcileInv, Collect
    PROVE  ReconcileInv'
<1>1. UNCHANGED <<alive, past, config, work, ownedBy, removers, inbox>>
    BY DEF Collect, clusterVars
<1>2. /\ deployed \in [Stages -> SUBSET past] /\ policy \in [Stages -> SUBSET Roots]
    BY DEF ReconcileInv, ReconcileType, ThreadOK
<1>3. /\ deployed' \in [Stages -> SUBSET past] /\ policy' \in [Stages -> SUBSET Roots]
      /\ \A s \in Stages : deployed'[s] = deployed[s] \/ deployed'[s] = deployed[s] \cap alive
      /\ \A s \in Stages : policy'[s] = policy[s] \/ policy'[s] = policy[s] \cap alive
    BY <1>2 DEF Collect
<1>4. ReconcileType'
    BY <1>1, <1>3 DEF ReconcileInv, ReconcileType, ThreadOK
<1>5. OneAlive'
    BY <1>1 DEF ReconcileInv, OneAlive
<1>6. InTurn'
    BY SMTT(30), <1>1, <1>3 DEF ReconcileInv, InTurn, Only
<1>7. Owners' /\ Covered'
    <2>1. Owners'
        BY <1>1, <1>3 DEF ReconcileInv, Owners
    <2>2. Covered'
        BY <1>1, <1>3 DEF ReconcileInv, Covered
    <2> QED BY <2>1, <2>2
<1> QED BY <1>4, <1>5, <1>6, <1>7 DEF ReconcileInv
-----------------------------------------------------------------------------
(* The threads                                                             *)

\* A thread that goes on with its workload, and changes no server.
LEMMA GoesOn ==
    ASSUME ReconcileInv, NEW k \in KindSet, NEW w \in Work, work' = [work EXCEPT ![k] = w],
           work[k].at # "idle", w.root = work[k].root, w.at \in {"servers", "orphans"},
           w.half # NoStage => w.half \in w.todo,
           UNCHANGED <<alive, past, config, inbox>>,
           deployed' \in [Stages -> SUBSET past], policy' \in [Stages -> SUBSET Roots],
           ownedBy' \in [Stages -> SUBSET past], removers' \in [KindSet -> [Stages -> SUBSET KindSet]],
           \A s \in Stages : \A r \in deployed'[s] : r \in deployed[s] \/ r = w.root,
           Owners', Covered'
    PROVE  ReconcileInv'
<1>1. /\ work' \in [KindSet -> Work] /\ work'[k] = w
      /\ \A l \in KindSet \ {k} : work'[l] = work[l]
    BY DEF ReconcileInv, ReconcileType, ThreadOK
<1>2. w.root \in past /\ KindOf[w.root] = k /\ w.root # NoRoot
    BY DEF ReconcileInv, ReconcileType, ThreadOK
<1>3. ReconcileType'
    BY <1>1, <1>2 DEF ReconcileInv, ReconcileType, ThreadOK
<1>4. ASSUME NEW q \in alive PROVE KindOf[q] \in KindSet /\ work'[KindOf[q]].root = work[KindOf[q]].root
    BY <1>1, ReconcileAssumption DEF ReconcileInv, ReconcileType, ThreadOK
<1>5. InTurn'
    BY <1>1, <1>2, <1>4 DEF ReconcileInv, InTurn, Only
<1>6. OneAlive'
    BY DEF ReconcileInv, OneAlive
<1> QED BY <1>3, <1>5, <1>6 DEF ReconcileInv

LEMMA SecretKeeps ==
    ASSUME ReconcileInv, NEW k \in KindSet, Secret(k)
    PROVE  ReconcileInv'
<1> DEFINE r == Head(inbox[k])
<1>1. /\ work[k] = NotReconciling /\ inbox[k] # <<>>
      /\ inbox' = [inbox EXCEPT ![k] = Tail(@)]
      /\ \/ work' = [work EXCEPT ![k].root = r, ![k].at = "config"]
         \/ work' = work
      /\ UNCHANGED <<alive, past, config, deployed, policy, ownedBy, removers>>
    BY DEF Secret, clusterVars
<1>2. inbox \in [KindSet -> Seq(past)] /\ work \in [KindSet -> Work] /\ inbox[k] \in Seq(past)
    BY DEF ReconcileInv, ReconcileType, ThreadOK
<1>3. /\ inbox' \in [KindSet -> Seq(past)] /\ Len(inbox[k]) \in Nat /\ Len(inbox'[k]) \in Nat
      /\ 1 \in 1..Len(inbox[k]) /\ inbox[k][1] = r /\ r \in past
      /\ \A l \in KindSet \ {k} : inbox'[l] = inbox[l]
      /\ \A n \in 1..Len(inbox'[k]) : n + 1 \in 1..Len(inbox[k]) /\ inbox'[k][n] = inbox[k][n + 1]
    BY <1>1, <1>2
<1>4. KindOf[r] = k
    BY <1>3 DEF ReconcileInv, ReconcileType, ThreadOK
<1>5. r # NoRoot
    BY <1>3, ReconcileAssumption DEF ReconcileInv, ReconcileType, ThreadOK
<1> HIDE DEF r
<1>6. /\ work' \in [KindSet -> Work]
      /\ \A l \in KindSet \ {k} : work'[l] = work[l]
      /\ \/ work'[k] = NotReconciling
         \/ /\ work'[k].root = r /\ work'[k].at = "config" /\ work'[k].todo = {}
            /\ work'[k].half = NoStage
    <2>1. CASE work' = work
        BY <1>1, <1>2, <2>1
    <2>2. CASE work' = [work EXCEPT ![k].root = r, ![k].at = "config"]
        <3> DEFINE w == [NotReconciling EXCEPT !.root = r, !.at = "config"]
        <3>1. work' = [work EXCEPT ![k] = w]
            <4>1. w = [work[k] EXCEPT !.root = r, !.at = "config"]
                BY <1>1
            <4> QED BY <1>2, <2>2, <4>1
        <3>2. w \in Work /\ w.root = r /\ w.at = "config" /\ w.todo = {} /\ w.half = NoStage
            BY <1>3 DEF Work, NotReconciling, ReconcileInv, ReconcileType
        <3> QED BY <1>2, <3>1, <3>2
    <2> QED BY <1>1, <2>1, <2>2
<1>7. \A n \in 1..Len(inbox'[k]) : inbox'[k][n] \in past /\ KindOf[inbox'[k][n]] = k
    BY <1>3, InboxType
<1>8. ReconcileType'
    <2>1. \A l \in KindSet : \A n \in 1..Len(inbox'[l]) : KindOf[inbox'[l][n]] = l
        BY <1>3, <1>7, InboxType
    <2>2. \A l \in KindSet :
              ThreadOK(l, work[l])'
        BY <1>1, <1>3, <1>4, <1>5, <1>6 DEF ReconcileInv, ReconcileType, ThreadOK, NotReconciling
    <2> QED BY <1>1, <1>3, <1>6, <2>1, <2>2 DEF ReconcileInv, ReconcileType, ThreadOK
<1>9. ASSUME NEW q \in alive, KindOf[q] = k
      PROVE  /\ q = r => Only(q)'
             /\ Only(q) => q = r /\ Only(q)'
             /\ \A n \in 1..Len(inbox'[k]) : inbox'[k][n] = q =>
                    \A m \in n..Len(inbox'[k]) : inbox'[k][m] = q
    <2>1. \A n \in 1..Len(inbox[k]) : inbox[k][n] = q =>
              \A m \in n..Len(inbox[k]) : inbox[k][m] = q
        BY <1>9 DEF ReconcileInv, InTurn
    <2>2. Len(inbox[k]) \in Nat /\ Len(inbox'[k]) \in Nat
        BY <1>3
    <2>3. q = r => \A m \in 1..Len(inbox[k]) : inbox[k][m] = q
        BY <1>3, <2>1
    <2>4. q = r => Only(q)'
        BY <1>3, <1>9, <2>3 DEF Only
    <2>5. Only(q) => q = r
        BY <1>3, <1>9 DEF Only
    <2>6. ASSUME NEW n \in 1..Len(inbox'[k]), inbox'[k][n] = q, NEW m \in n..Len(inbox'[k])
          PROVE  inbox'[k][m] = q
        <3>1. /\ n + 1 \in 1..Len(inbox[k]) /\ inbox[k][n + 1] = q
              /\ m \in 1..Len(inbox'[k]) /\ m + 1 \in (n + 1)..Len(inbox[k])
              /\ inbox'[k][m] = inbox[k][m + 1]
            BY <1>3, <2>2, <2>6
        <3> QED BY <2>1, <3>1
    <2> QED BY <2>4, <2>5, <2>6
<1>10. InTurn'
    <2> SUFFICES ASSUME NEW q \in alive
                 PROVE  /\ \A n \in 1..Len(inbox'[KindOf[q]]) : inbox'[KindOf[q]][n] = q =>
                               \A m \in n..Len(inbox'[KindOf[q]]) : inbox'[KindOf[q]][m] = q
                        /\ work'[KindOf[q]].root = q => Only(q)'
                        /\ (\E s \in Stages : q \in deployed[s]) =>
                               work'[KindOf[q]].root \in {NoRoot, q} /\ Only(q)'
        BY <1>1 DEF InTurn
    <2>0. KindOf[q] \in KindSet /\ q # NoRoot
        BY ReconcileAssumption DEF ReconcileInv, ReconcileType, ThreadOK
    <2>1. CASE KindOf[q] = k
        <3>1. (\E s \in Stages : q \in deployed[s]) => Only(q)
            BY DEF ReconcileInv, InTurn
        <3>2. work'[k].root \in {NoRoot, r}
            BY <1>6 DEF NotReconciling
        <3> QED BY <1>9, <2>0, <2>1, <3>1, <3>2
    <2>2. CASE KindOf[q] # k
        <3>1. inbox'[KindOf[q]] = inbox[KindOf[q]] /\ work'[KindOf[q]] = work[KindOf[q]]
            BY <1>3, <1>6, <2>0, <2>2
        <3> QED BY <3>1 DEF ReconcileInv, InTurn, Only
    <2> QED BY <2>1, <2>2
<1>11. OneAlive' /\ Owners' /\ Covered'
    <2>1. work'[k].at \notin {"servers", "orphans"}
        BY <1>6 DEF NotReconciling
    <2> QED BY <1>1, <1>6, <2>1 DEF ReconcileInv, OneAlive, Owners, Covered
<1> QED BY <1>8, <1>10, <1>11 DEF ReconcileInv

LEMMA ReadConfigKeeps ==
    ASSUME ReconcileInv, NEW k \in KindSet, ReadConfig(k)
    PROVE  ReconcileInv'
<1> DEFINE w == [work[k] EXCEPT !.at = "servers", !.want = config[k], !.todo = config[k]]
<1>1. work[k] \in Work /\ config[k] \subseteq Stages
    BY DEF ReconcileInv, ReconcileType, ThreadOK
<1>2. w \in Work /\ w.root = work[k].root /\ w.at = "servers" /\ w.half = work[k].half
    BY <1>1 DEF Work
<1>3. work' = [work EXCEPT ![k] = w] /\ work[k].at = "config"
    BY DEF ReadConfig, At, ReconcileInv, ReconcileType
<1>4. UNCHANGED <<alive, past, config, inbox, deployed, policy, ownedBy, removers>>
    BY DEF ReadConfig, clusterVars, serverVarsR
<1> HIDE DEF w
<1>5. w.half = NoStage
    BY <1>2, <1>3 DEF ReconcileInv, ReconcileType, ThreadOK
<1>6. Owners' /\ Covered'
    <2>1. \A l \in KindSet : l # k => work'[l] = work[l]
        BY <1>3 DEF ReconcileInv, ReconcileType, ThreadOK
    <2>2. work'[k] = w
        BY <1>3 DEF ReconcileInv, ReconcileType, ThreadOK
    <2> QED BY <1>2, <1>4, <1>5, <2>1, <2>2, ReconcileAssumption DEF ReconcileInv, Owners, Covered
<1>7. /\ deployed' \in [Stages -> SUBSET past] /\ policy' \in [Stages -> SUBSET Roots]
      /\ ownedBy' \in [Stages -> SUBSET past] /\ removers' \in [KindSet -> [Stages -> SUBSET KindSet]]
    BY <1>4 DEF ReconcileInv, ReconcileType, ThreadOK
<1>8. \A s \in Stages : \A r \in deployed'[s] : r \in deployed[s]
    BY <1>4
<1> QED BY <1>2, <1>3, <1>4, <1>5, <1>6, <1>7, <1>8, GoesOn
\* Where a reconciliation of servers stands.
LEMMA AtServers ==
    ASSUME ReconcileInv, NEW k \in KindSet, work[k].at \in {"servers", "orphans"}
    PROVE  /\ work[k] \in Work /\ work[k].root \in past /\ KindOf[work[k].root] = k
           /\ work[k].todo \subseteq Stages /\ work[k].root \in Roots /\ work[k].root # NoRoot
BY ReconcileAssumption DEF ReconcileInv, ReconcileType, ThreadOK, Work

LEMMA PolicyKeeps ==
    ASSUME ReconcileInv, NEW k \in KindSet, NEW s \in Stages, Policy(k, s)
    PROVE  ReconcileInv'
<1> DEFINE w == [work[k] EXCEPT !.half = s]
           r == work[k].root
<1>1. /\ work[k].at = "servers" /\ s \in work[k].todo /\ work' = [work EXCEPT ![k] = w]
      /\ policy' = [policy EXCEPT ![s] = @ \cup {r}] /\ removers' = [removers EXCEPT ![k][s] = {}]
      /\ UNCHANGED <<alive, past, config, inbox, deployed, ownedBy>>
    BY DEF Policy, At, clusterVars
<1>2. /\ w \in Work /\ w.root = r /\ w.at = "servers" /\ w.half = s /\ s \in w.todo
      /\ r \in past /\ KindOf[r] = k /\ r \in Roots
    BY <1>1, AtServers DEF Work
<1>3. /\ policy \in [Stages -> SUBSET Roots] /\ deployed \in [Stages -> SUBSET past]
      /\ ownedBy \in [Stages -> SUBSET past] /\ removers \in [KindSet -> [Stages -> SUBSET KindSet]]
    BY DEF ReconcileInv, ReconcileType, ThreadOK
<1>4. /\ policy' \in [Stages -> SUBSET Roots] /\ r \in policy'[s]
      /\ \A t \in Stages : policy[t] \subseteq policy'[t]
    BY <1>1, <1>2, <1>3
<1>5. /\ work'[k] = w /\ \A l \in KindSet \ {k} : work'[l] = work[l]
    BY <1>1 DEF ReconcileInv, ReconcileType, ThreadOK
<1>6. /\ removers' \in [KindSet -> [Stages -> SUBSET KindSet]]
      /\ \A l \in KindSet : \A t \in Stages :
            removers'[l][t] = IF l = k /\ t = s THEN {} ELSE removers[l][t]
    BY <1>1, <1>3
<1> HIDE DEF w, r
\* Of the thread's own kind, only the workload itself can own the server.
<1>7. ASSUME NEW q \in deployed[s] \cap alive, KindOf[q] = k PROVE q = r
    <2>1. work[k].root \in {NoRoot, q}
        BY <1>7 DEF ReconcileInv, InTurn
    <2> QED BY <1>1, <2>1, AtServers DEF r
<1>8. Owners'
    BY <1>1, <1>2, <1>5, <1>6 DEF ReconcileInv, Owners
<1>9. Covered'
    <2>1. \A t \in Stages : \A q \in deployed'[t] \cap alive' :
              q \in policy'[t] \/ removers'[KindOf[q]][t] # {}
        <3> SUFFICES ASSUME NEW t \in Stages, NEW q \in deployed[t] \cap alive
                     PROVE  q \in policy'[t] \/ removers'[KindOf[q]][t] # {}
            BY <1>1
        <3>1. CASE KindOf[q] = k /\ t = s
            BY <1>4, <1>7, <3>1
        <3>2. CASE ~(KindOf[q] = k /\ t = s)
            <4>1. KindOf[q] \in KindSet
                BY KindType
            <4> QED BY <1>4, <1>6, <3>2, <4>1 DEF ReconcileInv, Covered
        <3> QED BY <3>1, <3>2
    <2>2. ASSUME NEW l \in KindSet, NEW t \in Stages, work'[l].at = "servers", work'[l].half = t
          PROVE  work'[l].root \in policy'[t] \/ work'[l].root \notin alive' \/ removers'[l][t] # {}
        BY <1>1, <1>2, <1>4, <1>5, <1>6, <2>2 DEF ReconcileInv, Covered
    <2> QED BY <2>1, <2>2 DEF Covered
<1>10. \A t \in Stages : \A q \in deployed'[t] : q \in deployed[t]
    BY <1>1
<1>11. deployed' \in [Stages -> SUBSET past] /\ ownedBy' \in [Stages -> SUBSET past]
    BY <1>1, <1>3
<1> QED BY <1>1, <1>2, <1>4, <1>6, <1>8, <1>9, <1>10, <1>11, GoesOn DEF r

LEMMA DeployKeeps ==
    ASSUME ReconcileInv, NEW k \in KindSet, NEW s \in Stages, Deploy(k, s)
    PROVE  ReconcileInv'
<1> DEFINE w == [work[k] EXCEPT !.half = NoStage, !.todo = @ \ {s}]
           r == work[k].root
<1>1. /\ work[k].at = "servers" /\ work[k].half = s /\ s \in work[k].todo
      /\ deployed' = [deployed EXCEPT ![s] = @ \cup {r}] /\ ownedBy' = [ownedBy EXCEPT ![s] = @ \cup {r}]
      /\ UNCHANGED <<alive, past, config, inbox, policy, removers>>
    BY DEF Deploy, At, clusterVars
<1>2. work[k] \in Work /\ work' = [work EXCEPT ![k] = w]
    BY DEF Deploy, ReconcileInv, ReconcileType
<1>3. w \in Work /\ w.root = r /\ w.at = "servers" /\ w.half = NoStage
    BY <1>1, <1>2, AtServers DEF Work
<1>4. r \in past /\ KindOf[r] = k /\ r \in Roots
    BY <1>1, AtServers
<1>5. /\ policy \in [Stages -> SUBSET Roots] /\ deployed \in [Stages -> SUBSET past]
      /\ ownedBy \in [Stages -> SUBSET past] /\ removers \in [KindSet -> [Stages -> SUBSET KindSet]]
    BY DEF ReconcileInv, ReconcileType, ThreadOK
<1>6. /\ deployed' \in [Stages -> SUBSET past] /\ deployed'[s] = deployed[s] \cup {r}
      /\ ownedBy' \in [Stages -> SUBSET past] /\ ownedBy'[s] = ownedBy[s] \cup {r}
      /\ \A t \in Stages \ {s} : deployed'[t] = deployed[t] /\ ownedBy'[t] = ownedBy[t]
    BY <1>1, <1>4, <1>5
<1>7. /\ work'[k] = w /\ \A l \in KindSet \ {k} : work'[l] = work[l]
    BY <1>2 DEF ReconcileInv, ReconcileType, ThreadOK
<1>8. r \in policy[s] \/ r \notin alive \/ removers[k][s] # {}
    BY <1>1 DEF ReconcileInv, Covered
<1> HIDE DEF w, r
<1>9. Owners'
    <2>1. \A t \in Stages : deployed'[t] \subseteq ownedBy'[t] /\ ownedBy[t] \subseteq ownedBy'[t]
        BY <1>6 DEF ReconcileInv, Owners
    <2>2. \A l \in KindSet : work'[l].at = "orphans" =>
              /\ work[l].at = "orphans" /\ work'[l] = work[l] /\ work[l].todo \subseteq Stages
        BY <1>3, <1>7, AtServers
    <2> QED BY <1>1, <2>1, <2>2 DEF ReconcileInv, Owners
<1>10. Covered'
    <2>1. \A t \in Stages : \A q \in deployed'[t] \cap alive' :
              q \in policy'[t] \/ removers'[KindOf[q]][t] # {}
        BY <1>1, <1>4, <1>6, <1>8 DEF ReconcileInv, Covered
    <2>2. ASSUME NEW l \in KindSet, NEW t \in Stages, work'[l].at = "servers", work'[l].half = t
          PROVE  work'[l].root \in policy'[t] \/ work'[l].root \notin alive' \/ removers'[l][t] # {}
        <3>1. l # k
            BY <1>3, <1>7, <2>2, ReconcileAssumption
        <3> QED BY <1>1, <1>7, <2>2, <3>1 DEF ReconcileInv, Covered
    <2> QED BY <2>1, <2>2 DEF Covered
<1>11. \A t \in Stages : \A q \in deployed'[t] : q \in deployed[t] \/ q = w.root
    BY <1>3, <1>6
<1>12. /\ policy' \in [Stages -> SUBSET Roots] /\ w.root = work[k].root
       /\ removers' \in [KindSet -> [Stages -> SUBSET KindSet]]
    BY <1>1, <1>3, <1>5 DEF r
<1> QED BY <1>1, <1>2, <1>3, <1>6, <1>9, <1>10, <1>11, <1>12, GoesOn

LEMMA ListOrphansKeeps ==
    ASSUME ReconcileInv, NEW k \in KindSet, ListOrphans(k)
    PROVE  ReconcileInv'
<1>1. /\ UNCHANGED <<alive, past, config, inbox, deployed, policy, ownedBy, removers>>
      /\ work[k].at = "servers" /\ work[k].todo = {}
    BY DEF ListOrphans, At, clusterVars, serverVarsR
<1>2. CASE Orphans(k) = {}
    <2>1. work' = [work EXCEPT ![k] = NotReconciling]
        BY <1>2 DEF ListOrphans
    <2> QED BY <1>1, <2>1, Dropped
<1>3. CASE Orphans(k) # {}
    <2> DEFINE w == [work[k] EXCEPT !.at = "orphans", !.todo = Orphans(k)]
    <2>1. work' = [work EXCEPT ![k] = w]
        BY <1>3 DEF ListOrphans
    <2>2. /\ w \in Work /\ w.root = work[k].root /\ w.at = "orphans" /\ w.todo = Orphans(k)
          /\ w.half = NoStage
        <3>1. work[k] \in Work /\ work[k].half = NoStage
            BY <1>1, AtServers DEF ReconcileInv, ReconcileType, ThreadOK
        <3>2. Orphans(k) \subseteq Stages
            BY DEF Orphans
        <3> QED BY <1>1, <3>1, <3>2 DEF Work
    <2>3. /\ deployed' \in [Stages -> SUBSET past] /\ policy' \in [Stages -> SUBSET Roots]
          /\ ownedBy' \in [Stages -> SUBSET past] /\ removers' \in [KindSet -> [Stages -> SUBSET KindSet]]
        BY <1>1 DEF ReconcileInv, ReconcileType, ThreadOK
    <2>4. /\ work'[k] = w /\ \A l \in KindSet \ {k} : work'[l] = work[l]
        BY <2>1 DEF ReconcileInv, ReconcileType, ThreadOK
    <2> HIDE DEF w
    <2>5. Owners' /\ Covered'
        <3>1. \A s \in Orphans(k) : s \in Stages /\ work[k].root \in deployed[s]
            BY DEF Orphans
        <3>2. Owners'
            BY <1>1, <2>2, <2>4, <3>1 DEF ReconcileInv, Owners
        <3> QED BY <1>1, <2>2, <2>4, <3>2 DEF ReconcileInv, Covered
    <2>6. \A s \in Stages : \A r \in deployed'[s] : r \in deployed[s]
        BY <1>1
    <2> QED BY <1>1, <2>1, <2>2, <2>3, <2>5, <2>6, GoesOn
<1> QED BY <1>2, <1>3

LEMMA UncoverKeeps ==
    ASSUME ReconcileInv, NEW k \in KindSet, NEW s \in Stages, Uncover(k, s)
    PROVE  ReconcileInv'
<1> DEFINE w == [work[k] EXCEPT !.half = s]
<1>1. /\ work[k].at = "orphans" /\ s \in work[k].todo /\ work' = [work EXCEPT ![k] = w]
      /\ policy' = [policy EXCEPT ![s] = {}]
      /\ removers' = [l \in KindSet |-> [removers[l] EXCEPT ![s] = @ \cup {k}]]
      /\ UNCHANGED <<alive, past, config, inbox, deployed, ownedBy>>
    BY DEF Uncover, At, clusterVars
<1>2. /\ w \in Work /\ w.root = work[k].root /\ w.at = "orphans" /\ w.todo = work[k].todo
      /\ w.half = s /\ s \in w.todo
    BY <1>1, AtServers DEF Work
<1>3. /\ policy \in [Stages -> SUBSET Roots] /\ deployed \in [Stages -> SUBSET past]
      /\ ownedBy \in [Stages -> SUBSET past] /\ removers \in [KindSet -> [Stages -> SUBSET KindSet]]
    BY DEF ReconcileInv, ReconcileType, ThreadOK
<1>4. /\ policy' \in [Stages -> SUBSET Roots]
      /\ \A t \in Stages \ {s} : policy'[t] = policy[t]
    BY <1>1, <1>3
<1>5. /\ work'[k] = w /\ \A l \in KindSet \ {k} : work'[l] = work[l]
    BY <1>1 DEF ReconcileInv, ReconcileType, ThreadOK
<1>6. /\ removers' \in [KindSet -> [Stages -> SUBSET KindSet]]
      /\ \A l \in KindSet : \A t \in Stages :
            removers'[l][t] = IF t = s THEN removers[l][t] \cup {k} ELSE removers[l][t]
    BY <1>1, <1>3
<1> HIDE DEF w
<1>7. Owners'
    <2>1. work[k].root \in ownedBy[s] /\ KindOf[work[k].root] = k
        BY <1>1, AtServers DEF ReconcileInv, Owners
    <2>2. ASSUME NEW l \in KindSet, NEW t \in Stages, NEW m \in removers'[l][t]
          PROVE  \E q \in ownedBy[t] : KindOf[q] = m
        <3>1. m \in removers[l][t] \/ (m = k /\ t = s)
            BY <1>6, <2>2
        <3>2. CASE m \in removers[l][t]
            BY <3>2 DEF ReconcileInv, Owners
        <3> QED BY <2>1, <3>1, <3>2
    <2>3. ASSUME NEW l \in KindSet, work'[l].at = "orphans", NEW t \in work'[l].todo
          PROVE  work'[l].root \in ownedBy[t]
        BY <1>1, <1>2, <1>5, <2>3 DEF ReconcileInv, Owners
    <2>4. ownedBy' = ownedBy /\ \A t \in Stages : deployed'[t] \subseteq ownedBy[t]
        BY <1>1 DEF ReconcileInv, Owners
    <2> QED BY <2>2, <2>3, <2>4 DEF Owners
<1>8. Covered'
    <2>1. ASSUME NEW t \in Stages, NEW q \in deployed[t] \cap alive
          PROVE  q \in policy'[t] \/ removers'[KindOf[q]][t] # {}
        <3>1. KindOf[q] \in KindSet
            BY KindType
        <3> QED BY <1>4, <1>6, <3>1 DEF ReconcileInv, Covered
    <2>2. ASSUME NEW l \in KindSet, NEW t \in Stages, work'[l].at = "servers", work'[l].half = t
          PROVE  work'[l].root \in policy'[t] \/ work'[l].root \notin alive' \/ removers'[l][t] # {}
        <3>1. CASE t = s
            BY <1>6, <3>1
        <3>2. CASE t # s
            <4>1. l # k /\ work'[l] = work[l]
                BY <1>2, <1>5, <2>2
            <4> QED BY <1>1, <1>4, <1>6, <2>2, <3>2, <4>1 DEF ReconcileInv, Covered
        <3> QED BY <3>1, <3>2
    <2> QED BY <1>1, <2>1, <2>2 DEF Covered
<1>9. \A t \in Stages : \A q \in deployed'[t] : q \in deployed[t]
    BY <1>1
<1>10. deployed' \in [Stages -> SUBSET past] /\ ownedBy' \in [Stages -> SUBSET past]
    BY <1>1, <1>3
<1> QED BY <1>1, <1>2, <1>4, <1>6, <1>7, <1>8, <1>9, <1>10, GoesOn

LEMMA RemoveKeeps ==
    ASSUME ReconcileInv, NEW k \in KindSet, NEW s \in Stages, Remove(k, s)
    PROVE  ReconcileInv'
<1>1. /\ work[k].at = "orphans" /\ work[k].half = s /\ s \in work[k].todo
      /\ deployed' = [deployed EXCEPT ![s] = {}]
      /\ UNCHANGED <<alive, past, config, inbox, policy, ownedBy, removers>>
    BY DEF Remove, At, clusterVars
<1>2. /\ policy \in [Stages -> SUBSET Roots] /\ deployed \in [Stages -> SUBSET past]
      /\ ownedBy \in [Stages -> SUBSET past] /\ removers \in [KindSet -> [Stages -> SUBSET KindSet]]
    BY DEF ReconcileInv, ReconcileType, ThreadOK
<1>3. /\ deployed' \in [Stages -> SUBSET past] /\ \A t \in Stages : deployed'[t] \subseteq deployed[t]
    BY <1>1, <1>2
<1>4. ASSUME NEW w, work' = [work EXCEPT ![k] = w], w.at # "servers",
             w.at = "orphans" => w.root = work[k].root /\ w.todo \subseteq work[k].todo
      PROVE  Owners' /\ Covered'
    <2>1. /\ work'[k] = w /\ \A l \in KindSet \ {k} : work'[l] = work[l]
        BY <1>4 DEF ReconcileInv, ReconcileType, ThreadOK
    <2>2. Owners'
        BY <1>1, <1>3, <1>4, <2>1 DEF ReconcileInv, Owners
    <2> QED BY <1>1, <1>3, <1>4, <2>1, <2>2 DEF ReconcileInv, Covered
<1>04. work' = [work EXCEPT ![k] = IF work[k].todo = {s} THEN NotReconciling
                      ELSE [work[k] EXCEPT !.half = NoStage, !.todo = work[k].todo \ {s}]]
    BY DEF Remove
<1>5. CASE work[k].todo = {s}
    <2>1. work' = [work EXCEPT ![k] = NotReconciling]
        BY <1>04, <1>5
    <2>2. Owners' /\ Covered'
        <3>1. NotReconciling.at \notin {"servers", "orphans"}
            BY DEF NotReconciling
        <3> QED BY <1>4, <2>1, <3>1
    <2>3. work \in [KindSet -> Work] /\ NotReconciling \in Work
        BY DEF ReconcileInv, ReconcileType, ThreadOK, Work, NotReconciling
    <2>4. /\ work' \in [KindSet -> Work] /\ work'[k] = NotReconciling
          /\ \A l \in KindSet \ {k} : work'[l] = work[l]
        BY <2>1, <2>3
    <2>5. ReconcileType'
        <3>1. \A l \in KindSet :
                  ThreadOK(l, work[l])'
            <4>1. \A l \in KindSet \ {k} : work'[l] = work[l]
                BY <2>4
            <4>2. /\ NotReconciling.root = NoRoot /\ NotReconciling.at = "idle"
                  /\ NotReconciling.half = NoStage /\ NotReconciling.todo = {}
                BY DEF NotReconciling
            <4>3. UNCHANGED past
                BY <1>1
            <4>4. ThreadOK(k, work[k])'
                BY <2>4, <4>2 DEF ThreadOK
            <4>5. ASSUME NEW l \in KindSet \ {k} PROVE ThreadOK(l, work[l])'
                <5>1. ThreadOK(l, work[l])
                    BY DEF ReconcileInv, ReconcileType
                <5> QED BY <4>1, <4>3, <5>1 DEF ThreadOK
            <4> QED BY <4>4, <4>5
        <3> QED BY <1>1, <1>3, <2>4, <3>1 DEF ReconcileInv, ReconcileType, ThreadOK
    <2>6. InTurn'
        <3>1. \A l \in KindSet : work'[l].root \in {work[l].root, NoRoot}
            BY <2>4 DEF NotReconciling
        <3>2. \A q \in alive : KindOf[q] \in KindSet
            BY <1>1, KindType
        <3>3. /\ alive' = alive /\ inbox' = inbox
              /\ \A t \in Stages : \A q \in deployed'[t] : q \in deployed[t]
            BY <1>1, <1>3
        <3>4. \A q \in alive : q # NoRoot
            BY KindType DEF ReconcileInv, ReconcileType
        <3>5. InTurn /\ \A q : Only(q)' <=> Only(q)
            BY <3>3 DEF ReconcileInv, Only
        <3> QED BY <3>1, <3>2, <3>3, <3>4, <3>5 DEF InTurn
    <2> QED BY <1>1, <2>2, <2>5, <2>6 DEF ReconcileInv, OneAlive
<1>6. CASE work[k].todo # {s}
    <2> DEFINE w == [work[k] EXCEPT !.half = NoStage, !.todo = work[k].todo \ {s}]
    <2>1. work' = [work EXCEPT ![k] = w]
        BY <1>04, <1>6
    <2>2. /\ w \in Work /\ w.root = work[k].root /\ w.at = "orphans" /\ w.todo \subseteq work[k].todo
          /\ w.half = NoStage
        <3>1. work[k] \in Work
            BY <1>1, AtServers
        <3> QED BY <1>1, <3>1 DEF Work
    <2> HIDE DEF w
    <2>3. Owners' /\ Covered'
        BY <1>4, <2>1, <2>2
    <2>4. /\ policy' \in [Stages -> SUBSET Roots] /\ ownedBy' \in [Stages -> SUBSET past]
          /\ removers' \in [KindSet -> [Stages -> SUBSET KindSet]]
        BY <1>1, <1>2
    <2> QED BY <1>1, <1>3, <2>1, <2>2, <2>3, <2>4, GoesOn
<1> QED BY <1>5, <1>6

-----------------------------------------------------------------------------
(* Every step                                                              *)

LEMMA ReconcileInitially == ReconcileInit => ReconcileInv
<1> SUFFICES ASSUME ReconcileInit PROVE ReconcileInv
    OBVIOUS
<1> USE DEF ReconcileInit
<1>1. <<>> \in Seq(past) /\ NotReconciling \in Work
    BY DEF Work, NotReconciling
<1>2. inbox \in [KindSet -> Seq(past)] /\ work \in [KindSet -> Work]
    BY <1>1
<1>3. config \in [KindSet -> SUBSET Stages]
    BY ReconcileAssumption DEF Stages
<1>4. ReconcileType
    <2>1. /\ deployed \in [Stages -> SUBSET past] /\ policy \in [Stages -> SUBSET Roots]
          /\ ownedBy \in [Stages -> SUBSET past] /\ removers \in [KindSet -> [Stages -> SUBSET KindSet]]
        OBVIOUS
    <2>2. \A k \in KindSet : inbox[k] = <<>> /\ work[k] = NotReconciling
        OBVIOUS
    <2>3. \A k \in KindSet : \A n \in 1..Len(inbox[k]) : KindOf[inbox[k][n]] = k
        BY <2>2
    <2>4. \A k \in KindSet :
              /\ work[k].root = NoRoot /\ work[k].at = "idle" /\ work[k].half = NoStage
        BY <2>2 DEF NotReconciling
    <2> QED BY <1>2, <1>3, <2>1, <2>3, <2>4 DEF ReconcileType, ThreadOK
<1>5. OneAlive /\ InTurn /\ Owners /\ Covered
    BY DEF OneAlive, InTurn, Owners, Covered, NotReconciling
<1> QED BY <1>4, <1>5 DEF ReconcileInv

\* The initial synchronisation goes through kinds.
SyncOK == sync \in Seq(KindSet)

LEMMA SyncStepOK ==
    ASSUME SyncOK, [ReconcileNext]_reconcileVars
    PROVE  SyncOK'
<1>1. CASE UNCHANGED sync
    BY <1>1 DEF SyncOK
<1>2. CASE sync' = Kinds
    BY <1>2, ReconcileAssumption DEF SyncOK
<1>3. CASE sync # <<>> /\ sync' = Tail(sync)
    BY <1>3 DEF SyncOK
<1>4. sync' = sync \/ sync' = Kinds \/ (sync # <<>> /\ sync' = Tail(sync))
    BY ZenonT(60) DEF ReconcileNext, reconcileVars, CreateRoot, DeleteRoot, EditConfig, Collect, SyncList,
           SyncNext, Relist, ApiFault, StartOver, Restart, ThreadStep, Secret, ReadConfig, ListOrphans,
           Policy, Deploy, Uncover, Remove
<1> QED BY <1>1, <1>2, <1>3, <1>4

LEMMA ReconcileStep ==
    ASSUME ReconcileInv, SyncOK, [ReconcileNext]_reconcileVars
    PROVE  ReconcileInv'
<1>1. ASSUME NEW k \in KindSet, ThreadStep(k) PROVE ReconcileInv'
    BY <1>1, SecretKeeps, ReadConfigKeeps, ListOrphansKeeps, PolicyKeeps, DeployKeeps,
       UncoverKeeps, RemoveKeeps
    DEF ThreadStep
<1>2. ASSUME NEW k \in KindSet, Relist(k) PROVE ReconcileInv'
    BY <1>2, Relisted DEF Relist, clusterVars, serverVarsR
<1>3. ASSUME NEW k \in KindSet, ApiFault(k) PROVE ReconcileInv'
    BY <1>3, StartedOver, Dropped DEF ApiFault, clusterVars, serverVarsR
<1>4. ASSUME Restart PROVE ReconcileInv'
    BY <1>4, StartedOver DEF Restart, clusterVars, serverVarsR
<1>5. ASSUME SyncList PROVE ReconcileInv'
    <2>1. Head(sync) \in KindSet
        BY <1>5 DEF SyncList, SyncOK
    <2> QED BY <1>5, <2>1, Relisted DEF SyncList, clusterVars, serverVarsR
<1>6. ASSUME SyncNext \/ UNCHANGED reconcileVars PROVE ReconcileInv'
    BY <1>6, Stable DEF SyncNext, reconcileVars, clusterVars, serverVarsR
<1> QED
    BY <1>1, <1>2, <1>3, <1>4, <1>5, <1>6, CreateRootKeeps, DeleteRootKeeps, EditConfigKeeps, CollectKeeps
    DEF ReconcileNext

LEMMA ReconcileInvariant == ReconcileSpec => [](ReconcileInv /\ SyncOK)
<1>1. ReconcileInit => ReconcileInv /\ SyncOK
    BY ReconcileInitially, ReconcileAssumption DEF ReconcileInit, SyncOK
<1>2. ReconcileInv /\ SyncOK /\ [ReconcileNext]_reconcileVars => ReconcileInv' /\ SyncOK'
    BY ReconcileStep, SyncStepOK
<1> QED BY <1>1, <1>2, PTL DEF ReconcileSpec

(* The server of a workload that exists is without its network policy only *)
(* after the cleanup of a kind that has owned that server too, whichever   *)
(* stages the kinds have in common: reconcile_object writes the policy     *)
(* before the Deployment, and Covered is what crashes, recreation and the  *)
(* garbage collector leave intact.                                         *)
THEOREM IsolatedServersTheorem == ReconcileSpec => []IsolatedServers
<1>1. ReconcileInv => IsolatedServers
    <2> SUFFICES ASSUME ReconcileInv, NEW s \in Stages, NEW r \in deployed[s] \cap alive, policy[s] = {}
                 PROVE  \E q \in ownedBy[s] : KindOf[q] \in removers[KindOf[r]][s]
        BY DEF IsolatedServers
    <2>1. KindOf[r] \in KindSet
        BY KindType
    <2>2. PICK l \in removers[KindOf[r]][s] : TRUE
        BY DEF ReconcileInv, Covered
    <2>3. PICK q \in ownedBy[s] : KindOf[q] = l
        BY <2>1, <2>2 DEF ReconcileInv, Owners
    <2> QED BY <2>2, <2>3
<1> QED BY <1>1, ReconcileInvariant, PTL

LEMMA RemovesOwn ==
    ASSUME ReconcileInv, ReconcileNext, NEW s \in Stages, Removed(s),
           NEW r \in deployed[s] \cap alive
    PROVE  \E k \in KindSet :
              /\ work[k].half = s
              /\ work[k].root = r \/ (KindOf[r] # k /\ work[k].root \in ownedBy[s])
<1>1. deployed \in [Stages -> SUBSET past] /\ deployed[s] # {} /\ deployed'[s] = {}
    BY DEF ReconcileInv, ReconcileType, ThreadOK, Removed
<1>2. PICK k \in KindSet, t \in Stages : Remove(k, t) /\ t = s
    <2>1. ASSUME NEW k \in KindSet, NEW t \in Stages, Deploy(k, t) PROVE FALSE
        BY <1>1, <2>1 DEF Deploy
    <2>2. ASSUME Collect PROVE FALSE
        BY <1>1, <2>2 DEF Collect
    <2>3. ASSUME UNCHANGED deployed PROVE FALSE
        BY <1>1, <2>3
    <2>4. \E k \in KindSet, t \in Stages : Remove(k, t)
        BY <2>1, <2>2, <2>3 DEF ReconcileNext, CreateRoot, DeleteRoot, EditConfig, SyncList,
           SyncNext, Relist, ApiFault, Restart, ThreadStep, Secret, ReadConfig, ListOrphans,
           Policy, Uncover, serverVarsR
    <2> QED BY <1>1, <2>4 DEF Remove
<1>3. work[k].at = "orphans" /\ work[k].half = s /\ s \in work[k].todo
    BY <1>2 DEF Remove, At
\* A later workload of the thread's own kind owns nothing while it is at an earlier one.
<1>4. CASE KindOf[r] = k
    <2>1. work[k].root \in {NoRoot, r}
        BY <1>4 DEF ReconcileInv, InTurn
    <2> QED BY <1>3, <2>1, AtServers
<1>5. CASE KindOf[r] # k
    BY <1>3, <1>5 DEF ReconcileInv, Owners
<1> QED BY <1>4, <1>5

(* A cleanup takes from an existing workload only its own servers and those*)
(* that a workload of another kind has owned with it: the thread takes the *)
(* workloads of its kind in turn, and lists servers by the uids of owners. *)
THEOREM RemovesOwnOnlyTheorem == ReconcileSpec => RemovesOwnOnly
<1>1. ReconcileInv /\ [ReconcileNext]_reconcileVars =>
          [\A s \in Stages : Removed(s) =>
              \A r \in deployed[s] \cap alive : \E k \in KindSet :
                  /\ work[k].half = s
                  /\ work[k].root = r \/ (KindOf[r] # k /\ work[k].root \in ownedBy[s])
          ]_reconcileVars
    BY RemovesOwn
<1> QED BY <1>1, ReconcileInvariant, PTL DEF ReconcileSpec, RemovesOwnOnly

-----------------------------------------------------------------------------
(* Discovery *)

PodStates == {"pending", "ready", "unready", "ending", "gone"}
Event == [pod : Pods, state : PodStates \ {"pending"}]

DiscoveryType ==
    /\ pod \in [Pods -> PodStates] /\ log \in Seq(Event)
    /\ listedAt \in Nat /\ seen \in Nat
    /\ listedAt <= seen /\ seen <= Len(log)
    /\ watching \in {"off", "on", "restart"}

Addr(n) == AddrOf[log[n].pod]
\* No event from m to n is about the address of `a`.
Silent(a, m, n) == \A i \in m..n : Addr(i) # a

\* Each event has a last one of its address, and the last event of a pod
\* says how the pod is.
LastEvents ==
    \A n \in 1..Len(log) : \E m \in n..Len(log) :
        Addr(m) = Addr(n) /\ Silent(Addr(n), m + 1, Len(log))
LogIsTrue ==
    \A n \in 1..Len(log) :
        (\A i \in (n + 1)..Len(log) : log[i].pod # log[n].pod) => pod[log[n].pod] = log[n].state

\* Addresses no event has been about since the list are as they were listed,
\* the others as the last event said that the watch has seen.
AsListed == \A a : Silent(a, listedAt + 1, Len(log)) => Matches(locations, a)
AsSeen ==
    \A n \in (listedAt + 1)..seen :
        Silent(Addr(n), n + 1, seen) =>
            /\ log[n].state = "ready" => Addr(n) \in locations
            /\ log[n].state \in {"ending", "gone"} => Addr(n) \notin locations

DiscoveryInv ==
    /\ DiscoveryType /\ LastEvents /\ LogIsTrue
    /\ watching # "off" => AsListed /\ AsSeen

LEMMA DiscoveryInitially == DiscoveryInit => DiscoveryInv
<1> SUFFICES ASSUME DiscoveryInit PROVE DiscoveryInv
    OBVIOUS
<1>1. Len(log) = 0 /\ log \in Seq(Event) /\ 1..0 = {}
    BY DEF DiscoveryInit
<1> QED BY <1>1 DEF DiscoveryInit, DiscoveryInv, DiscoveryType, Quiet, PodStates, LastEvents, LogIsTrue

LEMMA ChangeKeeps ==
    ASSUME DiscoveryInv, NEW p \in Pods, Change(p)
    PROVE  DiscoveryInv'
<1> USE DEF DiscoveryInv
<1>1. PICK s \in NextState(p) :
          pod' = [pod EXCEPT ![p] = s] /\ log' = Append(log, [pod |-> p, state |-> s])
    BY DEF Change
<1>2. s \in PodStates \ {"pending"}
    BY DEF NextState, PodStates
<1>3. UNCHANGED <<listedAt, watching, seen, locations>>
    BY DEF Change
<1>4. Len(log) \in Nat /\ Len(log') = Len(log) + 1 /\ log' \in Seq(Event)
    BY <1>1, <1>2 DEF DiscoveryType, Event
<1>5. \A n \in 1..Len(log) : log'[n] = log[n] /\ Addr(n)' = Addr(n)
    BY <1>1 DEF DiscoveryType, Addr
<1>6. log'[Len(log) + 1] = [pod |-> p, state |-> s] /\ AddrOf[log'[Len(log) + 1].pod] = AddrOf[p]
    BY <1>1, <1>4 DEF DiscoveryType
<1>7. DiscoveryType'
    BY <1>1, <1>2, <1>3, <1>4 DEF DiscoveryType
<1>8. LastEvents'
    <2> SUFFICES ASSUME NEW n \in 1..Len(log')
                 PROVE  \E m \in n..Len(log') : Addr(m)' = Addr(n)' /\ Silent(Addr(n), m + 1, Len(log))'
        BY DEF LastEvents
    <2>1. CASE Addr(n)' = AddrOf[p]
        BY <2>1, <1>4, <1>6 DEF Silent, Addr
    <2>2. CASE Addr(n)' # AddrOf[p]
        <3>1. n \in 1..Len(log)
            BY <2>2, <1>4, <1>6 DEF Addr
        <3>2. PICK m \in n..Len(log) : Addr(m) = Addr(n) /\ Silent(Addr(n), m + 1, Len(log))
            BY <3>1 DEF LastEvents
        <3>3. \A i \in (m + 1)..Len(log') : Addr(i)' # Addr(n)'
            BY <2>2, <3>1, <3>2, <1>4, <1>5, <1>6 DEF Silent, Addr
        <3> QED BY <3>1, <3>2, <3>3, <1>4, <1>5 DEF Silent
    <2> QED BY <2>1, <2>2
<1>9. LogIsTrue'
    <2> SUFFICES ASSUME NEW n \in 1..Len(log'),
                        \A i \in (n + 1)..Len(log') : log'[i].pod # log'[n].pod
                 PROVE  pod'[log'[n].pod] = log'[n].state
        BY DEF LogIsTrue
    <2>1. CASE n = Len(log')
        BY <2>1, <1>1, <1>6 DEF DiscoveryType
    <2>2. CASE n # Len(log')
        <3>1. n \in 1..Len(log) /\ Len(log') \in (n + 1)..Len(log')
            BY <2>2, <1>4
        <3>2. log[n].pod # p
            BY <3>1, <1>4, <1>5, <1>6
        <3>3. \A i \in (n + 1)..Len(log) : log[i].pod # log[n].pod
            BY <3>1, <1>4, <1>5
        <3>4. pod[log[n].pod] = log[n].state
            BY <3>1, <3>3 DEF LogIsTrue
        <3> QED BY <3>1, <3>2, <3>4, <1>1, <1>5 DEF DiscoveryType, Event
    <2> QED BY <2>1, <2>2
<1>10. ASSUME watching # "off" PROVE AsListed' /\ AsSeen'
    <2>1. AsListed'
        <3> SUFFICES ASSUME NEW a, Silent(a, listedAt + 1, Len(log))' PROVE Matches(locations, a)'
            BY DEF AsListed
        <3>1. AddrOf[p] # a
            BY <1>3, <1>4, <1>6 DEF Silent, Addr, DiscoveryType
        <3>2. Silent(a, listedAt + 1, Len(log))
            BY <1>3, <1>4, <1>5 DEF Silent, DiscoveryType
        <3>3. Matches(locations, a)
            BY <1>10, <3>2 DEF AsListed
        <3> QED BY <1>1, <1>3, <3>1, <3>3 DEF Matches, HasAddress, DiscoveryType
    <2>2. AsSeen'
        <3> SUFFICES ASSUME NEW n \in (listedAt + 1)..seen, Silent(Addr(n), n + 1, seen)'
                     PROVE  /\ log'[n].state = "ready" => Addr(n)' \in locations
                            /\ log'[n].state \in {"ending", "gone"} => Addr(n)' \notin locations
            BY <1>3, <1>5 DEF AsSeen, DiscoveryType
        <3>1. n \in 1..Len(log)
            BY DEF DiscoveryType
        <3>2. Silent(Addr(n), n + 1, seen)
            BY <1>3, <1>5, <3>1 DEF Silent, DiscoveryType
        <3> QED BY <1>5, <1>10, <3>1, <3>2 DEF AsSeen
    <2> QED BY <2>1, <2>2
<1> QED BY <1>3, <1>7, <1>8, <1>9, <1>10

LEMMA ListKeeps ==
    ASSUME DiscoveryInv, ListPods
    PROVE  DiscoveryInv'
<1> USE DEF DiscoveryInv, ListPods
<1>1. Len(log) \in Nat /\ DiscoveryType'
    BY DEF DiscoveryType
<1>2. LastEvents' /\ LogIsTrue'
    BY DEF LastEvents, LogIsTrue, Addr, Silent
<1>3. AsSeen'
    BY <1>1 DEF AsSeen
<1>4. AsListed'
    BY DEF AsListed, Matches, HasAddress, DiscoveryType
<1> QED BY <1>1, <1>2, <1>3, <1>4

LEMMA WatchEventKeeps ==
    ASSUME DiscoveryInv, WatchEvent
    PROVE  DiscoveryInv'
<1> USE DEF DiscoveryInv
<1>1. /\ Len(log) \in Nat /\ seen \in Nat /\ listedAt \in Nat /\ seen + 1 \in 1..Len(log)
      /\ listedAt <= seen /\ seen' = seen + 1
      /\ UNCHANGED <<pod, log, listedAt, watching>> /\ watching = "on"
    BY DEF DiscoveryType, WatchEvent
<1> DEFINE b == Addr(seen + 1)
           s == log[seen + 1].state
<1>2. /\ s \in {"ending", "gone"} => locations' = locations \ {b}
      /\ s = "ready" => locations' = locations \cup {b}
      /\ s \notin {"ending", "gone", "ready"} => locations' = locations
    BY DEF WatchEvent, OnPod, Addr
<1>3. \A a : a # b => (a \in locations' <=> a \in locations)
    BY <1>2
<1> HIDE DEF b, s
<1>4. DiscoveryType' /\ LastEvents' /\ LogIsTrue'
    BY <1>1 DEF DiscoveryType, LastEvents, LogIsTrue, Addr, Silent
<1>5. AsListed'
    <2> SUFFICES ASSUME NEW a, Silent(a, listedAt + 1, Len(log)) PROVE Matches(locations, a)'
        BY <1>1 DEF AsListed, Silent, Addr
    <2>1. a # b
        BY <1>1 DEF Silent, b
    <2>2. Matches(locations, a)
        BY <1>1 DEF AsListed
    <2> QED BY <1>1, <1>3, <2>1, <2>2 DEF Matches, HasAddress
<1>6. AsSeen'
    <2> SUFFICES ASSUME NEW n \in (listedAt + 1)..(seen + 1), Silent(Addr(n), n + 1, seen + 1)
                 PROVE  /\ log[n].state = "ready" => Addr(n) \in locations'
                        /\ log[n].state \in {"ending", "gone"} => Addr(n) \notin locations'
        BY <1>1 DEF AsSeen, Silent, Addr
    <2>1. CASE n = seen + 1
        BY <2>1, <1>2 DEF b, s
    <2>2. CASE n # seen + 1
        <3>1. n \in (listedAt + 1)..seen /\ seen + 1 \in (n + 1)..(seen + 1)
            BY <2>2, <1>1
        <3>2. Addr(n) # b /\ Silent(Addr(n), n + 1, seen)
            BY <3>1, <1>1 DEF Silent, b
        <3> QED BY <3>1, <3>2, <1>1, <1>3 DEF AsSeen
    <2> QED BY <2>1, <2>2
<1> QED BY <1>4, <1>5, <1>6

LEMMA RestartKeeps ==
    ASSUME DiscoveryInv, RestartWatch
    PROVE  DiscoveryInv'
<1> USE DEF DiscoveryInv, RestartWatch, StartVersion
<1>1. DiscoveryType' /\ LastEvents' /\ LogIsTrue'
    BY DEF DiscoveryType, LastEvents, LogIsTrue, Addr, Silent
<1>2. AsListed'
    BY DEF AsListed, Silent, Addr, Matches, HasAddress
<1>3. AsSeen'
    BY DEF AsSeen, DiscoveryType
<1> QED BY <1>1, <1>2, <1>3

LEMMA DiscoveryStep ==
    ASSUME DiscoveryInv, [DiscoveryNext]_discoveryVars
    PROVE  DiscoveryInv'
<1> DEFINE Same == /\ pod' = pod /\ log' = log /\ listedAt' = listedAt /\ seen' = seen
                   /\ locations' = locations
                   /\ watching' = watching \/ (watching' = "restart" /\ watching = "on")
<1>1. Same => DiscoveryInv'
    <2> SUFFICES ASSUME Same PROVE DiscoveryInv'
        OBVIOUS
    <2> USE DEF DiscoveryInv
    <2>1. DiscoveryType'
        BY DEF DiscoveryType
    <2>3. LastEvents'
        BY DEF LastEvents, Addr, Silent
    <2>4. LogIsTrue'
        BY DEF LogIsTrue
    <2>2. watching # "off" => AsListed' /\ AsSeen'
        BY DEF AsListed, AsSeen, Silent, Addr, Matches, HasAddress
    <2> QED BY <2>1, <2>2, <2>3, <2>4
<1>2. CASE UNCHANGED discoveryVars
    BY <1>1, <1>2 DEF discoveryVars
<1>3. CASE Compact \/ StreamFails \/ ReadLocations
    BY <1>1, <1>3 DEF Compact, StreamFails, ReadLocations
<1> QED BY <1>2, <1>3, ChangeKeeps, ListKeeps, WatchEventKeeps, RestartKeeps DEF DiscoveryNext

\* Whatever the watch missed, saw twice or saw late, when it has caught up
\* the file has the addresses of the ready servers and none of an ended one
\* (rmtconfigkube_init, watch_pods, on_pod).
THEOREM CaughtUpExactTheorem == DiscoverySpec => []CaughtUpExact
<1>1. DiscoveryInv => CaughtUpExact
    <2> SUFFICES ASSUME DiscoveryInv, watching = "on", seen = Len(log),
                        NEW a \in Addrs, ~Reissued(a)
                 PROVE  Matches(locations, a)
        BY DEF CaughtUpExact
    <2> USE DEF DiscoveryInv
    <2>1. CASE Silent(a, listedAt + 1, Len(log))
        BY <2>1 DEF AsListed
    <2>2. CASE ~Silent(a, listedAt + 1, Len(log))
        <3>1. PICK i \in (listedAt + 1)..Len(log) : Addr(i) = a
            BY <2>2 DEF Silent
        <3>2. PICK n \in i..Len(log) : Addr(n) = a /\ Silent(a, n + 1, Len(log))
            BY <3>1 DEF LastEvents, DiscoveryType
        <3>3. n \in (listedAt + 1)..seen /\ n \in 1..Len(log)
            BY <3>1, <3>2 DEF DiscoveryType
        <3>4. /\ log[n].state = "ready" => a \in locations
              /\ log[n].state \in {"ending", "gone"} => a \notin locations
            BY <3>2, <3>3 DEF AsSeen
        <3>5. log[n].pod \in Pods /\ log[n].state \in PodStates \ {"pending"} /\ AddrOf[log[n].pod] = a
            <4>1. log[n] \in Event
                BY <3>3 DEF DiscoveryType
            <4> QED BY <4>1, <3>2 DEF Event, Addr
        <3>6. \A j \in (n + 1)..Len(log) : log[j].pod # log[n].pod
            BY <3>2, <3>5 DEF Silent, Addr
        <3>7. pod[log[n].pod] = log[n].state
            BY <3>3, <3>6 DEF LogIsTrue
        <3>8. \A p \in Pods : AddrOf[p] = a /\ pod[p] # "pending" => p = log[n].pod
            BY <3>5, <3>7 DEF Reissued, HasHadAddress
        <3> QED BY <3>4, <3>5, <3>7, <3>8 DEF Matches, HasAddress, PodStates
    <2> QED BY <2>1, <2>2
<1> QED BY <1>1, DiscoveryInitially, DiscoveryStep, PTL DEF DiscoverySpec
=============================================================================
