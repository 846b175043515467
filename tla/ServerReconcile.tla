-------------------------- MODULE ServerReconcile --------------------------
(***************************************************************************)
(* The GPU-offload controller (gpu-offload controller/mutate.py) keeps the *)
(* server Deployments of each opted-in workload, their network policies    *)
(* and the workload's key in step with its ConfigMap: one watching thread  *)
(* for each kind of workload, each of whose API calls is a step.  The      *)
(* garbage collector of the cluster removes what dead workloads own.  All  *)
(* workloads here have the same name and differ in kind or uid; nothing in *)
(* the name of a server or of a policy tells their kinds apart, so kinds   *)
(* with a stage in common have its server in common.                       *)
(***************************************************************************)
EXTENDS Naturals, Sequences, FiniteSets

CONSTANTS
    Roots,           \* workloads, by their uid
    Kinds,           \* a sequence: the kinds in the order of the initial listing
    KindOf,          \* kind of each workload
    StagesOf,        \* stages a workload of a kind may have
    NoRoot, NoStage, \* none
    MaxEdits,        \* bound: changes of ConfigMaps
    MaxFaults        \* bound: failed API calls and restarts

KindSet == {Kinds[i] : i \in DOMAIN Kinds}
Stages == UNION {StagesOf[k] : k \in KindSet}

ASSUME ReconcileAssumption ==
    /\ Kinds \in Seq(KindSet) /\ KindOf \in [Roots -> KindSet]
    /\ StagesOf \in [KindSet -> SUBSET Stages]
    /\ NoRoot \notin Roots /\ NoStage \notin Stages

VARIABLES
    alive,           \* workloads that exist
    past,            \* workloads that have existed
    config,          \* serverstages in the ConfigMap of a kind's workloads
    key,             \* owner of the encryption Secret, NoRoot if there is none
    deployed,        \* owners of each server Deployment, {} if there is none
    policy,          \* owners of each network policy, {} if there is none
    sync,            \* kinds the initial synchronisation has yet to finish
    listed,          \* it has listed the first of them
    inbox,           \* objects that a thread has yet to reconcile
    work,            \* where reconcile_object is
    ownedBy,         \* history: workloads that have owned each Deployment
    removers,        \* history: for each thread and stage, the threads whose
                     \* cleanup removed the policy since it last put it there
    edits, faults

clusterVars == <<alive, past, config, edits>>
serverVarsR == <<key, deployed, policy, ownedBy, removers>>
reconcileVars == <<clusterVars, serverVarsR, sync, listed, inbox, work, faults>>

NotReconciling == [root |-> NoRoot, at |-> "idle", want |-> {}, todo |-> {}, half |-> NoStage]

ReconcileInit ==
    /\ alive = {} /\ past = {}
    /\ config = StagesOf
    /\ key = [k \in KindSet |-> NoRoot]
    /\ deployed = [s \in Stages |-> {}] /\ policy = [s \in Stages |-> {}]
    /\ sync = Kinds /\ listed = FALSE
    /\ inbox = [k \in KindSet |-> <<>>] /\ work = [k \in KindSet |-> NotReconciling]
    /\ ownedBy = [s \in Stages |-> {}]
    /\ removers = [k \in KindSet |-> [s \in Stages |-> {}]]
    /\ edits = 0 /\ faults = 0

-----------------------------------------------------------------------------
(* The users and the garbage collector of the cluster (external)           *)

(* A workload is created when none of its name and kind exists.            *)
CreateRoot(r) ==
    /\ r \notin past /\ \A q \in alive : KindOf[q] # KindOf[r]
    /\ alive' = alive \cup {r} /\ past' = past \cup {r}
    /\ inbox' = IF sync = <<>> THEN [inbox EXCEPT ![KindOf[r]] = Append(@, r)] ELSE inbox
    /\ UNCHANGED <<config, edits, serverVarsR, sync, listed, work, faults>>

DeleteRoot(r) ==
    /\ r \in alive /\ alive' = alive \ {r}
    /\ UNCHANGED <<past, config, edits, serverVarsR, sync, listed, inbox, work, faults>>

EditConfig(k) ==
    /\ edits < MaxEdits /\ edits' = edits + 1
    /\ \E S \in SUBSET StagesOf[k] : S # config[k] /\ config' = [config EXCEPT ![k] = S]
    /\ UNCHANGED <<alive, past, serverVarsR, sync, listed, inbox, work, faults>>

(* References to dead owners are dropped, and what has no other owner goes.*)
Collect ==
    /\ \/ \E s \in Stages :
             \/ /\ deployed[s] \ alive # {}
                /\ deployed' = [deployed EXCEPT ![s] = @ \cap alive]
                /\ UNCHANGED <<policy, key>>
             \/ /\ policy[s] \ alive # {}
                /\ policy' = [policy EXCEPT ![s] = @ \cap alive]
                /\ UNCHANGED <<deployed, key>>
       \/ \E k \in KindSet :
             /\ key[k] \notin alive \cup {NoRoot}
             /\ key' = [key EXCEPT ![k] = NoRoot] /\ UNCHANGED <<deployed, policy>>
    /\ UNCHANGED <<clusterVars, ownedBy, removers, sync, listed, inbox, work, faults>>

-----------------------------------------------------------------------------
(* ReconcileRuntime: the initial synchronisation, then the watches         *)

AliveOf(k) == {r \in alive : KindOf[r] = k}
Listing(k) == IF AliveOf(k) = {} THEN <<>> ELSE <<CHOOSE r \in AliveOf(k) : TRUE>>

SyncList ==
    /\ sync # <<>> /\ ~listed
    /\ listed' = TRUE
    /\ inbox' = [inbox EXCEPT ![Head(sync)] = Listing(Head(sync))]
    /\ UNCHANGED <<clusterVars, serverVarsR, sync, work, faults>>

SyncNext ==
    /\ sync # <<>> /\ listed
    /\ inbox[Head(sync)] = <<>> /\ work[Head(sync)] = NotReconciling
    /\ sync' = Tail(sync) /\ listed' = FALSE
    /\ UNCHANGED <<clusterVars, serverVarsR, inbox, work, faults>>

(* A stream ends after thirty seconds or fails; the next one begins with   *)
(* the objects there are.                                                  *)
Relist(k) ==
    /\ sync = <<>> /\ work[k] = NotReconciling
    /\ inbox' = [inbox EXCEPT ![k] = Listing(k)]
    /\ UNCHANGED <<clusterVars, serverVarsR, sync, listed, work, faults>>

(* A failed API call ends one reconciliation, and the whole initial        *)
(* synchronisation starts over.                                            *)
StartOver ==
    /\ sync' = Kinds /\ listed' = FALSE
    /\ inbox' = [k \in KindSet |-> <<>>] /\ work' = [k \in KindSet |-> NotReconciling]
ApiFault(k) ==
    /\ work[k] # NotReconciling /\ faults < MaxFaults
    /\ faults' = faults + 1
    /\ IF sync # <<>> THEN StartOver
       ELSE work' = [work EXCEPT ![k] = NotReconciling] /\ UNCHANGED <<sync, listed, inbox>>
    /\ UNCHANGED <<clusterVars, serverVarsR>>

Restart ==
    /\ faults < MaxFaults /\ faults' = faults + 1 /\ StartOver
    /\ UNCHANGED <<clusterVars, serverVarsR>>

-----------------------------------------------------------------------------
(* reconcile_object, one step for each API call that matters               *)

At(k, step) == work[k].at = step

(* The next object, and reconcile_encryption_secret: the Secret of an      *)
(* earlier workload of the name raises XavierConfigError.                  *)
Secret(k) ==
    /\ work[k] = NotReconciling /\ inbox[k] # <<>>
    /\ LET r == Head(inbox[k])
       IN  IF key[k] \in {NoRoot, r}
           THEN /\ key' = [key EXCEPT ![k] = r]
                /\ work' = [work EXCEPT ![k].root = r, ![k].at = "config"]
           ELSE UNCHANGED <<key, work>>
    /\ inbox' = [inbox EXCEPT ![k] = Tail(@)]
    /\ UNCHANGED <<clusterVars, deployed, policy, ownedBy, removers, sync, listed, faults>>

ReadConfig(k) ==
    /\ At(k, "config")
    /\ work' = [work EXCEPT ![k].at = "servers", ![k].want = config[k], ![k].todo = config[k]]
    /\ UNCHANGED <<clusterVars, serverVarsR, sync, listed, inbox, faults>>

(* The policy of a stage comes before its Deployment.  A patch adds the    *)
(* owner: owner references merge by uid.                                   *)
PolicyIfAbsent(k, s) ==
    /\ At(k, "servers") /\ work[k].half = NoStage /\ s \in work[k].todo
    /\ policy' = IF policy[s] = {} THEN [policy EXCEPT ![s] = {work[k].root}] ELSE policy
    /\ removers' = [removers EXCEPT ![k][s] = {}]
    /\ work' = [work EXCEPT ![k].half = s]
    /\ UNCHANGED <<clusterVars, key, deployed, ownedBy, sync, listed, inbox, faults>>
Policy(k, s) ==
    /\ At(k, "servers") /\ work[k].half = NoStage /\ s \in work[k].todo
    /\ policy' = [policy EXCEPT ![s] = @ \cup {work[k].root}]
    /\ removers' = [removers EXCEPT ![k][s] = {}]
    /\ work' = [work EXCEPT ![k].half = s]
    /\ UNCHANGED <<clusterVars, key, deployed, ownedBy, sync, listed, inbox, faults>>

Deploy(k, s) ==
    /\ At(k, "servers") /\ work[k].half = s /\ s \in work[k].todo
    /\ deployed' = [deployed EXCEPT ![s] = @ \cup {work[k].root}]
    /\ ownedBy' = [ownedBy EXCEPT ![s] = @ \cup {work[k].root}]
    /\ work' = [work EXCEPT ![k].half = NoStage, ![k].todo = @ \ {s}]
    /\ UNCHANGED <<clusterVars, key, policy, removers, sync, listed, inbox, faults>>

(* _orphaned_server_deployment_names: by name, and by the uid of any owner.*)
NoOrphans(k) == {}
OrphansByName(k) == {s \in Stages \ work[k].want : deployed[s] # {}}
Orphans(k) == {s \in Stages \ work[k].want : work[k].root \in deployed[s]}

(* The reconciliation ends when there are none, or none left.              *)
ListOrphans(k) ==
    /\ At(k, "servers") /\ work[k].todo = {}
    /\ work' = [work EXCEPT ![k] = IF Orphans(k) = {} THEN NotReconciling
                                  ELSE [@ EXCEPT !.at = "orphans", !.todo = Orphans(k)]]
    /\ UNCHANGED <<clusterVars, serverVarsR, sync, listed, inbox, faults>>

Uncover(k, s) ==
    /\ At(k, "orphans") /\ work[k].half = NoStage /\ s \in work[k].todo
    /\ policy' = [policy EXCEPT ![s] = {}]
    /\ removers' = [l \in KindSet |-> [removers[l] EXCEPT ![s] = @ \cup {k}]]
    /\ work' = [work EXCEPT ![k].half = s]
    /\ UNCHANGED <<clusterVars, key, deployed, ownedBy, sync, listed, inbox, faults>>

Remove(k, s) ==
    /\ At(k, "orphans") /\ work[k].half = s /\ s \in work[k].todo
    /\ deployed' = [deployed EXCEPT ![s] = {}]
    /\ work' = [work EXCEPT ![k] = IF work[k].todo = {s} THEN NotReconciling
                                  ELSE [work[k] EXCEPT !.half = NoStage, !.todo = @ \ {s}]]
    /\ UNCHANGED <<clusterVars, key, policy, ownedBy, removers, sync, listed, inbox, faults>>

-----------------------------------------------------------------------------

ThreadStep(k) ==
    \/ Secret(k) \/ ReadConfig(k) \/ ListOrphans(k)
    \/ \E s \in Stages : Policy(k, s) \/ Deploy(k, s) \/ Uncover(k, s) \/ Remove(k, s)

ReconcileNext ==
    \/ \E r \in Roots : CreateRoot(r) \/ DeleteRoot(r)
    \/ \E k \in KindSet : EditConfig(k) \/ Relist(k) \/ ThreadStep(k) \/ ApiFault(k)
    \/ Collect \/ SyncList \/ SyncNext \/ Restart

ReconcileSpec == ReconcileInit /\ [][ReconcileNext]_reconcileVars

(* Fairness: the threads go on, streams end, the garbage collector         *)
(* collects.  Users and faults are under no obligation.                    *)
NextWatch(k) == inbox[k] = <<>> /\ Relist(k)
SyncStep == SyncList \/ SyncNext
ReconcileFairness ==
    /\ \A k \in KindSet : WF_reconcileVars(ThreadStep(k)) /\ WF_reconcileVars(NextWatch(k))
    /\ WF_reconcileVars(Collect) /\ WF_reconcileVars(SyncStep)

-----------------------------------------------------------------------------
(* Properties *)

Removed(s) == deployed[s] # {} /\ deployed'[s] = {}

(* A cleanup takes a server from an existing workload only when it is that *)
(* workload's own, or that of a workload of another kind that has owned    *)
(* the server as well: never from a later workload of its own kind, and    *)
(* never for the name alone (docstring of                                  *)
(* _orphaned_server_deployment_names).                                     *)
RemovesOwnOnly ==
    [][\A s \in Stages : Removed(s) =>
          \A r \in deployed[s] \cap alive : \E k \in KindSet :
              /\ work[k].half = s
              /\ work[k].root = r \/ (KindOf[r] # k /\ work[k].root \in ownedBy[s])
      ]_reconcileVars

(* The server of a workload that exists accepts traffic only under its     *)
(* network policy, through recreation of the workload, changes of its      *)
(* ConfigMap, crashes and the garbage collector, unless the policy was     *)
(* removed, after the workload's thread put it there, by the cleanup of a  *)
(* kind whose workload has owned the server too.                           *)
IsolatedServers ==
    \A s \in Stages : \A r \in deployed[s] \cap alive :
        policy[s] = {} => \E q \in ownedBy[s] : KindOf[q] \in removers[KindOf[r]][s]

(* When users and faults leave it alone the cluster comes to run exactly   *)
(* the servers that the workloads' ConfigMaps name, each owned by all who  *)
(* want it, and they stay.                                                 *)
ServersAsConfigured ==
    \A s \in Stages :
        /\ deployed[s] = {r \in alive : s \in config[KindOf[r]]}
        /\ deployed[s] # {} => policy[s] # {}
        /\ \A r \in deployed[s] : key[KindOf[r]] = r
Converges == <>[]ServersAsConfigured
=============================================================================
