----------------------------- MODULE MCServices -----------------------------
(***************************************************************************)
(* Constants of the TLC runs of three components that share no state:      *)
(* RemoteCalls, ServerReconcile and ServerDiscovery.  A behaviour is one   *)
(* of one component, `part`; the others stay in their initial states.      *)
(***************************************************************************)
EXTENDS RemoteCalls, ServerReconcile, ServerDiscovery, TLC

CONSTANTS
    Parts,           \* the components that are explored
    MaxTroubles,     \* bound on "reconcile", below
    s1, s2, m1, m2, r1, r2, p1, a, x, y, z

NameSymmetry == Permutations(Shared) \cup Permutations(Methods)

(* Two Deployments of one name, one after the other, and a Pod of the    *)
(* name; all of them may have the stage a.                                 *)
BothKinds == <<"Pod", "Deployment">>
TheKindOf == [r \in Roots |-> IF r = p1 THEN "Pod" ELSE "Deployment"]
SharedStage == [Deployment |-> {a}, Pod |-> {a}]

(* x and y are given the same address                                      *)
TheAddresses == (x :> 1) @@ (y :> 1) @@ (z :> 2)

VARIABLE part

parts == <<vars, reconcileVars, discoveryVars, part>>

ServicesInit == part \in Parts /\ Init /\ ReconcileInit /\ DiscoveryInit

(* The cleanup thread is late only where no methods are called.            *)
LateShared == TimesOverdue' # 0 => \A c \in Methods : phase'[c] = "idle"

(* Workloads count twice, changes and faults once, and r1 is the first of  *)
(* the two Deployments.                                                    *)
Modest ==
    /\ 2 * Cardinality(past') + edits' + faults' <= MaxTroubles
    /\ r2 \in past' => r1 \in past'

ServicesNext ==
    \/ /\ part = "calls" /\ Next /\ LateShared
       /\ UNCHANGED <<reconcileVars, discoveryVars, part>>
    \/ /\ part = "reconcile" /\ ReconcileNext /\ Modest
       /\ UNCHANGED <<vars, discoveryVars, part>>
    \/ part = "discovery" /\ DiscoveryNext /\ UNCHANGED <<vars, reconcileVars, part>>

ServicesSpec == ServicesInit /\ [][ServicesNext]_parts

(* The fairness of each component, in its part                             *)
ServicesFairness ==
    /\ WF_vars(part = "calls" /\ ClientStep)
    /\ WF_vars(part = "calls" /\ ServerStep)
    /\ \A k \in KindSet :
          /\ WF_reconcileVars(part = "reconcile" /\ ThreadStep(k))
          /\ WF_reconcileVars(part = "reconcile" /\ NextWatch(k))
    /\ WF_reconcileVars(part = "reconcile" /\ Collect)
    /\ WF_reconcileVars(part = "reconcile" /\ SyncStep)
    /\ WF_discoveryVars(part = "discovery" /\ WatchStep)
    /\ WF_discoveryVars(part = "discovery" /\ ReadLocations)

FairServicesSpec == ServicesSpec /\ ServicesFairness
=============================================================================
