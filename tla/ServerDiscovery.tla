-------------------------- MODULE ServerDiscovery --------------------------
(***************************************************************************)
(* How a GPU-offload client finds its servers (rmtconfigkube.py): it lists *)
(* the pods of a server label once, then watches them, keeps the addresses *)
(* of those that are ready in a configuration file, and takes its choice   *)
(* of run locations from that file (rmtconfig.py, Remoter.updateRunLoc).   *)
(* A watch that ends starts again from the resource version of the list.   *)
(***************************************************************************)
EXTENDS Naturals, Sequences, FiniteSets

CONSTANTS
    Pods,            \* pods of the label, by uid
    AddrOf,          \* pod_ip and port; pods may share one, at different times
    MaxEvents,       \* bound: changes of pods
    MaxBreaks        \* bound: streams that fail

ASSUME DiscoveryAssumption == MaxEvents \in Nat /\ MaxBreaks \in Nat

Addrs == {AddrOf[p] : p \in Pods}

VARIABLES
    pod,             \* state of each pod
    log,             \* events of the pods, by resource version
    kept,            \* oldest resource version a watch may start from
    listedAt,        \* resource version of the list, 0 before
    watching,        \* "off", "on" or "restart"
    seen,            \* resource version the watch has got to
    locations,       \* addresses in the configuration file
    choices,         \* runloc: addresses that calls may go to
    breaks           \* streams that have failed

discoveryVars == <<pod, log, kept, listedAt, watching, seen, locations, choices, breaks>>

Quiet == [p \in Pods |-> "pending"]

DiscoveryInit ==
    /\ pod = Quiet /\ log = <<>> /\ kept = 1
    /\ listedAt = 0 /\ watching = "off" /\ seen = 0
    /\ locations = {} /\ choices = {} /\ breaks = 0

-----------------------------------------------------------------------------
(* The cluster (external)                                                  *)

(* A pod gets ready or not, is told to end, and is gone.  Its address may  *)
(* be given to another pod once it is told to end.  One that ends before   *)
(* it has an address is not told from one that never was.                  *)
NextState(p) ==
    CASE pod[p] = "pending"  -> {"ready"}
      [] pod[p] = "ready"    -> {"unready", "ending"}
      [] pod[p] = "unready"  -> {"ready", "ending"}
      [] pod[p] = "ending"   -> {"gone"}
      [] OTHER               -> {}
HasAddress(p) == pod[p] \in {"ready", "unready"}

Change(p) ==
    /\ Len(log) < MaxEvents
    /\ \E s \in NextState(p) :
          /\ s = "ready" => \A q \in Pods \ {p} : HasAddress(q) => AddrOf[q] # AddrOf[p]
          /\ pod' = [pod EXCEPT ![p] = s]
          /\ log' = Append(log, [pod |-> p, state |-> s])
    /\ UNCHANGED <<kept, listedAt, watching, seen, locations, choices, breaks>>

(* Old events are forgotten.                                               *)
Compact ==
    /\ kept <= Len(log) /\ kept' = Len(log) + 1
    /\ UNCHANGED <<pod, log, listedAt, watching, seen, locations, choices, breaks>>

-----------------------------------------------------------------------------
(* rmtconfigkube_init, watch_pods, on_pod                                  *)

(* Addresses after on_pod: an event that says DELETED or has a             *)
(* deletion_timestamp removes; a pod that is not ready any more is left.   *)
OnPodUnlessGone(L, p, state) ==
    IF state = "ready" THEN L \cup {AddrOf[p]} ELSE IF state = "gone" THEN L \ {AddrOf[p]} ELSE L
OnPod(L, p, state) ==
    IF state \in {"ending", "gone"} THEN L \ {AddrOf[p]}
    ELSE IF state = "ready" THEN L \cup {AddrOf[p]}
    ELSE L

ListPods ==
    /\ watching = "off"
    /\ locations' = {AddrOf[p] : p \in {q \in Pods : pod[q] = "ready"}}
    /\ listedAt' = Len(log) /\ seen' = Len(log) /\ watching' = "on"
    /\ UNCHANGED <<pod, log, kept, choices, breaks>>

WatchEvent ==
    /\ watching = "on" /\ seen < Len(log)
    /\ LET e == log[seen + 1] IN locations' = OnPod(locations, e.pod, e.state)
    /\ seen' = seen + 1
    /\ UNCHANGED <<pod, log, kept, listedAt, watching, choices, breaks>>

(* The stream fails with an error; until then it loses nothing.            *)
StreamFails ==
    /\ watching = "on" /\ watching' = "restart"
    /\ breaks < MaxBreaks /\ breaks' = breaks + 1
    /\ UNCHANGED <<pod, log, kept, listedAt, seen, locations, choices>>

(* The loop of watch_pods: all that has happened since the list is seen    *)
(* again, and when the list is too old every watch fails at once.          *)
StartPresent == Len(log)
StartVersion == listedAt
RestartWatch ==
    /\ watching = "restart" /\ kept <= StartVersion + 1
    /\ watching' = "on" /\ seen' = StartVersion
    /\ UNCHANGED <<pod, log, kept, listedAt, locations, choices, breaks>>

(* watch_config_file and updateRunLoc: the file is read after a change.    *)
ReadLocations ==
    /\ choices' = locations
    /\ UNCHANGED <<pod, log, kept, listedAt, watching, seen, locations, breaks>>

DiscoveryNext ==
    \/ \E p \in Pods : Change(p)
    \/ Compact \/ ListPods \/ WatchEvent \/ StreamFails \/ RestartWatch \/ ReadLocations

DiscoverySpec == DiscoveryInit /\ [][DiscoveryNext]_discoveryVars

WatchStep == ListPods \/ WatchEvent \/ RestartWatch
DiscoveryFairness == WF_discoveryVars(WatchStep) /\ WF_discoveryVars(ReadLocations)

-----------------------------------------------------------------------------
(* Properties *)

(* Two pods have had the address: the end of the first may still be to     *)
(* come and takes it away from the second.                                 *)
HasHadAddress(p) == pod[p] # "pending"
Reissued(a) == \E p, q \in Pods : p # q /\ AddrOf[p] = a /\ AddrOf[q] = a
                                 /\ HasHadAddress(p) /\ HasHadAddress(q)

(* Addresses of ready servers are among S and those of ended ones are not. *)
Matches(S, a) ==
    /\ (\E p \in Pods : AddrOf[p] = a /\ pod[p] = "ready") => a \in S
    /\ (\A p \in Pods : AddrOf[p] = a => ~HasAddress(p)) => a \notin S

(* Whenever the watch has caught up, after however many restarts that      *)
(* played the same events again, the file holds the servers there are.     *)
CaughtUpExact ==
    watching = "on" /\ seen = Len(log) => \A a \in Addrs : Reissued(a) \/ Matches(locations, a)

(* The run locations come to follow the servers, unless the watch has      *)
(* broken after its list became too old: then it never recovers.           *)
Blind == watching = "restart" /\ kept > listedAt + 1
LocationsFollow == <>[](Blind \/ \A a \in Addrs : Reissued(a) \/ Matches(choices, a))
=============================================================================
