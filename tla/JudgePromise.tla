---------------------------- MODULE JudgePromise ----------------------------
(***************************************************************************)
(* What the judge-job service promises, whatever its queue, leases,        *)
(* transactions and retries do: evidence is written once and only for runs *)
(* that were not withdrawn; a label is put in force only by a run that has *)
(* decided evidence and was not withdrawn; a withdrawn run stays withdrawn *)
(* and only withdrawing takes its labels out of force.                     *)
(***************************************************************************)
CONSTANTS Runs, Episodes, Verdicts, None

VARIABLES
    evidence,   \* evidence[r][e]: verdict of run r on episode e, or None
    withdrawn,  \* runs that were withdrawn
    inForce     \* <<run, episode>> whose machine labels are in force

promiseVars == <<evidence, withdrawn, inForce>>

PromiseInit ==
    /\ evidence = [r \in Runs |-> [e \in Episodes |-> None]]
    /\ withdrawn = {}
    /\ inForce = {}

Record(r, e, v) ==
    /\ r \notin withdrawn
    /\ evidence[r][e] = None
    /\ evidence' = [evidence EXCEPT ![r][e] = v]
    /\ UNCHANGED <<withdrawn, inForce>>

PutInForce(r, e) ==
    /\ r \notin withdrawn
    /\ evidence[r][e] = "decided"
    /\ inForce' = inForce \cup {<<r, e>>}
    /\ UNCHANGED <<evidence, withdrawn>>

Withdraw(S) ==
    /\ withdrawn' = withdrawn \cup S
    /\ UNCHANGED <<evidence, inForce>>

TakeOut(S) ==
    /\ S \subseteq withdrawn
    /\ inForce' = {s \in inForce : s[1] \notin S}
    /\ UNCHANGED <<evidence, withdrawn>>

PromiseNext ==
    \/ \E r \in Runs, e \in Episodes, v \in Verdicts : Record(r, e, v)
    \/ \E r \in Runs, e \in Episodes : PutInForce(r, e)
    \/ \E S \in SUBSET Runs : Withdraw(S) \/ TakeOut(S)

PromiseSpec == PromiseInit /\ [][PromiseNext]_promiseVars
=============================================================================
