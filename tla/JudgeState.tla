----------------------------- MODULE JudgeState -----------------------------
(***************************************************************************)
(* The durable state of the judge jobs (physical_ai_curation/jobs.py): one *)
(* JSON document that every operation changes inside a store transaction,  *)
(* the label file of each dataset, and the position of each worker in      *)
(* JudgeJobs.run_once.  The operations are in JudgeQueue (submission,      *)
(* claims, evidence) and JudgeWithdrawal (application and withdrawal of    *)
(* labels); JudgeJobs composes them.                                       *)
(***************************************************************************)
EXTENDS Integers, FiniteSets

CONSTANTS
    Datasets,        \* dataset identifiers
    Episodes,        \* episode indices
    Keys,            \* idempotency keys a client may send
    Modes,           \* subset of {"judge", "sample", "judge-and-label"}
    Configs,         \* execution configurations
    Capacities,      \* capacities the replicas are configured with
    Workers,         \* processes that loop over run_once
    None,            \* Python's None
    Lease,           \* lease_seconds, in clock ticks
    Offset,          \* per worker: how far its clock is ahead
    Floor,           \* a lease that ran out this long ago is out on every clock
    Timely,          \* TRUE: a worker renews its lease on every tick
    StoreLeaseLost   \* TRUE: a transaction may lose its Blob lease half way

CONSTANTS            \* bounds of the model, none of them in the code
    MaxJobs,         \* jobs submitted
    MaxFence,        \* fence a claim may reach
    MaxRetries,      \* retries of one job
    MaxPreviews,     \* withdrawal previews (the code keeps the last 128)
    MaxEdits,        \* human edits of one label file
    MaxFaults        \* crashes, shutdowns and failed writes

ASSUME ConstantsAssumption ==
    /\ IsFiniteSet(Workers) /\ None \notin Workers
    /\ Datasets # {} /\ None \notin Datasets
    /\ Episodes \subseteq Nat /\ None \notin Episodes
    /\ None \notin {"decided", "undecided"}
    /\ Capacities \subseteq Nat \ {0}
    /\ Lease \in Nat \ {0} /\ Floor \in Int
    /\ Offset \in [Workers -> Int]
    /\ \A w \in Workers : Floor <= Offset[w]
    /\ Timely \in BOOLEAN /\ StoreLeaseLost \in BOOLEAN
    /\ {MaxJobs, MaxFence, MaxRetries, MaxPreviews, MaxEdits, MaxFaults} \subseteq Nat

VARIABLES
    sequence,        \* jobs submitted so far; a job is named by its run_order
    job,             \* job records, by run_order
    target,          \* target[j][e]: episode e of job j
    capacity,        \* capacities[capacity_scope]; 0 before the first submission
    generations,     \* withdrawals confirmed, by dataset
    executions,      \* claim -> ticks its execution slot has left
    previews,        \* withdrawal previews, by number
    previewed,       \* previews taken so far
    resets,          \* the last withdrawal of each dataset
    labels,          \* the label file of each dataset
    lock,            \* worker inside a slow transaction, or None
    pc,              \* where each worker is in run_once
    claim,           \* the claim each worker holds
    body,            \* locals of a worker's slow transaction
    faults           \* faults so far

queueVars == <<sequence, job, target, capacity, executions>>
withdrawalVars == <<generations, previews, previewed, resets, labels>>
workerVars == <<lock, pc, claim, body, faults>>
vars == <<queueVars, withdrawalVars, workerVars>>

-----------------------------------------------------------------------------
(* Types *)

Jobs == 1 .. MaxJobs
Slots == Jobs \X Episodes
Verdicts == {"decided", "undecided"}    \* outcome_success is a bool, or None
Terminal == {"succeeded", "partial", "failed", "cancelled"}
Settled == {"succeeded", "failed", "cancelled"}

Job == [status: {"none", "queued", "running"} \cup Terminal,
        dataset: Datasets \cup {None}, mode: Modes \cup {None},
        config: Configs \cup {None}, key: Keys \cup {None},
        generation: Nat, retries: Nat]

Target == [status: {"none", "queued", "running"} \cup Settled,
           fence: Nat, owner: Workers \cup {None}, left: Int,
           verdict: Verdicts \cup {None},
           application: {"none", "queued", "succeeded", "skipped", "failed",
                         "cancelled", "withdrawn"}]

\* A claim names its target and carries the fence it was given.
Claim == [job: 0 .. MaxJobs, episode: Episodes \cup {None}, fence: Nat,
          owner: Workers, generation: Nat]

\* A label file: the (job, episode) pairs whose machine contributions it
\* holds, those of them that are tombstoned, the human revisions, and whether
\* two human authors disagree.  Its content is also its etag.
Labels == [machine: SUBSET Slots, withdrawn: SUBSET Slots,
           edits: Nat, contested: BOOLEAN]

Preview == [dataset: Datasets \cup {None}, runs: SUBSET Jobs,
            generation: Nat, etag: Labels]

Reset == [status: {"none", "running", "partial", "conflicted", "succeeded"},
          published: BOOLEAN, preview: 0 .. MaxPreviews, generation: Nat,
          runs: SUBSET Jobs, etag: Labels]

Body == [dataset: Datasets \cup {None}, job: 0 .. MaxJobs,
         episode: Episodes \cup {None}, reset: Reset, loaded: Labels,
         outcome: {"pending", "succeeded", "skipped", "failed",
                   "published", "conflicted", "partial"}]

Renewing == {"claimed", "judging", "failing"}
Applying == {"apply_load", "apply_save", "apply_commit"}
Resetting == {"reset_load", "reset_save", "reset_commit"}
Position == {"reset_once", "apply_once", "claim", "release"}
              \cup Renewing \cup Applying \cup Resetting

NoJob == [status |-> "none", dataset |-> None, mode |-> None, config |-> None,
          key |-> None, generation |-> 0, retries |-> 0]
NoTarget == [status |-> "none", fence |-> 0, owner |-> None, left |-> Floor,
             verdict |-> None, application |-> "none"]
NoClaim(w) == [job |-> 0, episode |-> None, fence |-> 0, owner |-> w,
               generation |-> 0]
NoLabels == [machine |-> {}, withdrawn |-> {}, edits |-> 0, contested |-> FALSE]
NoPreview == [dataset |-> None, runs |-> {}, generation |-> 0, etag |-> NoLabels]
NoReset == [status |-> "none", published |-> FALSE, preview |-> 0,
            generation |-> 0, runs |-> {}, etag |-> NoLabels]
NoBody == [dataset |-> None, job |-> 0, episode |-> None, reset |-> NoReset,
           loaded |-> NoLabels, outcome |-> "pending"]

\* The type invariant of the whole document, the label files and the workers.
TypeOK ==
    /\ sequence \in 0 .. MaxJobs
    /\ job \in [Jobs -> Job]
    /\ target \in [Jobs -> [Episodes -> Target]]
    /\ capacity \in Capacities \cup {0}
    /\ generations \in [Datasets -> Nat]
    /\ DOMAIN executions \subseteq Claim
    /\ executions \in [DOMAIN executions -> Int]
    /\ previews \in [1 .. MaxPreviews -> Preview]
    /\ previewed \in 0 .. MaxPreviews
    /\ resets \in [Datasets -> Reset]
    /\ labels \in [Datasets -> Labels]
    /\ lock \in Workers \cup {None}
    /\ pc \in [Workers -> Position]
    /\ claim \in [Workers -> Claim]
    /\ body \in [Workers -> Body]
    /\ faults \in 0 .. MaxFaults

Init ==
    /\ sequence = 0
    /\ job = [j \in Jobs |-> NoJob]
    /\ target = [j \in Jobs |-> [e \in Episodes |-> NoTarget]]
    /\ capacity = 0
    /\ generations = [d \in Datasets |-> 0]
    /\ executions = [c \in {} |-> 0]
    /\ previews = [p \in 1 .. MaxPreviews |-> NoPreview]
    /\ previewed = 0
    /\ resets = [d \in Datasets |-> NoReset]
    /\ labels = [d \in Datasets |-> NoLabels]
    /\ lock = None
    /\ pc = [w \in Workers |-> "reset_once"]
    /\ claim = [w \in Workers |-> NoClaim(w)]
    /\ body = [w \in Workers |-> NoBody]
    /\ faults = 0

-----------------------------------------------------------------------------
(* Helpers shared by the operations *)

Submitted == 1 .. sequence

\* A job whose dataset was withdrawn after the job was accepted.
Withdrawn(j) == job[j].generation # generations[job[j].dataset]

Active(j) == j \in Submitted /\ job[j].status \notin Terminal /\ ~Withdrawn(j)

\* fingerprint([snapshot, execution_config]): what one inference is about.
Input(j, e) == <<job[j].dataset, e, job[j].config>>

\* Mutant of ValidClaim: the fence and the owner are not compared.
ValidClaimUnfenced(w) ==
    LET c == claim[w]  t == target[c.job][c.episode] IN
    c.job # 0 /\ Active(c.job) /\ t.status = "running" /\ t.left > Offset[w]

\* A claim as the worker w that checks it sees it, by its own clock.
ValidClaim(w) ==
    LET c == claim[w]  t == target[c.job][c.episode] IN
    /\ c.job # 0 /\ Active(c.job)
    /\ t.status = "running" /\ t.fence = c.fence /\ t.owner = c.owner
    /\ t.left > Offset[w]

\* Mutant of Summary: a queued application does not keep the job open.
SummaryForgetsApplications(status, ts) ==
    LET states == {ts[e].status : e \in {e \in Episodes : ts[e].status # "none"}} IN
    IF ~(states \subseteq Settled) THEN status
    ELSE IF states = {"succeeded"} THEN "succeeded" ELSE "failed"

\* JudgeJobs._summarize: the status of a job that had this status, with the
\* targets ts.
Summary(status, ts) ==
    LET own == {e \in Episodes : ts[e].status # "none"}
        states == {ts[e].status : e \in own}
        applications == {ts[e].application : e \in own} IN
    IF ~(states \subseteq Settled) THEN status
    ELSE IF "cancelled" \in states \cup applications THEN "cancelled"
    ELSE IF "queued" \in applications THEN "queued"
    ELSE IF states = {"succeeded"} /\ "failed" \notin applications THEN "succeeded"
    ELSE IF "succeeded" \in states THEN "partial" ELSE "failed"
=============================================================================
