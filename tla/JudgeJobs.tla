------------------------------ MODULE JudgeJobs ------------------------------
(***************************************************************************)
(* The judge-job service: clients, people and workers over one durable     *)
(* document and the label files, with crashes, clocks and lost store       *)
(* leases.                                                                 *)
(***************************************************************************)
EXTENDS JudgeQueue, JudgeWithdrawal

\* A worker process dies and is started again.  The operating system frees
\* its store lock; its claim stays in the document until the lease runs out.
Crash(w) ==
    /\ faults < MaxFaults /\ faults' = faults + 1
    /\ pc[w] # "reset_once"
    /\ pc' = [pc EXCEPT ![w] = "reset_once"]
    /\ claim' = [claim EXCEPT ![w] = NoClaim(w)]
    /\ body' = [body EXCEPT ![w] = NoBody]
    /\ lock' = IF lock = w THEN None ELSE lock
    /\ UNCHANGED <<queueVars, withdrawalVars>>

Elapse(left) == IF left > Floor THEN left - 1 ELSE left

\* Time passes.  When the system is Timely, every worker that renews its
\* slot has renewed it since the last tick.
Tick ==
    /\ Timely => \A w \in Workers :
          pc[w] \in Renewing /\ claim[w] \in DOMAIN executions
             => executions[claim[w]] = Lease + Offset[w]
    /\ executions' = [c \in DOMAIN executions |-> Elapse(executions[c])]
    /\ target' = [j \in Jobs |-> [e \in Episodes |->
                    [target[j][e] EXCEPT !.left = Elapse(@)]]]
    /\ UNCHANGED <<sequence, job, capacity, withdrawalVars, workerVars>>

\* What the loop of worker w does next.
Worker(w) ==
    \/ \E d \in Datasets : BeginReset(w, d)
    \/ NothingToReset(w)
    \/ ResetLoad(w)
    \/ ResetSave(w)
    \/ ResetCommit(w)
    \/ \E j \in Jobs, e \in Episodes : BeginApply(w, j, e)
    \/ NothingToApply(w)
    \/ ApplyLoad(w)
    \/ ApplySave(w)
    \/ ApplyCommit(w)
    \/ \E j \in Jobs, e \in Episodes : Take(w, j, e)
    \/ TakeNothing(w)
    \/ Observe(w)
    \/ \E outcome \in Verdicts \cup {"error"} : Publish(w, outcome)
    \/ Release(w)

Client ==
    \/ \E d \in Datasets, es \in (SUBSET Episodes) \ {{}}, m \in Modes,
          f \in Configs, k \in Keys, c \in Capacities : Submit(d, es, m, f, k, c)
    \/ \E j \in Jobs : Cancel(j)
    \/ \E j \in Jobs : Retry(j)
    \/ \E j \in Jobs, es \in SUBSET Episodes : RequestApplication(j, es)
    \/ \E d \in Datasets : PreviewReset(d)
    \/ \E p \in 1 .. MaxPreviews : ConfirmReset(p)
    \/ \E d \in Datasets : RetryReset(d)
    \/ \E d \in Datasets : HumanEdit(d)

Environment ==
    \/ \E w \in Workers : Shutdown(w)
    \/ \E w \in Workers : Crash(w)
    \/ \E w \in Workers : LoseStoreLease(w)
    \/ Tick

Next ==
    \/ \E w \in Workers : Worker(w)
    \/ \E w \in Workers : Heartbeat(w)
    \/ Client
    \/ Environment

Spec == Init /\ [][Next]_vars

-----------------------------------------------------------------------------
(* Safety of the queue *)

\* However claims, lease expiries, cancellations and crashes interleave, the
\* document never holds more execution slots than the shared capacity
\* (claim, heartbeat, release).
CapacityRespected == Cardinality(DOMAIN executions) <= capacity

\* No two slots are about the same input, so one saved input is never
\* judged twice at the same time on slots that both still count
\* (busy_inputs in claim), even when its first claim was cancelled,
\* withdrawn or fenced and its inference still runs.
ExclusiveInputs ==
    \A c, d \in DOMAIN executions :
        Input(c.job, c.episode) = Input(d.job, d.episode) => c = d

\* At most one worker can publish a target: a claim that still counts has a
\* higher fence than every other claim of its target that a worker holds, so
\* claims that were taken over, cancelled, retried or withdrawn are stale for
\* good, whatever the workers are called and whatever their clocks say.
OnePublisher ==
    \A v, w \in Workers :
        /\ v # w /\ ValidClaim(v)
        /\ claim[w].job = claim[v].job /\ claim[w].episode = claim[v].episode
        => claim[w].fence < claim[v].fence

Pending(j) ==
    \E e \in Episodes : \/ target[j][e].status \in {"queued", "running"}
                       \/ target[j][e].application = "queued"

\* A job that says it is unfinished has work a worker will find, in the
\* current generation, and a finished one has none: no sequence of publish,
\* cancel, retry, application and withdrawal strands a job or its targets.
NoStrandedWork ==
    \A j \in Submitted :
        IF job[j].status \in Terminal THEN ~Pending(j)
                                      ELSE Pending(j) /\ ~Withdrawn(j)

\* Evidence is written once: no retry, late publication, cancellation or
\* withdrawal changes or removes the verdict of a target that has one.
EvidenceFinal ==
    [][\A j \in Jobs, e \in Episodes :
          target[j][e].verdict # None =>
             /\ target'[j][e].verdict = target[j][e].verdict
             /\ target'[j][e].status = "succeeded"]_target

\* From the moment a withdrawal is confirmed nothing about the withdrawn jobs
\* changes again: late publications, heartbeats of old claims, retries and
\* applications that were under way are all fenced by the generation.
WithdrawnJobsFrozen ==
    [][\A j \in Submitted : Withdrawn(j) =>
          /\ job'[j] = job[j]
          /\ \A e \in Episodes :
                [target'[j][e] EXCEPT !.left = 0] = [target[j][e] EXCEPT !.left = 0]
      ]_<<job, target>>

-----------------------------------------------------------------------------
(* Safety of the label files *)

\* When a withdrawal has been published, no contribution of the runs it
\* covers is left in force, whatever was being applied when it was confirmed.
WithdrawalComplete ==
    \A d \in Datasets : resets[d].published =>
        \A s \in labels[d].machine \ labels[d].withdrawn :
            job[s[1]].generation >= resets[d].generation

\* No apply or withdrawal working on a stale copy of the file undoes what a
\* person saved in the meantime, revives a tombstone or drops a record.
LabelFilesOnlyGrow ==
    [][\A d \in Datasets :
          /\ labels'[d].edits >= labels[d].edits
          /\ labels[d].machine \subseteq labels'[d].machine
          /\ labels[d].withdrawn \subseteq labels'[d].withdrawn]_labels

\* Tombstones are only set on the very file the user saw in the preview:
\* whatever was edited or applied after the preview makes it a conflict.
PublishesThePreview ==
    [][\A d \in Datasets :
          labels'[d].withdrawn # labels[d].withdrawn =>
             labels[d] = resets[d].etag]_labels

\* A target that reports its application succeeded has its contribution in
\* the file, and every contribution in a file is backed by decided evidence.
ApplicationsBacked ==
    /\ \A j \in Submitted, e \in Episodes :
          target[j][e].application = "succeeded" =>
             <<j, e>> \in labels[job[j].dataset].machine
    /\ \A d \in Datasets : \A s \in labels[d].machine :
          job[s[1]].dataset = d /\ target[s[1]][s[2]].verdict = "decided"

-----------------------------------------------------------------------------
(* The service keeps its promise (JudgePromise), as long as the store keeps *)
(* its lease: ImplementsPromise relates evidence in the document to labels  *)
(* in the files over every interleaving.                                    *)
Promise == INSTANCE JudgePromise WITH
    Runs <- Jobs,
    evidence <- [j \in Jobs |-> [e \in Episodes |-> target[j][e].verdict]],
    withdrawn <- {j \in Submitted : Withdrawn(j)},
    inForce <- UNION {labels[d].machine \ labels[d].withdrawn : d \in Datasets}

ImplementsPromise == Promise!PromiseSpec

-----------------------------------------------------------------------------
(* Clocks *)

\* If every worker renews its slot in time, and no two clocks differ by two
\* thirds of a lease, the workers that really use the device are never more
\* than the shared capacity: no slot is purged under a running inference.
JudgingWithinCapacity ==
    Cardinality({w \in Workers : pc[w] \in {"claimed", "judging"}}) <= capacity

\* Under the same conditions a working claim is only lost to a person: its
\* lease is never found expired and nobody takes its target over, so
\* finished inference is thrown away only after a cancellation (which moves
\* the fence once), a retry (twice) or a withdrawal.
TimelyClaimKept ==
    \A w \in Workers :
        LET c == claim[w]  t == target[c.job][c.episode] IN
        pc[w] \in {"claimed", "judging"} /\ Active(c.job) =>
           (t.status = "running" /\ t.fence <= c.fence + 1 => ValidClaim(w))

-----------------------------------------------------------------------------
(* Liveness.  Workers loop and renew, and time passes.  Clients, people and *)
(* faults owe nothing.                                                      *)
Fairness ==
    /\ \A w \in Workers : WF_vars(Worker(w)) /\ WF_vars(Heartbeat(w))
    /\ WF_vars(Tick)

FairSpec == Spec /\ Fairness

\* A confirmed or retried withdrawal does not stay "running": some worker
\* gets the lock, reaches the file and records how it ended.
ResetsSettle ==
    \A d \in Datasets :
        resets[d].status = "running" ~> resets[d].status # "running"

\* run_once applies before it claims, so a client that asks again and again
\* for an application that fails holds the queue up.
ClientsRest ==
    <>[][\A j \in Jobs, es \in SUBSET Episodes : ~RequestApplication(j, es)]_vars

\* Otherwise every accepted job ends, although workers crash with claims in
\* hand and the slots of those claims hold the capacity for a while.
JobsSettle ==
    ClientsRest => \A j \in Jobs :
        job[j].status \in {"queued", "running"} ~> job[j].status \in Terminal
=============================================================================
