----------------------------- MODULE JudgeQueue -----------------------------
(***************************************************************************)
(* Submission, claims, evidence, cancellation and retry of judge jobs.     *)
(* Each action is one store transaction of jobs.py: it needs the store's   *)
(* lock and, but for the slow transactions of JudgeWithdrawal, is over in  *)
(* one step.  An operation that raises leaves the document as it was, so   *)
(* its refusals are the guards.                                            *)
(***************************************************************************)
EXTENDS JudgeState

\* The part of replay() that refuses work while a withdrawal is unsettled.
WithdrawalUnsettled(d) ==
    \/ resets[d].status \in {"running", "partial"}
    \/ resets[d].status = "conflicted" /\ ~resets[d].published

\* submit: a client sends a new request to a replica configured with the
\* capacity c.  A request whose key is known is answered with the job it
\* made (or refused), which changes nothing.
Submit(d, episodes, mode, config, key, c) ==
    /\ lock = None
    /\ sequence < MaxJobs
    /\ \A j \in Submitted : ~(job[j].dataset = d /\ job[j].key = key)
    /\ ~WithdrawalUnsettled(d)
    /\ capacity \in {0, c} /\ capacity' = c
    /\ sequence' = sequence + 1
    /\ job' = [job EXCEPT ![sequence + 1] =
                 [status |-> "queued", dataset |-> d, mode |-> mode,
                  config |-> config, key |-> key,
                  generation |-> generations[d], retries |-> 0]]
    /\ target' = [target EXCEPT ![sequence + 1] =
                    [e \in Episodes |-> IF e \in episodes
                                        THEN [NoTarget EXCEPT !.status = "queued"]
                                        ELSE NoTarget]]
    /\ UNCHANGED <<executions, withdrawalVars, workerVars>>

-----------------------------------------------------------------------------
(* Claims.  Worker w compares every lease with its own clock. *)

Expired(left, w) == left <= Offset[w]

Ready(w, j, e) ==
    /\ Active(j)
    /\ \/ target[j][e].status = "queued"
       \/ target[j][e].status = "running" /\ Expired(target[j][e].left, w)

\* Mutants of Live: expired slots are never purged; the slot of a claim goes
\* as soon as its target is cancelled.
LiveNoPurge(w) == DOMAIN executions
LiveOnlyRunning(w) ==
    {c \in DOMAIN executions : /\ ~Expired(executions[c], w)
                               /\ target[c.job][c.episode].fence = c.fence}

\* The slots that still count: cancelled or withdrawn claims included.
Live(w) == {c \in DOMAIN executions : ~Expired(executions[c], w)}

\* Mutant of HasRoom: running targets are counted, not slots.
HasRoomForTargets(w) ==
    Cardinality({s \in Slots : /\ s[1] \in Submitted
                               /\ target[s[1]][s[2]].status = "running"
                               /\ ~Expired(target[s[1]][s[2]].left, w)}) < capacity

HasRoom(w) == Cardinality(Live(w)) < capacity

\* Mutant of Takeable: inputs already being judged are not skipped.
TakeableThoughBusy(w, j, e) == Ready(w, j, e)

Takeable(w, j, e) ==
    /\ Ready(w, j, e)
    /\ \A c \in Live(w) : Input(c.job, c.episode) # Input(j, e)

\* Jobs in run order, the targets of a job in episode order.
Earlier(k, f, j, e) == k < j \/ (k = j /\ f < e)

\* The target after a claim: a new fence and a lease.
Taken(t, w) ==
    [t EXCEPT !.status = "running", !.fence = @ + 1,
              !.owner = w, !.left = Lease + Offset[w]]

\* claim, when it returns a claim: slots that ran out are purged, and the
\* first takeable target is taken and gets an execution slot.
Take(w, j, e) ==
    LET c == [job |-> j, episode |-> e, fence |-> target[j][e].fence + 1,
              owner |-> w, generation |-> job[j].generation] IN
    /\ pc[w] = "claim" /\ lock = None
    /\ HasRoom(w)
    /\ Takeable(w, j, e)
    /\ \A k \in Submitted, f \in Episodes :
          Earlier(k, f, j, e) => ~Takeable(w, k, f)
    /\ target[j][e].fence < MaxFence
    /\ target' = [target EXCEPT ![j][e] = Taken(@, w)]
    /\ job' = [job EXCEPT ![j].status = "running"]
    /\ executions' = [x \in Live(w) \cup {c} |->
                        IF x = c THEN Lease + Offset[w] ELSE executions[x]]
    /\ claim' = [claim EXCEPT ![w] = c]
    /\ pc' = [pc EXCEPT ![w] = "claimed"]
    /\ UNCHANGED <<sequence, capacity, withdrawalVars, lock, body, faults>>

\* claim, when it returns None: the unlocked look found nothing to claim, or
\* the transaction did, which publishes the purge.  What that look found may
\* be gone by then, so the second case asks nothing of it.
TakeNothing(w) ==
    /\ pc[w] = "claim"
    /\ \/ /\ \A j \in Submitted, e \in Episodes : ~Ready(w, j, e)
          /\ UNCHANGED executions
       \/ /\ lock = None
          /\ \/ ~HasRoom(w)
             \/ \A j \in Submitted, e \in Episodes : ~Takeable(w, j, e)
          /\ executions' = [c \in Live(w) |-> executions[c]]
    /\ pc' = [pc EXCEPT ![w] = "reset_once"]
    /\ UNCHANGED <<sequence, job, target, capacity, withdrawalVars,
                   lock, claim, body, faults>>

\* run_once reads the state, without the lock, and leaves if its claim is
\* already fenced.  Validation of the approval and of the saved input, and
\* whether the evidence is inferred or taken over from an earlier run of the
\* same input, only decide what is published.
Observe(w) ==
    /\ pc[w] = "claimed"
    /\ pc' = [pc EXCEPT ![w] = IF ValidClaim(w) THEN "judging" ELSE "release"]
    /\ UNCHANGED <<queueVars, withdrawalVars, lock, claim, body, faults>>

\* Mutant of Renewed: only the slot is renewed.
RenewedSlotOnly(c, left) == target

Renewed(c, left) ==
    LET t == target[c.job][c.episode] IN
    [target EXCEPT ![c.job][c.episode] = [t EXCEPT !.left = left]]

\* heartbeat: the execution slot is renewed even when the claim is fenced,
\* because the inference still uses the device; the target only while the
\* claim is valid.  The clock is read again for the target, so a lease about
\* to run out may be found expired after the slot was renewed.
Heartbeat(w) ==
    LET c == claim[w] IN
    /\ pc[w] \in Renewing /\ lock = None
    /\ c \in DOMAIN executions /\ ~Expired(executions[c], w)
    /\ executions' = [executions EXCEPT ![c] = Lease + Offset[w]]
    /\ \/ ValidClaim(w) /\ target' = Renewed(c, Lease + Offset[w])
       \/ /\ ValidClaim(w) /\ ~Timely
          /\ target[c.job][c.episode].left = Offset[w] + 1
          /\ target' = Renewed(c, Offset[w])
       \/ ~ValidClaim(w) /\ UNCHANGED target
    /\ UNCHANGED <<sequence, job, capacity, withdrawalVars, workerVars>>

-----------------------------------------------------------------------------
(* Evidence *)

Popped(c) == [x \in DOMAIN executions \ {c} |-> executions[x]]

\* The target after publish: its evidence, or an error.
Published(t, mode, outcome) ==
    [t EXCEPT !.status = IF outcome = "error" THEN "failed" ELSE "succeeded",
              !.verdict = IF outcome = "error" THEN @ ELSE outcome,
              !.application = IF outcome # "error" /\ mode = "judge-and-label"
                              THEN "queued" ELSE @,
              !.owner = None, !.left = Floor]

\* publish: pops the execution slot and, unless the claim is fenced, settles
\* the target.  The transaction may be published and still raise; run_once
\* then publishes the error of that ("failing").
Publish(w, outcome) ==
    LET c == claim[w]
        new == Published(target[c.job][c.episode], job[c.job].mode, outcome) IN
    /\ \/ pc[w] = "judging"
       \/ pc[w] = "failing" /\ outcome = "error"
    /\ lock = None
    /\ executions' = Popped(c)
    /\ IF ValidClaim(w)
       THEN /\ target' = [target EXCEPT ![c.job][c.episode] = new]
            /\ job' = [job EXCEPT ![c.job].status =
                         Summary(@, [target[c.job] EXCEPT ![c.episode] = new])]
       ELSE UNCHANGED <<target, job>>
    /\ \/ pc' = [pc EXCEPT ![w] = "release"] /\ UNCHANGED faults
       \/ /\ pc[w] = "judging" /\ outcome # "error" /\ faults < MaxFaults
          /\ pc' = [pc EXCEPT ![w] = "failing"] /\ faults' = faults + 1
    /\ UNCHANGED <<sequence, capacity, withdrawalVars, lock, claim, body>>

\* release, in the finally clause of run_once.
Release(w) ==
    /\ pc[w] = "release" /\ lock = None
    /\ executions' = Popped(claim[w])
    /\ claim' = [claim EXCEPT ![w] = NoClaim(w)]
    /\ pc' = [pc EXCEPT ![w] = "reset_once"]
    /\ UNCHANGED <<sequence, job, target, capacity, withdrawalVars,
                   lock, body, faults>>

\* A worker that is shut down publishes nothing but releases its slot.
Shutdown(w) ==
    /\ pc[w] \in Renewing /\ faults < MaxFaults
    /\ pc' = [pc EXCEPT ![w] = "release"]
    /\ faults' = faults + 1
    /\ UNCHANGED <<queueVars, withdrawalVars, lock, claim, body>>

-----------------------------------------------------------------------------
(* Clients *)

\* Mutant of Cancelled: evidence that is there is cancelled too.
CancelledWithEvidence(t) == [t EXCEPT !.status = "cancelled", !.fence = @ + 1]

Cancelled(t) ==
    [t EXCEPT !.status = IF @ \in {"queued", "running"} THEN "cancelled" ELSE @,
              !.fence = IF t.status \in {"queued", "running"} THEN @ + 1 ELSE @,
              !.application = IF @ = "queued" THEN "cancelled" ELSE @]

\* cancel: stops what has not finished; evidence that is there stays.
Cancel(j) ==
    LET ts == [e \in Episodes |-> Cancelled(target[j][e])] IN
    /\ lock = None
    /\ j \in Submitted /\ job[j].status \notin Terminal
    /\ target' = [target EXCEPT ![j] = ts]
    /\ job' = [job EXCEPT ![j].status = Summary(@, ts)]
    /\ UNCHANGED <<sequence, capacity, executions, withdrawalVars, workerVars>>

Retried(t) ==
    [t EXCEPT !.status = IF @ \in {"failed", "cancelled"} THEN "queued" ELSE @,
              !.fence = IF t.status \in {"failed", "cancelled"} THEN @ + 1 ELSE @,
              !.application = IF @ \in {"failed", "cancelled"} THEN "queued" ELSE @]

\* retry: requeues what failed or was cancelled, unless it was withdrawn.
Retry(j) ==
    LET ts == [e \in Episodes |-> Retried(target[j][e])] IN
    /\ lock = None
    /\ j \in Submitted /\ ~Withdrawn(j)
    /\ job[j].status \in {"partial", "failed", "cancelled"}
    /\ job[j].retries < MaxRetries
    /\ target' = [target EXCEPT ![j] = ts]
    /\ job' = [job EXCEPT ![j].status = Summary("queued", ts),
                          ![j].retries = @ + 1]
    /\ UNCHANGED <<sequence, capacity, executions, withdrawalVars, workerVars>>
=============================================================================
