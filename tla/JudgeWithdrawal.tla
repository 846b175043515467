--------------------------- MODULE JudgeWithdrawal ---------------------------
(***************************************************************************)
(* How judge evidence reaches a label file and is withdrawn from it        *)
(* (jobs.py, application.py).  apply_once and reset_once do slow work on a  *)
(* second resource, the label file, inside a store transaction: each is a  *)
(* chain of steps under the store's lock, between which people edit        *)
(* labels, the worker may crash, and, on the Blob store, the lease that    *)
(* stands for the lock may be lost without the worker noticing before the  *)
(* transaction ends.                                                       *)
(***************************************************************************)
EXTENDS JudgeState

\* plan_withdrawal: every contribution the runs made gets a tombstone.
Projected(content, runs) ==
    [content EXCEPT !.withdrawn = @ \cup {s \in content.machine : s[1] \in runs}]

\* apply_judge_result: the identity of a contribution is derived from its
\* run, result and field, so applying twice records it once and does not
\* revive what was withdrawn.
Contributed(content, j, e) ==
    [content EXCEPT !.machine = @ \cup {<<j, e>>}]

\* Mutant of Scope: jobs that are over are left out.
ScopeUnfinished(d) ==
    {j \in Submitted : job[j].dataset = d /\ job[j].status \notin Terminal}

\* _reset_scope
Scope(d) == {j \in Submitted : job[j].dataset = d}

-----------------------------------------------------------------------------
(* Clients *)

\* Mutant of Applicable: the generation is not compared.
ApplicableAnyGeneration(j) ==
    job[j].mode # "sample" /\ job[j].status # "cancelled"

Applicable(j) ==
    job[j].mode # "sample" /\ job[j].status # "cancelled" /\ ~Withdrawn(j)

\* request_application for the episodes es: every one of them needs evidence.
RequestApplication(j, es) ==
    LET ts == [e \in Episodes |->
                 IF e \in es /\ target[j][e].application \notin {"succeeded", "skipped"}
                 THEN [target[j][e] EXCEPT !.application = "queued"]
                 ELSE target[j][e]] IN
    /\ lock = None
    /\ j \in Submitted /\ Applicable(j)
    /\ es # {} /\ \A e \in es : target[j][e].status = "succeeded"
    /\ target' = [target EXCEPT ![j] = ts]
    /\ job' = [job EXCEPT ![j].status = Summary(@, ts)]
    /\ UNCHANGED <<sequence, capacity, executions, withdrawalVars, workerVars>>

\* preview_reset
PreviewReset(d) ==
    /\ lock = None
    /\ resets[d].status # "running"
    /\ previewed < MaxPreviews /\ previewed' = previewed + 1
    /\ previews' = [previews EXCEPT ![previewed + 1] =
                      [dataset |-> d, runs |-> Scope(d),
                       generation |-> generations[d], etag |-> labels[d]]]
    /\ UNCHANGED <<queueVars, generations, resets, labels, workerVars>>

\* Mutants of Stopped: a status of its own; applications are left queued.
StoppedAsWithdrawn(t) ==
    [t EXCEPT !.status = IF @ \in {"queued", "running"} THEN "withdrawn" ELSE @]
StoppedTargetsOnly(t) ==
    [t EXCEPT !.status = IF @ \in {"queued", "running"} THEN "cancelled" ELSE @]

Stopped(t) ==
    [t EXCEPT !.status = IF @ \in {"queued", "running"} THEN "cancelled" ELSE @,
              !.application = IF @ = "queued" THEN "withdrawn" ELSE @]

\* confirm_reset: the new generation fences every job of the dataset at
\* once.  Confirming again the preview of the last withdrawal only answers
\* with it.
ConfirmReset(p) ==
    LET d == previews[p].dataset IN
    /\ lock = None
    /\ p \in 1 .. previewed
    /\ resets[d].preview # p /\ resets[d].status # "running"
    /\ Scope(d) = previews[p].runs
    /\ labels[d] = previews[p].etag
    /\ generations[d] = previews[p].generation
    /\ generations' = [generations EXCEPT ![d] = @ + 1]
    /\ job' = [j \in Jobs |->
                 IF job[j].dataset = d /\ job[j].status \notin Terminal
                 THEN [job[j] EXCEPT !.status = "cancelled"] ELSE job[j]]
    /\ target' = [j \in Jobs |->
                    IF job[j].dataset = d
                    THEN [e \in Episodes |-> Stopped(target[j][e])]
                    ELSE target[j]]
    /\ resets' = [resets EXCEPT ![d] =
                    [status |-> "running", published |-> FALSE, preview |-> p,
                     generation |-> generations[d] + 1,
                     runs |-> previews[p].runs, etag |-> previews[p].etag]]
    /\ UNCHANGED <<sequence, capacity, executions, previews, previewed,
                   labels, workerVars>>

\* retry_reset
RetryReset(d) ==
    /\ lock = None
    /\ resets[d].status = "partial"
    /\ resets' = [resets EXCEPT ![d].status = "running"]
    /\ UNCHANGED <<queueVars, generations, previews, previewed, labels, workerVars>>

Edited(content, contested) ==
    [content EXCEPT !.edits = @ + 1, !.contested = contested]

\* A person saves labels in the viewer, which compares revisions like the
\* jobs do.  The file may come to hold values of two human authors.
HumanEdit(d) ==
    /\ labels[d].edits < MaxEdits
    /\ \E contested \in {labels[d].contested, TRUE} :
          labels' = [labels EXCEPT ![d] = Edited(@, contested)]
    /\ UNCHANGED <<queueVars, generations, previews, previewed, resets, workerVars>>

-----------------------------------------------------------------------------
(* Slow transactions *)

At(w, place) == pc' = [pc EXCEPT ![w] = place]

\* The body works on the state as it was when the transaction began.
Enter(w, place, locals) ==
    /\ lock = None /\ lock' = w
    /\ At(w, place)
    /\ body' = [body EXCEPT ![w] = locals]
    /\ UNCHANGED <<queueVars, withdrawalVars, claim, faults>>

\* The body goes on to its end with this outcome.
Conclude(w, place, outcome) ==
    /\ At(w, place)
    /\ body' = [body EXCEPT ![w].outcome = outcome]

Load(w, place) ==
    /\ At(w, place)
    /\ body' = [body EXCEPT ![w].loaded = labels[body[w].dataset]]

\* Mutant of Matches: the save carries no revision.
MatchesAlways(w) == TRUE

Matches(w) == labels[body[w].dataset] = body[w].loaded

\* save with If-Match: it writes new if the file is what was loaded.  A save
\* may also fail, before or after the new file is in place.
Save(w, place, new, done, failed) ==
    LET d == body[w].dataset IN
    \/ /\ Matches(w)
       /\ labels' = [labels EXCEPT ![d] = new]
       /\ \/ Conclude(w, place, done) /\ UNCHANGED faults
          \/ /\ faults < MaxFaults /\ faults' = faults + 1
             /\ Conclude(w, place, failed)
    \/ /\ ~Matches(w)
       /\ Conclude(w, place, failed)
       /\ UNCHANGED <<labels, faults>>
    \/ /\ faults < MaxFaults /\ faults' = faults + 1
       /\ Conclude(w, place, failed)
       /\ UNCHANGED labels

\* The end of the transaction: published if the lock was kept all the time,
\* otherwise the store raises and nothing of the body is published.
Leave(w) ==
    /\ lock' = IF lock = w THEN None ELSE lock
    /\ At(w, "reset_once")
    /\ body' = [body EXCEPT ![w] = NoBody]
    /\ UNCHANGED <<claim, faults>>

-----------------------------------------------------------------------------
(* apply_once *)

Candidate(j, e) ==
    /\ j \in Submitted /\ job[j].status # "cancelled" /\ ~Withdrawn(j)
    /\ target[j][e].application = "queued" /\ target[j][e].status = "succeeded"

BeginApply(w, j, e) ==
    /\ pc[w] = "apply_once"
    /\ Candidate(j, e)
    /\ \A k \in Submitted, f \in Episodes :
          k < j \/ (k = j /\ f < e) => ~Candidate(k, f)
    /\ Enter(w, "apply_load", [NoBody EXCEPT !.dataset = job[j].dataset,
                                             !.job = j, !.episode = e])

NothingToApply(w) ==
    /\ pc[w] = "apply_once"
    /\ \A j \in Submitted, e \in Episodes : ~Candidate(j, e)
    /\ At(w, "claim")
    /\ UNCHANGED <<queueVars, withdrawalVars, lock, claim, body, faults>>

\* Mutant of Proposes: any verdict proposes a label.
ProposesAnything(j, e) == target[j][e].verdict # None

Proposes(j, e) == target[j][e].verdict = "decided"

\* The approval, the saved input and the evidence are checked, and may fail;
\* undecided evidence proposes no label.
ApplyLoad(w) ==
    /\ pc[w] = "apply_load"
    /\ \/ Conclude(w, "apply_commit", "failed")
       \/ /\ ~Proposes(body[w].job, body[w].episode)
          /\ Conclude(w, "apply_commit", "skipped")
       \/ /\ Proposes(body[w].job, body[w].episode)
          /\ Load(w, "apply_save")
    /\ UNCHANGED <<queueVars, withdrawalVars, lock, claim, faults>>

ApplySave(w) ==
    /\ pc[w] = "apply_save"
    /\ Save(w, "apply_commit",
            Contributed(body[w].loaded, body[w].job, body[w].episode),
            "succeeded", "failed")
    /\ UNCHANGED <<queueVars, generations, previews, previewed, resets, lock, claim>>

ApplyCommit(w) ==
    LET j == body[w].job  e == body[w].episode
        new == [target[j][e] EXCEPT !.application = body[w].outcome] IN
    /\ pc[w] = "apply_commit"
    /\ IF lock = w
       THEN /\ target' = [target EXCEPT ![j][e] = new]
            /\ job' = [job EXCEPT ![j].status =
                         Summary(@, [target[j] EXCEPT ![e] = new])]
       ELSE UNCHANGED <<target, job>>
    /\ Leave(w)
    /\ UNCHANGED <<sequence, capacity, executions, withdrawalVars>>

-----------------------------------------------------------------------------
(* reset_once *)

BeginReset(w, d) ==
    /\ pc[w] = "reset_once"
    /\ resets[d].status = "running"
    /\ Enter(w, "reset_load", [NoBody EXCEPT !.dataset = d, !.reset = resets[d]])

NothingToReset(w) ==
    /\ pc[w] = "reset_once"
    /\ \A d \in Datasets : resets[d].status # "running"
    /\ At(w, "apply_once")
    /\ UNCHANGED <<queueVars, withdrawalVars, lock, claim, body, faults>>

\* Mutant of EditedSincePreview: whatever is in the file is withdrawn from.
EditedNeverMatters(w) == FALSE

EditedSincePreview(w) == labels[body[w].dataset] # body[w].reset.etag

\* The file may already be what was previewed (an attempt that did not
\* record its success), or have changed since the preview.
ResetLoad(w) ==
    LET content == labels[body[w].dataset]
        reset == body[w].reset
        projected == Projected(reset.etag, reset.runs) IN
    /\ pc[w] = "reset_load"
    /\ \/ /\ content = projected
          /\ Conclude(w, "reset_commit", "published") /\ UNCHANGED faults
       \/ /\ content # projected /\ EditedSincePreview(w)
          /\ Conclude(w, "reset_commit", "conflicted") /\ UNCHANGED faults
       \/ /\ content # projected /\ ~EditedSincePreview(w)
          /\ Load(w, "reset_save") /\ UNCHANGED faults
       \/ /\ faults < MaxFaults /\ faults' = faults + 1
          /\ Conclude(w, "reset_commit", "partial")
    /\ UNCHANGED <<queueVars, withdrawalVars, lock, claim>>

ResetSave(w) ==
    /\ pc[w] = "reset_save"
    /\ Save(w, "reset_commit", Projected(body[w].loaded, body[w].reset.runs),
            "published", "partial")
    /\ UNCHANGED <<queueVars, generations, previews, previewed, resets, lock, claim>>

\* Mutant of Recorded: a withdrawal that failed is not recorded.
RecordedIfPublished(w) ==
    LET reset == resets[body[w].dataset] IN
    IF body[w].outcome = "published"
    THEN [reset EXCEPT !.published = TRUE, !.status = "succeeded"] ELSE reset

\* What reset_once records: fields that nothing could be decided about leave
\* a published withdrawal conflicted.
Recorded(w) ==
    LET reset == resets[body[w].dataset] IN
    IF body[w].outcome = "published"
    THEN [reset EXCEPT !.published = TRUE,
                       !.status = IF reset.etag.contested THEN "conflicted"
                                  ELSE "succeeded"]
    ELSE [reset EXCEPT !.status = body[w].outcome]

ResetCommit(w) ==
    /\ pc[w] = "reset_commit"
    /\ resets' = IF lock = w
                 THEN [resets EXCEPT ![body[w].dataset] = Recorded(w)] ELSE resets
    /\ Leave(w)
    /\ UNCHANGED <<queueVars, generations, previews, previewed, labels>>

-----------------------------------------------------------------------------
(* The environment *)

\* BlobJobStore: a failed renewal is looked at only when the body is done,
\* so the body goes on although others may take the lease.
LoseStoreLease(w) ==
    /\ StoreLeaseLost /\ lock = w /\ lock' = None
    /\ UNCHANGED <<queueVars, withdrawalVars, pc, claim, body, faults>>
=============================================================================
