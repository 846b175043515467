--------------------------- MODULE JudgeTypeProofs ---------------------------
(***************************************************************************)
(* Type correctness of JudgeJobs, for all constants.  TypeOK alone is not  *)
(* inductive: the steps that end a slow transaction copy its locals into   *)
(* the document and the label files, so the type invariant also says what  *)
(* these locals can be while the transaction is under way.                 *)
(***************************************************************************)
EXTENDS JudgeJobs, TLAPS

\* The locals of a slow transaction are about a label file and a target of the
\* document, and the outcome it is about to record is one its kind of
\* transaction can have.
BodyOK ==
    \A w \in Workers :
        /\ pc[w] \in Applying \cup Resetting => body[w].dataset \in Datasets
        /\ pc[w] \in Applying => body[w].job \in Jobs /\ body[w].episode \in Episodes
        /\ pc[w] = "apply_commit" => body[w].outcome \in {"succeeded", "skipped", "failed"}
        /\ pc[w] = "reset_commit" => body[w].outcome \in {"published", "conflicted", "partial"}

JobOK == \A j \in Submitted : job[j].dataset \in Datasets

TypeInv == TypeOK /\ BodyOK /\ JobOK

-----------------------------------------------------------------------------

LEMMA SummaryType ==
    ASSUME NEW status \in {"none", "queued", "running"} \cup Terminal, NEW ts
    PROVE  Summary(status, ts) \in {"none", "queued", "running"} \cup Terminal
BY DEF Summary, Terminal

\* Changing one job's status, or one target, keeps the types.
LEMMA JobUpdate ==
    ASSUME TypeOK, NEW j,
           NEW status, j \in Jobs => status \in {"none", "queued", "running"} \cup Terminal
    PROVE  /\ [job EXCEPT ![j].status = status] \in [Jobs -> Job]
           /\ \A k \in Jobs : [job EXCEPT ![j].status = status][k].dataset = job[k].dataset
<1>1. \A r \in Job : \A s \in {"none", "queued", "running"} \cup Terminal :
         [r EXCEPT !.status = s] \in Job
    BY DEF Job
<1>2. \A r \in Job : \A s : [r EXCEPT !.status = s].dataset = r.dataset
    BY DEF Job
<1> QED BY <1>1, <1>2 DEF TypeOK

\* So does a step that leaves the datasets of the jobs alone.
LEMMA JobOKKept ==
    ASSUME TypeInv, sequence' = sequence,
           \A k \in Jobs : job'[k].dataset = job[k].dataset
    PROVE  JobOK'
BY SMTT(30), ConstantsAssumption DEF TypeInv, TypeOK, JobOK, Submitted, Jobs

LEMMA TargetUpdate ==
    ASSUME TypeOK, NEW j, NEW e,
           NEW new, j \in Jobs /\ e \in Episodes => new \in Target
    PROVE  [target EXCEPT ![j][e] = new] \in [Jobs -> [Episodes -> Target]]
BY DEF TypeOK

LEMMA TargetRenewal ==
    ASSUME NEW t \in Target, NEW left \in Int
    PROVE  [t EXCEPT !.left = left] \in Target
BY DEF Target

LEMMA InitType == Init => TypeInv
<1> SUFFICES ASSUME Init PROVE TypeInv
    OBVIOUS
<1> USE ConstantsAssumption
<1>1. job \in [Jobs -> Job]
    BY DEF Init, NoJob, Job
<1>2. target \in [Jobs -> [Episodes -> Target]]
    BY DEF Init, NoTarget, Target
<1>3. NoLabels \in Labels
    BY DEF NoLabels, Labels
<1>4. NoReset \in Reset /\ NoPreview \in Preview
    BY <1>3 DEF NoReset, Reset, NoPreview, Preview, Terminal
<1>5. NoBody \in Body
    BY <1>3, <1>4 DEF NoBody, Body
<1>6. \A w \in Workers : NoClaim(w) \in Claim
    BY DEF NoClaim, Claim
<1>7. /\ previews \in [1 .. MaxPreviews -> Preview]
      /\ resets \in [Datasets -> Reset]
      /\ labels \in [Datasets -> Labels]
      /\ claim \in [Workers -> Claim]
      /\ body \in [Workers -> Body]
    BY <1>3, <1>4, <1>5, <1>6 DEF Init
<1>8. /\ DOMAIN executions \subseteq Claim
      /\ executions \in [DOMAIN executions -> Int]
    BY DEF Init
<1>9. BodyOK /\ JobOK
    BY DEF BodyOK, JobOK, Submitted, Init, Applying, Resetting
<1>10. TypeOK
    BY <1>1, <1>2, <1>7, <1>8 DEF TypeOK, Init, Position
<1> QED BY <1>9, <1>10 DEF TypeInv

-----------------------------------------------------------------------------
(* The queue *)

LEMMA SubmitType ==
    ASSUME TypeInv, NEW d \in Datasets, NEW es \in SUBSET Episodes, NEW m \in Modes,
           NEW f \in Configs, NEW k \in Keys, NEW c \in Capacities,
           Submit(d, es, m, f, k, c)
    PROVE  TypeInv'
<1> USE ConstantsAssumption
<1>1. sequence' \in 0 .. MaxJobs /\ capacity' \in Capacities \cup {0}
    BY SMTT(30) DEF Submit, TypeInv, TypeOK
<1>2. job' \in [Jobs -> Job]
    BY DEF Submit, TypeInv, TypeOK, Job
<1>3. target' \in [Jobs -> [Episodes -> Target]]
    BY DEF Submit, TypeInv, TypeOK, Target, NoTarget
<1>4. JobOK'
    <2>1. \A n \in Jobs : job'[n].dataset = IF n = sequence + 1 THEN d ELSE job[n].dataset
        BY DEF Submit, TypeInv, TypeOK
    <2>2. \A n \in 1 .. sequence' : n \in Jobs /\ (n # sequence + 1 => n \in 1 .. sequence)
        BY SMTT(30) DEF Submit, Jobs, TypeInv, TypeOK
    <2> QED BY <2>1, <2>2 DEF JobOK, Submitted, TypeInv
<1> QED BY <1>1, <1>2, <1>3, <1>4 DEF Submit, TypeInv, TypeOK, BodyOK, withdrawalVars, workerVars

LEMMA TakenType ==
    ASSUME NEW t \in Target, NEW w \in Workers
    PROVE  Taken(t, w) \in Target
<1>1. t.fence + 1 \in Nat /\ Lease + Offset[w] \in Int
    BY ConstantsAssumption DEF Target
<1> QED BY <1>1 DEF Taken, Target

LEMMA TakeType ==
    ASSUME TypeInv, NEW w \in Workers, NEW j \in Jobs, NEW e \in Episodes, Take(w, j, e)
    PROVE  TypeInv'
<1> DEFINE c == [job |-> j, episode |-> e, fence |-> target[j][e].fence + 1,
                 owner |-> w, generation |-> job[j].generation]
<1> USE ConstantsAssumption
<1>1. c \in Claim
    <2>1. target[j][e] \in Target /\ job[j] \in Job
        BY DEF TypeInv, TypeOK
    <2>2. target[j][e].fence \in Nat /\ job[j].generation \in Nat
        BY <2>1 DEF Target, Job
    <2> QED BY <2>2 DEF Claim, Jobs
<1>2. job' \in [Jobs -> Job] /\ JobOK'
    <2>1. job' = [job EXCEPT ![j].status = "running"] /\ sequence' = sequence
        BY DEF Take
    <2>2. /\ job' \in [Jobs -> Job]
          /\ \A k \in Jobs : job'[k].dataset = job[k].dataset
        BY <2>1, JobUpdate DEF TypeInv
    <2> QED BY <2>1, <2>2, JobOKKept
<1>3. target' \in [Jobs -> [Episodes -> Target]]
    <2>1. target[j][e] \in Target
        BY DEF TypeInv, TypeOK
    <2>2. Taken(target[j][e], w) \in Target
        BY <2>1, TakenType
    <2> QED BY <2>2, TargetUpdate DEF Take, TypeInv
<1>4. /\ executions' = [x \in Live(w) \cup {c} |->
                         IF x = c THEN Lease + Offset[w] ELSE executions[x]]
      /\ claim' = [claim EXCEPT ![w] = c]
    BY DEF Take
<1>5. /\ DOMAIN executions' \subseteq Claim
      /\ executions' \in [DOMAIN executions' -> Int]
    BY SMTT(30), <1>1, <1>4 DEF TypeInv, TypeOK, Live
<1>6. claim' \in [Workers -> Claim] /\ pc' \in [Workers -> Position]
    BY SMTT(30), <1>1, <1>4 DEF Take, TypeInv, TypeOK, Position, Renewing
<1>7. BodyOK'
    BY DEF Take, TypeInv, BodyOK, TypeOK, Applying, Resetting
<1> QED BY <1>2, <1>3, <1>5, <1>6, <1>7 DEF Take, TypeInv, TypeOK, withdrawalVars

LEMMA TakeNothingType ==
    ASSUME TypeInv, NEW w \in Workers, TakeNothing(w)
    PROVE  TypeInv'
<1>1. /\ DOMAIN executions' \subseteq Claim
      /\ executions' \in [DOMAIN executions' -> Int]
    BY DEF TakeNothing, TypeInv, TypeOK, Live
<1>2. pc' \in [Workers -> Position] /\ BodyOK'
    BY DEF TakeNothing, TypeInv, BodyOK, TypeOK, Position, Applying, Resetting
<1> QED BY <1>1, <1>2 DEF TakeNothing, TypeInv, TypeOK, JobOK, Submitted, withdrawalVars

LEMMA ObserveType ==
    ASSUME TypeInv, NEW w \in Workers, Observe(w)
    PROVE  TypeInv'
<1>1. pc' \in [Workers -> Position] /\ BodyOK'
    BY DEF Observe, TypeInv, BodyOK, TypeOK, Position, Applying, Resetting, Renewing
<1> QED BY <1>1 DEF Observe, TypeInv, TypeOK, JobOK, Submitted, queueVars, withdrawalVars

LEMMA HeartbeatType ==
    ASSUME TypeInv, NEW w \in Workers, Heartbeat(w)
    PROVE  TypeInv'
<1> USE ConstantsAssumption
<1>1. /\ DOMAIN executions' \subseteq Claim
      /\ executions' \in [DOMAIN executions' -> Int]
    BY SMTT(30) DEF Heartbeat, TypeInv, TypeOK
<1>2. target' \in [Jobs -> [Episodes -> Target]]
    <2>1. \A left \in Int : Renewed(claim[w], left) \in [Jobs -> [Episodes -> Target]]
        <3> TAKE left \in Int
        <3> DEFINE t == target[claim[w].job][claim[w].episode]
        <3>1. claim[w].job \in Jobs /\ claim[w].episode \in Episodes => t \in Target
            BY DEF TypeInv, TypeOK
        <3>2. claim[w].job \in Jobs /\ claim[w].episode \in Episodes
                => [t EXCEPT !.left = left] \in Target
            BY <3>1, TargetRenewal
        <3> QED BY <3>2, TargetUpdate DEF Renewed, TypeInv
    <2> QED BY SMTT(30), <2>1 DEF Heartbeat, TypeInv, TypeOK
<1> QED BY <1>1, <1>2
        DEF Heartbeat, TypeInv, TypeOK, JobOK, Submitted, BodyOK, withdrawalVars, workerVars

LEMMA PoppedType ==
    ASSUME TypeOK, NEW c
    PROVE  /\ DOMAIN Popped(c) \subseteq Claim
           /\ Popped(c) \in [DOMAIN Popped(c) -> Int]
BY DEF TypeOK, Popped

LEMMA PublishType ==
    ASSUME TypeInv, NEW w \in Workers, NEW outcome \in Verdicts \cup {"error"},
           Publish(w, outcome)
    PROVE  TypeInv'
<1> DEFINE c == claim[w]
           new == Published(target[c.job][c.episode], job[c.job].mode, outcome)
<1> USE ConstantsAssumption
<1>1. /\ DOMAIN executions' \subseteq Claim
      /\ executions' \in [DOMAIN executions' -> Int]
    BY PoppedType DEF Publish, TypeInv
<1>2. /\ target' \in [Jobs -> [Episodes -> Target]]
      /\ job' \in [Jobs -> Job] /\ JobOK'
    <2>1. CASE ValidClaim(w)
        <3>1. c.job \in Jobs
            BY <2>1 DEF ValidClaim, Active, Submitted, TypeInv, TypeOK, Jobs
        <3>2. c.episode \in Episodes => new \in Target
            <4>1. c.episode \in Episodes => target[c.job][c.episode] \in Target
                BY <3>1 DEF TypeInv, TypeOK
            <4> QED BY ZenonT(60), <4>1 DEF Published, Target, Verdicts, Settled
        <3>3. target' = [target EXCEPT ![c.job][c.episode] = new]
            BY <2>1 DEF Publish
        <3>4. target' \in [Jobs -> [Episodes -> Target]]
            BY <3>2, <3>3, TargetUpdate DEF TypeInv
        <3>5. job' = [job EXCEPT ![c.job].status =
                        Summary(@, [target[c.job] EXCEPT ![c.episode] = new])]
            BY <2>1 DEF Publish
        <3>6. job[c.job].status \in {"none", "queued", "running"} \cup Terminal
            BY <3>1 DEF TypeInv, TypeOK, Job
        <3>7. Summary(job[c.job].status, [target[c.job] EXCEPT ![c.episode] = new])
                \in {"none", "queued", "running"} \cup Terminal
            BY <3>6, SummaryType
        <3>8. /\ job' \in [Jobs -> Job]
              /\ \A k \in Jobs : job'[k].dataset = job[k].dataset
            BY SMTT(30), <3>5, <3>7, JobUpdate DEF TypeInv
        <3>9. JobOK'
            BY <3>8, JobOKKept DEF Publish
        <3> QED BY <3>4, <3>8, <3>9
    <2>2. CASE ~ValidClaim(w)
        BY <2>2 DEF Publish, TypeInv, TypeOK, JobOK, Submitted
    <2> QED BY <2>1, <2>2
<1>3. pc' \in [Workers -> Position] /\ BodyOK'
    BY ZenonT(60) DEF Publish, TypeInv, TypeOK, BodyOK, Position, Renewing, Applying, Resetting
<1>4. faults' \in 0 .. MaxFaults
    BY DEF Publish, TypeInv, TypeOK
<1> QED BY <1>1, <1>2, <1>3, <1>4 DEF Publish, TypeInv, TypeOK, withdrawalVars

LEMMA ReleaseType ==
    ASSUME TypeInv, NEW w \in Workers, Release(w)
    PROVE  TypeInv'
<1>1. /\ DOMAIN executions' \subseteq Claim
      /\ executions' \in [DOMAIN executions' -> Int]
    BY PoppedType DEF Release, TypeInv
<1>2. NoClaim(w) \in Claim
    BY ConstantsAssumption DEF NoClaim, Claim
<1>3. pc' \in [Workers -> Position] /\ claim' \in [Workers -> Claim] /\ BodyOK'
    BY <1>2 DEF Release, TypeInv, TypeOK, BodyOK, Position, Applying, Resetting
<1> QED BY <1>1, <1>3 DEF Release, TypeInv, TypeOK, JobOK, Submitted, withdrawalVars

LEMMA ShutdownType ==
    ASSUME TypeInv, NEW w \in Workers, Shutdown(w)
    PROVE  TypeInv'
<1>1. pc' \in [Workers -> Position] /\ BodyOK' /\ faults' \in 0 .. MaxFaults
    BY SMTT(30), ConstantsAssumption DEF Shutdown, TypeInv, TypeOK, BodyOK, Position, Applying, Resetting
<1> QED BY <1>1 DEF Shutdown, TypeInv, TypeOK, JobOK, Submitted, queueVars, withdrawalVars

LEMMA CancelType ==
    ASSUME TypeInv, NEW j \in Jobs, Cancel(j)
    PROVE  TypeInv'
<1> DEFINE ts == [e \in Episodes |-> Cancelled(target[j][e])]
<1>1. \A t \in Target : Cancelled(t) \in Target
    <2> TAKE t \in Target
    <2>1. t.fence + 1 \in Nat
        BY DEF Target
    <2> QED BY <2>1 DEF Cancelled, Target, Settled
<1>2. target' \in [Jobs -> [Episodes -> Target]]
    <2>1. [e \in Episodes |-> Cancelled(target[j][e])] \in [Episodes -> Target]
        BY <1>1 DEF TypeInv, TypeOK
    <2> QED BY <2>1 DEF Cancel, TypeInv, TypeOK
<1>3. job' = [job EXCEPT ![j].status = Summary(job[j].status, ts)]
    BY DEF Cancel
<1>4. job' \in [Jobs -> Job] /\ JobOK'
    <2>1. job[j].status \in {"none", "queued", "running"} \cup Terminal
        BY DEF TypeInv, TypeOK, Job
    <2> DEFINE status == Summary(job[j].status, ts)
    <2>2. status \in {"none", "queued", "running"} \cup Terminal
        BY <2>1, SummaryType
    <2>3. job' = [job EXCEPT ![j].status = status]
        BY <1>3
    <2> HIDE DEF status
    <2>4. /\ job' \in [Jobs -> Job]
          /\ \A k \in Jobs : job'[k].dataset = job[k].dataset
        BY <2>2, <2>3, JobUpdate DEF TypeInv
    <2> QED BY <2>4, JobOKKept DEF Cancel
<1> QED BY <1>2, <1>4
        DEF Cancel, TypeInv, TypeOK, BodyOK, withdrawalVars, workerVars

LEMMA RetryType ==
    ASSUME TypeInv, NEW j \in Jobs, Retry(j)
    PROVE  TypeInv'
<1> DEFINE ts == [e \in Episodes |-> Retried(target[j][e])]
           status == Summary("queued", ts)
<1>1. \A t \in Target : Retried(t) \in Target
    <2> TAKE t \in Target
    <2>1. t.fence + 1 \in Nat
        BY DEF Target
    <2> QED BY <2>1 DEF Retried, Target, Settled
<1>2. target' \in [Jobs -> [Episodes -> Target]]
    <2>1. [e \in Episodes |-> Retried(target[j][e])] \in [Episodes -> Target]
        BY <1>1 DEF TypeInv, TypeOK
    <2> QED BY <2>1 DEF Retry, TypeInv, TypeOK
<1>3. job' = [job EXCEPT ![j].status = status, ![j].retries = @ + 1]
    BY DEF Retry
<1>4. job' \in [Jobs -> Job] /\ JobOK'
    <2>1. status \in {"none", "queued", "running"} \cup Terminal
        BY SummaryType
    <2>2. job[j] \in Job /\ job[j].retries + 1 \in Nat
        BY DEF TypeInv, TypeOK, Job
    <2>3. [job[j] EXCEPT !.status = status, !.retries = @ + 1] \in Job
        BY <2>1, <2>2 DEF Job
    <2>4. [job[j] EXCEPT !.status = status, !.retries = @ + 1].dataset = job[j].dataset
        BY <2>2 DEF Job
    <2>5. \A k \in Jobs : job'[k] \in Job /\ job'[k].dataset = job[k].dataset
        BY <1>3, <2>3, <2>4 DEF TypeInv, TypeOK
    <2>6. JobOK'
        BY <2>5, JobOKKept DEF Retry
    <2> QED BY <1>3, <2>5, <2>6 DEF TypeInv, TypeOK
<1> QED BY <1>2, <1>4
        DEF Retry, TypeInv, TypeOK, BodyOK, withdrawalVars, workerVars

-----------------------------------------------------------------------------
(* Application and withdrawal *)

LEMMA RequestApplicationType ==
    ASSUME TypeInv, NEW j \in Jobs, NEW es \in SUBSET Episodes, RequestApplication(j, es)
    PROVE  TypeInv'
<1> DEFINE ts == [e \in Episodes |->
                    IF e \in es /\ target[j][e].application \notin {"succeeded", "skipped"}
                    THEN [target[j][e] EXCEPT !.application = "queued"]
                    ELSE target[j][e]]
<1>1. ts \in [Episodes -> Target]
    <2>1. \A t \in Target : [t EXCEPT !.application = "queued"] \in Target
        BY DEF Target
    <2> QED BY <2>1 DEF TypeInv, TypeOK
<1>2. target' = [target EXCEPT ![j] = ts]
    BY DEF RequestApplication
<1>3. target' \in [Jobs -> [Episodes -> Target]]
    BY <1>1, <1>2 DEF TypeInv, TypeOK
<1>4. job' = [job EXCEPT ![j].status = Summary(job[j].status, ts)]
    BY DEF RequestApplication
<1>5. job' \in [Jobs -> Job] /\ JobOK'
    <2>1. job[j].status \in {"none", "queued", "running"} \cup Terminal
        BY DEF TypeInv, TypeOK, Job
    <2> DEFINE status == Summary(job[j].status, ts)
    <2>2. status \in {"none", "queued", "running"} \cup Terminal
        BY <2>1, SummaryType
    <2>3. job' = [job EXCEPT ![j].status = status]
        BY <1>4
    <2> HIDE DEF status
    <2>4. /\ job' \in [Jobs -> Job]
          /\ \A k \in Jobs : job'[k].dataset = job[k].dataset
        BY <2>2, <2>3, JobUpdate DEF TypeInv
    <2> QED BY <2>4, JobOKKept DEF RequestApplication
<1> QED BY <1>3, <1>5
        DEF RequestApplication, TypeInv, TypeOK, BodyOK, withdrawalVars, workerVars

LEMMA PreviewResetType ==
    ASSUME TypeInv, NEW d \in Datasets, PreviewReset(d)
    PROVE  TypeInv'
<1> DEFINE new == [dataset |-> d, runs |-> Scope(d),
                   generation |-> generations[d], etag |-> labels[d]]
<1>1. Scope(d) \in SUBSET Jobs
    BY ConstantsAssumption DEF Scope, Submitted, Jobs, TypeInv, TypeOK
<1>2. new \in Preview
    BY <1>1 DEF Preview, TypeInv, TypeOK
<1>3. previews' = [previews EXCEPT ![previewed + 1] = new]
    BY DEF PreviewReset
<1>4. previews' \in [1 .. MaxPreviews -> Preview]
    BY <1>2, <1>3 DEF TypeInv, TypeOK
<1>5. previewed' \in 0 .. MaxPreviews
    BY ConstantsAssumption DEF PreviewReset, TypeInv, TypeOK
<1> QED BY <1>4, <1>5 DEF PreviewReset, TypeInv, TypeOK, JobOK, Submitted, BodyOK, queueVars, workerVars

LEMMA StoppedType ==
    ASSUME NEW t \in Target
    PROVE  Stopped(t) \in Target
BY DEF Stopped, Target, Settled

LEMMA ConfirmResetType ==
    ASSUME TypeInv, NEW p \in 1 .. MaxPreviews, ConfirmReset(p)
    PROVE  TypeInv'
<1> DEFINE d == previews[p].dataset
           new == [status |-> "running", published |-> FALSE, preview |-> p,
                   generation |-> generations[d] + 1,
                   runs |-> previews[p].runs, etag |-> previews[p].etag]
<1>1. previews[p] \in Preview
    BY DEF TypeInv, TypeOK
<1>2. d \in Datasets => generations[d] + 1 \in Nat
    BY DEF TypeInv, TypeOK
<1>3. generations' \in [Datasets -> Nat]
    BY <1>2 DEF ConfirmReset, TypeInv, TypeOK
<1>4. d \in Datasets => new \in Reset
    <2>1. p \in 0 .. MaxPreviews
        BY ConstantsAssumption
    <2> QED BY <1>1, <1>2, <2>1 DEF Preview, Reset
<1>5. resets' \in [Datasets -> Reset]
    <2>1. resets' = [resets EXCEPT ![d] = new]
        BY DEF ConfirmReset
    <2> QED BY <1>4, <2>1 DEF TypeInv, TypeOK
<1>6. job' \in [Jobs -> Job] /\ JobOK'
    <2>1. \A r \in Job : /\ [r EXCEPT !.status = "cancelled"] \in Job
                         /\ [r EXCEPT !.status = "cancelled"].dataset = r.dataset
        BY DEF Job, Terminal
    <2>2. \A k \in Jobs : job'[k] \in Job /\ job'[k].dataset = job[k].dataset
        BY <2>1 DEF ConfirmReset, TypeInv, TypeOK
    <2>3. JobOK'
        BY <2>2, JobOKKept DEF ConfirmReset
    <2> QED BY <2>2, <2>3 DEF ConfirmReset, TypeInv, TypeOK
<1>7. target' \in [Jobs -> [Episodes -> Target]]
    <2>1. \A j \in Jobs : [e \in Episodes |-> Stopped(target[j][e])] \in [Episodes -> Target]
        BY StoppedType DEF TypeInv, TypeOK
    <2> QED BY <2>1 DEF ConfirmReset, TypeInv, TypeOK
<1> QED BY <1>3, <1>5, <1>6, <1>7
        DEF ConfirmReset, TypeInv, TypeOK, BodyOK, workerVars

LEMMA RetryResetType ==
    ASSUME TypeInv, NEW d \in Datasets, RetryReset(d)
    PROVE  TypeInv'
<1>1. [resets[d] EXCEPT !.status = "running"] \in Reset
    BY ZenonT(60) DEF TypeInv, TypeOK, Reset
<1>2. resets' \in [Datasets -> Reset]
    BY <1>1 DEF RetryReset, TypeInv, TypeOK
<1> QED BY <1>2 DEF RetryReset, TypeInv, TypeOK, JobOK, Submitted, BodyOK, queueVars, workerVars

LEMMA HumanEditType ==
    ASSUME TypeInv, NEW d \in Datasets, HumanEdit(d)
    PROVE  TypeInv'
<1>1. ASSUME NEW content \in Labels, NEW contested \in BOOLEAN
      PROVE  Edited(content, contested) \in Labels
    <2>1. content.edits + 1 \in Nat
        BY DEF Labels
    <2> QED BY <2>1 DEF Edited, Labels
<1>2. PICK contested \in {labels[d].contested, TRUE} :
         labels' = [labels EXCEPT ![d] = Edited(labels[d], contested)]
    BY DEF HumanEdit
<1>3. labels[d] \in Labels /\ contested \in BOOLEAN
    BY <1>2 DEF TypeInv, TypeOK, Labels
<1>4. Edited(labels[d], contested) \in Labels
    BY <1>1, <1>3
<1>5. labels' \in [Datasets -> Labels]
    BY <1>2, <1>4 DEF TypeInv, TypeOK
<1> QED BY <1>5 DEF HumanEdit, TypeInv, TypeOK, JobOK, Submitted, BodyOK, queueVars, workerVars

-----------------------------------------------------------------------------
(* Slow transactions.  Each lemma about a building block says what it does   *)
(* to the types of the variables it changes.                                *)

\* The body of one worker is replaced, and what replaces it fits the place the
\* worker goes to.
LEMMA BodyUpdate ==
    ASSUME TypeInv, NEW w \in Workers, NEW place \in Position, NEW new \in Body,
           At(w, place), body' = [body EXCEPT ![w] = new],
           place \in Applying \cup Resetting => new.dataset \in Datasets,
           place \in Applying => new.job \in Jobs /\ new.episode \in Episodes,
           place = "apply_commit" => new.outcome \in {"succeeded", "skipped", "failed"},
           place = "reset_commit" => new.outcome \in {"published", "conflicted", "partial"}
    PROVE  /\ pc' \in [Workers -> Position]
           /\ body' \in [Workers -> Body]
           /\ BodyOK'
<1>1. pc' \in [Workers -> Position] /\ body' \in [Workers -> Body]
    BY DEF At, TypeInv, TypeOK
<1>2. /\ pc'[w] = place /\ body'[w] = new
      /\ \A v \in Workers \ {w} : pc'[v] = pc[v] /\ body'[v] = body[v]
    BY DEF At, TypeInv, TypeOK
<1>3. BodyOK'
    BY <1>2 DEF TypeInv, BodyOK
<1> QED BY <1>1, <1>3

LEMMA ConcludeType ==
    ASSUME TypeInv, NEW w \in Workers, NEW place \in Position,
           NEW outcome \in {"succeeded", "skipped", "failed", "published", "conflicted", "partial"},
           Conclude(w, place, outcome),
           place \in Applying \cup Resetting => pc[w] \in Applying \cup Resetting,
           place \in Applying => pc[w] \in Applying,
           place = "apply_commit" => outcome \in {"succeeded", "skipped", "failed"},
           place = "reset_commit" => outcome \in {"published", "conflicted", "partial"}
    PROVE  /\ pc' \in [Workers -> Position]
           /\ body' \in [Workers -> Body]
           /\ BodyOK'
<1> DEFINE new == [body[w] EXCEPT !.outcome = outcome]
<1>1. body[w] \in Body
    BY DEF TypeInv, TypeOK
<1>2. /\ new \in Body /\ new.dataset = body[w].dataset
      /\ new.job = body[w].job /\ new.episode = body[w].episode
      /\ new.outcome = outcome
    BY <1>1 DEF Body
<1>3. At(w, place) /\ body' = [body EXCEPT ![w] = new]
    BY DEF Conclude
<1>4. /\ place \in Applying => new.job \in Jobs /\ new.episode \in Episodes
      /\ place \in Applying \cup Resetting => new.dataset \in Datasets
    BY <1>2 DEF TypeInv, BodyOK
<1> QED BY <1>2, <1>3, <1>4, BodyUpdate

LEMMA LoadType ==
    ASSUME TypeInv, NEW w \in Workers, NEW place \in {"apply_save", "reset_save"},
           Load(w, place), pc[w] \in Applying \cup Resetting,
           place = "apply_save" => pc[w] \in Applying
    PROVE  /\ pc' \in [Workers -> Position]
           /\ body' \in [Workers -> Body]
           /\ BodyOK'
<1> DEFINE new == [body[w] EXCEPT !.loaded = labels[body[w].dataset]]
<1>1. /\ body[w] \in Body /\ body[w].dataset \in Datasets
      /\ labels[body[w].dataset] \in Labels
    BY DEF TypeInv, TypeOK, BodyOK
<1>2. /\ new \in Body /\ new.dataset = body[w].dataset
      /\ new.job = body[w].job /\ new.episode = body[w].episode
    BY <1>1 DEF Body
<1>3. At(w, place) /\ body' = [body EXCEPT ![w] = new]
    BY DEF Load
<1>4. place \in Applying => new.job \in Jobs /\ new.episode \in Episodes
    BY <1>2 DEF TypeInv, BodyOK, Resetting, Applying
<1>5. place \in Position
    BY DEF Position, Applying, Resetting
<1> QED BY <1>1, <1>2, <1>3, <1>4, <1>5, BodyUpdate DEF Applying, Resetting

LEMMA SaveType ==
    ASSUME TypeInv, NEW w \in Workers, NEW place \in {"apply_commit", "reset_commit"},
           NEW new \in Labels,
           NEW done, NEW failed, Save(w, place, new, done, failed),
           pc[w] \in Applying \cup Resetting,
           place = "apply_commit" => pc[w] \in Applying /\ done = "succeeded" /\ failed = "failed",
           place = "reset_commit" => done = "published" /\ failed = "partial"
    PROVE  /\ pc' \in [Workers -> Position]
           /\ body' \in [Workers -> Body]
           /\ labels' \in [Datasets -> Labels]
           /\ faults' \in 0 .. MaxFaults
           /\ BodyOK'
<1>1. labels' \in [Datasets -> Labels]
    BY DEF Save, TypeInv, TypeOK
<1>2. faults' \in 0 .. MaxFaults
    BY SMTT(30), ConstantsAssumption DEF Save, TypeInv, TypeOK
<1>3. Conclude(w, place, done) \/ Conclude(w, place, failed)
    BY DEF Save
<1>4. place \in Position /\ (place \in Applying <=> place = "apply_commit")
    BY DEF Position, Applying, Resetting
<1>5. /\ pc' \in [Workers -> Position]
      /\ body' \in [Workers -> Body]
      /\ BodyOK'
    BY <1>3, <1>4, ConcludeType
<1> QED BY <1>1, <1>2, <1>5

LEMMA NoBodyType == NoBody \in Body
BY ConstantsAssumption DEF NoBody, Body, NoReset, Reset, NoLabels, Labels, Terminal

LEMMA LeaveType ==
    ASSUME TypeInv, NEW w \in Workers, Leave(w)
    PROVE  /\ pc' \in [Workers -> Position]
           /\ body' \in [Workers -> Body]
           /\ lock' \in Workers \cup {None}
           /\ BodyOK'
<1>1. NoBody \in Body
    BY NoBodyType
<1>2. At(w, "reset_once") /\ body' = [body EXCEPT ![w] = NoBody]
    BY DEF Leave
<1>3. "reset_once" \in Position /\ "reset_once" \notin Applying \cup Resetting
    BY DEF Position, Applying, Resetting
<1>4. /\ pc' \in [Workers -> Position]
      /\ body' \in [Workers -> Body]
      /\ BodyOK'
    BY <1>1, <1>2, <1>3, BodyUpdate
<1>5. lock' \in Workers \cup {None}
    BY DEF Leave, TypeInv, TypeOK
<1> QED BY <1>4, <1>5

LEMMA BeginApplyType ==
    ASSUME TypeInv, NEW w \in Workers, NEW j \in Jobs, NEW e \in Episodes, BeginApply(w, j, e)
    PROVE  TypeInv'
<1> DEFINE new == [NoBody EXCEPT !.dataset = job[j].dataset, !.job = j, !.episode = e]
<1>1. new \in Body /\ new.dataset \in Datasets /\ new.job = j /\ new.episode = e
    <2>1. job[j].dataset \in Datasets
        BY DEF BeginApply, Candidate, TypeInv, JobOK
    <2>2. j \in 0 .. MaxJobs
        BY ConstantsAssumption DEF Jobs
    <2> QED BY <2>1, <2>2, NoBodyType DEF Body
<1>2. /\ Enter(w, "apply_load", new) /\ At(w, "apply_load")
      /\ body' = [body EXCEPT ![w] = new]
    BY DEF BeginApply, Enter
<1>3. "apply_load" \in Position
    BY DEF Position, Applying
<1>4. /\ pc' \in [Workers -> Position]
      /\ body' \in [Workers -> Body]
      /\ BodyOK'
    BY <1>1, <1>2, <1>3, BodyUpdate
<1> QED BY <1>2, <1>4 DEF Enter, TypeInv, TypeOK, JobOK, Submitted, queueVars, withdrawalVars

LEMMA BeginResetType ==
    ASSUME TypeInv, NEW w \in Workers, NEW d \in Datasets, BeginReset(w, d)
    PROVE  TypeInv'
<1> DEFINE new == [NoBody EXCEPT !.dataset = d, !.reset = resets[d]]
<1>1. new \in Body /\ new.dataset = d
    <2>1. resets[d] \in Reset
        BY DEF TypeInv, TypeOK
    <2> QED BY <2>1, NoBodyType DEF Body
<1>2. /\ Enter(w, "reset_load", new) /\ At(w, "reset_load")
      /\ body' = [body EXCEPT ![w] = new]
    BY DEF BeginReset, Enter
<1>3. "reset_load" \in Position /\ "reset_load" \notin Applying
    BY DEF Position, Applying, Resetting
<1>4. /\ pc' \in [Workers -> Position]
      /\ body' \in [Workers -> Body]
      /\ BodyOK'
    BY <1>1, <1>2, <1>3, BodyUpdate
<1> QED BY <1>2, <1>4 DEF Enter, TypeInv, TypeOK, JobOK, Submitted, queueVars, withdrawalVars

LEMMA NothingType ==
    ASSUME TypeInv, NEW w \in Workers, NothingToApply(w) \/ NothingToReset(w)
    PROVE  TypeInv'
<1>1. PICK place \in {"claim", "apply_once"} :
         /\ pc' = [pc EXCEPT ![w] = place]
         /\ UNCHANGED <<queueVars, withdrawalVars, lock, claim, body, faults>>
    BY DEF NothingToApply, NothingToReset, At
<1>2. pc' \in [Workers -> Position] /\ BodyOK'
    BY <1>1 DEF TypeInv, TypeOK, BodyOK, Position, Applying, Resetting
<1> QED BY <1>1, <1>2 DEF TypeInv, TypeOK, JobOK, Submitted, queueVars, withdrawalVars

LEMMA ApplyLoadType ==
    ASSUME TypeInv, NEW w \in Workers, ApplyLoad(w)
    PROVE  TypeInv'
<1>1. pc[w] \in Applying
    BY DEF ApplyLoad, Applying
<1>2. "apply_commit" \in Position
    BY DEF Position, Applying
<1>3. /\ pc' \in [Workers -> Position]
      /\ body' \in [Workers -> Body]
      /\ BodyOK'
    <2>1. CASE Conclude(w, "apply_commit", "failed")
        BY <1>1, <1>2, <2>1, ConcludeType
    <2>2. CASE Conclude(w, "apply_commit", "skipped")
        BY <1>1, <1>2, <2>2, ConcludeType
    <2>3. CASE Load(w, "apply_save")
        BY <1>1, <2>3, LoadType
    <2> QED BY <2>1, <2>2, <2>3 DEF ApplyLoad
<1> QED BY <1>3
        DEF ApplyLoad, TypeInv, TypeOK, JobOK, Submitted, queueVars, withdrawalVars

LEMMA ApplySaveType ==
    ASSUME TypeInv, NEW w \in Workers, ApplySave(w)
    PROVE  TypeInv'
<1> DEFINE b == body[w]
           new == Contributed(b.loaded, b.job, b.episode)
<1>1. pc[w] \in Applying
    BY DEF ApplySave, Applying
<1>2. new \in Labels
    <2>1. b.loaded \in Labels /\ b.job \in Jobs /\ b.episode \in Episodes
        BY <1>1 DEF TypeInv, TypeOK, BodyOK, Body
    <2>2. b.loaded.machine \cup {<<b.job, b.episode>>} \in SUBSET Slots
        BY <2>1 DEF Labels, Slots
    <2> QED BY <2>1, <2>2 DEF Contributed, Labels
<1>3. Save(w, "apply_commit", new, "succeeded", "failed")
    BY DEF ApplySave
<1> HIDE DEF new
<1>4. /\ pc' \in [Workers -> Position]
      /\ body' \in [Workers -> Body]
      /\ labels' \in [Datasets -> Labels]
      /\ faults' \in 0 .. MaxFaults
      /\ BodyOK'
    BY <1>1, <1>2, <1>3, SaveType
<1> QED BY <1>4 DEF ApplySave, TypeInv, TypeOK, JobOK, Submitted, queueVars

LEMMA ApplyCommitType ==
    ASSUME TypeInv, NEW w \in Workers, ApplyCommit(w)
    PROVE  TypeInv'
<1> DEFINE j == body[w].job
           e == body[w].episode
           new == [target[j][e] EXCEPT !.application = body[w].outcome]
<1>1. j \in Jobs /\ e \in Episodes /\ body[w].outcome \in {"succeeded", "skipped", "failed"}
    BY DEF ApplyCommit, TypeInv, BodyOK, Applying
<1>2. /\ target' \in [Jobs -> [Episodes -> Target]]
      /\ job' \in [Jobs -> Job] /\ JobOK'
    <2>1. CASE lock = w
        <3>1. target[j][e] \in Target /\ job[j].status \in {"none", "queued", "running"} \cup Terminal
            BY <1>1 DEF TypeInv, TypeOK, Job
        <3>2. new \in Target
            BY <1>1, <3>1 DEF Target
        <3>3. target' = [target EXCEPT ![j][e] = new]
            BY <2>1 DEF ApplyCommit
        <3> DEFINE status == Summary(job[j].status, [target[j] EXCEPT ![e] = new])
        <3>4. job' = [job EXCEPT ![j].status = status]
            BY <2>1 DEF ApplyCommit
        <3>5. status \in {"none", "queued", "running"} \cup Terminal
            BY <3>1, SummaryType
        <3> HIDE DEF status, new, j, e
        <3>6. target' \in [Jobs -> [Episodes -> Target]]
            BY <3>2, <3>3, TargetUpdate DEF TypeInv
        <3>7. /\ job' \in [Jobs -> Job]
              /\ \A k \in Jobs : job'[k].dataset = job[k].dataset
            BY <3>4, <3>5, JobUpdate DEF TypeInv
        <3>8. JobOK'
            BY <3>7, JobOKKept DEF ApplyCommit
        <3> QED BY <3>6, <3>7, <3>8
    <2>2. CASE lock # w
        BY <2>2 DEF ApplyCommit, TypeInv, TypeOK, JobOK, Submitted
    <2> QED BY <2>1, <2>2
<1>3. Leave(w)
    BY DEF ApplyCommit
<1>4. /\ pc' \in [Workers -> Position]
      /\ body' \in [Workers -> Body]
      /\ lock' \in Workers \cup {None}
      /\ BodyOK'
    BY <1>3, LeaveType
<1> QED BY <1>2, <1>3, <1>4 DEF ApplyCommit, Leave, TypeInv, TypeOK, withdrawalVars

LEMMA ResetLoadType ==
    ASSUME TypeInv, NEW w \in Workers, ResetLoad(w)
    PROVE  TypeInv'
<1>1. pc[w] \in Resetting
    BY DEF ResetLoad, Resetting
<1>2. "reset_commit" \in Position /\ "reset_commit" \notin Applying
    BY DEF Position, Applying, Resetting
<1>3. /\ pc' \in [Workers -> Position]
      /\ body' \in [Workers -> Body]
      /\ BodyOK'
    <2>1. CASE Conclude(w, "reset_commit", "published")
        BY <1>1, <1>2, <2>1, ConcludeType
    <2>2. CASE Conclude(w, "reset_commit", "conflicted")
        BY <1>1, <1>2, <2>2, ConcludeType
    <2>3. CASE Conclude(w, "reset_commit", "partial")
        BY <1>1, <1>2, <2>3, ConcludeType
    <2>4. CASE Load(w, "reset_save")
        BY <1>1, <2>4, LoadType
    <2> QED BY <2>1, <2>2, <2>3, <2>4 DEF ResetLoad
<1>4. faults' \in 0 .. MaxFaults
    BY SMTT(30), ConstantsAssumption DEF ResetLoad, TypeInv, TypeOK
<1> QED BY <1>3, <1>4
        DEF ResetLoad, TypeInv, TypeOK, JobOK, Submitted, queueVars, withdrawalVars

LEMMA ResetSaveType ==
    ASSUME TypeInv, NEW w \in Workers, ResetSave(w)
    PROVE  TypeInv'
<1> DEFINE new == Projected(body[w].loaded, body[w].reset.runs)
<1>1. pc[w] \in Resetting
    BY DEF ResetSave, Resetting
<1>2. new \in Labels
    <2>1. body[w].loaded \in Labels
        BY DEF TypeInv, TypeOK, Body
    <2> QED BY <2>1 DEF Projected, Labels
<1>3. Save(w, "reset_commit", new, "published", "partial")
    BY DEF ResetSave
<1> HIDE DEF new
<1>4. /\ pc' \in [Workers -> Position]
      /\ body' \in [Workers -> Body]
      /\ labels' \in [Datasets -> Labels]
      /\ faults' \in 0 .. MaxFaults
      /\ BodyOK'
    BY <1>1, <1>2, <1>3, SaveType
<1> QED BY <1>4 DEF ResetSave, TypeInv, TypeOK, JobOK, Submitted, queueVars

LEMMA ResetCommitType ==
    ASSUME TypeInv, NEW w \in Workers, ResetCommit(w)
    PROVE  TypeInv'
<1> DEFINE d == body[w].dataset
<1>1. d \in Datasets /\ body[w].outcome \in {"published", "conflicted", "partial"}
    BY DEF ResetCommit, TypeInv, BodyOK, Resetting
<1>2. Recorded(w) \in Reset
    <2>1. resets[d] \in Reset
        BY <1>1 DEF TypeInv, TypeOK
    <2> QED BY <1>1, <2>1 DEF Recorded, Reset
<1>3. resets' \in [Datasets -> Reset]
    BY <1>2 DEF ResetCommit, TypeInv, TypeOK
<1>4. Leave(w)
    BY DEF ResetCommit
<1>5. /\ pc' \in [Workers -> Position]
      /\ body' \in [Workers -> Body]
      /\ lock' \in Workers \cup {None}
      /\ BodyOK'
    BY <1>4, LeaveType
<1> QED BY <1>3, <1>4, <1>5
        DEF ResetCommit, Leave, TypeInv, TypeOK, JobOK, Submitted, queueVars

-----------------------------------------------------------------------------
(* The environment *)

LEMMA CrashType ==
    ASSUME TypeInv, NEW w \in Workers, Crash(w)
    PROVE  TypeInv'
<1>1. NoClaim(w) \in Claim /\ NoBody \in Body
    BY NoBodyType, ConstantsAssumption DEF NoClaim, Claim
<1>2. /\ pc' \in [Workers -> Position] /\ claim' \in [Workers -> Claim]
      /\ body' \in [Workers -> Body] /\ faults' \in 0 .. MaxFaults
      /\ lock' \in Workers \cup {None}
    BY SMTT(30), <1>1, ConstantsAssumption DEF Crash, TypeInv, TypeOK, Position
<1>3. BodyOK'
    BY DEF Crash, TypeInv, TypeOK, BodyOK, Applying, Resetting
<1> QED BY <1>2, <1>3
        DEF Crash, TypeInv, TypeOK, JobOK, Submitted, queueVars, withdrawalVars

LEMMA TickType ==
    ASSUME TypeInv, Tick
    PROVE  TypeInv'
<1>1. \A left \in Int : Elapse(left) \in Int
    BY DEF Elapse
<1>2. /\ DOMAIN executions' \subseteq Claim
      /\ executions' \in [DOMAIN executions' -> Int]
    BY <1>1 DEF Tick, TypeInv, TypeOK
<1>3. target' \in [Jobs -> [Episodes -> Target]]
    <2>1. ASSUME NEW t \in Target
          PROVE  [t EXCEPT !.left = Elapse(@)] \in Target
        <3>1. Elapse(t.left) \in Int
            BY <1>1 DEF Target
        <3> QED BY <3>1 DEF Target
    <2> QED BY <2>1 DEF Tick, TypeInv, TypeOK
<1> QED BY <1>2, <1>3
        DEF Tick, TypeInv, TypeOK, JobOK, Submitted, BodyOK, withdrawalVars, workerVars

LEMMA LoseStoreLeaseType ==
    ASSUME TypeInv, NEW w \in Workers, LoseStoreLease(w)
    PROVE  TypeInv'
BY DEF LoseStoreLease, TypeInv, TypeOK, JobOK, Submitted, BodyOK, queueVars, withdrawalVars

-----------------------------------------------------------------------------

LEMMA NextType == TypeInv /\ [Next]_vars => TypeInv'
<1> SUFFICES ASSUME TypeInv, [Next]_vars PROVE TypeInv'
    OBVIOUS
<1>1. CASE \E w \in Workers : Worker(w)
    BY <1>1, BeginResetType, NothingType, ResetLoadType, ResetSaveType, ResetCommitType,
       BeginApplyType, ApplyLoadType, ApplySaveType, ApplyCommitType, TakeType,
       TakeNothingType, ObserveType, PublishType, ReleaseType
    DEF Worker
<1>2. CASE \E w \in Workers : Heartbeat(w)
    BY <1>2, HeartbeatType
<1>3. CASE Client
    BY <1>3, SubmitType, CancelType, RetryType, RequestApplicationType, PreviewResetType,
       ConfirmResetType, RetryResetType, HumanEditType
    DEF Client
<1>4. CASE Environment
    BY <1>4, ShutdownType, CrashType, LoseStoreLeaseType, TickType DEF Environment
<1>5. CASE UNCHANGED vars
    BY <1>5 DEF TypeInv, TypeOK, JobOK, Submitted, BodyOK, vars, queueVars, withdrawalVars,
                workerVars
<1> QED BY <1>1, <1>2, <1>3, <1>4, <1>5 DEF Next

LEMMA TypeInvariant == Spec => []TypeInv
<1>1. Init => TypeInv
    BY InitType
<1>2. TypeInv /\ [Next]_vars => TypeInv'
    BY NextType
<1> QED BY <1>1, <1>2, PTL DEF Spec

\* The document, the label files and the workers always have their types,
\* however many datasets, jobs, workers, crashes and lost leases there are:
\* no step copies the locals of a transaction into the document (ApplyCommit,
\* ResetCommit) or into a label file (Save) that do not belong there.
THEOREM TypeCorrect == Spec => []TypeOK
<1>1. TypeInv => TypeOK
    BY DEF TypeInv
<1> QED BY <1>1, TypeInvariant, PTL
=============================================================================
