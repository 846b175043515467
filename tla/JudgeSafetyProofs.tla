-------------------------- MODULE JudgeSafetyProofs --------------------------
(***************************************************************************)
(* Safety of the judge queue, for all constants: the shared capacity, the  *)
(* exclusive inputs, the fences and the evidence.  Two facts about single  *)
(* steps carry the proofs: what a job is about never changes (JobsKept),   *)
(* and a target only makes the moves of its own life cycle (TargetMoves).  *)
(***************************************************************************)
EXTENDS JudgeTypeProofs, FiniteSetTheorems

\* The life cycle of a target: how one step may change it.
Moves(t, u) ==
    \/ u = t
    \/ \E left \in Int : u = [t EXCEPT !.left = left]
    \/ \E w \in Workers : t.status \in {"queued", "running"} /\ u = Taken(t, w)
    \/ \E mode \in Modes \cup {None}, outcome \in Verdicts \cup {"error"} :
          t.status = "running" /\ u = Published(t, mode, outcome)
    \/ u \in {Cancelled(t), Retried(t), Stopped(t)}
    \/ \E application \in {"queued", "succeeded", "skipped", "failed"} :
          u = [t EXCEPT !.application = application]

-----------------------------------------------------------------------------
(* A job that was submitted stays about the same dataset and configuration. *)

JobKept(k) ==
    /\ job'[k].dataset = job[k].dataset /\ job'[k].config = job[k].config
    /\ job'[k].generation = job[k].generation /\ job'[k].mode = job[k].mode

LEMMA StatusChange ==
    ASSUME TypeInv, NEW j, NEW status, job' = [job EXCEPT ![j].status = status], NEW k \in Jobs
    PROVE  JobKept(k)
<1>1. \A r \in Job : LET q == [r EXCEPT !.status = status] IN
         /\ q.dataset = r.dataset /\ q.config = r.config
         /\ q.generation = r.generation /\ q.mode = r.mode
    BY DEF Job
<1>2. job[k] \in Job
    BY DEF TypeInv, TypeOK
<1> QED BY <1>1, <1>2 DEF JobKept, TypeInv, TypeOK

LEMMA JobsKept ==
    ASSUME TypeInv, [Next]_vars
    PROVE  /\ sequence \in Nat /\ sequence' \in Nat /\ sequence <= sequence'
           /\ \A k \in Submitted : JobKept(k)
<1>1. sequence \in Nat /\ Submitted \subseteq Jobs
    BY ConstantsAssumption DEF TypeInv, TypeOK, Submitted, Jobs
<1> SUFFICES \/ /\ sequence' = sequence
                /\ \A k \in Jobs : JobKept(k)
             \/ /\ sequence' = sequence + 1
                /\ \A k \in Submitted : JobKept(k)
    BY <1>1
<1>2. ASSUME UNCHANGED job
      PROVE  \A k \in Jobs : JobKept(k)
    BY <1>2 DEF JobKept
<1>3. ASSUME NEW w \in Workers, Worker(w)
      PROVE  sequence' = sequence /\ \A k \in Jobs : JobKept(k)
    <2>1. ASSUME NEW j \in Jobs, NEW e \in Episodes, Take(w, j, e)
          PROVE  sequence' = sequence /\ \A k \in Jobs : JobKept(k)
        BY <2>1, StatusChange DEF Take
    <2>2. ASSUME NEW outcome \in Verdicts \cup {"error"}, Publish(w, outcome)
          PROVE  sequence' = sequence /\ \A k \in Jobs : JobKept(k)
        BY <2>2, StatusChange, <1>2 DEF Publish
    <2>3. ASSUME ApplyCommit(w)
          PROVE  sequence' = sequence /\ \A k \in Jobs : JobKept(k)
        BY <2>3, StatusChange, <1>2 DEF ApplyCommit
    <2>4. CASE \E d \in Datasets : BeginReset(w, d)
        BY <2>4, <1>2 DEF BeginReset, Enter, queueVars
    <2>5. CASE NothingToReset(w) \/ NothingToApply(w)
        BY <2>5, <1>2 DEF NothingToReset, NothingToApply, queueVars
    <2>6. CASE ResetLoad(w) \/ ResetSave(w) \/ ResetCommit(w)
        BY <2>6, <1>2 DEF ResetLoad, ResetSave, ResetCommit, queueVars
    <2>7. CASE \E j \in Jobs, e \in Episodes : BeginApply(w, j, e)
        BY <2>7, <1>2 DEF BeginApply, Enter, queueVars
    <2>8. CASE ApplyLoad(w) \/ ApplySave(w)
        BY <2>8, <1>2 DEF ApplyLoad, ApplySave, queueVars
    <2>9. CASE TakeNothing(w) \/ Observe(w) \/ Release(w)
        BY <2>9, <1>2 DEF TakeNothing, Observe, Release, queueVars
    <2> QED BY <1>3, <2>1, <2>2, <2>3, <2>4, <2>5, <2>6, <2>7, <2>8, <2>9 DEF Worker
<1>4. ASSUME Client
      PROVE  \/ /\ sequence' = sequence
                /\ \A k \in Jobs : JobKept(k)
             \/ /\ sequence' = sequence + 1
                /\ \A k \in Submitted : JobKept(k)
    <2>1. ASSUME NEW d \in Datasets, NEW es \in (SUBSET Episodes) \ {{}}, NEW m \in Modes,
                 NEW f \in Configs, NEW k \in Keys, NEW c \in Capacities,
                 Submit(d, es, m, f, k, c)
          PROVE  sequence' = sequence + 1 /\ \A i \in Submitted : JobKept(i)
        BY <2>1, <1>1 DEF Submit, Submitted, JobKept, TypeInv, TypeOK
    <2>2. ASSUME NEW j \in Jobs, Cancel(j)
          PROVE  sequence' = sequence /\ \A k \in Jobs : JobKept(k)
        BY <2>2, StatusChange DEF Cancel
    <2>3. ASSUME NEW j \in Jobs, Retry(j)
          PROVE  sequence' = sequence /\ \A k \in Jobs : JobKept(k)
        <3> DEFINE status == Summary("queued", [e \in Episodes |-> Retried(target[j][e])])
                   new == [job[j] EXCEPT !.status = status, !.retries = @ + 1]
        <3>1. job[j] \in Job
            BY DEF TypeInv, TypeOK
        <3>2. /\ new.dataset = job[j].dataset /\ new.config = job[j].config
              /\ new.generation = job[j].generation /\ new.mode = job[j].mode
            BY <3>1 DEF Job
        <3>3. job' = [job EXCEPT ![j] = new]
            BY <2>3 DEF Retry
        <3> HIDE DEF new
        <3>4. \A k \in Jobs : JobKept(k)
            BY <3>2, <3>3 DEF JobKept, TypeInv, TypeOK
        <3> QED BY <2>3, <3>4 DEF Retry
    <2>4. ASSUME NEW j \in Jobs, NEW es \in SUBSET Episodes, RequestApplication(j, es)
          PROVE  sequence' = sequence /\ \A k \in Jobs : JobKept(k)
        BY <2>4, StatusChange DEF RequestApplication
    <2>5. ASSUME NEW p \in 1 .. MaxPreviews, ConfirmReset(p)
          PROVE  sequence' = sequence /\ \A k \in Jobs : JobKept(k)
        <3>1. \A r \in Job : LET q == [r EXCEPT !.status = "cancelled"] IN
                 /\ q.dataset = r.dataset /\ q.config = r.config
                 /\ q.generation = r.generation /\ q.mode = r.mode
            BY DEF Job
        <3>2. \A k \in Jobs : job'[k] \in {job[k], [job[k] EXCEPT !.status = "cancelled"]}
            BY <2>5 DEF ConfirmReset
        <3>3. \A k \in Jobs : JobKept(k)
            BY <3>1, <3>2 DEF JobKept, TypeInv, TypeOK
        <3> QED BY <2>5, <3>3 DEF ConfirmReset
    <2>6. CASE \E d \in Datasets : PreviewReset(d) \/ RetryReset(d) \/ HumanEdit(d)
        BY <2>6, <1>2 DEF PreviewReset, RetryReset, HumanEdit, queueVars
    <2> QED BY <1>4, <2>1, <2>2, <2>3, <2>4, <2>5, <2>6 DEF Client
<1>5. ASSUME \/ \E w \in Workers : Heartbeat(w)
             \/ Environment
             \/ UNCHANGED vars
      PROVE  sequence' = sequence /\ \A k \in Jobs : JobKept(k)
    <2>1. sequence' = sequence /\ UNCHANGED job
        BY <1>5 DEF Heartbeat, Environment, Shutdown, Crash, LoseStoreLease, Tick, vars, queueVars
    <2> QED BY <2>1, <1>2
<1> QED BY <1>3, <1>4, <1>5 DEF Next

-----------------------------------------------------------------------------
(* A target only makes the moves of its life cycle. *)

Moved == \A k \in Jobs, f \in Episodes : Moves(target[k][f], target'[k][f])

LEMMA OneMoves ==
    ASSUME TypeInv, NEW j, NEW e, NEW new,
           target' = [target EXCEPT ![j][e] = new],
           j \in Jobs /\ e \in Episodes => Moves(target[j][e], new)
    PROVE  Moved
<1> SUFFICES ASSUME NEW k \in Jobs, NEW f \in Episodes
             PROVE  Moves(target[k][f], target'[k][f])
    BY DEF Moved
<1>1. CASE k = j /\ f = e
    BY <1>1 DEF TypeInv, TypeOK
<1>2. CASE ~(k = j /\ f = e)
    <2>1. target'[k][f] = target[k][f]
        BY <1>2 DEF TypeInv, TypeOK
    <2> QED BY <2>1 DEF Moves
<1> QED BY <1>1, <1>2

LEMMA NoneMoves ==
    ASSUME UNCHANGED target
    PROVE  Moved
BY DEF Moved, Moves

LEMMA TargetMoves ==
    ASSUME TypeInv, [Next]_vars
    PROVE  \/ Moved
           \/ /\ sequence' = sequence + 1
              /\ \A k \in Jobs, f \in Episodes :
                    IF k = sequence + 1
                    THEN target'[k][f] \in {NoTarget, [NoTarget EXCEPT !.status = "queued"]}
                    ELSE target'[k][f] = target[k][f]
<1>1. ASSUME NEW w \in Workers, Worker(w)
      PROVE  Moved
    <2>1. ASSUME NEW j \in Jobs, NEW e \in Episodes, Take(w, j, e)
          PROVE  Moved
        <3>1. target' = [target EXCEPT ![j][e] = Taken(target[j][e], w)]
            BY <2>1 DEF Take
        <3>2. target[j][e].status \in {"queued", "running"}
            BY <2>1 DEF Take, Takeable, Ready
        <3>3. Moves(target[j][e], Taken(target[j][e], w))
            BY <3>2 DEF Moves
        <3> QED BY <3>1, <3>3, OneMoves
    <2>2. ASSUME NEW outcome \in Verdicts \cup {"error"}, Publish(w, outcome), ValidClaim(w)
          PROVE  Moved
        <3> DEFINE j == claim[w].job
                   e == claim[w].episode
                   new == Published(target[j][e], job[j].mode, outcome)
        <3>1. target' = [target EXCEPT ![j][e] = new]
            BY <2>2 DEF Publish
        <3>2. j \in Jobs => job[j].mode \in Modes \cup {None}
            BY DEF TypeInv, TypeOK, Job
        <3>3. target[j][e].status = "running"
            BY <2>2 DEF ValidClaim
        <3>4. j \in Jobs => Moves(target[j][e], new)
            BY <3>2, <3>3 DEF Moves
        <3> HIDE DEF j, e, new
        <3> QED BY <3>1, <3>4, OneMoves
    <2>3. ASSUME ApplyCommit(w), lock = w
          PROVE  Moved
        <3> DEFINE j == body[w].job
                   e == body[w].episode
                   new == [target[j][e] EXCEPT !.application = body[w].outcome]
        <3>1. target' = [target EXCEPT ![j][e] = new]
            BY <2>3 DEF ApplyCommit
        <3>2. body[w].outcome \in {"succeeded", "skipped", "failed"}
            BY <2>3 DEF ApplyCommit, TypeInv, BodyOK
        <3>3. Moves(target[j][e], new)
            BY <3>2 DEF Moves
        <3> HIDE DEF j, e, new
        <3> QED BY <3>1, <3>3, OneMoves
    <2>4. CASE \E outcome \in Verdicts \cup {"error"} : Publish(w, outcome)
        BY <2>4, <2>2, NoneMoves DEF Publish
    <2>5. CASE ApplyCommit(w)
        BY <2>5, <2>3, NoneMoves DEF ApplyCommit
    <2>6. CASE UNCHANGED target
        BY <2>6, NoneMoves
    <2>7. \/ \E j \in Jobs, e \in Episodes : Take(w, j, e)
          \/ \E outcome \in Verdicts \cup {"error"} : Publish(w, outcome)
          \/ ApplyCommit(w)
          \/ UNCHANGED target
        BY <1>1 DEF Worker, BeginReset, NothingToReset, ResetLoad, ResetSave, ResetCommit,
                    BeginApply, NothingToApply, ApplyLoad, ApplySave, TakeNothing, Observe,
                    Release, Enter, queueVars
    <2> QED BY <2>1, <2>4, <2>5, <2>6, <2>7
<1>2. ASSUME NEW w \in Workers, Heartbeat(w)
      PROVE  Moved
    <2> DEFINE j == claim[w].job
               e == claim[w].episode
    <2>1. ASSUME NEW left \in Int, target' = Renewed(claim[w], left)
          PROVE  Moved
        <3> DEFINE new == [target[j][e] EXCEPT !.left = left]
        <3>1. target' = [target EXCEPT ![j][e] = new]
            BY <2>1 DEF Renewed
        <3>2. Moves(target[j][e], new)
            BY DEF Moves
        <3> HIDE DEF j, e, new
        <3> QED BY <3>1, <3>2, OneMoves
    <2>2. Lease + Offset[w] \in Int /\ Offset[w] \in Int
        BY ConstantsAssumption
    <2>3. \/ target' = Renewed(claim[w], Lease + Offset[w])
          \/ target' = Renewed(claim[w], Offset[w])
          \/ UNCHANGED target
        BY <1>2 DEF Heartbeat
    <2> QED BY <2>1, <2>2, <2>3, NoneMoves
<1>3. ASSUME NEW j \in Jobs, Cancel(j)
      PROVE  Moved
    <2>1. \A k \in Jobs, f \in Episodes :
             target'[k][f] = IF k = j THEN Cancelled(target[k][f]) ELSE target[k][f]
        BY <1>3 DEF Cancel, TypeInv, TypeOK
    <2> QED BY <2>1 DEF Moved, Moves
<1>4. ASSUME NEW j \in Jobs, Retry(j)
      PROVE  Moved
    <2>1. \A k \in Jobs, f \in Episodes :
             target'[k][f] = IF k = j THEN Retried(target[k][f]) ELSE target[k][f]
        BY <1>4 DEF Retry, TypeInv, TypeOK
    <2> QED BY <2>1 DEF Moved, Moves
<1>5. ASSUME NEW j \in Jobs, NEW es \in SUBSET Episodes, RequestApplication(j, es)
      PROVE  Moved
    <2>1. \A k \in Jobs, f \in Episodes :
             target'[k][f] \in {target[k][f], [target[k][f] EXCEPT !.application = "queued"]}
        BY <1>5 DEF RequestApplication, TypeInv, TypeOK
    <2> QED BY <2>1 DEF Moved, Moves
<1>6. ASSUME NEW p \in 1 .. MaxPreviews, ConfirmReset(p)
      PROVE  Moved
    <2>1. \A k \in Jobs, f \in Episodes :
             target'[k][f] \in {target[k][f], Stopped(target[k][f])}
        BY <1>6 DEF ConfirmReset, TypeInv, TypeOK
    <2> QED BY <2>1 DEF Moved, Moves
<1>7. ASSUME NEW d \in Datasets, NEW es \in SUBSET Episodes, NEW m \in Modes,
             NEW c \in Configs, NEW k \in Keys, NEW n \in Capacities,
             Submit(d, es, m, c, k, n)
      PROVE  /\ sequence' = sequence + 1
             /\ \A i \in Jobs, f \in Episodes :
                   IF i = sequence + 1
                   THEN target'[i][f] \in {NoTarget, [NoTarget EXCEPT !.status = "queued"]}
                   ELSE target'[i][f] = target[i][f]
    BY <1>7 DEF Submit, TypeInv, TypeOK
<1>8. ASSUME Tick
      PROVE  Moved
    <2>1. \A k \in Jobs, f \in Episodes :
             target'[k][f] = [target[k][f] EXCEPT !.left = Elapse(target[k][f].left)]
        BY <1>8 DEF Tick
    <2>2. \A k \in Jobs, f \in Episodes : Elapse(target[k][f].left) \in Int
        BY DEF Elapse, TypeInv, TypeOK, Target
    <2> QED BY <2>1, <2>2 DEF Moved, Moves
<1>9. CASE UNCHANGED target
    BY <1>9, NoneMoves
<1> QED BY <1>1, <1>2, <1>3, <1>4, <1>5, <1>6, <1>7, <1>8, <1>9
        DEF Next, Client, Environment, PreviewReset, RetryReset, HumanEdit, Shutdown, Crash,
            LoseStoreLease, vars, queueVars

-----------------------------------------------------------------------------
(* Evidence *)

\* Only a target that succeeded has evidence, and there is none for a job that
\* was not submitted yet.
EvidenceOK ==
    \A j \in Jobs, e \in Episodes :
        /\ target[j][e].verdict # None => target[j][e].status = "succeeded"
        /\ j \notin Submitted => target[j][e].status = "none"

LEMMA MovesKeepEvidence ==
    ASSUME NEW t \in Target, NEW u, Moves(t, u)
    PROVE  /\ t.fence <= u.fence
           /\ t.status = "none" => u.status = "none" /\ u.verdict = t.verdict
           /\ t.verdict # None /\ t.status = "succeeded"
                 => u.verdict = t.verdict /\ u.status = "succeeded"
           /\ t.verdict = None /\ u.verdict # None => u.status = "succeeded"
<1>1. CASE u = t
    BY <1>1 DEF Target
<1>2. ASSUME NEW left \in Int, u = [t EXCEPT !.left = left]
      PROVE  u.fence = t.fence /\ u.status = t.status /\ u.verdict = t.verdict
    BY <1>2 DEF Target
<1>3. ASSUME NEW w \in Workers, t.status \in {"queued", "running"}, u = Taken(t, w)
      PROVE  u.fence = t.fence + 1 /\ u.verdict = t.verdict
    BY <1>3 DEF Taken, Target
<1>4. ASSUME NEW mode, NEW outcome, t.status = "running", u = Published(t, mode, outcome)
      PROVE  /\ u.fence = t.fence
             /\ u.verdict = t.verdict \/ u.status = "succeeded"
    BY <1>4 DEF Published, Target
<1>5. CASE u = Cancelled(t)
    BY <1>5 DEF Cancelled, Target
<1>6. CASE u = Retried(t)
    BY <1>6 DEF Retried, Target
<1>7. CASE u = Stopped(t)
    BY <1>7 DEF Stopped, Target
<1>8. ASSUME NEW application, u = [t EXCEPT !.application = application]
      PROVE  u.fence = t.fence /\ u.status = t.status /\ u.verdict = t.verdict
    BY <1>8 DEF Target
<1> QED BY <1>1, <1>2, <1>3, <1>4, <1>5, <1>6, <1>7, <1>8 DEF Moves, Target

LEMMA EvidenceStep ==
    ASSUME TypeInv, EvidenceOK, [Next]_vars
    PROVE  /\ EvidenceOK'
           /\ \A j \in Jobs, e \in Episodes :
                 target[j][e].verdict # None =>
                    /\ target'[j][e].verdict = target[j][e].verdict
                    /\ target'[j][e].status = "succeeded"
<1>1. \A j \in Jobs, e \in Episodes : target[j][e] \in Target
    BY DEF TypeInv, TypeOK
<1>2. Submitted \subseteq Submitted'
    BY JobsKept DEF Submitted
<1>3. CASE Moved
    BY <1>1, <1>2, <1>3, MovesKeepEvidence DEF Moved, EvidenceOK
<1>4. CASE /\ sequence' = sequence + 1
           /\ \A k \in Jobs, f \in Episodes :
                 IF k = sequence + 1
                 THEN target'[k][f] \in {NoTarget, [NoTarget EXCEPT !.status = "queued"]}
                 ELSE target'[k][f] = target[k][f]
    <2>1. sequence + 1 \notin Submitted /\ sequence + 1 \in Submitted'
        BY <1>4, JobsKept DEF Submitted
    <2>2. NoTarget.verdict = None /\ [NoTarget EXCEPT !.status = "queued"].verdict = None
        BY DEF NoTarget
    <2>3. ASSUME NEW j \in Jobs, NEW e \in Episodes, j = sequence + 1
          PROVE  target[j][e].verdict = None /\ target'[j][e].verdict = None /\ j \in Submitted'
        BY <1>4, <2>1, <2>2, <2>3 DEF EvidenceOK
    <2>4. ASSUME NEW j \in Jobs, NEW e \in Episodes, j # sequence + 1
          PROVE  target'[j][e] = target[j][e] /\ (j \notin Submitted' => j \notin Submitted)
        BY <1>2, <1>4, <2>4
    <2> QED BY <2>3, <2>4 DEF EvidenceOK
<1> QED BY <1>3, <1>4, TargetMoves

-----------------------------------------------------------------------------
(* Fences *)

\* The fence of a held claim was given by its target, and to no other holder.
FencesOK ==
    /\ \A w \in Workers : claim[w].job # 0 =>
          /\ claim[w].job \in Submitted /\ claim[w].episode \in Episodes
          /\ claim[w].fence <= target[claim[w].job][claim[w].episode].fence
    /\ \A v, w \in Workers :
          /\ v # w /\ claim[v].job # 0
          /\ claim[v].job = claim[w].job /\ claim[v].episode = claim[w].episode
          => claim[v].fence # claim[w].fence

\* The fence of a submitted target never goes down.
LEMMA FencesGrow ==
    ASSUME TypeInv, [Next]_vars, NEW j \in Submitted, NEW e \in Episodes
    PROVE  /\ target[j][e].fence \in Nat /\ target'[j][e].fence \in Nat
           /\ target[j][e].fence <= target'[j][e].fence
<1>1. j \in Jobs /\ j # sequence + 1
    BY SMTT(30), ConstantsAssumption DEF TypeInv, TypeOK, Submitted, Jobs
<1>2. target[j][e] \in Target /\ target'[j][e] \in Target
    BY <1>1, NextType DEF TypeInv, TypeOK
<1>3. target[j][e].fence \in Nat /\ target'[j][e].fence \in Nat
    BY <1>2 DEF Target
<1>4. CASE Moved
    BY <1>1, <1>2, <1>3, <1>4, MovesKeepEvidence DEF Moved
<1>5. CASE ~Moved
    BY <1>1, <1>3, <1>5, TargetMoves
<1> QED BY <1>3, <1>4, <1>5

LEMMA FencesStep ==
    ASSUME TypeInv, FencesOK, [Next]_vars
    PROVE  FencesOK'
<1>1. Submitted \subseteq Submitted'
    BY JobsKept DEF Submitted
<1>2. \A w \in Workers : claim[w].fence \in Nat
    BY DEF TypeInv, TypeOK, Claim
<1>3. ASSUME \A w \in Workers : claim'[w] = claim[w] \/ claim'[w] = NoClaim(w)
      PROVE  FencesOK'
    <2>1. \A w \in Workers : claim'[w].job # 0 => claim'[w] = claim[w] /\ claim[w].job # 0
        <3>1. \A w \in Workers : NoClaim(w).job = 0
            BY DEF NoClaim
        <3> QED BY <1>3, <3>1
    <2>2. ASSUME NEW w \in Workers, claim'[w].job # 0
          PROVE  /\ claim'[w].job \in Submitted' /\ claim'[w].episode \in Episodes
                 /\ claim'[w].fence <= target'[claim'[w].job][claim'[w].episode].fence
        <3> DEFINE j == claim[w].job
                   e == claim[w].episode
        <3>1. claim'[w] = claim[w] /\ j # 0
            BY <2>1, <2>2
        <3>2. j \in Submitted /\ e \in Episodes /\ claim[w].fence <= target[j][e].fence
            BY <3>1 DEF FencesOK
        <3>3. /\ target[j][e].fence \in Nat /\ target'[j][e].fence \in Nat
              /\ target[j][e].fence <= target'[j][e].fence
            BY <3>2, FencesGrow
        <3>4. claim[w].fence <= target'[j][e].fence
            BY <1>2, <3>2, <3>3
        <3> QED BY <1>1, <3>1, <3>2, <3>4
    <2>3. ASSUME NEW v \in Workers, NEW w \in Workers, v # w, claim'[v].job # 0,
                 claim'[v].job = claim'[w].job, claim'[v].episode = claim'[w].episode
          PROVE  claim'[v].fence # claim'[w].fence
        BY <2>1, <2>3 DEF FencesOK
    <2> QED BY <2>2, <2>3 DEF FencesOK
<1>4. ASSUME NEW w \in Workers, NEW j \in Jobs, NEW e \in Episodes, Take(w, j, e)
      PROVE  FencesOK'
    <2> DEFINE t == target[j][e]
    <2>1. t \in Target /\ t.fence \in Nat
        BY DEF TypeInv, TypeOK, Target
    <2>2. j \in Submitted /\ j # 0
        BY <1>4 DEF Take, Takeable, Ready, Active, Jobs
    <2>3. target'[j][e].fence = t.fence + 1
        <3>1. target'[j][e] = Taken(t, w)
            BY <1>4 DEF Take, TypeInv, TypeOK
        <3>2. Taken(t, w).fence = t.fence + 1
            BY <2>1 DEF Taken, Target
        <3> QED BY <3>1, <3>2
    <2>4. /\ claim'[w].job = j /\ claim'[w].episode = e /\ claim'[w].fence = t.fence + 1
          /\ \A v \in Workers \ {w} : claim'[v] = claim[v]
        BY <1>4 DEF Take, TypeInv, TypeOK
    <2>5. \A v \in Workers \ {w} : claim[v].job # 0 =>
             /\ claim[v].job \in Submitted' /\ claim[v].episode \in Episodes
             /\ claim[v].fence <= target'[claim[v].job][claim[v].episode].fence
        BY <1>1, <1>2, FencesGrow DEF FencesOK
    <2>6. \A v \in Workers \ {w} :
             claim[v].job = j /\ claim[v].episode = e => claim[v].fence # t.fence + 1
        BY <1>2, <2>1, <2>2 DEF FencesOK
    <2>7. \A v \in Workers : claim'[v].job # 0 =>
             /\ claim'[v].job \in Submitted' /\ claim'[v].episode \in Episodes
             /\ claim'[v].fence <= target'[claim'[v].job][claim'[v].episode].fence
        BY <1>1, <2>1, <2>2, <2>3, <2>4, <2>5
    <2>8. ASSUME NEW u \in Workers, NEW v \in Workers, u # v, claim'[u].job # 0,
                 claim'[u].job = claim'[v].job, claim'[u].episode = claim'[v].episode
          PROVE  claim'[u].fence # claim'[v].fence
        <3>1. CASE u # w /\ v # w
            BY <2>4, <2>8, <3>1 DEF FencesOK
        <3>2. CASE u = w \/ v = w
            BY <2>4, <2>6, <2>8, <3>2
        <3> QED BY <3>1, <3>2
    <2> QED BY <2>7, <2>8 DEF FencesOK
<1>5. CASE \E w \in Workers : Release(w) \/ Crash(w)
    <2>1. \A w \in Workers : claim'[w] = claim[w] \/ claim'[w] = NoClaim(w)
        BY <1>5 DEF Release, Crash, TypeInv, TypeOK
    <2> QED BY <2>1, <1>3
<1>6. CASE UNCHANGED claim
    BY <1>3, <1>6
<1>7. \/ \E w \in Workers, j \in Jobs, e \in Episodes : Take(w, j, e)
      \/ \E w \in Workers : Release(w) \/ Crash(w)
      \/ UNCHANGED claim
    BY ZenonT(60) DEF Next, Worker, Client, Environment, BeginReset, NothingToReset, ResetLoad, ResetSave,
           ResetCommit, BeginApply, NothingToApply, ApplyLoad, ApplySave, ApplyCommit, Leave,
           TakeNothing, Observe, Publish, Enter, Heartbeat, Submit, Cancel, Retry,
           RequestApplication, PreviewReset, ConfirmReset, RetryReset, HumanEdit, Shutdown,
           LoseStoreLease, Tick, vars, workerVars
<1> QED BY <1>4, <1>5, <1>6, <1>7

-----------------------------------------------------------------------------
(* Execution slots *)

SlotsOK ==
    /\ IsFiniteSet(DOMAIN executions)
    /\ CapacityRespected
    /\ \A c \in DOMAIN executions : c.job \in Submitted
    /\ ExclusiveInputs

\* What a submitted job is about does not change.
LEMMA InputsKept ==
    ASSUME TypeInv, [Next]_vars, NEW j \in Submitted, NEW e
    PROVE  j \in Submitted' /\ Input(j, e)' = Input(j, e)
BY JobsKept DEF JobKept, Input, Submitted

LEMMA SlotsShrink ==
    ASSUME TypeInv, SlotsOK, [Next]_vars,
           DOMAIN executions' \subseteq DOMAIN executions,
           capacity \in {0, capacity'}
    PROVE  SlotsOK'
<1>1. /\ IsFiniteSet(DOMAIN executions')
      /\ Cardinality(DOMAIN executions') <= Cardinality(DOMAIN executions)
    BY FS_Subset DEF SlotsOK
<1>2. /\ Cardinality(DOMAIN executions) \in Nat
      /\ Cardinality(DOMAIN executions') \in Nat
    BY <1>1, FS_CardinalityType DEF SlotsOK
<1>3. capacity \in Nat /\ capacity' \in Nat
    <2>1. TypeOK /\ TypeOK'
        BY NextType DEF TypeInv
    <2>2. Capacities \cup {0} \subseteq Nat
        BY ConstantsAssumption
    <2> QED BY <2>1, <2>2 DEF TypeOK
<1>4. CapacityRespected'
    BY <1>1, <1>2, <1>3 DEF SlotsOK, CapacityRespected
<1>5. \A c \in DOMAIN executions :
         c.job \in Submitted' /\ Input(c.job, c.episode)' = Input(c.job, c.episode)
    BY InputsKept DEF SlotsOK
<1>6. ExclusiveInputs'
    BY <1>5 DEF SlotsOK, ExclusiveInputs
<1> QED BY <1>1, <1>4, <1>5, <1>6 DEF SlotsOK

LEMMA SlotsTake ==
    ASSUME TypeInv, SlotsOK, [Next]_vars, NEW w \in Workers, NEW j \in Jobs, NEW e \in Episodes,
           Take(w, j, e)
    PROVE  SlotsOK'
<1> DEFINE c == [job |-> j, episode |-> e, fence |-> target[j][e].fence + 1,
                 owner |-> w, generation |-> job[j].generation]
<1>1. /\ DOMAIN executions' = Live(w) \cup {c}
      /\ Cardinality(Live(w)) < capacity /\ capacity' = capacity
      /\ j \in Submitted
      /\ \A x \in Live(w) : Input(x.job, x.episode) # Input(j, e)
    BY DEF Take, HasRoom, Takeable, Ready, Active
<1>2. c.job = j /\ c.episode = e
    OBVIOUS
<1> HIDE DEF c
<1>3. Live(w) \subseteq DOMAIN executions
    BY DEF Live
<1>4. IsFiniteSet(Live(w)) /\ Cardinality(Live(w)) \in Nat
    BY <1>3, FS_Subset, FS_CardinalityType DEF SlotsOK
<1>5. /\ IsFiniteSet(DOMAIN executions')
      /\ Cardinality(DOMAIN executions') <= Cardinality(Live(w)) + 1
    <2>1. /\ IsFiniteSet(Live(w) \cup {c})
          /\ Cardinality(Live(w) \cup {c}) \in {Cardinality(Live(w)), Cardinality(Live(w)) + 1}
        BY <1>4, FS_AddElement
    <2> QED BY <1>1, <1>4, <2>1
<1>6. CapacityRespected'
    <2>1. capacity \in Nat /\ Cardinality(DOMAIN executions') \in Nat
        BY SMTT(30), <1>5, FS_CardinalityType, ConstantsAssumption DEF TypeInv, TypeOK
    <2> QED BY <1>1, <1>4, <1>5, <2>1 DEF CapacityRespected
<1>7. \A x \in Live(w) \cup {c} :
         /\ x.job \in Submitted' /\ Input(x.job, x.episode)' = Input(x.job, x.episode)
         /\ x \in DOMAIN executions \/ x = c
    BY <1>1, <1>2, <1>3, InputsKept DEF SlotsOK
<1>8. \A x, y \in Live(w) \cup {c} :
         Input(x.job, x.episode) = Input(y.job, y.episode) => x = y
    BY <1>1, <1>2, <1>3 DEF SlotsOK, ExclusiveInputs
<1>9. ExclusiveInputs'
    BY <1>1, <1>7, <1>8 DEF ExclusiveInputs
<1> QED BY <1>1, <1>5, <1>6, <1>7, <1>9 DEF SlotsOK

LEMMA SlotsStep ==
    ASSUME TypeInv, SlotsOK, [Next]_vars
    PROVE  SlotsOK'
<1>1. CASE \E w \in Workers, j \in Jobs, e \in Episodes : Take(w, j, e)
    BY <1>1, SlotsTake
<1>2. ASSUME NEW w \in Workers,
             Heartbeat(w) \/ TakeNothing(w) \/ Release(w)
             \/ \E outcome \in Verdicts \cup {"error"} : Publish(w, outcome)
      PROVE  SlotsOK'
    <2>1. DOMAIN executions' \subseteq DOMAIN executions /\ capacity' = capacity
        BY <1>2 DEF Heartbeat, TakeNothing, Live, Release, Publish, Popped
    <2> QED BY <2>1, SlotsShrink
<1>3. CASE Tick
    <2>1. DOMAIN executions' \subseteq DOMAIN executions /\ capacity' = capacity
        BY <1>3 DEF Tick
    <2> QED BY <2>1, SlotsShrink
<1>4. ASSUME NEW d \in Datasets, NEW es \in SUBSET Episodes, NEW m \in Modes,
             NEW f \in Configs, NEW k \in Keys, NEW c \in Capacities,
             Submit(d, es, m, f, k, c)
      PROVE  SlotsOK'
    <2>1. executions' = executions /\ capacity \in {0, capacity'}
        BY <1>4 DEF Submit
    <2> QED BY <2>1, SlotsShrink
<1>5. CASE UNCHANGED <<executions, capacity>>
    BY <1>5, SlotsShrink
<1> QED BY <1>1, <1>2, <1>3, <1>4, <1>5
        DEF Next, Worker, Client, Environment, BeginReset, NothingToReset, ResetLoad, ResetSave,
            ResetCommit, BeginApply, NothingToApply, ApplyLoad, ApplySave, ApplyCommit, Observe,
            Enter, Cancel, Retry, RequestApplication, PreviewReset, ConfirmReset, RetryReset,
            HumanEdit, Shutdown, Crash, LoseStoreLease, vars, queueVars

-----------------------------------------------------------------------------

\* The inductive invariant of the queue.
QueueInv == TypeInv /\ EvidenceOK /\ FencesOK /\ SlotsOK

LEMMA QueueInvariant == Spec => []QueueInv
<1>1. Init => QueueInv
    <2> SUFFICES ASSUME Init PROVE QueueInv
        OBVIOUS
    <2>1. TypeInv
        BY InitType
    <2>2. EvidenceOK
        BY DEF Init, NoTarget, EvidenceOK
    <2>3. FencesOK
        BY DEF Init, NoClaim, FencesOK
    <2>4. SlotsOK
        <3>1. DOMAIN executions = {} /\ capacity = 0
            BY DEF Init
        <3> QED BY <3>1, FS_EmptySet DEF SlotsOK, CapacityRespected, ExclusiveInputs
    <2> QED BY <2>1, <2>2, <2>3, <2>4 DEF QueueInv
<1>2. QueueInv /\ [Next]_vars => QueueInv'
    BY NextType, EvidenceStep, FencesStep, SlotsStep DEF QueueInv
<1> QED BY <1>1, <1>2, PTL DEF Spec

\* The document never holds more slots than the shared capacity (claim,
\* heartbeat, publish, release), for any capacity and number of workers,
\* whatever their clocks say.
THEOREM CapacityTheorem == Spec => []CapacityRespected
<1>1. QueueInv => CapacityRespected
    BY DEF QueueInv, SlotsOK
<1> QED BY <1>1, QueueInvariant, PTL

\* No two slots are about the same saved input (busy_inputs in claim).
THEOREM ExclusiveTheorem == Spec => []ExclusiveInputs
<1>1. QueueInv => ExclusiveInputs
    BY DEF QueueInv, SlotsOK
<1> QED BY <1>1, QueueInvariant, PTL

\* A claim that still counts has a higher fence than every other claim of its
\* target that is held (_valid_claim), however many workers crash, stall or
\* take over.
THEOREM FencingTheorem == Spec => []OnePublisher
<1>1. QueueInv => OnePublisher
    <2> SUFFICES ASSUME QueueInv, NEW v \in Workers, NEW w \in Workers, v # w, ValidClaim(v),
                        claim[w].job = claim[v].job, claim[w].episode = claim[v].episode
                 PROVE  claim[w].fence < claim[v].fence
        BY DEF OnePublisher
    <2> DEFINE t == target[claim[v].job][claim[v].episode]
    <2>1. claim[v].job # 0 /\ t.fence = claim[v].fence
        BY DEF ValidClaim
    <2>2. claim[w].fence <= t.fence /\ claim[w].fence # claim[v].fence
        BY <2>1 DEF QueueInv, FencesOK
    <2>3. claim[v].fence \in Nat /\ claim[w].fence \in Nat
        BY DEF QueueInv, TypeInv, TypeOK, Claim
    <2> QED BY <2>1, <2>2, <2>3
<1> QED BY <1>1, QueueInvariant, PTL

\* Evidence is written once (publish, cancel, retry, confirm_reset).
THEOREM EvidenceTheorem == Spec => EvidenceFinal
<1>1. QueueInv /\ [Next]_vars =>
         [\A j \in Jobs, e \in Episodes :
             target[j][e].verdict # None =>
                /\ target'[j][e].verdict = target[j][e].verdict
                /\ target'[j][e].status = "succeeded"]_target
    BY EvidenceStep DEF QueueInv
<1> QED BY <1>1, QueueInvariant, PTL DEF Spec, EvidenceFinal
=============================================================================
