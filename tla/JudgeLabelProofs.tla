--------------------------- MODULE JudgeLabelProofs ---------------------------
(***************************************************************************)
(* How judge jobs end, and what they do to the label files, for all        *)
(* constants: no job is stranded, a withdrawn job stays as it is, the      *)
(* files keep what people and tombstones put into them, a published        *)
(* withdrawal is complete, the service implements JudgePromise, inference  *)
(* stays within the capacity and a working claim is only lost to a person. *)
(* The theorems that need it assume that the store keeps its lease, or     *)
(* that workers renew theirs in time.                                      *)
(***************************************************************************)
EXTENDS JudgeSafetyProofs

-----------------------------------------------------------------------------
(* The inductive invariant, in parts *)

\* A target that does not exist has no application.
Tidy(t) == t.status = "none" => t.application = "none"
Open(t) == t.status \in {"queued", "running"} \/ t.application = "queued"
Withheld(t) == "cancelled" \in {t.status, t.application}

\* A job's status follows from its targets ts, and what was cancelled in it was
\* cancelled all at once, so nothing in it is open next to something cancelled.
Accounted(status, ts) ==
    /\ \E e \in Episodes : ts[e].status # "none"
    /\ \A e \in Episodes : Tidy(ts[e])
    /\ status # "none"
    /\ IF status \in Terminal THEN \A e \in Episodes : ~Open(ts[e])
                              ELSE \E e \in Episodes : Open(ts[e])
    /\ status # "cancelled" => \A e \in Episodes : ~Withheld(ts[e])

WorkOK ==
    \A j \in Submitted :
        /\ Accounted(job[j].status, target[j])
        /\ job[j].status \notin Terminal => ~Withdrawn(j)

\* While a worker holds the lock, what its transaction began with still is so.
LockOK ==
    \A w \in Workers : lock = w =>
        /\ pc[w] \in Applying \cup Resetting
        /\ pc[w] \in Applying => Candidate(body[w].job, body[w].episode)
        /\ pc[w] \in Resetting => resets[body[w].dataset] = body[w].reset

\* The generations of jobs and withdrawals, and what a withdrawal covers.
ResetsOK ==
    /\ \A j \in Submitted : job[j].generation <= generations[job[j].dataset]
    /\ \A d \in Datasets :
          /\ resets[d].generation <= generations[d]
          /\ \A s \in resets[d].etag.machine : s[1] \in resets[d].runs
          /\ \A j \in resets[d].runs :
                j \in Submitted /\ job[j].dataset = d /\ Withdrawn(j)

\* What a contribution in a file rests on, and the applications under way.
BackedOK ==
    /\ ApplicationsBacked
    /\ \A d \in Datasets : \A s \in labels[d].machine : s[1] \in Submitted
    /\ \A w \in Workers : pc[w] \in Applying =>
          /\ body[w].job \in Submitted
          /\ body[w].dataset = job[body[w].job].dataset
          /\ pc[w] = "apply_save" => target[body[w].job][body[w].episode].verdict = "decided"
          /\ pc[w] = "apply_commit" /\ body[w].outcome = "succeeded" =>
                <<body[w].job, body[w].episode>> \in labels[body[w].dataset].machine

\* How a label file grows.
Before(a, b) ==
    /\ a.edits <= b.edits
    /\ a.machine \subseteq b.machine /\ a.withdrawn \subseteq b.withdrawn
    /\ a.contested => b.contested

\* The file a withdrawal was confirmed for is an earlier state of the file,
\* and one that is under way is not later than the one that is recorded.
EtagsOK ==
    /\ \A d \in Datasets : Before(resets[d].etag, labels[d])
    /\ \A w \in Workers : pc[w] \in Resetting =>
          /\ Before(body[w].reset.etag, resets[body[w].dataset].etag)
          /\ pc[w] = "reset_save" => body[w].loaded = body[w].reset.etag

LabelInv == QueueInv /\ WorkOK /\ LockOK /\ ResetsOK /\ BackedOK /\ EtagsOK

\* With a store that keeps its lease, a transaction holds the lock to its end.
LeaseKept == \A w \in Workers : pc[w] \in Applying \cup Resetting => lock = w
Covered(d) == labels[d].machine \subseteq labels[d].withdrawn

\* What a withdrawal is about to record, and what it has recorded.
CompleteOK ==
    /\ WithdrawalComplete
    /\ \A w \in Workers :
          pc[w] = "reset_commit" /\ body[w].outcome = "published" => Covered(body[w].dataset)

KeptInv == LabelInv /\ LeaseKept /\ CompleteOK

-----------------------------------------------------------------------------
(* The steps of slow transactions.  A worker in one enters, loads, saves or  *)
(* leaves; whatever else happens leaves its place and its locals alone.      *)

Slow == Applying \cup Resetting
Stays(w) == pc'[w] = pc[w] /\ body'[w] = body[w]

\* The locals that say what the transaction is about.
SameTask(w) ==
    /\ body'[w].dataset = body[w].dataset /\ body'[w].job = body[w].job
    /\ body'[w].episode = body[w].episode /\ body'[w].reset = body[w].reset

LEMMA Places ==
    /\ Applying = {"apply_load", "apply_save", "apply_commit"}
    /\ Resetting = {"reset_load", "reset_save", "reset_commit"}
    /\ Applying \cap Resetting = {} /\ Slow = Applying \cup Resetting
    /\ {"reset_once", "apply_once", "claim", "release", "claimed", "judging", "failing"}
          \cap Slow = {}
BY DEF Applying, Resetting, Slow

LEMMA Concluded ==
    ASSUME TypeInv, NEW w \in Workers, NEW place, NEW outcome, Conclude(w, place, outcome)
    PROVE  /\ pc'[w] = place /\ body'[w].outcome = outcome
           /\ SameTask(w) /\ body'[w].loaded = body[w].loaded
           /\ \A v \in Workers \ {w} : Stays(v)
<1>1. body[w] \in Body
    BY DEF TypeInv, TypeOK
<1>2. body'[w] = [body[w] EXCEPT !.outcome = outcome]
    BY DEF Conclude, TypeInv, TypeOK
<1>3. SameTask(w) /\ body'[w].outcome = outcome /\ body'[w].loaded = body[w].loaded
    BY <1>1, <1>2 DEF Body, SameTask
<1> QED BY <1>3 DEF Conclude, At, Stays, TypeInv, TypeOK

LEMMA Loaded ==
    ASSUME TypeInv, NEW w \in Workers, NEW place, Load(w, place)
    PROVE  /\ pc'[w] = place /\ body'[w].loaded = labels[body[w].dataset] /\ SameTask(w)
           /\ \A v \in Workers \ {w} : Stays(v)
<1>1. body[w] \in Body
    BY DEF TypeInv, TypeOK
<1>2. body'[w] = [body[w] EXCEPT !.loaded = labels[body[w].dataset]]
    BY DEF Load, TypeInv, TypeOK
<1>3. SameTask(w) /\ body'[w].loaded = labels[body[w].dataset]
    BY <1>1, <1>2 DEF Body, SameTask
<1> QED BY <1>3 DEF Load, At, Stays, TypeInv, TypeOK

\* What a save does to the file and where it leads.
LEMMA Saved ==
    ASSUME TypeInv, NEW w \in Workers, NEW place, NEW new, NEW done, NEW failed,
           Save(w, place, new, done, failed)
    PROVE  /\ pc'[w] = place /\ body'[w].outcome \in {done, failed} /\ SameTask(w)
           /\ \A v \in Workers \ {w} : Stays(v)
           /\ \/ Matches(w) /\ labels' = [labels EXCEPT ![body[w].dataset] = new]
              \/ labels' = labels /\ body'[w].outcome = failed
<1>1. Conclude(w, place, done) \/ Conclude(w, place, failed)
    BY DEF Save
<1>2. \/ Matches(w) /\ labels' = [labels EXCEPT ![body[w].dataset] = new]
      \/ labels' = labels /\ Conclude(w, place, failed)
    BY DEF Save
<1> QED BY <1>1, <1>2, Concluded

LEMMA ApplyLoaded ==
    ASSUME TypeInv, NEW w \in Workers, ApplyLoad(w)
    PROVE  /\ pc[w] = "apply_load" /\ SameTask(w) /\ UNCHANGED <<labels, lock>>
           /\ \A v \in Workers \ {w} : Stays(v)
           /\ \/ /\ pc'[w] = "apply_save" /\ Proposes(body[w].job, body[w].episode)
                 /\ body'[w].loaded = labels[body[w].dataset]
              \/ pc'[w] = "apply_commit" /\ body'[w].outcome \in {"failed", "skipped"}
<1>1. CASE Conclude(w, "apply_commit", "failed")
    BY <1>1, Concluded DEF ApplyLoad, withdrawalVars
<1>2. CASE Conclude(w, "apply_commit", "skipped")
    BY <1>2, Concluded DEF ApplyLoad, withdrawalVars
<1>3. CASE Proposes(body[w].job, body[w].episode) /\ Load(w, "apply_save")
    BY <1>3, Loaded DEF ApplyLoad, withdrawalVars
<1> QED BY <1>1, <1>2, <1>3 DEF ApplyLoad

LEMMA ApplySaved ==
    ASSUME TypeInv, NEW w \in Workers, ApplySave(w)
    PROVE  /\ pc[w] = "apply_save" /\ pc'[w] = "apply_commit" /\ SameTask(w) /\ UNCHANGED lock
           /\ \A v \in Workers \ {w} : Stays(v)
           /\ \/ /\ Matches(w)
                 /\ labels' = [labels EXCEPT ![body[w].dataset] =
                       Contributed(body[w].loaded, body[w].job, body[w].episode)]
              \/ labels' = labels /\ body'[w].outcome = "failed"
<1> DEFINE new == Contributed(body[w].loaded, body[w].job, body[w].episode)
<1>1. Save(w, "apply_commit", new, "succeeded", "failed")
    BY DEF ApplySave
<1> HIDE DEF new
<1>2. /\ pc'[w] = "apply_commit" /\ SameTask(w) /\ \A v \in Workers \ {w} : Stays(v)
      /\ \/ Matches(w) /\ labels' = [labels EXCEPT ![body[w].dataset] = new]
         \/ labels' = labels /\ body'[w].outcome = "failed"
    BY <1>1, Saved
<1> QED BY <1>2 DEF ApplySave, new

LEMMA ResetLoaded ==
    ASSUME TypeInv, NEW w \in Workers, ResetLoad(w)
    PROVE  /\ pc[w] = "reset_load" /\ SameTask(w) /\ UNCHANGED <<labels, lock>>
           /\ \A v \in Workers \ {w} : Stays(v)
           /\ \/ /\ pc'[w] = "reset_save" /\ ~EditedSincePreview(w)
                 /\ body'[w].loaded = labels[body[w].dataset]
              \/ /\ pc'[w] = "reset_commit" /\ body'[w].outcome = "published"
                 /\ labels[body[w].dataset] = Projected(body[w].reset.etag, body[w].reset.runs)
              \/ pc'[w] = "reset_commit" /\ body'[w].outcome \in {"conflicted", "partial"}
<1>1. ASSUME NEW o \in {"conflicted", "partial"}, Conclude(w, "reset_commit", o)
      PROVE  /\ pc'[w] = "reset_commit" /\ body'[w].outcome = o /\ SameTask(w)
             /\ \A v \in Workers \ {w} : Stays(v)
    BY <1>1, Concluded
<1>2. CASE Conclude(w, "reset_commit", "conflicted") \/ Conclude(w, "reset_commit", "partial")
    BY <1>1, <1>2 DEF ResetLoad, withdrawalVars
<1>3. CASE /\ labels[body[w].dataset] = Projected(body[w].reset.etag, body[w].reset.runs)
           /\ Conclude(w, "reset_commit", "published")
    BY <1>3, Concluded DEF ResetLoad, withdrawalVars
<1>4. CASE ~EditedSincePreview(w) /\ Load(w, "reset_save")
    BY <1>4, Loaded DEF ResetLoad, withdrawalVars
<1> QED BY <1>2, <1>3, <1>4 DEF ResetLoad

LEMMA ResetSaved ==
    ASSUME TypeInv, NEW w \in Workers, ResetSave(w)
    PROVE  /\ pc[w] = "reset_save" /\ pc'[w] = "reset_commit" /\ SameTask(w) /\ UNCHANGED lock
           /\ \A v \in Workers \ {w} : Stays(v)
           /\ \/ /\ Matches(w)
                 /\ labels' = [labels EXCEPT ![body[w].dataset] =
                       Projected(body[w].loaded, body[w].reset.runs)]
              \/ labels' = labels /\ body'[w].outcome = "partial"
<1> DEFINE new == Projected(body[w].loaded, body[w].reset.runs)
<1>1. Save(w, "reset_commit", new, "published", "partial")
    BY DEF ResetSave
<1> HIDE DEF new
<1>2. /\ pc'[w] = "reset_commit" /\ SameTask(w) /\ \A v \in Workers \ {w} : Stays(v)
      /\ \/ Matches(w) /\ labels' = [labels EXCEPT ![body[w].dataset] = new]
         \/ labels' = labels /\ body'[w].outcome = "partial"
    BY <1>1, Saved
<1> QED BY <1>2 DEF ResetSave, new

LEMMA ApplyBegun ==
    ASSUME TypeInv, NEW w \in Workers, NEW j, NEW e, BeginApply(w, j, e)
    PROVE  /\ lock = None /\ lock' = w /\ pc'[w] = "apply_load" /\ Candidate(j, e)
           /\ body'[w].dataset = job[j].dataset /\ body'[w].job = j /\ body'[w].episode = e
           /\ UNCHANGED <<queueVars, withdrawalVars>>
           /\ \A v \in Workers \ {w} : Stays(v)
<1> DEFINE new == [NoBody EXCEPT !.dataset = job[j].dataset, !.job = j, !.episode = e]
<1>1. new.dataset = job[j].dataset /\ new.job = j /\ new.episode = e
    BY DEF NoBody
<1>2. Enter(w, "apply_load", new)
    BY DEF BeginApply
<1> HIDE DEF new
<1> QED BY <1>1, <1>2 DEF BeginApply, Enter, At, Stays, TypeInv, TypeOK

LEMMA ResetBegun ==
    ASSUME TypeInv, NEW w \in Workers, NEW d, BeginReset(w, d)
    PROVE  /\ lock = None /\ lock' = w /\ pc'[w] = "reset_load" /\ resets[d].status = "running"
           /\ body'[w].dataset = d /\ body'[w].reset = resets[d]
           /\ UNCHANGED <<queueVars, withdrawalVars>>
           /\ \A v \in Workers \ {w} : Stays(v)
<1> DEFINE new == [NoBody EXCEPT !.dataset = d, !.reset = resets[d]]
<1>1. new.dataset = d /\ new.reset = resets[d]
    BY DEF NoBody
<1>2. Enter(w, "reset_load", new)
    BY DEF BeginReset
<1> HIDE DEF new
<1> QED BY <1>1, <1>2 DEF BeginReset, Enter, At, Stays, TypeInv, TypeOK

\* The transaction of a worker ends, or it moves inside one.
LEMMA SlowMoves ==
    ASSUME TypeInv, [Next]_vars, NEW v \in Workers
    PROVE  \/ Stays(v)
           \/ pc'[v] \notin Slow /\ (pc[v] \in Slow => lock' # v)
           \/ \E j \in Jobs, e \in Episodes : BeginApply(v, j, e)
           \/ \E d \in Datasets : BeginReset(v, d)
           \/ ApplyLoad(v) \/ ApplySave(v) \/ ResetLoad(v) \/ ResetSave(v)
<1> DEFINE Ends == pc'[v] \notin Slow /\ (pc[v] \in Slow => lock' # v)
<1>1. ASSUME NEW w \in Workers, NEW place, place \notin Slow,
             pc' = [pc EXCEPT ![w] = place],
             body' = [body EXCEPT ![w] = NoBody] \/ body' = body,
             pc[w] \in Slow => lock' # w
      PROVE  Stays(v) \/ Ends
    BY <1>1 DEF Stays, TypeInv, TypeOK
<1>2. ASSUME UNCHANGED <<pc, body>>
      PROVE  Stays(v)
    BY <1>2 DEF Stays
<1>3. \A w \in Workers : (IF lock = w THEN None ELSE lock) # w
    BY ConstantsAssumption
<1>4. ASSUME NEW w \in Workers, Worker(w)
      PROVE  \/ Stays(v) \/ Ends
             \/ \E j \in Jobs, e \in Episodes : BeginApply(v, j, e)
             \/ \E d \in Datasets : BeginReset(v, d)
             \/ ApplyLoad(v) \/ ApplySave(v) \/ ResetLoad(v) \/ ResetSave(v)
    <2>1. CASE \/ \E j \in Jobs, e \in Episodes : BeginApply(w, j, e)
               \/ \E d \in Datasets : BeginReset(w, d)
        BY <2>1, ApplyBegun, ResetBegun
    <2>2. CASE ApplyLoad(w) \/ ApplySave(w) \/ ResetLoad(w) \/ ResetSave(w)
        BY <2>2, ApplyLoaded, ApplySaved, ResetLoaded, ResetSaved
    <2>3. CASE ApplyCommit(w) \/ ResetCommit(w)
        <3>1. Leave(w)
            BY <2>3 DEF ApplyCommit, ResetCommit
        <3> QED BY <3>1, <1>1, <1>3, Places DEF Leave, At
    <2>4. CASE \/ NothingToReset(w) \/ NothingToApply(w) \/ TakeNothing(w) \/ Observe(w)
               \/ Release(w) \/ \E j \in Jobs, e \in Episodes : Take(w, j, e)
               \/ \E outcome \in Verdicts \cup {"error"} : Publish(w, outcome)
        <3>1. /\ body' = body
              /\ pc[w] \in {"reset_once", "apply_once", "claim", "release", "claimed",
                            "judging", "failing"}
              /\ \E place \in {"reset_once", "apply_once", "claim", "release", "claimed",
                               "judging", "failing"} : pc' = [pc EXCEPT ![w] = place]
            BY <2>4 DEF NothingToReset, NothingToApply, At, TakeNothing, Observe, Release,
                        Take, Publish
        <3> QED BY <3>1, <1>1, Places
    <2> QED BY <1>4, <2>1, <2>2, <2>3, <2>4 DEF Worker
<1>5. CASE Client \/ \E w \in Workers : Heartbeat(w)
    <2>1. UNCHANGED <<pc, body>>
        BY <1>5 DEF Client, Heartbeat, Submit, Cancel, Retry, RequestApplication, PreviewReset,
                    ConfirmReset, RetryReset, HumanEdit, workerVars
    <2> QED BY <1>2, <2>1
<1>6. CASE Environment
    <2>1. ASSUME NEW w \in Workers, Shutdown(w)
          PROVE  Stays(v) \/ Ends
        BY <2>1, <1>1, Places DEF Shutdown, Renewing
    <2>2. ASSUME NEW w \in Workers, Crash(w)
          PROVE  Stays(v) \/ Ends
        BY <2>2, <1>1, <1>3, Places DEF Crash
    <2>3. CASE Tick \/ \E w \in Workers : LoseStoreLease(w)
        BY <2>3, <1>2 DEF LoseStoreLease, Tick, workerVars
    <2> QED BY <1>6, <2>1, <2>2, <2>3 DEF Environment
<1>7. CASE UNCHANGED vars
    BY <1>2, <1>7 DEF vars, workerVars
<1> QED BY <1>4, <1>5, <1>6, <1>7 DEF Next

-----------------------------------------------------------------------------
(* The label files only grow. *)

LEMMA LabelsChange ==
    ASSUME [Next]_vars
    PROVE  \/ UNCHANGED labels
           \/ \E d \in Datasets : HumanEdit(d)
           \/ \E w \in Workers : ApplySave(w) \/ ResetSave(w)
<1>1. ASSUME NEW w \in Workers, Worker(w)
      PROVE  UNCHANGED labels \/ ApplySave(w) \/ ResetSave(w)
    BY <1>1 DEF Worker, BeginReset, NothingToReset, ResetLoad, ResetCommit, BeginApply,
            NothingToApply, ApplyLoad, ApplyCommit, TakeNothing, Observe, Publish, Take, Release,
            Enter, withdrawalVars
<1>2. CASE Client
    BY <1>2 DEF Client, Submit, Cancel, Retry, RequestApplication, PreviewReset, ConfirmReset,
                RetryReset, withdrawalVars
<1>3. CASE Environment \/ (\E w \in Workers : Heartbeat(w)) \/ UNCHANGED vars
    BY <1>3 DEF Environment, Heartbeat, Crash, Shutdown, LoseStoreLease, Tick, vars,
                withdrawalVars
<1> QED BY <1>1, <1>2, <1>3 DEF Next

LEMMA BeforeOrder ==
    /\ \A a \in Labels : Before(a, a) /\ Before(NoLabels, a)
    /\ \A a, b, c \in Labels : Before(a, b) /\ Before(b, c) => Before(a, c)
    /\ \A a, b \in Labels : Before(a, b) /\ Before(b, a) => a = b
<1>1. \A a \in Labels : Before(a, a) /\ Before(NoLabels, a)
    BY DEF Before, Labels, NoLabels
<1>2. \A a, b, c \in Labels : Before(a, b) /\ Before(b, c) => Before(a, c)
    BY DEF Before, Labels
<1>3. \A a, b \in Labels : Before(a, b) /\ Before(b, a) => a = b
    BY DEF Before, Labels
<1> QED BY <1>1, <1>2, <1>3

\* Each of the three ways to write a file.
LEMMA ContentsGrow ==
    ASSUME NEW a \in Labels
    PROVE  /\ \A contested \in {a.contested, TRUE} : Before(a, Edited(a, contested))
           /\ \A j, e : Before(a, Contributed(a, j, e))
           /\ \A runs : Before(a, Projected(a, runs))
           /\ \A contested : /\ Edited(a, contested).machine = a.machine
                             /\ Edited(a, contested).withdrawn = a.withdrawn
           /\ \A j, e : /\ Contributed(a, j, e).machine = a.machine \cup {<<j, e>>}
                        /\ Contributed(a, j, e).withdrawn = a.withdrawn
           /\ \A runs : /\ Projected(a, runs).machine = a.machine
                        /\ Projected(a, runs).withdrawn
                              = a.withdrawn \cup {s \in a.machine : s[1] \in runs}
BY DEF Before, Edited, Contributed, Projected, Labels

LEMMA LabelsGrow ==
    ASSUME TypeInv, [Next]_vars, NEW d \in Datasets
    PROVE  /\ labels[d] \in Labels /\ labels'[d] \in Labels
           /\ Before(labels[d], labels'[d])
<1>1. labels \in [Datasets -> Labels] /\ labels' \in [Datasets -> Labels]
    BY NextType DEF TypeInv, TypeOK
<1>2. CASE UNCHANGED labels
    BY <1>1, <1>2, BeforeOrder
<1>3. ASSUME NEW c \in Datasets, HumanEdit(c)
      PROVE  Before(labels[d], labels'[d])
    <2>1. PICK contested \in {labels[c].contested, TRUE} :
             labels' = [labels EXCEPT ![c] = Edited(labels[c], contested)]
        BY <1>3 DEF HumanEdit
    <2> QED BY <1>1, <2>1, BeforeOrder, ContentsGrow
<1>4. ASSUME NEW w \in Workers, ApplySave(w) \/ ResetSave(w)
      PROVE  Before(labels[d], labels'[d])
    <2>1. CASE UNCHANGED labels
        BY <1>1, <2>1, BeforeOrder
    <2>2. ASSUME NEW new, Matches(w), Before(body[w].loaded, new),
                 labels' = [labels EXCEPT ![body[w].dataset] = new]
          PROVE  Before(labels[d], labels'[d])
        BY <1>1, <2>2, BeforeOrder DEF Matches
    <2>3. body[w].loaded \in Labels
        BY DEF TypeInv, TypeOK, Body
    <2>4. CASE ApplySave(w)
        <3>1. Before(body[w].loaded, Contributed(body[w].loaded, body[w].job, body[w].episode))
            BY <2>3, ContentsGrow
        <3> QED BY <2>1, <2>2, <2>4, <3>1, ApplySaved
    <2>5. CASE ResetSave(w)
        <3>1. Before(body[w].loaded, Projected(body[w].loaded, body[w].reset.runs))
            BY <2>3, ContentsGrow
        <3> QED BY <2>1, <2>2, <2>5, <3>1, ResetSaved
    <2> QED BY <1>4, <2>4, <2>5
<1> QED BY <1>1, <1>2, <1>3, <1>4, LabelsChange

-----------------------------------------------------------------------------
(* The withdrawals on record *)

\* A withdrawal is replaced when another one is confirmed, and otherwise only
\* its status and whether it was published change.
LEMMA ResetsChange ==
    ASSUME TypeInv, [Next]_vars, NEW d \in Datasets
    PROVE  \/ /\ resets'[d].etag = resets[d].etag /\ resets'[d].runs = resets[d].runs
              /\ resets'[d].generation = resets[d].generation
              /\ generations'[d] = generations[d]
              /\ \/ resets'[d] = resets[d]
                 \/ resets[d].status = "partial" /\ RetryReset(d)
                 \/ \E w \in Workers : /\ ResetCommit(w) /\ lock = w /\ body[w].dataset = d
                                       /\ resets'[d] = Recorded(w)
           \/ \E p \in 1 .. MaxPreviews :
                 /\ ConfirmReset(p) /\ previews[p].dataset = d
                 /\ resets'[d].etag = labels[d] /\ resets'[d].runs = Scope(d)
                 /\ resets'[d].generation = generations[d] + 1
                 /\ resets'[d].status = "running" /\ resets'[d].published = FALSE
                 /\ generations'[d] = generations[d] + 1
<1>1. resets[d] \in Reset /\ generations[d] \in Nat
    BY DEF TypeInv, TypeOK
<1>2. CASE UNCHANGED <<resets, generations>>
    BY <1>2
<1>3. ASSUME NEW w \in Workers, ResetCommit(w)
      PROVE  /\ resets'[d].etag = resets[d].etag /\ resets'[d].runs = resets[d].runs
             /\ resets'[d].generation = resets[d].generation
             /\ generations'[d] = generations[d]
             /\ \/ resets'[d] = resets[d]
                \/ lock = w /\ body[w].dataset = d /\ resets'[d] = Recorded(w)
    <2>1. \/ resets'[d] = resets[d]
          \/ lock = w /\ body[w].dataset = d /\ resets'[d] = Recorded(w)
        BY <1>3 DEF ResetCommit, TypeInv, TypeOK
    <2>2. generations' = generations
        BY <1>3 DEF ResetCommit
    <2>3. body[w].dataset = d =>
             /\ Recorded(w).etag = resets[d].etag /\ Recorded(w).runs = resets[d].runs
             /\ Recorded(w).generation = resets[d].generation
        BY <1>1 DEF Recorded, Reset
    <2> QED BY <2>1, <2>2, <2>3
<1>4. ASSUME NEW c \in Datasets, RetryReset(c)
      PROVE  /\ resets'[d].etag = resets[d].etag /\ resets'[d].runs = resets[d].runs
             /\ resets'[d].generation = resets[d].generation
             /\ generations'[d] = generations[d]
             /\ \/ resets'[d] = resets[d]
                \/ resets[d].status = "partial" /\ RetryReset(d)
    <2>1. generations' = generations /\ resets' = [resets EXCEPT ![c].status = "running"]
          /\ resets[c].status = "partial"
        BY <1>4 DEF RetryReset
    <2>2. resets'[d] = IF c = d THEN [resets[d] EXCEPT !.status = "running"] ELSE resets[d]
        BY <2>1 DEF TypeInv, TypeOK
    <2> QED BY <1>1, <1>4, <2>1, <2>2 DEF Reset
<1>5. ASSUME NEW p \in 1 .. MaxPreviews, ConfirmReset(p), previews[p].dataset # d
      PROVE  resets'[d] = resets[d] /\ generations'[d] = generations[d]
    BY <1>5 DEF ConfirmReset, TypeInv, TypeOK
<1>6. ASSUME NEW p \in 1 .. MaxPreviews, ConfirmReset(p), previews[p].dataset = d
      PROVE  /\ resets'[d].etag = labels[d] /\ resets'[d].runs = Scope(d)
             /\ resets'[d].generation = generations[d] + 1
             /\ resets'[d].status = "running" /\ resets'[d].published = FALSE
             /\ generations'[d] = generations[d] + 1
    BY <1>6 DEF ConfirmReset, TypeInv, TypeOK
<1>7. \/ \E w \in Workers : ResetCommit(w)
      \/ \E c \in Datasets : RetryReset(c)
      \/ \E p \in 1 .. MaxPreviews : ConfirmReset(p)
      \/ UNCHANGED <<resets, generations>>
    <2>1. ASSUME NEW w \in Workers, Worker(w)
          PROVE  ResetCommit(w) \/ UNCHANGED <<resets, generations>>
        BY <2>1 DEF Worker, BeginReset, NothingToReset, ResetLoad, ResetSave, BeginApply,
                    NothingToApply, ApplyLoad, ApplySave, ApplyCommit, TakeNothing, Observe,
                    Publish, Take, Release, Enter, withdrawalVars
    <2>2. CASE Client
        BY ZenonT(60), <2>2 DEF Client, Submit, Cancel, Retry, RequestApplication, PreviewReset, HumanEdit,
                    withdrawalVars
    <2>3. CASE Environment \/ (\E w \in Workers : Heartbeat(w)) \/ UNCHANGED vars
        BY <2>3 DEF Environment, Heartbeat, Crash, Shutdown, LoseStoreLease, Tick, vars,
                    withdrawalVars
    <2> QED BY <2>1, <2>2, <2>3 DEF Next
<1> QED BY <1>2, <1>3, <1>4, <1>5, <1>6, <1>7

LEMMA EtagsStep ==
    ASSUME TypeInv, EtagsOK, [Next]_vars
    PROVE  EtagsOK'
<1>1. \A d \in Datasets :
         /\ resets[d].etag \in Labels /\ resets'[d].etag \in Labels
         /\ labels[d] \in Labels /\ labels'[d] \in Labels
    BY NextType DEF TypeInv, TypeOK, Reset
<1>2. \A w \in Workers : body[w].reset.etag \in Labels
    BY DEF TypeInv, TypeOK, Body, Reset
<1>3. \A d \in Datasets :
         \/ resets'[d].etag = resets[d].etag
         \/ resets'[d].etag = labels[d]
    BY ResetsChange
<1>4. ASSUME NEW d \in Datasets
      PROVE  /\ Before(resets[d].etag, resets'[d].etag)
             /\ Before(resets'[d].etag, labels'[d])
    <2>1. Before(resets[d].etag, labels[d])
        BY DEF EtagsOK
    <2> QED BY <1>1, <1>3, <2>1, LabelsGrow, BeforeOrder
<1>5. ASSUME NEW w \in Workers, pc'[w] \in Resetting
      PROVE  /\ Before(body'[w].reset.etag, resets'[body'[w].dataset].etag)
             /\ pc'[w] = "reset_save" => body'[w].loaded = body'[w].reset.etag
    <2>1. ASSUME pc[w] \in Resetting, body'[w].dataset = body[w].dataset,
                 body'[w].reset = body[w].reset
          PROVE  Before(body'[w].reset.etag, resets'[body'[w].dataset].etag)
        <3>1. body[w].dataset \in Datasets
            BY <2>1 DEF TypeInv, BodyOK
        <3>2. Before(body[w].reset.etag, resets[body[w].dataset].etag)
            BY <2>1 DEF EtagsOK
        <3> QED BY <1>1, <1>2, <1>4, <2>1, <3>1, <3>2, BeforeOrder
    <2>2. CASE Stays(w)
        BY <1>5, <2>1, <2>2 DEF Stays, EtagsOK
    <2>3. ASSUME NEW d \in Datasets, BeginReset(w, d)
          PROVE  /\ Before(body'[w].reset.etag, resets'[body'[w].dataset].etag)
                 /\ pc'[w] # "reset_save"
        BY <1>1, <2>3, ResetBegun, BeforeOrder DEF withdrawalVars
    <2>4. CASE ResetLoad(w)
        BY <2>1, <2>4, ResetLoaded, Places DEF SameTask, EditedSincePreview
    <2>5. CASE ResetSave(w)
        BY <2>1, <2>5, ResetSaved, Places DEF SameTask
    <2>6. ~(\E j \in Jobs, e \in Episodes : BeginApply(w, j, e)) /\ ~ApplyLoad(w) /\ ~ApplySave(w)
        BY <1>5, ApplyBegun, ApplyLoaded, ApplySaved, Places
    <2>7. pc'[w] \in Slow
        BY <1>5, Places
    <2> QED BY <2>2, <2>3, <2>4, <2>5, <2>6, <2>7, SlowMoves
<1> QED BY <1>4, <1>5 DEF EtagsOK

\* Tombstones are set by a withdrawal that saves, and then the file is what the
\* withdrawal on record was confirmed for: that is not older than what the
\* worker began with, which is what it finds in the file.
LEMMA PreviewStep ==
    ASSUME TypeInv, EtagsOK, [Next]_vars, NEW d \in Datasets,
           labels'[d].withdrawn # labels[d].withdrawn
    PROVE  labels[d] = resets[d].etag
<1>1. labels \in [Datasets -> Labels] /\ resets[d].etag \in Labels
    BY DEF TypeInv, TypeOK, Reset
<1>2. ASSUME NEW c \in Datasets, HumanEdit(c)
      PROVE  labels'[d].withdrawn = labels[d].withdrawn
    <2>1. PICK contested \in {labels[c].contested, TRUE} :
             labels' = [labels EXCEPT ![c] = Edited(labels[c], contested)]
        BY <1>2 DEF HumanEdit
    <2>2. Edited(labels[c], contested).withdrawn = labels[c].withdrawn
        BY <1>1, ContentsGrow
    <2> QED BY <1>1, <2>1, <2>2
<1>3. ASSUME NEW w \in Workers, ApplySave(w)
      PROVE  labels'[d].withdrawn = labels[d].withdrawn
    <2>1. body[w].loaded \in Labels
        BY DEF TypeInv, TypeOK, Body
    <2> DEFINE new == Contributed(body[w].loaded, body[w].job, body[w].episode)
    <2>2. new.withdrawn = body[w].loaded.withdrawn
        BY <2>1 DEF Contributed, Labels
    <2>3. \/ Matches(w) /\ labels' = [labels EXCEPT ![body[w].dataset] = new]
          \/ labels' = labels
        BY <1>3, ApplySaved
    <2> HIDE DEF new
    <2> QED BY <1>1, <2>2, <2>3 DEF Matches
<1>4. PICK w \in Workers : ResetSave(w)
    BY <1>2, <1>3, LabelsChange
<1>5. pc[w] = "reset_save" /\ Matches(w) /\ body[w].dataset = d
    BY <1>1, <1>4, ResetSaved
<1>6. /\ Before(body[w].reset.etag, resets[d].etag) /\ Before(resets[d].etag, labels[d])
      /\ labels[d] = body[w].reset.etag
    BY <1>5, Places DEF EtagsOK, Matches
<1> QED BY <1>1, <1>6, BeforeOrder

-----------------------------------------------------------------------------
(* What a step does to one job and its targets *)

\* Only the lease of the target moves.
Alike(t, u) == [u EXCEPT !.left = 0] = [t EXCEPT !.left = 0]

LEMMA AlikeFields ==
    ASSUME NEW t \in Target, NEW u \in Target, Alike(t, u)
    PROVE  /\ u.status = t.status /\ u.application = t.application
           /\ u.verdict = t.verdict /\ u.fence = t.fence
<1> DEFINE x == [t EXCEPT !.left = 0]
           y == [u EXCEPT !.left = 0]
<1>1. /\ x.status = t.status /\ x.application = t.application
      /\ x.verdict = t.verdict /\ x.fence = t.fence
    BY DEF Target
<1>2. /\ y.status = u.status /\ y.application = u.application
      /\ y.verdict = u.verdict /\ y.fence = u.fence
    BY DEF Target
<1>3. x = y
    BY DEF Alike
<1> HIDE DEF x, y
<1> QED BY <1>1, <1>2, <1>3

LEMMA AlikeRenewed ==
    ASSUME NEW t \in Target
    PROVE  Alike(t, t) /\ \A left : Alike(t, [t EXCEPT !.left = left])
BY DEF Alike, Target

JobAlike(k) == job'[k] = job[k] /\ \A f \in Episodes : Alike(target[k][f], target'[k][f])

\* What a step may do to the record of a job: nothing, time and renewals
\* aside, or one of the operations about it.
JobSame(k) == job'[k] = job[k] /\ target'[k] = target[k]

LEMMA RecordSteps ==
    ASSUME TypeInv, [Next]_vars, NEW k \in Submitted
    PROVE  \/ JobSame(k) \/ Tick \/ \E w \in Workers : Heartbeat(w)
           \/ \E w \in Workers, e \in Episodes : Take(w, k, e)
           \/ \E w \in Workers, outcome \in Verdicts \cup {"error"} :
                 Publish(w, outcome) /\ ValidClaim(w) /\ claim[w].job = k
           \/ Cancel(k) \/ Retry(k) \/ \E es \in SUBSET Episodes : RequestApplication(k, es)
           \/ \E p \in 1 .. MaxPreviews : ConfirmReset(p) /\ previews[p].dataset = job[k].dataset
           \/ \E w \in Workers : ApplyCommit(w) /\ lock = w /\ body[w].job = k
<1>1. k \in Jobs /\ k # sequence + 1
    BY ConstantsAssumption DEF TypeInv, TypeOK, Submitted, Jobs
<1>2. ASSUME job'[k] = job[k], target'[k] = target[k]
      PROVE  JobSame(k)
    BY <1>2 DEF JobSame
<1>3. ASSUME NEW w \in Workers, Worker(w)
      PROVE  \/ JobSame(k)
             \/ \E e \in Episodes : Take(w, k, e)
             \/ \E outcome \in Verdicts \cup {"error"} :
                   Publish(w, outcome) /\ ValidClaim(w) /\ claim[w].job = k
             \/ ApplyCommit(w) /\ lock = w /\ body[w].job = k
    <2>1. ASSUME NEW j \in Jobs, NEW e \in Episodes, Take(w, j, e), j # k
          PROVE  JobSame(k)
        BY <1>1, <1>2, <2>1 DEF Take, TypeInv, TypeOK
    <2>2. ASSUME NEW outcome \in Verdicts \cup {"error"}, Publish(w, outcome),
                 ~(ValidClaim(w) /\ claim[w].job = k)
          PROVE  JobSame(k)
        BY <1>1, <1>2, <2>2 DEF Publish, TypeInv, TypeOK
    <2>3. ASSUME ApplyCommit(w), ~(lock = w /\ body[w].job = k)
          PROVE  JobSame(k)
        BY <1>1, <1>2, <2>3 DEF ApplyCommit, TypeInv, TypeOK
    <2>4. CASE UNCHANGED <<job, target>>
        BY <1>2, <2>4
    <2>5. \/ UNCHANGED <<job, target>> \/ ApplyCommit(w)
          \/ \E outcome \in Verdicts \cup {"error"} : Publish(w, outcome)
          \/ \E j \in Jobs, e \in Episodes : Take(w, j, e)
        BY <1>3 DEF Worker, BeginReset, NothingToReset, ResetLoad, ResetSave, ResetCommit,
                    BeginApply, NothingToApply, ApplyLoad, ApplySave, TakeNothing, Observe,
                    Release, Enter, queueVars
    <2> QED BY <2>1, <2>2, <2>3, <2>4, <2>5
<1>4. CASE Client
    <2>1. ASSUME NEW d \in Datasets, NEW es \in (SUBSET Episodes) \ {{}}, NEW m \in Modes,
                 NEW f \in Configs, NEW key \in Keys, NEW c \in Capacities,
                 Submit(d, es, m, f, key, c)
          PROVE  JobSame(k)
        BY <1>1, <1>2, <2>1 DEF Submit, TypeInv, TypeOK
    <2>2. ASSUME NEW j \in Jobs, j # k,
                 Cancel(j) \/ Retry(j) \/ \E es \in SUBSET Episodes : RequestApplication(j, es)
          PROVE  JobSame(k)
        BY <1>1, <1>2, <2>2 DEF Cancel, Retry, RequestApplication, TypeInv, TypeOK
    <2>3. ASSUME NEW p \in 1 .. MaxPreviews, ConfirmReset(p), previews[p].dataset # job[k].dataset
          PROVE  JobSame(k)
        BY <1>1, <1>2, <2>3 DEF ConfirmReset
    <2>4. CASE \E d \in Datasets : PreviewReset(d) \/ RetryReset(d) \/ HumanEdit(d)
        BY <1>2, <2>4 DEF PreviewReset, RetryReset, HumanEdit, queueVars
    <2> QED BY <1>4, <2>1, <2>2, <2>3, <2>4 DEF Client
<1>5. CASE \/ \E w \in Workers : Shutdown(w) \/ Crash(w) \/ LoseStoreLease(w)
           \/ UNCHANGED vars
    BY <1>2, <1>5 DEF Shutdown, Crash, LoseStoreLease, vars, queueVars
<1> QED BY <1>3, <1>4, <1>5 DEF Next, Environment

\* The same when what is left of a lease is set aside.
LEMMA JobSteps ==
    ASSUME TypeInv, [Next]_vars, NEW k \in Submitted
    PROVE  \/ JobAlike(k)
           \/ \E w \in Workers, e \in Episodes : Take(w, k, e)
           \/ \E w \in Workers, outcome \in Verdicts \cup {"error"} :
                 Publish(w, outcome) /\ ValidClaim(w) /\ claim[w].job = k
           \/ Cancel(k) \/ Retry(k) \/ \E es \in SUBSET Episodes : RequestApplication(k, es)
           \/ \E p \in 1 .. MaxPreviews : ConfirmReset(p) /\ previews[p].dataset = job[k].dataset
           \/ \E w \in Workers : ApplyCommit(w) /\ lock = w /\ body[w].job = k
<1>1. k \in Jobs /\ k # sequence + 1
    BY ConstantsAssumption DEF TypeInv, TypeOK, Submitted, Jobs
<1>2. \A f \in Episodes : target[k][f] \in Target
    BY <1>1 DEF TypeInv, TypeOK
<1>3. ASSUME job'[k] = job[k], target'[k] = target[k]
      PROVE  JobAlike(k)
    BY <1>2, <1>3, AlikeRenewed DEF JobAlike
<1>4. ASSUME NEW w \in Workers, Heartbeat(w)
      PROVE  JobAlike(k)
    <2>1. ASSUME NEW left, target' = Renewed(claim[w], left)
          PROVE  \A f \in Episodes : Alike(target[k][f], target'[k][f])
        <3> DEFINE j == claim[w].job
                   e == claim[w].episode
        <3>1. \A f \in Episodes :
                 target'[k][f] \in {target[k][f], [target[k][f] EXCEPT !.left = left]}
            BY <1>1, <2>1 DEF Renewed, TypeInv, TypeOK
        <3> SUFFICES ASSUME NEW f \in Episodes PROVE Alike(target[k][f], target'[k][f])
            OBVIOUS
        <3>2. target[k][f] \in Target
            BY <1>2
        <3>3. Alike(target[k][f], target[k][f])
              /\ Alike(target[k][f], [target[k][f] EXCEPT !.left = left])
            BY <3>2, AlikeRenewed
        <3> QED BY <3>1, <3>3
    <2>2. \/ target' = Renewed(claim[w], Lease + Offset[w])
          \/ target' = Renewed(claim[w], Offset[w])
          \/ UNCHANGED target
        BY <1>4 DEF Heartbeat
    <2>3. UNCHANGED job
        BY <1>4 DEF Heartbeat
    <2> QED BY <1>3, <2>1, <2>2, <2>3 DEF JobAlike
<1>5. CASE Tick
    <2>1. \A f \in Episodes :
             target'[k][f] = [target[k][f] EXCEPT !.left = Elapse(target[k][f].left)]
        BY <1>1, <1>5 DEF Tick
    <2>2. \A f \in Episodes : Alike(target[k][f], target'[k][f])
        <3> SUFFICES ASSUME NEW f \in Episodes PROVE Alike(target[k][f], target'[k][f])
            OBVIOUS
        <3>1. Alike(target[k][f], [target[k][f] EXCEPT !.left = Elapse(target[k][f].left)])
            BY <1>2, AlikeRenewed
        <3> QED BY <2>1, <3>1
    <2> QED BY <1>5, <2>2 DEF JobAlike, Tick
<1> QED BY <1>3, <1>4, <1>5, RecordSteps DEF JobSame

-----------------------------------------------------------------------------
(* Jobs and their targets *)

\* What each operation does to the job it is about.
LEMMA JobOf ==
    ASSUME TypeInv, NEW k \in Submitted
    PROVE  /\ k \in Jobs /\ k # sequence + 1 /\ job[k] \in Job /\ target[k] \in [Episodes -> Target]
           /\ job[k].dataset \in Datasets /\ job[k].generation \in Nat
<1>1. k \in Jobs /\ k # sequence + 1
    BY SMTT(30), ConstantsAssumption DEF TypeInv, TypeOK, Submitted, Jobs
<1> QED BY <1>1 DEF TypeInv, TypeOK, JobOK, Job

LEMMA TakeEffect ==
    ASSUME TypeInv, NEW k \in Submitted, NEW w \in Workers, NEW e \in Episodes, Take(w, k, e)
    PROVE  /\ Active(k) /\ target[k][e].status \in {"queued", "running"} /\ lock = None
           /\ job'[k].status = "running"
           /\ target'[k] = [target[k] EXCEPT ![e] = Taken(target[k][e], w)]
<1>1. job'[k].status = "running"
    BY JobOf DEF Take, TypeInv, TypeOK, Job
<1>2. target'[k] = [target[k] EXCEPT ![e] = Taken(target[k][e], w)]
    BY JobOf DEF Take, TypeInv, TypeOK
<1> QED BY <1>1, <1>2 DEF Take, Takeable, Ready

LEMMA PublishEffect ==
    ASSUME TypeInv, FencesOK, NEW k \in Submitted, NEW w \in Workers,
           NEW outcome \in Verdicts \cup {"error"},
           Publish(w, outcome), ValidClaim(w), claim[w].job = k
    PROVE  /\ Active(k) /\ lock = None
           /\ claim[w].episode \in Episodes
           /\ target[k][claim[w].episode].status = "running"
           /\ target'[k] = [target[k] EXCEPT ![claim[w].episode] =
                               Published(target[k][claim[w].episode], job[k].mode, outcome)]
           /\ job'[k].status = Summary(job[k].status, target'[k])
<1> DEFINE e == claim[w].episode
           new == Published(target[k][e], job[k].mode, outcome)
<1>1. Active(k) /\ lock = None /\ e \in Episodes /\ target[k][e].status = "running"
    BY DEF Publish, ValidClaim, FencesOK
<1>2. /\ target' = [target EXCEPT ![k][e] = new]
      /\ job' = [job EXCEPT ![k].status = Summary(job[k].status, [target[k] EXCEPT ![e] = new])]
    BY DEF Publish
<1> HIDE DEF new
<1>3. target'[k] = [target[k] EXCEPT ![e] = new]
    BY <1>2, JobOf DEF TypeInv, TypeOK
<1>4. job'[k].status = Summary(job[k].status, [target[k] EXCEPT ![e] = new])
    BY <1>2, JobOf DEF TypeInv, TypeOK, Job
<1> QED BY <1>1, <1>3, <1>4 DEF new

LEMMA CancelEffect ==
    ASSUME TypeInv, NEW k \in Submitted, Cancel(k)
    PROVE  /\ lock = None /\ job[k].status \notin Terminal
           /\ target'[k] = [e \in Episodes |-> Cancelled(target[k][e])]
           /\ job'[k].status = Summary(job[k].status, target'[k])
<1> DEFINE ts == [e \in Episodes |-> Cancelled(target[k][e])]
<1>1. target' = [target EXCEPT ![k] = ts]
      /\ job' = [job EXCEPT ![k].status = Summary(job[k].status, ts)]
    BY DEF Cancel
<1> HIDE DEF ts
<1>2. target'[k] = ts /\ job'[k].status = Summary(job[k].status, ts)
    BY <1>1, JobOf DEF TypeInv, TypeOK, Job
<1> QED BY <1>2 DEF Cancel, ts

LEMMA RetryEffect ==
    ASSUME TypeInv, NEW k \in Submitted, Retry(k)
    PROVE  /\ lock = None /\ ~Withdrawn(k)
           /\ target'[k] = [e \in Episodes |-> Retried(target[k][e])]
           /\ job'[k].status = Summary("queued", target'[k])
<1> DEFINE ts == [e \in Episodes |-> Retried(target[k][e])]
<1>1. /\ target' = [target EXCEPT ![k] = ts]
      /\ job' = [job EXCEPT ![k].status = Summary("queued", ts), ![k].retries = @ + 1]
    BY DEF Retry
<1> HIDE DEF ts
<1>2. target'[k] = ts
    BY <1>1, JobOf DEF TypeInv, TypeOK
<1>3. job'[k] = [[job[k] EXCEPT !.status = Summary("queued", ts)] EXCEPT !.retries = @ + 1]
    BY <1>1, JobOf DEF TypeInv, TypeOK
<1>4. job'[k].status = Summary("queued", ts)
    BY <1>3, JobOf DEF Job
<1> QED BY <1>2, <1>4 DEF Retry, ts

\* The targets of j after a request for the application of es.
Requested(j, es) ==
    [e \in Episodes |->
        IF e \in es /\ target[j][e].application \notin {"succeeded", "skipped"}
        THEN [target[j][e] EXCEPT !.application = "queued"] ELSE target[j][e]]

LEMMA RequestEffect ==
    ASSUME TypeInv, NEW k \in Submitted, NEW es \in SUBSET Episodes, RequestApplication(k, es)
    PROVE  /\ lock = None /\ ~Withdrawn(k) /\ job[k].status # "cancelled"
           /\ \A e \in es : target[k][e].status = "succeeded"
           /\ target'[k] = Requested(k, es)
           /\ job'[k].status = Summary(job[k].status, target'[k])
<1>1. /\ target' = [target EXCEPT ![k] = Requested(k, es)]
      /\ job' = [job EXCEPT ![k].status = Summary(job[k].status, Requested(k, es))]
    BY DEF RequestApplication, Requested
<1>2. target'[k] = Requested(k, es) /\ job'[k].status = Summary(job[k].status, Requested(k, es))
    BY <1>1, JobOf DEF TypeInv, TypeOK, Job
<1> QED BY <1>2 DEF RequestApplication, Applicable

LEMMA ConfirmEffect ==
    ASSUME TypeInv, NEW k \in Submitted, NEW p \in 1 .. MaxPreviews,
           ConfirmReset(p), previews[p].dataset = job[k].dataset
    PROVE  /\ lock = None
           /\ target'[k] = [e \in Episodes |-> Stopped(target[k][e])]
           /\ job'[k] = IF job[k].status \in Terminal THEN job[k]
                        ELSE [job[k] EXCEPT !.status = "cancelled"]
BY JobOf DEF ConfirmReset

LEMMA CommitEffect ==
    ASSUME TypeInv, LockOK, NEW k \in Submitted, NEW w \in Workers,
           ApplyCommit(w), lock = w, body[w].job = k
    PROVE  /\ lock' = None /\ Candidate(k, body[w].episode) /\ body[w].episode \in Episodes
           /\ body[w].outcome \in {"succeeded", "skipped", "failed"}
           /\ target'[k] = [target[k] EXCEPT ![body[w].episode] =
                               [target[k][body[w].episode] EXCEPT !.application = body[w].outcome]]
           /\ job'[k].status = Summary(job[k].status, target'[k])
<1> DEFINE e == body[w].episode
           new == [target[k][e] EXCEPT !.application = body[w].outcome]
<1>1. pc[w] = "apply_commit" /\ lock' = None
    BY DEF ApplyCommit, Leave
<1>2. Candidate(k, e)
    BY <1>1, Places DEF LockOK
<1>3. e \in Episodes /\ body[w].outcome \in {"succeeded", "skipped", "failed"}
    BY <1>1, Places DEF TypeInv, BodyOK
<1>4. /\ target' = [target EXCEPT ![k][e] = new]
      /\ job' = [job EXCEPT ![k].status = Summary(job[k].status, [target[k] EXCEPT ![e] = new])]
    BY DEF ApplyCommit
<1> HIDE DEF new
<1>5. target'[k] = [target[k] EXCEPT ![e] = new]
    BY <1>4, JobOf DEF TypeInv, TypeOK
<1>6. job'[k].status = Summary(job[k].status, [target[k] EXCEPT ![e] = new])
    BY <1>4, JobOf DEF TypeInv, TypeOK, Job
<1> QED BY <1>1, <1>2, <1>3, <1>5, <1>6 DEF new

\* The status the targets ts give to a job which is under way, or in which no
\* target waits for a verdict.
Unsettled(t) == t.status \in {"queued", "running"}

LEMMA SummaryAccounts ==
    ASSUME NEW ts \in [Episodes -> Target], NEW status \in {"queued", "running"} \cup Terminal,
           \E e \in Episodes : ts[e].status # "none",
           \A e \in Episodes : Tidy(ts[e]),
           (\E e \in Episodes : Open(ts[e])) => \A e \in Episodes : ~Withheld(ts[e]),
           (\E e \in Episodes : Unsettled(ts[e])) => status \notin Terminal
    PROVE  Accounted(Summary(status, ts), ts)
<1> DEFINE own == {e \in Episodes : ts[e].status # "none"}
           states == {ts[e].status : e \in own}
           applications == {ts[e].application : e \in own}
<1>1. \A e \in Episodes :
         /\ ts[e].status \in {"none", "queued", "running"} \cup Settled
         /\ e \notin own => ~Open(ts[e]) /\ ~Withheld(ts[e])
    <2> SUFFICES ASSUME NEW e \in Episodes
                 PROVE  /\ ts[e].status \in {"none", "queued", "running"} \cup Settled
                        /\ e \notin own => ~Open(ts[e]) /\ ~Withheld(ts[e])
        OBVIOUS
    <2>1. ts[e] \in Target /\ Tidy(ts[e])
        OBVIOUS
    <2> QED BY <2>1 DEF Target, Tidy, Open, Withheld
<1>2. CASE ~(states \subseteq Settled)
    <2>1. PICK e \in Episodes : Unsettled(ts[e])
        BY <1>1, <1>2 DEF Unsettled
    <2>2. Open(ts[e])
        BY <2>1 DEF Unsettled, Open
    <2>3. Summary(status, ts) = status
        BY <1>2 DEF Summary
    <2>4. status \notin Terminal
        BY <2>1
    <2> QED BY <2>2, <2>3, <2>4 DEF Accounted, Terminal
<1>3. CASE states \subseteq Settled /\ "cancelled" \in states \cup applications
    <2>1. Summary(status, ts) = "cancelled"
        BY <1>3 DEF Summary
    <2>2. PICK e \in own : ts[e].status = "cancelled" \/ ts[e].application = "cancelled"
        BY <1>3
    <2>3. Withheld(ts[e])
        BY <2>2 DEF Withheld
    <2>4. \A f \in Episodes : ~Open(ts[f])
        BY <2>3
    <2> QED BY <2>1, <2>4 DEF Accounted, Terminal
<1>4. CASE states \subseteq Settled /\ "cancelled" \notin states \cup applications
    <2>1. \A e \in Episodes : ~Withheld(ts[e])
        BY <1>1, <1>4 DEF Withheld
    <2>2. \A e \in Episodes : Open(ts[e]) <=> e \in own /\ ts[e].application = "queued"
        BY <1>1, <1>4 DEF Open, Settled
    <2>3. CASE "queued" \in applications
        <3>1. Summary(status, ts) = "queued"
            BY <1>4, <2>3 DEF Summary
        <3>2. \E e \in Episodes : Open(ts[e])
            BY <2>2, <2>3
        <3> QED BY <2>1, <3>1, <3>2 DEF Accounted, Terminal
    <2>4. CASE "queued" \notin applications
        <3>1. Summary(status, ts) \in {"succeeded", "partial", "failed"}
            BY <1>4, <2>4 DEF Summary
        <3>2. \A e \in Episodes : ~Open(ts[e])
            BY <2>2, <2>4
        <3> QED BY <2>1, <3>1, <3>2 DEF Accounted, Terminal
    <2> QED BY <2>3, <2>4
<1> QED BY <1>2, <1>3, <1>4

\* What the operations make of a target.
LEMMA TargetFields ==
    ASSUME NEW t \in Target
    PROVE  /\ \A w \in Workers :
                 LET u == Taken(t, w) IN
                 u.status = "running" /\ u.application = t.application /\ u.verdict = t.verdict
           /\ \A mode, outcome :
                 LET u == Published(t, mode, outcome) IN
                 /\ u.status = IF outcome = "error" THEN "failed" ELSE "succeeded"
                 /\ u.application \in {t.application, "queued"}
                 /\ u.verdict = IF outcome = "error" THEN t.verdict ELSE outcome
           /\ LET u == Cancelled(t) IN
              /\ u.status = IF t.status \in {"queued", "running"} THEN "cancelled" ELSE t.status
              /\ u.application = IF t.application = "queued" THEN "cancelled" ELSE t.application
              /\ u.verdict = t.verdict
           /\ LET u == Retried(t) IN
              /\ u.status = IF t.status \in {"failed", "cancelled"} THEN "queued" ELSE t.status
              /\ u.application = IF t.application \in {"failed", "cancelled"} THEN "queued"
                                 ELSE t.application
              /\ u.verdict = t.verdict
           /\ LET u == Stopped(t) IN
              /\ u.status = IF t.status \in {"queued", "running"} THEN "cancelled" ELSE t.status
              /\ u.application = IF t.application = "queued" THEN "withdrawn" ELSE t.application
              /\ u.verdict = t.verdict
           /\ \A application :
                 LET u == [t EXCEPT !.application = application] IN
                 u.status = t.status /\ u.application = application /\ u.verdict = t.verdict
<1>1. \A w \in Workers :
         LET u == Taken(t, w) IN
         u.status = "running" /\ u.application = t.application /\ u.verdict = t.verdict
    BY DEF Taken, Target
<1>2. \A mode, outcome :
         LET u == Published(t, mode, outcome) IN
         /\ u.status = IF outcome = "error" THEN "failed" ELSE "succeeded"
         /\ u.application \in {t.application, "queued"}
         /\ u.verdict = IF outcome = "error" THEN t.verdict ELSE outcome
    BY DEF Published, Target
<1>3. LET u == Cancelled(t) IN
      /\ u.status = IF t.status \in {"queued", "running"} THEN "cancelled" ELSE t.status
      /\ u.application = IF t.application = "queued" THEN "cancelled" ELSE t.application
      /\ u.verdict = t.verdict
    BY DEF Cancelled, Target
<1>4. LET u == Retried(t) IN
      /\ u.status = IF t.status \in {"failed", "cancelled"} THEN "queued" ELSE t.status
      /\ u.application = IF t.application \in {"failed", "cancelled"} THEN "queued"
                         ELSE t.application
      /\ u.verdict = t.verdict
    BY DEF Retried, Target
<1>5. LET u == Stopped(t) IN
      /\ u.status = IF t.status \in {"queued", "running"} THEN "cancelled" ELSE t.status
      /\ u.application = IF t.application = "queued" THEN "withdrawn" ELSE t.application
      /\ u.verdict = t.verdict
    BY DEF Stopped, Target
<1>6. \A application :
         LET u == [t EXCEPT !.application = application] IN
         u.status = t.status /\ u.application = application /\ u.verdict = t.verdict
    BY DEF Target
<1> QED BY <1>1, <1>2, <1>3, <1>4, <1>5, <1>6

LEMMA AccountedStep ==
    ASSUME TypeInv, FencesOK, WorkOK, LockOK, [Next]_vars, NEW k \in Submitted
    PROVE  Accounted(job'[k].status, target'[k])
<1> DEFINE ts == target[k]
           us == target'[k]
           status == job[k].status
<1>1. ts \in [Episodes -> Target] /\ us \in [Episodes -> Target]
    BY JobOf, NextType DEF TypeInv, TypeOK
<1>2. status \in {"queued", "running"} \cup Terminal
    BY JobOf DEF WorkOK, Accounted, Job
<1>3. /\ \E e \in Episodes : ts[e].status # "none"
      /\ \A e \in Episodes : Tidy(ts[e])
      /\ status \in Terminal => \A e \in Episodes : ~Open(ts[e])
      /\ status \notin Terminal => \E e \in Episodes : Open(ts[e])
      /\ status # "cancelled" => \A e \in Episodes : ~Withheld(ts[e])
    BY DEF WorkOK, Accounted
<1>4. Active(k) => status # "cancelled" /\ status \notin Terminal
    BY DEF Active, Terminal
<1> HIDE DEF ts, us, status
<1>5. ASSUME JobAlike(k)
      PROVE  Accounted(job'[k].status, us)
    <2>1. \A e \in Episodes : us[e].status = ts[e].status /\ us[e].application = ts[e].application
        BY <1>1, <1>5, AlikeFields DEF JobAlike, ts, us
    <2>2. job'[k].status = status
        BY <1>5 DEF JobAlike, status
    <2>3. Accounted(status, ts)
        BY DEF WorkOK, status, ts
    <2> QED BY <2>1, <2>2, <2>3 DEF Accounted, Tidy, Open, Withheld
<1>6. ASSUME NEW w \in Workers, NEW e \in Episodes, Take(w, k, e)
      PROVE  Accounted(job'[k].status, us)
    <2>1. /\ Active(k) /\ job'[k].status = "running" /\ us = [ts EXCEPT ![e] = Taken(ts[e], w)]
          /\ ts[e].status # "none"
        BY <1>6, TakeEffect DEF ts, us
    <2>2. us[e].status = "running" /\ us[e].application = ts[e].application
        BY <1>1, <2>1, TargetFields
    <2>3. \A f \in Episodes \ {e} : us[f] = ts[f]
        BY <1>1, <2>1
    <2> QED BY <1>3, <1>4, <2>1, <2>2, <2>3 DEF Accounted, Tidy, Open, Withheld, Terminal
<1>7. ASSUME NEW w \in Workers, NEW outcome \in Verdicts \cup {"error"},
             Publish(w, outcome), ValidClaim(w), claim[w].job = k
      PROVE  Accounted(job'[k].status, us)
    <2> DEFINE e == claim[w].episode
    <2>1. /\ e \in Episodes /\ Active(k) /\ ts[e].status = "running"
          /\ us = [ts EXCEPT ![e] = Published(ts[e], job[k].mode, outcome)]
          /\ job'[k].status = Summary(status, us)
        BY <1>7, PublishEffect DEF ts, us, status
    <2> HIDE DEF e
    <2>2. us[e].status \in {"failed", "succeeded"} /\ us[e].application \in {ts[e].application, "queued"}
        BY <1>1, <2>1, TargetFields
    <2>3. \A f \in Episodes \ {e} : us[f] = ts[f]
        BY <1>1, <2>1
    <2>4. \A f \in Episodes : ~Withheld(us[f])
        BY <1>3, <1>4, <2>1, <2>2, <2>3 DEF Withheld
    <2>5. /\ \E f \in Episodes : us[f].status # "none"
          /\ \A f \in Episodes : Tidy(us[f])
        BY <1>3, <2>2, <2>3 DEF Tidy
    <2> QED BY <1>1, <1>2, <1>4, <2>1, <2>4, <2>5, SummaryAccounts
<1>8. CASE Cancel(k)
    <2>1. us = [e \in Episodes |-> Cancelled(ts[e])]
        BY <1>8, CancelEffect DEF ts, us
    <2>4. status \notin Terminal /\ job'[k].status = Summary(status, us)
        BY <1>8, CancelEffect DEF us, status
    <2>2. \A e \in Episodes :
             /\ us[e].status = IF ts[e].status \in {"queued", "running"} THEN "cancelled"
                               ELSE ts[e].status
             /\ us[e].application = IF ts[e].application = "queued" THEN "cancelled"
                                    ELSE ts[e].application
        BY <1>1, <2>1, TargetFields
    <2>3. /\ \E e \in Episodes : us[e].status # "none"
          /\ \A e \in Episodes : Tidy(us[e]) /\ ~Open(us[e])
        BY <1>3, <2>2 DEF Tidy, Open
    <2>5. /\ (\E e \in Episodes : Open(us[e])) => \A e \in Episodes : ~Withheld(us[e])
          /\ (\E e \in Episodes : Unsettled(us[e])) => status \notin Terminal
        BY <2>3, <2>4
    <2>6. Accounted(Summary(status, us), us)
        BY <1>1, <1>2, <2>3, <2>5, SummaryAccounts
    <2> QED BY <2>4, <2>6 DEF us
<1>9. CASE Retry(k)
    <2>1. us = [e \in Episodes |-> Retried(ts[e])]
        BY <1>9, RetryEffect DEF ts, us
    <2>5. job'[k].status = Summary("queued", us)
        BY <1>9, RetryEffect DEF us
    <2>2. \A e \in Episodes :
             /\ us[e].status = IF ts[e].status \in {"failed", "cancelled"} THEN "queued"
                               ELSE ts[e].status
             /\ us[e].application = IF ts[e].application \in {"failed", "cancelled"} THEN "queued"
                                    ELSE ts[e].application
        BY <1>1, <2>1, TargetFields
    <2>3. /\ \E e \in Episodes : us[e].status # "none"
          /\ \A e \in Episodes : Tidy(us[e]) /\ ~Withheld(us[e])
        BY <1>3, <2>2 DEF Tidy, Withheld
    <2>4. "queued" \notin Terminal
        BY DEF Terminal
    <2>6. /\ (\E e \in Episodes : Open(us[e])) => \A e \in Episodes : ~Withheld(us[e])
          /\ (\E e \in Episodes : Unsettled(us[e])) => "queued" \notin Terminal
        BY <2>3, <2>4
    <2>7. Accounted(Summary("queued", us), us)
        BY <1>1, <2>3, <2>6, SummaryAccounts
    <2> QED BY <2>5, <2>7 DEF us
<1>10. ASSUME NEW es \in SUBSET Episodes, RequestApplication(k, es)
       PROVE  Accounted(job'[k].status, us)
    <2>1. /\ status # "cancelled" /\ \A e \in es : ts[e].status = "succeeded"
          /\ us = Requested(k, es) /\ job'[k].status = Summary(status, us)
        BY <1>10, RequestEffect DEF ts, us, status
    <2>2. \A e \in Episodes :
             us[e] \in {ts[e], [ts[e] EXCEPT !.application = "queued"]} /\ (e \notin es => us[e] = ts[e])
        BY <2>1 DEF Requested, ts
    <2>3. \A e \in Episodes :
             /\ us[e].status = ts[e].status
             /\ us[e].application \in {ts[e].application, "queued"}
             /\ e \notin es => us[e].application = ts[e].application
        <3> SUFFICES ASSUME NEW e \in Episodes
                     PROVE  /\ us[e].status = ts[e].status
                            /\ us[e].application \in {ts[e].application, "queued"}
                            /\ e \notin es => us[e].application = ts[e].application
            OBVIOUS
        <3>1. LET u == [ts[e] EXCEPT !.application = "queued"] IN
              u.status = ts[e].status /\ u.application = "queued"
            BY <1>1, TargetFields
        <3> QED BY <2>2, <3>1
    <2>4. \A e \in Episodes : ~Withheld(us[e])
        BY <1>3, <2>1, <2>3 DEF Withheld
    <2>5. /\ \E e \in Episodes : us[e].status # "none"
          /\ \A e \in Episodes : Tidy(us[e])
        BY <1>3, <2>1, <2>3 DEF Tidy
    <2>6. (\E e \in Episodes : Unsettled(us[e])) => status \notin Terminal
        BY <1>3, <2>3 DEF Unsettled, Open
    <2> QED BY <1>1, <1>2, <2>1, <2>4, <2>5, <2>6, SummaryAccounts
<1>11. ASSUME NEW p \in 1 .. MaxPreviews, ConfirmReset(p), previews[p].dataset = job[k].dataset
       PROVE  Accounted(job'[k].status, us)
    <2>1. us = [e \in Episodes |-> Stopped(ts[e])]
        BY <1>11, ConfirmEffect DEF ts, us
    <2>2. job'[k].status = IF status \in Terminal THEN status ELSE "cancelled"
        <3>1. [job[k] EXCEPT !.status = "cancelled"].status = "cancelled"
            BY JobOf DEF Job
        <3> QED BY <1>11, <3>1, ConfirmEffect DEF status
    <2>3. \A e \in Episodes :
             /\ us[e].status = IF ts[e].status \in {"queued", "running"} THEN "cancelled"
                               ELSE ts[e].status
             /\ us[e].application = IF ts[e].application = "queued" THEN "withdrawn"
                                    ELSE ts[e].application
        BY <1>1, <2>1, TargetFields
    <2>4. /\ \E e \in Episodes : us[e].status # "none"
          /\ \A e \in Episodes : Tidy(us[e]) /\ ~Open(us[e])
        BY <1>3, <2>3 DEF Tidy, Open
    <2>5. status \in Terminal /\ status # "cancelled" => \A e \in Episodes : ~Withheld(us[e])
        BY <1>3, <2>3 DEF Open, Withheld
    <2> QED BY <1>2, <2>2, <2>4, <2>5 DEF Accounted, Terminal
<1>12. ASSUME NEW w \in Workers, ApplyCommit(w), lock = w, body[w].job = k
       PROVE  Accounted(job'[k].status, us)
    <2>1. PICK e \in Episodes :
             /\ Candidate(k, e) /\ body[w].outcome \in {"succeeded", "skipped", "failed"}
             /\ us = [ts EXCEPT ![e] = [ts[e] EXCEPT !.application = body[w].outcome]]
             /\ job'[k].status = Summary(status, us)
        BY <1>12, CommitEffect DEF ts, us, status
    <2>2. status # "cancelled" /\ ts[e].application = "queued" /\ ts[e].status = "succeeded"
        BY <2>1 DEF Candidate, ts, status
    <2>3. us[e].status = "succeeded" /\ us[e].application = body[w].outcome
        BY <1>1, <2>1, <2>2, TargetFields
    <2>4. \A f \in Episodes \ {e} : us[f] = ts[f]
        BY <1>1, <2>1
    <2>5. status \notin Terminal
        BY <1>3, <2>2 DEF Open
    <2>6. \A f \in Episodes : ~Withheld(us[f])
        BY <1>3, <2>1, <2>2, <2>3, <2>4 DEF Withheld
    <2>7. /\ \E f \in Episodes : us[f].status # "none"
          /\ \A f \in Episodes : Tidy(us[f])
        BY <1>3, <2>3, <2>4 DEF Tidy
    <2> QED BY <1>1, <1>2, <2>1, <2>5, <2>6, <2>7, SummaryAccounts
<1> QED BY <1>5, <1>6, <1>7, <1>8, <1>9, <1>10, <1>11, <1>12, JobSteps DEF us

LEMMA NewJobSubmitted ==
    ASSUME TypeInv, [Next]_vars, sequence' # sequence
    PROVE  \E d \in Datasets, es \in (SUBSET Episodes) \ {{}}, m \in Modes, f \in Configs,
              key \in Keys, c \in Capacities : Submit(d, es, m, f, key, c)
<1>1. ASSUME NEW w \in Workers
      PROVE  ~Worker(w)
    BY DEF Worker, BeginReset, NothingToReset, ResetLoad, ResetSave, ResetCommit,
           BeginApply, NothingToApply, ApplyLoad, ApplySave, ApplyCommit, TakeNothing,
           Take, Observe, Publish, Release, Enter, queueVars
<1>2. ~(\E w \in Workers : Heartbeat(w)) /\ ~Environment /\ ~(UNCHANGED vars)
    BY DEF Environment, Heartbeat, Shutdown, Crash, LoseStoreLease, Tick, vars, queueVars
<1>3. /\ \A j \in Jobs : /\ ~Cancel(j) /\ ~Retry(j)
                         /\ \A es \in SUBSET Episodes : ~RequestApplication(j, es)
      /\ \A d \in Datasets : ~PreviewReset(d) /\ ~RetryReset(d) /\ ~HumanEdit(d)
      /\ \A p \in 1 .. MaxPreviews : ~ConfirmReset(p)
    BY DEF Cancel, Retry, RequestApplication, PreviewReset, ConfirmReset, RetryReset,
           HumanEdit, queueVars
<1>4. Client
    BY <1>1, <1>2 DEF Next
<1> QED BY <1>3, <1>4 DEF Client

\* A job that is new was submitted in the generation of its dataset, and
\* nothing else happens in that step.
LEMMA NewJob ==
    ASSUME TypeInv, [Next]_vars, NEW k \in Submitted', k \notin Submitted
    PROVE  /\ job'[k].status = "queued" /\ job'[k].dataset \in Datasets
           /\ job'[k].generation = generations[job'[k].dataset]
           /\ UNCHANGED <<withdrawalVars, workerVars>>
           /\ \A e \in Episodes :
                 /\ target'[k][e].status \in {"none", "queued"}
                 /\ target'[k][e].application = "none" /\ target'[k][e].verdict = None
           /\ \E e \in Episodes : target'[k][e].status = "queued"
<1>1. PICK d \in Datasets, es \in (SUBSET Episodes) \ {{}}, m \in Modes, f \in Configs,
           key \in Keys, c \in Capacities : Submit(d, es, m, f, key, c)
    <2>1. sequence' # sequence
        BY DEF Submitted
    <2> QED BY <2>1, NewJobSubmitted
<1>2. sequence \in Nat /\ sequence < MaxJobs /\ sequence' = sequence + 1
    BY <1>1, ConstantsAssumption DEF Submit, TypeInv, TypeOK
<1>3. k = sequence + 1 /\ k \in Jobs
    BY <1>2, ConstantsAssumption DEF Submitted, Jobs
<1>4. job'[k] = [status |-> "queued", dataset |-> d, mode |-> m, config |-> f, key |-> key,
                 generation |-> generations[d], retries |-> 0]
    BY <1>1, <1>3 DEF Submit, TypeInv, TypeOK
<1>5. \A e \in Episodes :
         target'[k][e] = IF e \in es THEN [NoTarget EXCEPT !.status = "queued"] ELSE NoTarget
    BY <1>1, <1>3 DEF Submit, TypeInv, TypeOK
<1>6. /\ NoTarget.status = "none" /\ NoTarget.application = "none" /\ NoTarget.verdict = None
      /\ LET t == [NoTarget EXCEPT !.status = "queued"] IN
         t.status = "queued" /\ t.application = "none" /\ t.verdict = None
    BY DEF NoTarget
<1>7. \A e \in Episodes :
         /\ target'[k][e].status = IF e \in es THEN "queued" ELSE "none"
         /\ target'[k][e].application = "none" /\ target'[k][e].verdict = None
    BY <1>5, <1>6
<1>8. PICK e \in Episodes : e \in es
    <2>1. es \subseteq Episodes /\ es # {}
        OBVIOUS
    <2> QED BY <2>1
<1> QED BY <1>1, <1>4, <1>7, <1>8 DEF Submit

\* Whether a submitted job is withdrawn only changes with the generation.
LEMMA WithdrawnKept ==
    ASSUME TypeInv, [Next]_vars, NEW k \in Submitted,
           generations'[job[k].dataset] = generations[job[k].dataset]
    PROVE  k \in Submitted' /\ (Withdrawn(k)' <=> Withdrawn(k))
BY JobsKept DEF JobKept, Withdrawn, Submitted

LEMMA WorkStep ==
    ASSUME TypeInv, FencesOK, WorkOK, LockOK, [Next]_vars
    PROVE  WorkOK'
<1>1. ASSUME NEW k \in Submitted, job'[k].status \notin Terminal
      PROVE  ~Withdrawn(k)'
    <2>1. CASE \E p \in 1 .. MaxPreviews : ConfirmReset(p) /\ previews[p].dataset = job[k].dataset
        <3>1. job'[k] = IF job[k].status \in Terminal THEN job[k]
                        ELSE [job[k] EXCEPT !.status = "cancelled"]
            BY <2>1, ConfirmEffect
        <3>2. [job[k] EXCEPT !.status = "cancelled"].status = "cancelled"
            BY JobOf DEF Job
        <3> QED BY <1>1, <3>1, <3>2 DEF Terminal
    <2>2. CASE ~(\E p \in 1 .. MaxPreviews : ConfirmReset(p) /\ previews[p].dataset = job[k].dataset)
        <3>1. generations'[job[k].dataset] = generations[job[k].dataset]
            BY <2>2, JobOf, ResetsChange
        <3>2. ~Withdrawn(k)
            <4>1. job[k].status \notin Terminal => ~Withdrawn(k)
                BY DEF WorkOK
            <4>2. CASE JobAlike(k)
                BY <1>1, <4>1, <4>2 DEF JobAlike
            <4>3. ASSUME NEW w \in Workers, NEW e \in Episodes, Take(w, k, e)
                  PROVE  ~Withdrawn(k)
                BY <4>3, TakeEffect DEF Active
            <4>4. ASSUME NEW w \in Workers, ValidClaim(w), claim[w].job = k
                  PROVE  ~Withdrawn(k)
                BY <4>4 DEF ValidClaim, Active
            <4>5. CASE Cancel(k)
                BY <4>1, <4>5, CancelEffect
            <4>6. CASE Retry(k)
                BY <4>6, RetryEffect
            <4>7. ASSUME NEW es \in SUBSET Episodes, RequestApplication(k, es)
                  PROVE  ~Withdrawn(k)
                BY <4>7, RequestEffect
            <4>8. ASSUME NEW w \in Workers, ApplyCommit(w), lock = w, body[w].job = k
                  PROVE  ~Withdrawn(k)
                BY <4>8, CommitEffect DEF Candidate
            <4> QED BY <2>2, <4>2, <4>3, <4>4, <4>5, <4>6, <4>7, <4>8, JobSteps
        <3> QED BY <3>1, <3>2, WithdrawnKept
    <2> QED BY <2>1, <2>2
<1>2. ASSUME NEW k \in Submitted', k \notin Submitted
      PROVE  Accounted(job'[k].status, target'[k]) /\ ~Withdrawn(k)'
    <2>1. /\ job'[k].status = "queued" /\ job'[k].generation = generations'[job'[k].dataset]
          /\ \A e \in Episodes : /\ target'[k][e].status \in {"none", "queued"}
                                 /\ target'[k][e].application = "none"
          /\ \E e \in Episodes : target'[k][e].status = "queued"
        BY <1>2, NewJob DEF withdrawalVars
    <2> QED BY <2>1 DEF Accounted, Tidy, Open, Withheld, Terminal, Withdrawn
<1>3. \A k \in Submitted : Accounted(job'[k].status, target'[k])
    BY AccountedStep
<1> QED BY <1>1, <1>2, <1>3 DEF WorkOK

-----------------------------------------------------------------------------
(* The lock *)

\* While one worker keeps the lock, the document only loses lease time.
LEMMA LockedDocument ==
    ASSUME TypeInv, [Next]_vars, NEW v \in Workers, lock = v, lock' = v
    PROVE  /\ UNCHANGED <<sequence, generations, resets>>
           /\ \A k \in Submitted : JobAlike(k)
<1>1. lock # None
    BY ConstantsAssumption
<1>2. ~\E w \in Workers : ApplyCommit(w) /\ lock = w
    <2> SUFFICES ASSUME NEW w \in Workers, ApplyCommit(w), lock = w PROVE FALSE
        OBVIOUS
    <2>1. lock' = None
        BY DEF ApplyCommit, Leave
    <2> QED BY <1>1, <2>1
<1>3. ~\E w \in Workers : ResetCommit(w) /\ lock = w
    <2> SUFFICES ASSUME NEW w \in Workers, ResetCommit(w), lock = w PROVE FALSE
        OBVIOUS
    <2>1. lock' = None
        BY DEF ResetCommit, Leave
    <2> QED BY <1>1, <2>1
<1>4. \A p \in 1 .. MaxPreviews : ~ConfirmReset(p)
    BY <1>1 DEF ConfirmReset
<1>5. /\ \A k \in Submitted : \A w \in Workers, e \in Episodes : ~Take(w, k, e)
      /\ \A w \in Workers, outcome \in Verdicts \cup {"error"} : ~Publish(w, outcome)
      /\ \A k \in Submitted : /\ ~Cancel(k) /\ ~Retry(k)
                              /\ \A es \in SUBSET Episodes : ~RequestApplication(k, es)
    BY <1>1 DEF Take, Publish, Cancel, Retry, RequestApplication
<1>6. \A k \in Submitted : JobAlike(k)
    BY <1>2, <1>4, <1>5, JobSteps
<1>7. \A d \in Datasets : ~RetryReset(d)
    BY <1>1 DEF RetryReset
<1>8. \A d \in Datasets : resets'[d] = resets[d] /\ generations'[d] = generations[d]
    BY <1>3, <1>4, <1>7, ResetsChange
<1>9. resets' = resets /\ generations' = generations
    <2>1. /\ resets \in [Datasets -> Reset] /\ resets' \in [Datasets -> Reset]
          /\ generations \in [Datasets -> Nat] /\ generations' \in [Datasets -> Nat]
        BY NextType DEF TypeInv, TypeOK
    <2> QED BY <1>8, <2>1
<1>10. sequence' = sequence
    <2> SUFFICES ASSUME sequence' # sequence PROVE FALSE
        OBVIOUS
    <2> QED BY <1>1, NewJobSubmitted DEF Submit
<1> QED BY <1>6, <1>9, <1>10

\* The lock is taken by a transaction that begins.  It is given up when the
\* transaction leaves, when its worker dies, or when the store loses a lease.
LEMMA LockMoves ==
    ASSUME TypeInv, [Next]_vars, NEW v \in Workers
    PROVE  /\ lock # v /\ lock' = v =>
                 \/ \E j \in Jobs, e \in Episodes : BeginApply(v, j, e)
                 \/ \E d \in Datasets : BeginReset(v, d)
           /\ lock = v /\ lock' # v => pc'[v] = "reset_once" \/ StoreLeaseLost
<1>1. None \notin Workers
    BY ConstantsAssumption
<1>2. CASE UNCHANGED lock
    BY <1>2
<1>3. ASSUME NEW w \in Workers,
             \/ \E j \in Jobs, e \in Episodes : BeginApply(w, j, e)
             \/ \E d \in Datasets : BeginReset(w, d)
      PROVE  lock = None /\ lock' = w
    BY <1>3, ApplyBegun, ResetBegun
<1>4. ASSUME NEW w \in Workers, ApplyCommit(w) \/ ResetCommit(w) \/ Crash(w)
      PROVE  pc'[w] = "reset_once" /\ lock' = IF lock = w THEN None ELSE lock
    BY <1>4 DEF ApplyCommit, ResetCommit, Crash, Leave, At, TypeInv, TypeOK
<1>5. ASSUME NEW w \in Workers, LoseStoreLease(w)
      PROVE  StoreLeaseLost /\ lock' = None
    BY <1>5 DEF LoseStoreLease
<1>6. \/ UNCHANGED lock
      \/ \E w \in Workers : \/ \E j \in Jobs, e \in Episodes : BeginApply(w, j, e)
                            \/ \E d \in Datasets : BeginReset(w, d)
                            \/ ApplyCommit(w) \/ ResetCommit(w) \/ Crash(w) \/ LoseStoreLease(w)
    <2>1. ASSUME NEW w \in Workers, Worker(w)
          PROVE  \/ UNCHANGED lock
                 \/ \E j \in Jobs, e \in Episodes : BeginApply(w, j, e)
                 \/ \E d \in Datasets : BeginReset(w, d)
                 \/ ApplyCommit(w) \/ ResetCommit(w)
        BY <2>1 DEF Worker, NothingToReset, ResetLoad, ResetSave, NothingToApply, ApplyLoad,
                    ApplySave, TakeNothing, Take, Observe, Publish, Release
    <2>2. CASE Client \/ Tick \/ UNCHANGED vars \/ \E w \in Workers : Heartbeat(w) \/ Shutdown(w)
        BY <2>2 DEF Client, Tick, Heartbeat, Shutdown, Submit, Cancel, Retry, RequestApplication,
                    PreviewReset, ConfirmReset, RetryReset, HumanEdit, vars, workerVars
    <2> QED BY <2>1, <2>2 DEF Next, Environment
<1> QED BY <1>1, <1>2, <1>3, <1>4, <1>5, <1>6

LEMMA LockStep ==
    ASSUME TypeInv, LockOK, [Next]_vars
    PROVE  LockOK'
<1> SUFFICES ASSUME NEW v \in Workers, lock' = v
             PROVE  /\ pc'[v] \in Slow
                    /\ pc'[v] \in Applying => Candidate(body[v].job, body[v].episode)'
                    /\ pc'[v] \in Resetting => resets'[body'[v].dataset] = body'[v].reset
    BY Places DEF LockOK
<1>1. CASE lock # v
    <2>1. ASSUME NEW j \in Jobs, NEW e \in Episodes, BeginApply(v, j, e)
          PROVE  pc'[v] \in Applying /\ Candidate(body[v].job, body[v].episode)'
        <3>1. /\ pc'[v] = "apply_load" /\ Candidate(j, e) /\ UNCHANGED <<queueVars, withdrawalVars>>
              /\ body'[v].job = j /\ body'[v].episode = e
            BY <2>1, ApplyBegun
        <3>2. Candidate(j, e)'
            BY <3>1 DEF Candidate, Withdrawn, Submitted, queueVars, withdrawalVars
        <3> QED BY <3>1, <3>2, Places DEF Candidate, Withdrawn, Submitted
    <2>2. ASSUME NEW d \in Datasets, BeginReset(v, d)
          PROVE  pc'[v] \in Resetting /\ resets'[body'[v].dataset] = body'[v].reset
        BY <2>2, ResetBegun, Places DEF withdrawalVars
    <2> QED BY <1>1, <2>1, <2>2, LockMoves, Places
<1>2. CASE lock = v
    <2>1. /\ sequence' = sequence /\ generations' = generations /\ resets' = resets
          /\ \A k \in Submitted : JobAlike(k)
        BY <1>2, LockedDocument
    <2>2. /\ pc[v] \in Slow
          /\ pc[v] \in Applying => Candidate(body[v].job, body[v].episode)
          /\ pc[v] \in Resetting => resets[body[v].dataset] = body[v].reset
        BY <1>2, Places DEF LockOK
    <2>3. lock # None
        BY <1>2, ConstantsAssumption
    <2>4. /\ pc'[v] \in Slow /\ SameTask(v)
          /\ pc'[v] \in Applying <=> pc[v] \in Applying
        BY <1>2, <2>2, <2>3, SlowMoves, ApplyBegun, ResetBegun, ApplyLoaded, ApplySaved, ResetLoaded,
           ResetSaved, Places DEF Stays, SameTask
    <2>5. ASSUME pc[v] \in Applying
          PROVE  Candidate(body[v].job, body[v].episode)'
        <3> DEFINE k == body[v].job
                   e == body[v].episode
        <3>1. Candidate(k, e) /\ k \in Submitted /\ e \in Episodes
            BY <2>2, <2>5 DEF Candidate, TypeInv, BodyOK
        <3>2. body'[v].job = k /\ body'[v].episode = e
            BY <2>4 DEF SameTask
        <3> HIDE DEF k, e
        <3>3. job'[k] = job[k] /\ Alike(target[k][e], target'[k][e])
            BY <2>1, <3>1 DEF JobAlike
        <3>4. target[k][e] \in Target /\ target'[k][e] \in Target
            BY <3>1, JobOf, NextType DEF TypeInv, TypeOK
        <3>5. /\ target'[k][e].status = target[k][e].status
              /\ target'[k][e].application = target[k][e].application
            BY <3>3, <3>4, AlikeFields
        <3> QED BY <2>1, <3>1, <3>2, <3>3, <3>5 DEF Candidate, Withdrawn, Submitted
    <2> QED BY <2>1, <2>2, <2>4, <2>5, Places DEF SameTask
<1> QED BY <1>1, <1>2

LEMMA ResetsStep ==
    ASSUME TypeInv, ResetsOK, BackedOK, [Next]_vars
    PROVE  ResetsOK'
<1>1. \A d \in Datasets : generations[d] \in Nat /\ generations'[d] \in Nat
                          /\ resets[d].generation \in Nat
    BY NextType DEF TypeInv, TypeOK, Reset
<1>2. \A d \in Datasets : generations'[d] \in {generations[d], generations[d] + 1}
    BY ResetsChange
<1>3. ASSUME NEW j \in Submitted'
      PROVE  job'[j].generation <= generations'[job'[j].dataset]
    <2>1. CASE j \in Submitted
        <3>1. /\ job'[j].dataset = job[j].dataset /\ job'[j].generation = job[j].generation
              /\ job[j].generation <= generations[job[j].dataset]
            BY <2>1, JobsKept DEF JobKept, ResetsOK
        <3> QED BY <1>1, <1>2, <2>1, <3>1, JobOf
    <2>2. CASE j \notin Submitted
        <3>1. /\ job'[j].dataset \in Datasets /\ generations' = generations
              /\ job'[j].generation = generations[job'[j].dataset]
            BY <2>2, NewJob DEF withdrawalVars
        <3> QED BY <1>1, <3>1
    <2> QED BY <2>1, <2>2
<1>4. ASSUME NEW d \in Datasets
      PROVE  /\ resets'[d].generation <= generations'[d]
             /\ \A s \in resets'[d].etag.machine : s[1] \in resets'[d].runs
             /\ \A j \in resets'[d].runs :
                   j \in Submitted' /\ job'[j].dataset = d /\ Withdrawn(j)'
    <2>1. ASSUME NEW j \in Submitted
          PROVE  /\ j \in Submitted' /\ job'[j].dataset = job[j].dataset
                 /\ job'[j].generation = job[j].generation
        BY JobsKept DEF JobKept, Submitted
    <2>2. CASE /\ resets'[d].etag = resets[d].etag /\ resets'[d].runs = resets[d].runs
               /\ resets'[d].generation = resets[d].generation
               /\ generations'[d] = generations[d]
        <3>1. ASSUME NEW j \in resets[d].runs
              PROVE  j \in Submitted' /\ job'[j].dataset = d /\ Withdrawn(j)'
            <4>1. j \in Submitted /\ job[j].dataset = d /\ Withdrawn(j)
                BY DEF ResetsOK
            <4> QED BY <2>1, <2>2, <4>1 DEF Withdrawn
        <3> QED BY <2>2, <3>1 DEF ResetsOK
    <2>3. CASE /\ resets'[d].etag = labels[d] /\ resets'[d].runs = Scope(d)
               /\ resets'[d].generation = generations[d] + 1
               /\ generations'[d] = generations[d] + 1
        <3>1. ASSUME NEW j \in Scope(d)
              PROVE  j \in Submitted' /\ job'[j].dataset = d /\ Withdrawn(j)'
            <4>1. j \in Submitted /\ job[j].dataset = d /\ job[j].generation <= generations[d]
                BY DEF Scope, ResetsOK
            <4>2. job[j].generation \in Nat
                BY <4>1, JobOf
            <4>3. job'[j].generation # generations'[d]
                BY <1>1, <2>1, <2>3, <4>1, <4>2
            <4> QED BY <2>1, <4>1, <4>3 DEF Withdrawn
        <3>2. \A s \in labels[d].machine : s[1] \in Scope(d)
            BY DEF BackedOK, ApplicationsBacked, Scope
        <3> QED BY <1>1, <2>3, <3>1, <3>2
    <2> QED BY <2>2, <2>3, ResetsChange
<1> QED BY <1>3, <1>4 DEF ResetsOK

-----------------------------------------------------------------------------
(* What backs the contributions in the files *)

\* Contributions enter a file when an application saves it.
LEMMA MachineGrows ==
    ASSUME TypeInv, [Next]_vars, NEW d \in Datasets,
           NEW s \in labels'[d].machine, s \notin labels[d].machine
    PROVE  \E w \in Workers : /\ pc[w] = "apply_save" /\ ApplySave(w) /\ body[w].dataset = d
                              /\ s = <<body[w].job, body[w].episode>>
<1>1. labels \in [Datasets -> Labels]
    BY DEF TypeInv, TypeOK
<1>2. ASSUME NEW c \in Datasets, HumanEdit(c)
      PROVE  labels'[d].machine = labels[d].machine
    <2>1. PICK contested \in {labels[c].contested, TRUE} :
             labels' = [labels EXCEPT ![c] = Edited(labels[c], contested)]
        BY <1>2 DEF HumanEdit
    <2>2. Edited(labels[c], contested).machine = labels[c].machine
        BY <1>1, ContentsGrow
    <2> QED BY <1>1, <2>1, <2>2
<1>3. ASSUME NEW w \in Workers, ResetSave(w)
      PROVE  labels'[d].machine = labels[d].machine
    <2>1. body[w].loaded \in Labels
        BY DEF TypeInv, TypeOK, Body
    <2> DEFINE new == Projected(body[w].loaded, body[w].reset.runs)
    <2>2. new.machine = body[w].loaded.machine
        BY <2>1, ContentsGrow
    <2>3. (Matches(w) /\ labels' = [labels EXCEPT ![body[w].dataset] = new]) \/ labels' = labels
        BY <1>3, ResetSaved
    <2> HIDE DEF new
    <2> QED BY <1>1, <2>2, <2>3 DEF Matches
<1>4. PICK w \in Workers : ApplySave(w)
    BY <1>2, <1>3, LabelsChange
<1>5. body[w].loaded \in Labels
    BY DEF TypeInv, TypeOK, Body
<1> DEFINE new == Contributed(body[w].loaded, body[w].job, body[w].episode)
<1>6. new.machine = body[w].loaded.machine \cup {<<body[w].job, body[w].episode>>}
    BY <1>5 DEF Contributed, Labels
<1>7. (Matches(w) /\ labels' = [labels EXCEPT ![body[w].dataset] = new]) \/ labels' = labels
    BY <1>4, ApplySaved
<1> HIDE DEF new
<1>8. body[w].dataset = d /\ s \in new.machine /\ labels[d] = body[w].loaded
    BY <1>1, <1>7 DEF Matches
<1> QED BY <1>4, <1>6, <1>8, ApplySaved

\* An application succeeds when a worker commits it.
LEMMA ApplicationSucceeds ==
    ASSUME TypeInv, FencesOK, LockOK, [Next]_vars, NEW k \in Submitted, NEW f \in Episodes,
           target'[k][f].application = "succeeded", target[k][f].application # "succeeded"
    PROVE  \E w \in Workers : /\ pc[w] = "apply_commit" /\ body[w].outcome = "succeeded"
                              /\ body[w].job = k /\ body[w].episode = f
<1>1. target[k] \in [Episodes -> Target] /\ target'[k] \in [Episodes -> Target]
    BY JobOf, NextType DEF TypeInv, TypeOK
<1>2. ~JobAlike(k)
    BY <1>1, AlikeFields DEF JobAlike
<1>3. ASSUME NEW w \in Workers, NEW e \in Episodes, Take(w, k, e)
      PROVE  FALSE
    <2>1. target'[k] = [target[k] EXCEPT ![e] = Taken(target[k][e], w)]
        BY <1>3, TakeEffect
    <2>2. target'[k][e].application = target[k][e].application
        BY <1>1, <2>1, TargetFields
    <2> QED BY <1>1, <2>1, <2>2
<1>4. ASSUME NEW w \in Workers, NEW outcome \in Verdicts \cup {"error"},
             Publish(w, outcome), ValidClaim(w), claim[w].job = k
      PROVE  FALSE
    <2> DEFINE e == claim[w].episode
    <2>1. e \in Episodes
          /\ target'[k] = [target[k] EXCEPT ![e] = Published(target[k][e], job[k].mode, outcome)]
        BY <1>4, PublishEffect
    <2>2. target'[k][e].application \in {target[k][e].application, "queued"}
        BY <1>1, <2>1, TargetFields
    <2> QED BY <1>1, <2>1, <2>2
<1>5. ~Cancel(k)
    <2>1. Cancel(k) => target'[k][f] = Cancelled(target[k][f])
        BY CancelEffect
    <2> QED BY <1>1, <2>1, TargetFields
<1>6. ~Retry(k)
    <2>1. Retry(k) => target'[k][f] = Retried(target[k][f])
        BY RetryEffect
    <2> QED BY <1>1, <2>1, TargetFields
<1>7. ASSUME NEW es \in SUBSET Episodes, RequestApplication(k, es)
      PROVE  FALSE
    <2>1. target'[k] = Requested(k, es)
        BY <1>7, RequestEffect
    <2>2. target'[k][f] \in {target[k][f], [target[k][f] EXCEPT !.application = "queued"]}
        BY <2>1 DEF Requested
    <2>3. LET u == [target[k][f] EXCEPT !.application = "queued"] IN u.application = "queued"
        BY <1>1, TargetFields
    <2> QED BY <2>2, <2>3
<1>8. ASSUME NEW p \in 1 .. MaxPreviews, ConfirmReset(p), previews[p].dataset = job[k].dataset
      PROVE  FALSE
    <2>1. target'[k][f] = Stopped(target[k][f])
        BY <1>8, ConfirmEffect
    <2> QED BY <1>1, <2>1, TargetFields
<1>9. PICK w \in Workers : ApplyCommit(w) /\ lock = w /\ body[w].job = k
    BY <1>2, <1>3, <1>4, <1>5, <1>6, <1>7, <1>8, JobSteps
<1> DEFINE e == body[w].episode
           new == [target[k][e] EXCEPT !.application = body[w].outcome]
<1>10. e \in Episodes /\ target'[k] = [target[k] EXCEPT ![e] = new]
    BY <1>9, CommitEffect
<1>11. new.application = body[w].outcome
    BY <1>1, <1>10, TargetFields
<1>12. e = f /\ body[w].outcome = "succeeded"
    BY <1>1, <1>10, <1>11
<1> QED BY <1>9, <1>12 DEF ApplyCommit

LEMMA BackedStep ==
    ASSUME TypeInv, EvidenceOK, FencesOK, LockOK, BackedOK, [Next]_vars
    PROVE  BackedOK'
<1>1. ASSUME NEW k \in Submitted
      PROVE  /\ k \in Submitted' /\ job'[k].dataset = job[k].dataset /\ job[k].dataset \in Datasets
             /\ \A f \in Episodes : target[k][f].verdict = "decided" => target'[k][f].verdict = "decided"
    <2>1. None # "decided"
        BY ConstantsAssumption
    <2> QED BY <2>1, JobsKept, JobOf, EvidenceStep DEF JobKept, Submitted
<1>2. \A d \in Datasets : labels[d].machine \subseteq labels'[d].machine
    BY LabelsGrow DEF Before
<1>3. ASSUME NEW w \in Workers, pc[w] \in Applying
      PROVE  /\ body[w].job \in Submitted /\ body[w].dataset = job[body[w].job].dataset
             /\ body[w].episode \in Episodes
             /\ pc[w] = "apply_save" => target[body[w].job][body[w].episode].verdict = "decided"
             /\ pc[w] = "apply_commit" /\ body[w].outcome = "succeeded" =>
                   <<body[w].job, body[w].episode>> \in labels[body[w].dataset].machine
    BY <1>3 DEF BackedOK, TypeInv, BodyOK
<1>4. ASSUME NEW j \in Submitted', NEW e \in Episodes, target'[j][e].application = "succeeded"
      PROVE  <<j, e>> \in labels'[job'[j].dataset].machine
    <2>1. j \in Submitted
        BY <1>4, NewJob
    <2>2. CASE target[j][e].application = "succeeded"
        BY <1>1, <1>2, <2>1, <2>2 DEF BackedOK, ApplicationsBacked
    <2>3. CASE target[j][e].application # "succeeded"
        <3>1. PICK w \in Workers : /\ pc[w] = "apply_commit" /\ body[w].outcome = "succeeded"
                                   /\ body[w].job = j /\ body[w].episode = e
            BY <1>4, <2>1, <2>3, ApplicationSucceeds
        <3> QED BY <1>1, <1>2, <1>3, <2>1, <3>1, Places
    <2> QED BY <2>2, <2>3
<1>5. ASSUME NEW d \in Datasets, NEW s \in labels'[d].machine
      PROVE  /\ s[1] \in Submitted'
             /\ job'[s[1]].dataset = d /\ target'[s[1]][s[2]].verdict = "decided"
    <2>1. s[1] \in Submitted /\ s[2] \in Episodes
          /\ job[s[1]].dataset = d /\ target[s[1]][s[2]].verdict = "decided"
        <3>1. CASE s \in labels[d].machine
            <4>1. s \in Slots
                BY <3>1 DEF TypeInv, TypeOK, Labels
            <4> QED BY <3>1, <4>1 DEF BackedOK, ApplicationsBacked, Slots
        <3>2. CASE s \notin labels[d].machine
            <4>1. PICK w \in Workers : /\ pc[w] = "apply_save" /\ body[w].dataset = d
                                       /\ s = <<body[w].job, body[w].episode>>
                BY <3>2, MachineGrows
            <4> QED BY <1>3, <4>1, Places
        <3> QED BY <3>1, <3>2
    <2> QED BY <1>1, <2>1
<1>6. ASSUME NEW w \in Workers, pc'[w] \in Applying
      PROVE  /\ body'[w].job \in Submitted'
             /\ body'[w].dataset = job'[body'[w].job].dataset
             /\ pc'[w] = "apply_save" => target'[body'[w].job][body'[w].episode].verdict = "decided"
             /\ pc'[w] = "apply_commit" /\ body'[w].outcome = "succeeded" =>
                   <<body'[w].job, body'[w].episode>> \in labels'[body'[w].dataset].machine
    <2>1. CASE Stays(w)
        BY <1>1, <1>2, <1>3, <1>6, <2>1 DEF Stays
    <2>2. ASSUME NEW j \in Jobs, NEW e \in Episodes, BeginApply(w, j, e)
          PROVE  /\ body'[w].job \in Submitted' /\ body'[w].dataset = job'[body'[w].job].dataset
                 /\ pc'[w] = "apply_load"
        BY <1>1, <2>2, ApplyBegun DEF Candidate
    <2>3. CASE ApplyLoad(w)
        BY <1>1, <1>3, <2>3, ApplyLoaded, Places DEF SameTask, Proposes
    <2>4. CASE ApplySave(w)
        <3> DEFINE d == body[w].dataset
                   j == body[w].job
                   e == body[w].episode
                   new == Contributed(body[w].loaded, j, e)
        <3>1. /\ pc[w] = "apply_save" /\ pc'[w] = "apply_commit" /\ SameTask(w)
              /\ \/ labels' = [labels EXCEPT ![d] = new]
                 \/ labels' = labels /\ body'[w].outcome = "failed"
            BY <2>4, ApplySaved
        <3>2. j \in Submitted /\ d = job[j].dataset /\ d \in Datasets
            BY <1>1, <1>3, <3>1, Places
        <3>3. new.machine = body[w].loaded.machine \cup {<<j, e>>}
            <4>1. body[w].loaded \in Labels
                BY DEF TypeInv, TypeOK, Body
            <4> QED BY <4>1 DEF Contributed, Labels
        <3> HIDE DEF new
        <3>4. body'[w].outcome = "succeeded" => <<j, e>> \in labels'[d].machine
            BY <3>1, <3>2, <3>3 DEF TypeInv, TypeOK
        <3> QED BY <1>1, <3>1, <3>2, <3>4 DEF SameTask
    <2>5. /\ \A d \in Datasets : ~BeginReset(w, d)
          /\ ~ResetLoad(w) /\ ~ResetSave(w)
        BY <1>6, ResetBegun, ResetLoaded, ResetSaved, Places
    <2> QED BY <1>6, <2>1, <2>2, <2>3, <2>4, <2>5, SlowMoves, Places
<1> QED BY <1>4, <1>5, <1>6 DEF BackedOK, ApplicationsBacked

-----------------------------------------------------------------------------
(* The theorems that hold even when the store loses leases *)

LEMMA LabelInvariant == Spec => []LabelInv
<1> DEFINE Rest == WorkOK /\ LockOK /\ ResetsOK /\ BackedOK /\ EtagsOK
<1>1. Init => Rest
    <2> SUFFICES ASSUME Init PROVE Rest
        OBVIOUS
    <2>1. TypeInv /\ Submitted = {}
        BY InitType DEF Init, Submitted
    <2>2. /\ \A d \in Datasets : generations[d] = 0 /\ labels[d] = NoLabels /\ resets[d] = NoReset
          /\ \A w \in Workers : pc[w] \notin Slow /\ lock # w
        BY Places, ConstantsAssumption DEF Init
    <2>3. NoReset.generation = 0 /\ NoReset.etag = NoLabels /\ NoReset.runs = {}
          /\ NoLabels.machine = {} /\ NoLabels \in Labels
        BY DEF NoReset, NoLabels, Labels
    <2>4. WorkOK /\ LockOK /\ BackedOK
        BY <2>1, <2>2, <2>3, Places DEF WorkOK, LockOK, BackedOK, ApplicationsBacked
    <2>5. ResetsOK
        BY <2>1, <2>2, <2>3 DEF ResetsOK
    <2>6. EtagsOK
        BY <2>2, <2>3, BeforeOrder, Places DEF EtagsOK
    <2> QED BY <2>4, <2>5, <2>6
<1>2. QueueInv /\ Rest /\ [Next]_vars => Rest'
    BY WorkStep, LockStep, ResetsStep, BackedStep, EtagsStep DEF QueueInv
<1>3. LabelInv <=> QueueInv /\ Rest
    BY DEF LabelInv
<1> HIDE DEF Rest
<1> QED BY <1>1, <1>2, <1>3, QueueInvariant, PTL DEF Spec

\* No sequence of publish, cancel, retry, application and withdrawal leaves a
\* job unfinished without work that a worker will find, or finished with work
\* left: Summary settles a job exactly when nothing in it is open.
THEOREM WorkIsNeverStranded == Spec => []NoStrandedWork
<1>1. LabelInv => NoStrandedWork
    <2> SUFFICES ASSUME LabelInv, NEW j \in Submitted
                 PROVE  IF job[j].status \in Terminal THEN ~Pending(j)
                                                     ELSE Pending(j) /\ ~Withdrawn(j)
        BY DEF NoStrandedWork
    <2>1. Accounted(job[j].status, target[j]) /\ (job[j].status \notin Terminal => ~Withdrawn(j))
        BY DEF LabelInv, WorkOK
    <2> QED BY <2>1 DEF Accounted, Open, Pending
<1> QED BY <1>1, LabelInvariant, PTL

\* A job that a withdrawal covers never changes again: each operation either
\* refuses it by its generation, or finds nothing open in it to stop.
LEMMA FrozenStep ==
    ASSUME LabelInv, [Next]_vars, NEW k \in Submitted, Withdrawn(k)
    PROVE  JobAlike(k)
<1>1. job[k].status \in Terminal /\ \A e \in Episodes : ~Open(target[k][e])
    BY DEF LabelInv, WorkOK, Accounted
<1>2. target[k] \in [Episodes -> Target] /\ job[k] \in Job
    BY JobOf DEF LabelInv, QueueInv
<1>3. TypeInv /\ FencesOK /\ LockOK
    BY DEF LabelInv, QueueInv
<1>4. \A w \in Workers, e \in Episodes : ~Take(w, k, e)
    BY <1>3, TakeEffect DEF Active
<1>5. \A w \in Workers : ~(ValidClaim(w) /\ claim[w].job = k)
    BY DEF ValidClaim, Active
<1>6. ~Cancel(k) /\ ~Retry(k) /\ \A es \in SUBSET Episodes : ~RequestApplication(k, es)
    BY <1>1 DEF Cancel, Retry, RequestApplication, Applicable
<1>7. ASSUME NEW p \in 1 .. MaxPreviews, ConfirmReset(p), previews[p].dataset = job[k].dataset
      PROVE  JobAlike(k)
    <2>1. target'[k] = [e \in Episodes |-> Stopped(target[k][e])] /\ job'[k] = job[k]
        BY <1>1, <1>3, <1>7, ConfirmEffect
    <2>2. \A e \in Episodes : Stopped(target[k][e]) = target[k][e]
        BY <1>1, <1>2 DEF Stopped, Open, Target
    <2> QED BY <1>2, <2>1, <2>2, AlikeRenewed DEF JobAlike
<1>8. \A w \in Workers : ~(ApplyCommit(w) /\ lock = w /\ body[w].job = k)
    BY <1>3, CommitEffect DEF Candidate
<1> QED BY <1>3, <1>4, <1>5, <1>6, <1>7, <1>8, JobSteps

\* Once a withdrawal is confirmed, nothing but lease time changes in the jobs
\* it covers.
THEOREM WithdrawnJobsStayFrozen == Spec => WithdrawnJobsFrozen
<1> DEFINE Frozen ==
        \A j \in Submitted : Withdrawn(j) =>
           /\ job'[j] = job[j]
           /\ \A e \in Episodes :
                 [target'[j][e] EXCEPT !.left = 0] = [target[j][e] EXCEPT !.left = 0]
<1>1. LabelInv /\ [Next]_vars => [Frozen]_<<job, target>>
    BY FrozenStep DEF JobAlike, Alike
<1> QED BY <1>1, LabelInvariant, PTL DEF Spec, WithdrawnJobsFrozen

\* An application that is recorded as a success is in the file, and what is in
\* a file rests on a decided verdict of a job of that dataset: the document is
\* only told of a save that the revision check let through.
THEOREM ApplicationsStayBacked == Spec => []ApplicationsBacked
<1>1. LabelInv => ApplicationsBacked
    BY DEF LabelInv, BackedOK
<1> QED BY <1>1, LabelInvariant, PTL

\* Whatever workers, people and lost leases do, a label file keeps every human
\* revision, every contribution and every tombstone.
THEOREM LabelFilesKeepEverything == Spec => LabelFilesOnlyGrow
<1> DEFINE Grow ==
        \A d \in Datasets :
           /\ labels'[d].edits >= labels[d].edits
           /\ labels[d].machine \subseteq labels'[d].machine
           /\ labels[d].withdrawn \subseteq labels'[d].withdrawn
<1>1. LabelInv /\ [Next]_vars => [Grow]_labels
    <2> SUFFICES ASSUME TypeInv, [Next]_vars, NEW d \in Datasets
                 PROVE  /\ labels'[d].edits >= labels[d].edits
                        /\ labels[d].machine \subseteq labels'[d].machine
                        /\ labels[d].withdrawn \subseteq labels'[d].withdrawn
        BY DEF LabelInv, QueueInv
    <2>1. labels[d].edits \in Nat /\ labels'[d].edits \in Nat
        BY LabelsGrow DEF Labels
    <2> QED BY <2>1, LabelsGrow DEF Before
<1> QED BY <1>1, LabelInvariant, PTL DEF Spec, LabelFilesOnlyGrow

\* A tombstone is only set on the file that the withdrawal on record was
\* previewed with, even by a worker whose store lease was lost half way.
THEOREM WithdrawalsPublishThePreview == Spec => PublishesThePreview
<1> DEFINE Previewed ==
        \A d \in Datasets :
           labels'[d].withdrawn # labels[d].withdrawn => labels[d] = resets[d].etag
<1>1. LabelInv /\ [Next]_vars => [Previewed]_labels
    BY PreviewStep DEF LabelInv, QueueInv
<1> QED BY <1>1, LabelInvariant, PTL DEF Spec, PublishesThePreview

-----------------------------------------------------------------------------
(* A store that keeps its lease *)

LEMMA LeaseStep ==
    ASSUME ~StoreLeaseLost, TypeInv, LeaseKept, [Next]_vars
    PROVE  LeaseKept'
<1> SUFFICES ASSUME NEW v \in Workers, pc'[v] \in Slow PROVE lock' = v
    BY Places DEF LeaseKept
<1>1. CASE \/ \E j \in Jobs, e \in Episodes : BeginApply(v, j, e)
           \/ \E d \in Datasets : BeginReset(v, d)
    BY <1>1, ApplyBegun, ResetBegun
<1>2. CASE Stays(v) \/ ApplyLoad(v) \/ ApplySave(v) \/ ResetLoad(v) \/ ResetSave(v)
    <2>1. pc[v] \in Slow
        BY <1>2, ApplyLoaded, ApplySaved, ResetLoaded, ResetSaved, Places DEF Stays
    <2>2. lock = v
        BY <2>1, Places DEF LeaseKept
    <2>3. "reset_once" \notin Slow
        BY Places
    <2> QED BY <2>2, <2>3, LockMoves
<1> QED BY <1>1, <1>2, SlowMoves

\* While worker v is in a transaction, nobody else adds contributions to the
\* files or takes tombstones away.
LEMMA CoveredKept ==
    ASSUME TypeInv, LeaseKept, [Next]_vars, NEW v \in Workers, pc[v] \in Resetting,
           NEW d \in Datasets, Covered(d)
    PROVE  Covered(d)'
<1>1. ASSUME NEW s \in labels'[d].machine, s \notin labels[d].machine
      PROVE  FALSE
    <2>1. PICK w \in Workers : pc[w] = "apply_save"
        BY <1>1, MachineGrows
    <2> QED BY <2>1, Places DEF LeaseKept
<1>2. labels[d].withdrawn \subseteq labels'[d].withdrawn
    BY LabelsGrow DEF Before
<1> QED BY <1>1, <1>2 DEF Covered

LEMMA CompleteStep ==
    ASSUME LabelInv, LeaseKept, CompleteOK, [Next]_vars
    PROVE  CompleteOK'
<1>1. TypeInv /\ EvidenceOK /\ LockOK /\ ResetsOK /\ BackedOK /\ EtagsOK
    BY DEF LabelInv, QueueInv
<1>2. ASSUME NEW w \in Workers, pc'[w] = "reset_commit", body'[w].outcome = "published"
      PROVE  Covered(body[w].dataset)'
    <2> DEFINE d == body[w].dataset
    <2>1. CASE Stays(w)
        <3>1. /\ pc[w] = "reset_commit" /\ pc[w] \in Resetting /\ Covered(d)
              /\ d \in Datasets /\ body'[w].dataset = d
            BY <1>1, <1>2, <2>1, Places DEF Stays, CompleteOK, TypeInv, BodyOK
        <3>2. Covered(d)'
            BY <1>1, <2>1, <3>1, CoveredKept
        <3> QED BY <3>1, <3>2 DEF Covered
    <2>2. ASSUME pc[w] \in Resetting, SameTask(w),
                 labels'[d] = Projected(body[w].reset.etag, body[w].reset.runs)
          PROVE  Covered(d)' /\ body'[w].dataset = d
        <3>1. resets[d] = body[w].reset /\ d \in Datasets
            BY <1>1, <2>2 DEF LeaseKept, LockOK, TypeInv, BodyOK
        <3>2. \A s \in resets[d].etag.machine : s[1] \in resets[d].runs
            BY <1>1, <3>1 DEF ResetsOK
        <3>3. resets[d].etag \in Labels
            BY <1>1, <3>1 DEF TypeInv, TypeOK, Reset
        <3>4. LET new == Projected(resets[d].etag, resets[d].runs) IN
              new.machine \subseteq new.withdrawn
            BY <3>2, <3>3 DEF Projected, Labels
        <3> QED BY <2>2, <3>1, <3>4 DEF Covered, SameTask
    <2>3. CASE ResetLoad(w)
        <3>1. /\ pc[w] = "reset_load" /\ SameTask(w) /\ labels' = labels
              /\ labels[d] = Projected(body[w].reset.etag, body[w].reset.runs)
            BY <1>1, <1>2, <2>3, ResetLoaded
        <3>2. Covered(d)' /\ body'[w].dataset = d
            BY <2>2, <3>1, Places
        <3> QED BY <3>2 DEF Covered
    <2>4. CASE ResetSave(w)
        <3>1. /\ pc[w] = "reset_save" /\ SameTask(w)
              /\ labels' = [labels EXCEPT ![d] = Projected(body[w].loaded, body[w].reset.runs)]
            BY <1>1, <1>2, <2>4, ResetSaved
        <3>2. body[w].loaded = body[w].reset.etag /\ d \in Datasets
            BY <1>1, <3>1, Places DEF EtagsOK, TypeInv, BodyOK
        <3>3. labels'[d] = Projected(body[w].reset.etag, body[w].reset.runs)
            BY <1>1, <3>1, <3>2 DEF TypeInv, TypeOK
        <3>4. Covered(d)' /\ body'[w].dataset = d
            BY <2>2, <3>1, <3>3, Places
        <3> QED BY <3>4 DEF Covered
    <2>5. /\ \A j \in Jobs, e \in Episodes : ~BeginApply(w, j, e)
          /\ \A c \in Datasets : ~BeginReset(w, c)
          /\ ~ApplyLoad(w) /\ ~ApplySave(w) /\ pc'[w] \in Slow
        BY <1>1, <1>2, ApplyBegun, ResetBegun, ApplyLoaded, ApplySaved, Places
    <2> QED BY <1>1, <2>1, <2>3, <2>4, <2>5, SlowMoves
<1>3. ASSUME NEW d \in Datasets, resets'[d].published,
             NEW s \in labels'[d].machine \ labels'[d].withdrawn
      PROVE  job'[s[1]].generation >= resets'[d].generation
    <2>1. /\ resets'[d].generation = resets[d].generation
          /\ generations'[d] = generations[d]
          /\ \/ resets'[d] = resets[d]
             \/ RetryReset(d)
             \/ \E w \in Workers : /\ ResetCommit(w) /\ lock = w /\ body[w].dataset = d
                                   /\ resets'[d] = Recorded(w)
        BY <1>1, <1>3, ResetsChange
    <2>2. /\ generations[d] \in Nat /\ resets[d].generation \in Nat
          /\ resets[d].generation <= generations[d]
        BY <1>1 DEF TypeInv, TypeOK, Reset, ResetsOK
    <2>3. CASE s \notin labels[d].machine
        <3>1. PICK w \in Workers : /\ pc[w] = "apply_save" /\ body[w].dataset = d
                                   /\ s = <<body[w].job, body[w].episode>>
            BY <1>1, <1>3, <2>3, MachineGrows
        <3>2. s[1] \in Submitted /\ job[s[1]].dataset = d /\ ~Withdrawn(s[1])
            BY <1>1, <3>1, Places DEF LeaseKept, LockOK, Candidate, BackedOK
        <3>3. job[s[1]].generation = generations[d]
            BY <3>2 DEF Withdrawn
        <3>4. job'[s[1]].generation = job[s[1]].generation
            BY <1>1, <3>2, JobsKept DEF JobKept
        <3> QED BY <2>1, <2>2, <3>3, <3>4
    <2>4. CASE s \in labels[d].machine
        <3>1. s[1] \in Submitted /\ s \notin labels[d].withdrawn
            BY <1>1, <1>3, <2>4, LabelsGrow DEF BackedOK, Before
        <3>2. job'[s[1]].generation = job[s[1]].generation
            BY <1>1, <3>1, JobsKept DEF JobKept
        <3>3. resets[d].published
            <4>1. CASE RetryReset(d)
                <5>1. resets'[d] = [resets[d] EXCEPT !.status = "running"]
                    BY <1>1, <4>1 DEF RetryReset, TypeInv, TypeOK
                <5> QED BY <1>1, <1>3, <5>1 DEF TypeInv, TypeOK, Reset
            <4>2. ASSUME NEW w \in Workers, ResetCommit(w), body[w].dataset = d,
                         resets'[d] = Recorded(w)
                  PROVE  resets[d].published
                <5>1. pc[w] = "reset_commit"
                    BY <4>2 DEF ResetCommit
                <5>2. body[w].outcome # "published"
                    BY <2>4, <3>1, <4>2, <5>1 DEF CompleteOK, Covered
                <5>3. Recorded(w).published = resets[d].published
                    BY <1>1, <4>2, <5>2 DEF Recorded, TypeInv, TypeOK, Reset
                <5> QED BY <1>3, <4>2, <5>3
            <4> QED BY <1>3, <2>1, <4>1, <4>2
        <3> QED BY <2>1, <2>4, <3>1, <3>2, <3>3 DEF CompleteOK, WithdrawalComplete
    <2> QED BY <2>3, <2>4
<1> QED BY <1>2, <1>3 DEF CompleteOK, WithdrawalComplete, Covered

LEMMA KeptInvariant ==
    ASSUME StoreLeaseLost = FALSE
    PROVE  Spec => []KeptInv
<1>1. Init => LeaseKept /\ CompleteOK
    <2> SUFFICES ASSUME Init PROVE LeaseKept /\ CompleteOK
        OBVIOUS
    <2>1. \A w \in Workers : pc[w] = "reset_once"
        BY DEF Init
    <2>2. \A d \in Datasets : ~resets[d].published
        BY DEF Init, NoReset
    <2> QED BY <2>1, <2>2, Places DEF LeaseKept, CompleteOK, WithdrawalComplete
<1>2. LabelInv /\ LeaseKept /\ CompleteOK /\ [Next]_vars => LeaseKept' /\ CompleteOK'
    BY LeaseStep, CompleteStep DEF LabelInv, QueueInv
<1>3. KeptInv <=> LabelInv /\ LeaseKept /\ CompleteOK
    BY DEF KeptInv
<1> QED BY <1>1, <1>2, <1>3, LabelInvariant, PTL DEF Spec

\* When a withdrawal has been published, no contribution of the jobs it covers
\* is in force, whatever was being applied when it was confirmed.  A store
\* that loses its lease half way lets an application slip in afterwards.
THEOREM PublishedWithdrawalsAreComplete ==
    ASSUME StoreLeaseLost = FALSE
    PROVE  Spec => []WithdrawalComplete
<1>1. KeptInv => WithdrawalComplete
    BY DEF KeptInv, CompleteOK
<1> QED BY <1>1, KeptInvariant, PTL

-----------------------------------------------------------------------------
(* The service implements JudgePromise *)

Evidence == [j \in Jobs |-> [e \in Episodes |-> target[j][e].verdict]]
WithdrawnRuns == {j \in Submitted : Withdrawn(j)}
InForce == UNION {labels[d].machine \ labels[d].withdrawn : d \in Datasets}

\* Only a publication with a claim that counts changes a verdict.
LEMMA VerdictsKept ==
    ASSUME TypeInv, EvidenceOK, FencesOK, LockOK, [Next]_vars,
           ~\E w \in Workers, v \in Verdicts : Publish(w, v) /\ ValidClaim(w)
    PROVE  Evidence' = Evidence
<1> SUFFICES ASSUME NEW k \in Jobs, NEW f \in Episodes
             PROVE  target'[k][f].verdict = target[k][f].verdict
    BY DEF Evidence
<1>1. ASSUME k \notin Submitted
      PROVE  target[k][f].verdict = None /\ target'[k][f].verdict = None
    <2>1. EvidenceOK'
        BY EvidenceStep
    <2>2. target[k][f].verdict = None
        BY <1>1 DEF EvidenceOK
    <2>3. k \notin Submitted' => target'[k][f].verdict = None
        BY <2>1 DEF EvidenceOK
    <2>4. k \in Submitted' => target'[k][f].verdict = None
        BY <1>1, NewJob
    <2> QED BY <2>2, <2>3, <2>4
<1>2. CASE k \in Submitted
    <2>1. target[k] \in [Episodes -> Target] /\ target'[k] \in [Episodes -> Target]
        BY <1>2, JobOf, NextType DEF TypeInv, TypeOK
    <2>2. CASE JobAlike(k)
        BY <2>1, <2>2, AlikeFields DEF JobAlike
    <2>3. ASSUME NEW w \in Workers, NEW e \in Episodes, Take(w, k, e)
          PROVE  target'[k][f].verdict = target[k][f].verdict
        <3>1. target'[k] = [target[k] EXCEPT ![e] = Taken(target[k][e], w)]
            BY <1>2, <2>3, TakeEffect
        <3>2. target'[k][e].verdict = target[k][e].verdict
            BY <2>1, <3>1, TargetFields
        <3> QED BY <2>1, <3>1, <3>2
    <2>4. ASSUME NEW w \in Workers, Publish(w, "error"), ValidClaim(w), claim[w].job = k
          PROVE  target'[k][f].verdict = target[k][f].verdict
        <3> DEFINE e == claim[w].episode
        <3>1. e \in Episodes
              /\ target'[k] = [target[k] EXCEPT ![e] = Published(target[k][e], job[k].mode, "error")]
            BY <1>2, <2>4, PublishEffect
        <3>2. target'[k][e].verdict = target[k][e].verdict
            BY <2>1, <3>1, TargetFields
        <3> QED BY <2>1, <3>1, <3>2
    <2>5. CASE Cancel(k)
        <3>1. target'[k][f] = Cancelled(target[k][f])
            BY <1>2, <2>5, CancelEffect
        <3> QED BY <2>1, <3>1, TargetFields
    <2>6. CASE Retry(k)
        <3>1. target'[k][f] = Retried(target[k][f])
            BY <1>2, <2>6, RetryEffect
        <3> QED BY <2>1, <3>1, TargetFields
    <2>7. ASSUME NEW es \in SUBSET Episodes, RequestApplication(k, es)
          PROVE  target'[k][f].verdict = target[k][f].verdict
        <3>1. target'[k] = Requested(k, es)
            BY <1>2, <2>7, RequestEffect
        <3>2. target'[k][f] \in {target[k][f], [target[k][f] EXCEPT !.application = "queued"]}
            BY <3>1 DEF Requested
        <3>3. LET u == [target[k][f] EXCEPT !.application = "queued"] IN
              u.verdict = target[k][f].verdict
            BY <2>1, TargetFields
        <3> QED BY <3>2, <3>3
    <2>8. ASSUME NEW p \in 1 .. MaxPreviews, ConfirmReset(p), previews[p].dataset = job[k].dataset
          PROVE  target'[k][f].verdict = target[k][f].verdict
        <3>1. target'[k][f] = Stopped(target[k][f])
            BY <1>2, <2>8, ConfirmEffect
        <3> QED BY <2>1, <3>1, TargetFields
    <2>9. ASSUME NEW w \in Workers, ApplyCommit(w), lock = w, body[w].job = k
          PROVE  target'[k][f].verdict = target[k][f].verdict
        <3> DEFINE e == body[w].episode
                   new == [target[k][e] EXCEPT !.application = body[w].outcome]
        <3>1. e \in Episodes /\ target'[k] = [target[k] EXCEPT ![e] = new]
            BY <1>2, <2>9, CommitEffect
        <3>2. new.verdict = target[k][e].verdict
            BY <2>1, <3>1, TargetFields
        <3> QED BY <2>1, <3>1, <3>2
    <2> QED BY <1>2, <2>2, <2>3, <2>4, <2>5, <2>6, <2>7, <2>8, <2>9, JobSteps
<1> QED BY <1>1, <1>2

\* Publishing a verdict is a Record of the promise.
LEMMA PublishRecords ==
    ASSUME LabelInv, [Next]_vars, NEW w \in Workers, NEW v \in Verdicts,
           Publish(w, v), ValidClaim(w)
    PROVE  Promise!PromiseNext
<1>1. TypeInv /\ EvidenceOK /\ FencesOK
    BY DEF LabelInv, QueueInv
<1>2. PICK k \in Submitted, e \in Episodes : claim[w].job = k /\ claim[w].episode = e
    BY <1>1 DEF ValidClaim, Active, FencesOK
<1> DEFINE new == Published(target[k][e], job[k].mode, v)
<1>3. ~Withdrawn(k) /\ target[k][e].status = "running"
    BY <1>2 DEF ValidClaim, Active
<1>4. target' = [target EXCEPT ![k][e] = new] /\ UNCHANGED withdrawalVars /\ sequence' = sequence
    BY <1>2 DEF Publish
<1>5. k \in Jobs /\ target \in [Jobs -> [Episodes -> Target]]
    BY <1>1, JobOf DEF TypeInv, TypeOK
<1>6. new.verdict = v /\ target[k][e].verdict = None
    <2>1. v # "error"
        BY DEF Verdicts
    <2> QED BY <1>1, <1>3, <1>5, <2>1, TargetFields DEF EvidenceOK
<1> HIDE DEF new
<1>7. Evidence' = [Evidence EXCEPT ![k][e] = v] /\ Evidence[k][e] = None
    <2>1. \A j \in Jobs, f \in Episodes :
             target'[j][f].verdict = IF j = k /\ f = e THEN v ELSE target[j][f].verdict
        BY <1>4, <1>5, <1>6
    <2>2. \A j \in Jobs, f \in Episodes :
             [Evidence EXCEPT ![k][e] = v][j][f] = IF j = k /\ f = e THEN v ELSE target[j][f].verdict
        BY DEF Evidence
    <2>3. [Evidence EXCEPT ![k][e] = v] = [j \in Jobs |-> [f \in Episodes |->
             IF j = k /\ f = e THEN v ELSE target[j][f].verdict]]
        BY <2>2 DEF Evidence
    <2>4. Evidence' = [j \in Jobs |-> [f \in Episodes |->
             IF j = k /\ f = e THEN v ELSE target[j][f].verdict]]
        BY <2>1 DEF Evidence
    <2>5. Evidence[k][e] = None
        BY <1>5, <1>6 DEF Evidence
    <2> QED BY <2>3, <2>4, <2>5
<1>8. WithdrawnRuns' = WithdrawnRuns
    <2>1. Submitted' = Submitted /\ \A j \in Submitted : Withdrawn(j)' <=> Withdrawn(j)
        BY <1>1, <1>4, WithdrawnKept DEF Submitted, withdrawalVars
    <2> QED BY <2>1 DEF WithdrawnRuns
<1>9. InForce' = InForce
    BY <1>4 DEF InForce, withdrawalVars
<1>10. k \notin WithdrawnRuns
    BY <1>3 DEF WithdrawnRuns
<1>11. Promise!Record(k, e, v)
    BY <1>7, <1>8, <1>9, <1>10 DEF Promise!Record, Evidence, WithdrawnRuns, InForce
<1> QED BY <1>5, <1>11 DEF Promise!PromiseNext

\* Confirming a withdrawal withdraws the jobs of the dataset, which at that
\* moment are all of an earlier generation.
LEMMA ConfirmWithdraws ==
    ASSUME LabelInv, [Next]_vars, NEW p \in 1 .. MaxPreviews, ConfirmReset(p)
    PROVE  \E S \in SUBSET Jobs : WithdrawnRuns' = WithdrawnRuns \cup S
<1>1. TypeInv /\ ResetsOK
    BY DEF LabelInv, QueueInv
<1> DEFINE d == previews[p].dataset
<1>2. Submitted' = Submitted /\ generations' = [generations EXCEPT ![d] = generations[d] + 1]
    BY DEF ConfirmReset, Submitted
<1>3. ASSUME NEW k \in Submitted
      PROVE  Withdrawn(k)' <=> Withdrawn(k) \/ job[k].dataset = d
    <2>1. /\ job'[k].dataset = job[k].dataset /\ job'[k].generation = job[k].generation
          /\ job[k].dataset \in Datasets /\ job[k].generation \in Nat
          /\ job[k].generation <= generations[job[k].dataset]
        BY <1>1, JobsKept, JobOf DEF JobKept, ResetsOK
    <2>2. generations \in [Datasets -> Nat]
        BY <1>1 DEF TypeInv, TypeOK
    <2> QED BY <1>2, <2>1, <2>2 DEF Withdrawn
<1> HIDE DEF d
<1>4. WithdrawnRuns' = WithdrawnRuns \cup Scope(d)
    BY <1>2, <1>3 DEF WithdrawnRuns, Scope
<1>5. Scope(d) \subseteq Jobs
    BY <1>1, JobOf DEF Scope
<1> QED BY <1>4, <1>5

\* No other step does.
LEMMA WithdrawnRunsKept ==
    ASSUME LabelInv, [Next]_vars, \A p \in 1 .. MaxPreviews : ~ConfirmReset(p)
    PROVE  WithdrawnRuns' = WithdrawnRuns
<1>1. TypeInv
    BY DEF LabelInv, QueueInv
<1>2. \A d \in Datasets : generations'[d] = generations[d]
    BY <1>1, ResetsChange
<1>3. ASSUME NEW k \in Submitted
      PROVE  k \in Submitted' /\ (Withdrawn(k)' <=> Withdrawn(k))
    BY <1>1, <1>2, JobOf, WithdrawnKept
<1>4. ASSUME NEW k \in Submitted', k \notin Submitted
      PROVE  ~Withdrawn(k)'
    BY <1>1, <1>4, NewJob DEF Withdrawn, withdrawalVars
<1> QED BY <1>3, <1>4 DEF WithdrawnRuns

\* Saving an application puts the contribution in force, unless it has a
\* tombstone already.
LEMMA ApplyPutsInForce ==
    ASSUME KeptInv, [Next]_vars, NEW w \in Workers, ApplySave(w)
    PROVE  \/ InForce' = InForce
           \/ \E j \in Jobs, e \in Episodes :
                 /\ j \notin WithdrawnRuns /\ target[j][e].verdict = "decided"
                 /\ InForce' = InForce \cup {<<j, e>>}
<1>1. TypeInv /\ LockOK /\ LeaseKept /\ BackedOK /\ pc[w] = "apply_save"
    BY ApplySaved DEF KeptInv, LabelInv, QueueInv
<1>2. PICK j \in Jobs, e \in Episodes, d \in Datasets :
         body[w].job = j /\ body[w].episode = e /\ body[w].dataset = d
    BY <1>1, Places DEF TypeInv, BodyOK
<1>3. j \in Submitted /\ ~Withdrawn(j) /\ target[j][e].verdict = "decided"
    BY <1>1, <1>2, Places DEF LeaseKept, LockOK, Candidate, BackedOK
<1> DEFINE new == Contributed(body[w].loaded, j, e)
<1>4. \/ labels' = labels
      \/ labels[d] = body[w].loaded /\ labels' = [labels EXCEPT ![d] = new]
    BY <1>1, <1>2, ApplySaved DEF Matches
<1>5. labels \in [Datasets -> Labels] /\ body[w].loaded \in Labels
    BY <1>1 DEF TypeInv, TypeOK, Body
<1>6. new.machine = body[w].loaded.machine \cup {<<j, e>>} /\ new.withdrawn = body[w].loaded.withdrawn
    BY <1>5 DEF Contributed, Labels
<1> HIDE DEF new
<1>7. CASE labels' = labels
    BY <1>7 DEF InForce
<1>8. CASE labels[d] = body[w].loaded /\ labels' = [labels EXCEPT ![d] = new]
    <2>1. /\ labels'[d].machine = labels[d].machine \cup {<<j, e>>}
          /\ labels'[d].withdrawn = labels[d].withdrawn
          /\ \A c \in Datasets \ {d} : labels'[c] = labels[c]
        BY <1>5, <1>6, <1>8
    <2>2. CASE <<j, e>> \in labels[d].withdrawn
        <3>1. \A c \in Datasets : labels'[c].machine \ labels'[c].withdrawn
                                     = labels[c].machine \ labels[c].withdrawn
            BY <2>1, <2>2
        <3> QED BY <3>1 DEF InForce
    <2>3. CASE <<j, e>> \notin labels[d].withdrawn
        <3>1. /\ labels'[d].machine \ labels'[d].withdrawn
                    = (labels[d].machine \ labels[d].withdrawn) \cup {<<j, e>>}
              /\ \A c \in Datasets \ {d} : labels'[c].machine \ labels'[c].withdrawn
                                              = labels[c].machine \ labels[c].withdrawn
            BY <2>1, <2>3
        <3>2. InForce' = InForce \cup {<<j, e>>}
            BY <3>1 DEF InForce
        <3> QED BY <1>3, <3>2 DEF WithdrawnRuns
    <2> QED BY <2>2, <2>3
<1> QED BY <1>4, <1>7, <1>8

\* Saving a withdrawal takes what its jobs contributed out of force, in every
\* dataset, because its jobs contributed to no other one.
LEMMA ResetTakesOut ==
    ASSUME KeptInv, [Next]_vars, NEW w \in Workers, ResetSave(w)
    PROVE  \/ InForce' = InForce
           \/ \E S \in SUBSET Jobs :
                 S \subseteq WithdrawnRuns /\ InForce' = {s \in InForce : s[1] \notin S}
<1>1. /\ TypeInv /\ LockOK /\ LeaseKept /\ ResetsOK /\ BackedOK
      /\ pc[w] = "reset_save"
    BY ResetSaved DEF KeptInv, LabelInv, QueueInv
<1>2. PICK d \in Datasets, S \in SUBSET Jobs : body[w].dataset = d /\ body[w].reset.runs = S
    BY <1>1, Places DEF TypeInv, TypeOK, BodyOK, Body, Reset
<1>3. resets[d].runs = S
    BY <1>1, <1>2, Places DEF LeaseKept, LockOK
<1>4. \A j \in S : j \in Submitted /\ job[j].dataset = d /\ Withdrawn(j)
    BY <1>1, <1>3 DEF ResetsOK
<1> DEFINE new == Projected(body[w].loaded, S)
<1>5. \/ labels' = labels
      \/ labels[d] = body[w].loaded /\ labels' = [labels EXCEPT ![d] = new]
    BY <1>1, <1>2, ResetSaved DEF Matches
<1>6. labels \in [Datasets -> Labels] /\ body[w].loaded \in Labels
    BY <1>1 DEF TypeInv, TypeOK, Body
<1>7. /\ new.machine = body[w].loaded.machine
      /\ new.withdrawn = body[w].loaded.withdrawn \cup {s \in body[w].loaded.machine : s[1] \in S}
    BY <1>6 DEF Projected, Labels
<1> HIDE DEF new
<1>8. CASE labels' = labels
    BY <1>8 DEF InForce
<1>9. CASE labels[d] = body[w].loaded /\ labels' = [labels EXCEPT ![d] = new]
    <2>1. /\ labels'[d].machine = labels[d].machine
          /\ labels'[d].withdrawn = labels[d].withdrawn \cup {s \in labels[d].machine : s[1] \in S}
          /\ \A c \in Datasets \ {d} : labels'[c] = labels[c]
        BY <1>6, <1>7, <1>9
    <2>2. \A c \in Datasets \ {d} : \A s \in labels[c].machine : s[1] \notin S
        BY <1>1, <1>4 DEF BackedOK, ApplicationsBacked
    <2>3. \A c \in Datasets : labels'[c].machine \ labels'[c].withdrawn
                                 = {s \in labels[c].machine \ labels[c].withdrawn : s[1] \notin S}
        BY <2>1, <2>2
    <2>4. InForce' = {s \in InForce : s[1] \notin S}
        BY <2>3 DEF InForce
    <2> QED BY <1>4, <2>4 DEF WithdrawnRuns
<1> QED BY <1>5, <1>8, <1>9

\* Every other step leaves what is in force as it is.
LEMMA InForceKept ==
    ASSUME LabelInv, [Next]_vars, \A w \in Workers : ~ApplySave(w) /\ ~ResetSave(w)
    PROVE  InForce' = InForce
<1>1. TypeInv /\ labels \in [Datasets -> Labels]
    BY DEF LabelInv, QueueInv, TypeInv, TypeOK
<1>2. ASSUME NEW c \in Datasets, HumanEdit(c)
      PROVE  InForce' = InForce
    <2>1. PICK contested \in {labels[c].contested, TRUE} :
             labels' = [labels EXCEPT ![c] = Edited(labels[c], contested)]
        BY <1>2 DEF HumanEdit
    <2>2. /\ Edited(labels[c], contested).machine = labels[c].machine
          /\ Edited(labels[c], contested).withdrawn = labels[c].withdrawn
        BY <1>1, ContentsGrow
    <2>3. \A d \in Datasets : /\ labels'[d].machine = labels[d].machine
                              /\ labels'[d].withdrawn = labels[d].withdrawn
        BY <1>1, <2>1, <2>2
    <2> QED BY <2>3 DEF InForce
<1>3. CASE UNCHANGED labels
    BY <1>3 DEF InForce
<1> QED BY <1>1, <1>2, <1>3, LabelsChange

LEMMA PromiseStep ==
    ASSUME KeptInv, [Next]_vars
    PROVE  [Promise!PromiseNext]_(Promise!promiseVars)
<1> SUFFICES Promise!PromiseNext \/ UNCHANGED <<Evidence, WithdrawnRuns, InForce>>
    BY DEF Promise!promiseVars, Evidence, WithdrawnRuns, InForce
<1>1. LabelInv /\ TypeInv /\ EvidenceOK /\ FencesOK /\ LockOK
    BY DEF KeptInv, LabelInv, QueueInv
<1>2. CASE \E w \in Workers, v \in Verdicts : Publish(w, v) /\ ValidClaim(w)
    BY <1>1, <1>2, PublishRecords
<1>3. CASE ~\E w \in Workers, v \in Verdicts : Publish(w, v) /\ ValidClaim(w)
    <2>1. Evidence' = Evidence
        BY <1>1, <1>3, VerdictsKept
    <2>2. ASSUME NEW p \in 1 .. MaxPreviews, ConfirmReset(p)
          PROVE  Promise!PromiseNext
        <3>1. PICK S \in SUBSET Jobs : WithdrawnRuns' = WithdrawnRuns \cup S
            BY <1>1, <2>2, ConfirmWithdraws
        <3>2. InForce' = InForce
            BY <2>2 DEF ConfirmReset, InForce
        <3>3. Promise!Withdraw(S)
            BY <2>1, <3>1, <3>2 DEF Promise!Withdraw, Evidence, WithdrawnRuns, InForce
        <3> QED BY <3>3 DEF Promise!PromiseNext
    <2>3. ASSUME \A p \in 1 .. MaxPreviews : ~ConfirmReset(p)
          PROVE  Promise!PromiseNext \/ UNCHANGED <<Evidence, WithdrawnRuns, InForce>>
        <3>1. WithdrawnRuns' = WithdrawnRuns
            BY <1>1, <2>3, WithdrawnRunsKept
        <3>2. ASSUME NEW j \in Jobs, NEW e \in Episodes, j \notin WithdrawnRuns,
                     target[j][e].verdict = "decided", InForce' = InForce \cup {<<j, e>>}
              PROVE  Promise!PromiseNext
            <4>1. Evidence[j][e] = "decided"
                BY <3>2 DEF Evidence
            <4>2. Promise!PutInForce(j, e)
                BY <2>1, <3>1, <3>2, <4>1
                DEF Promise!PutInForce, Evidence, WithdrawnRuns, InForce
            <4> QED BY <4>2 DEF Promise!PromiseNext
        <3>3. ASSUME NEW S \in SUBSET Jobs, S \subseteq WithdrawnRuns,
                     InForce' = {s \in InForce : s[1] \notin S}
              PROVE  Promise!PromiseNext
            <4>1. Promise!TakeOut(S)
                BY <2>1, <3>1, <3>3 DEF Promise!TakeOut, Evidence, WithdrawnRuns, InForce
            <4> QED BY <4>1 DEF Promise!PromiseNext
        <3>4. CASE \E w \in Workers : ApplySave(w)
            BY <2>1, <3>1, <3>2, <3>4, ApplyPutsInForce
        <3>5. CASE \E w \in Workers : ResetSave(w)
            BY <2>1, <3>1, <3>3, <3>5, ResetTakesOut
        <3>6. CASE \A w \in Workers : ~ApplySave(w) /\ ~ResetSave(w)
            BY <1>1, <2>1, <3>1, <3>6, InForceKept
        <3> QED BY <3>4, <3>5, <3>6
    <2> QED BY <2>2, <2>3
<1> QED BY <1>2, <1>3

\* The judge-job service implements JudgePromise: over every interleaving of
\* clients, people and workers, evidence, withdrawals and labels in force only
\* change the way the promise allows.  Each step is one step of the promise or
\* leaves what it speaks of alone.
THEOREM ServiceKeepsItsPromise ==
    ASSUME StoreLeaseLost = FALSE
    PROVE  Spec => ImplementsPromise
<1>1. Init => Promise!PromiseInit
    <2> SUFFICES ASSUME Init PROVE Promise!PromiseInit
        OBVIOUS
    <2>1. Evidence = [j \in Jobs |-> [e \in Episodes |-> None]]
        BY DEF Init, Evidence, NoTarget
    <2>2. WithdrawnRuns = {}
        BY DEF Init, WithdrawnRuns, Submitted
    <2>3. InForce = {}
        BY DEF Init, InForce, NoLabels
    <2> QED BY <2>1, <2>2, <2>3 DEF Promise!PromiseInit, Evidence, WithdrawnRuns, InForce
<1>2. KeptInv /\ [Next]_vars => [Promise!PromiseNext]_(Promise!promiseVars)
    BY PromiseStep
<1> QED BY <1>1, <1>2, KeptInvariant, PTL DEF Spec, ImplementsPromise, Promise!PromiseSpec

-----------------------------------------------------------------------------
(* Clocks: what renewals in time are good for                              *)

\* Every worker renews its lease between two ticks, and no clock is ahead of
\* another by what is left of a lease then.
InTime == Timely /\ \A v, w \in Workers : Offset[v] < Offset[w] + Lease - 1

\* A worker that has not published yet has a slot of its own in the document,
\* with a lease that no clock finds expired.
Works(w) == pc[w] \in {"claimed", "judging"}
SlotHeld(w) ==
    /\ claim[w].job # 0
    /\ claim[w] \in DOMAIN executions
    /\ executions[claim[w]] >= Lease + Offset[w] - 1

OwnersOK == \A w \in Workers : claim[w].owner = w


\* A worker leaves its work by publishing, releasing or dying, and starts it
\* with a claim.
LEMMA WorkMoves ==
    ASSUME TypeInv, [Next]_vars, NEW w \in Workers
    PROVE  \/ \E j \in Jobs, e \in Episodes : Take(w, j, e)
           \/ /\ claim'[w] \in {claim[w], NoClaim(w)}
              /\ Works(w)' => Works(w) /\ claim'[w] = claim[w]
<1>0. pc \in [Workers -> Position] /\ claim \in [Workers -> Claim]
    BY DEF TypeInv, TypeOK
<1> DEFINE Kept == /\ claim'[w] \in {claim[w], NoClaim(w)}
                   /\ Works(w)' => Works(w) /\ claim'[w] = claim[w]
<1>1. ASSUME UNCHANGED <<pc, claim>> PROVE Kept
    BY <1>1 DEF Works
<1>2. ASSUME NEW v \in Workers, NEW place, place \notin {"claimed", "judging"},
             pc' = [pc EXCEPT ![v] = place],
             UNCHANGED claim \/ claim' = [claim EXCEPT ![v] = NoClaim(v)]
      PROVE  Kept
    <2>1. CASE v = w
        BY <1>0, <1>2, <2>1 DEF Works
    <2>2. CASE v # w
        BY <1>0, <1>2, <2>2 DEF Works
    <2> QED BY <2>1, <2>2
<1>3. ASSUME NEW v \in Workers, Worker(v)
      PROVE  Kept \/ \E j \in Jobs, e \in Episodes : Take(w, j, e)
    <2>1. ASSUME NEW j \in Jobs, NEW e \in Episodes, Take(v, j, e), v # w PROVE Kept
        <3>1. pc'[w] = pc[w] /\ claim'[w] = claim[w]
            BY <1>0, <2>1 DEF Take
        <3> QED BY <3>1 DEF Works
    <2>2. CASE Observe(v)
        <3>1. pc'[w] = pc[w] \/ (w = v /\ pc[w] = "claimed")
            BY <1>0, <2>2 DEF Observe
        <3> QED BY <2>2, <3>1 DEF Works, Observe
    <2>3. CASE ApplyLoad(v) \/ ApplySave(v) \/ ResetLoad(v) \/ ResetSave(v)
        <3>1. /\ UNCHANGED claim
              /\ \E place \in Slow : pc' = [pc EXCEPT ![v] = place]
            BY <2>3, Places DEF ApplyLoad, ApplySave, ResetLoad, ResetSave, Conclude, Load, Save, At
        <3> QED BY <1>2, <3>1, Places
    <2>4. CASE \/ \E d \in Datasets : BeginReset(v, d)
               \/ \E j \in Jobs, e \in Episodes : BeginApply(v, j, e)
               \/ NothingToReset(v) \/ NothingToApply(v) \/ ResetCommit(v) \/ ApplyCommit(v)
        <3>1. /\ UNCHANGED claim
              /\ \E place \in {"reset_load", "apply_load", "apply_once", "claim", "reset_once"} :
                    pc' = [pc EXCEPT ![v] = place]
            BY <2>4 DEF BeginReset, BeginApply, Enter, NothingToReset, NothingToApply, ResetCommit,
                        ApplyCommit, Leave, At
        <3> QED BY <1>2, <3>1
    <2>5. CASE \/ TakeNothing(v) \/ Release(v)
               \/ \E outcome \in Verdicts \cup {"error"} : Publish(v, outcome)
        <3>1. /\ UNCHANGED claim \/ claim' = [claim EXCEPT ![v] = NoClaim(v)]
              /\ \E place \in {"reset_once", "release", "failing"} : pc' = [pc EXCEPT ![v] = place]
            BY <2>5 DEF TakeNothing, Release, Publish
        <3> QED BY <1>2, <3>1
    <2> QED BY <1>3, <2>1, <2>2, <2>3, <2>4, <2>5 DEF Worker
<1>4. ASSUME NEW v \in Workers, Shutdown(v) \/ Crash(v) PROVE Kept
    <2>1. /\ UNCHANGED claim \/ claim' = [claim EXCEPT ![v] = NoClaim(v)]
          /\ \E place \in {"release", "reset_once"} : pc' = [pc EXCEPT ![v] = place]
        BY <1>4 DEF Shutdown, Crash
    <2> QED BY <1>2, <2>1
<1>5. CASE Client \/ Tick \/ UNCHANGED vars \/ \E v \in Workers : Heartbeat(v) \/ LoseStoreLease(v)
    <2>1. UNCHANGED <<pc, claim>>
        BY <1>5 DEF Client, Heartbeat, Submit, Cancel, Retry, RequestApplication, PreviewReset,
                    ConfirmReset, RetryReset, HumanEdit, LoseStoreLease, Tick, vars, workerVars
    <2> QED BY <1>1, <2>1
<1> QED BY <1>3, <1>4, <1>5 DEF Next, Environment

LEMMA OwnersStep ==
    ASSUME TypeInv, OwnersOK, [Next]_vars
    PROVE  OwnersOK'
<1> SUFFICES ASSUME NEW w \in Workers PROVE claim'[w].owner = w
    BY DEF OwnersOK
<1>1. ASSUME NEW j \in Jobs, NEW e \in Episodes, Take(w, j, e) PROVE claim'[w].owner = w
    BY <1>1 DEF Take, TypeInv, TypeOK
<1> QED BY <1>1, WorkMoves DEF OwnersOK, NoClaim

\* What a claim starts with.
LEMMA ClaimTaken ==
    ASSUME TypeInv, NEW w \in Workers, NEW j \in Jobs, NEW e \in Episodes, Take(w, j, e)
    PROVE  /\ claim'[w].job = j /\ claim'[w].episode = e /\ claim'[w].fence = target[j][e].fence + 1
           /\ claim'[w] \in DOMAIN executions' /\ executions'[claim'[w]] = Lease + Offset[w]
           /\ target'[j][e] = Taken(target[j][e], w) /\ target[j][e] \in Target
<1> DEFINE c == [job |-> j, episode |-> e, fence |-> target[j][e].fence + 1,
                 owner |-> w, generation |-> job[j].generation]
<1>1. /\ claim' = [claim EXCEPT ![w] = c]
      /\ executions' = [x \in Live(w) \cup {c} |->
                           IF x = c THEN Lease + Offset[w] ELSE executions[x]]
      /\ target' = [target EXCEPT ![j][e] = Taken(@, w)]
    BY DEF Take
<1>2. c.job = j /\ c.episode = e /\ c.fence = target[j][e].fence + 1
    OBVIOUS
<1> HIDE DEF c
<1>3. claim'[w] = c /\ c \in DOMAIN executions' /\ executions'[c] = Lease + Offset[w]
    BY <1>1 DEF TypeInv, TypeOK
<1>4. target'[j][e] = Taken(target[j][e], w) /\ target[j][e] \in Target
    BY <1>1 DEF TypeInv, TypeOK
<1> QED BY <1>2, <1>3, <1>4

\* Nobody purges the slot of a worker that renews it in time.
LEMMA SlotMoves ==
    ASSUME TypeInv, OwnersOK, [Next]_vars, NEW w \in Workers, Works(w), SlotHeld(w), InTime,
           Works(w)', claim'[w] = claim[w]
    PROVE  /\ claim[w] \in DOMAIN executions'
           /\ \/ executions'[claim[w]] = executions[claim[w]] /\ ~Tick
              \/ executions'[claim[w]] = Lease + Offset[w] /\ Heartbeat(w)
              \/ /\ Tick /\ executions[claim[w]] = Lease + Offset[w]
                 /\ executions'[claim[w]] = Elapse(executions[claim[w]])
<1> DEFINE c == claim[w]
           Kept == /\ c \in DOMAIN executions'
                   /\ \/ executions'[c] = executions[c] /\ ~Tick
                      \/ executions'[c] = Lease + Offset[w] /\ Heartbeat(w)
                      \/ /\ Tick /\ executions[c] = Lease + Offset[w]
                         /\ executions'[c] = Elapse(executions[c])
<1>0. /\ c \in DOMAIN executions /\ executions[c] >= Lease + Offset[w] - 1
      /\ executions[c] \in Int /\ Lease \in Int /\ Offset \in [Workers -> Int]
      /\ pc \in [Workers -> Position] /\ claim \in [Workers -> Claim]
    BY SMTT(30), ConstantsAssumption DEF SlotHeld, TypeInv, TypeOK
<1>1. \A v \in Workers : ~Expired(executions[c], v)
    BY <1>0 DEF InTime, Expired
<1>2. \A v \in Workers \ {w} : claim[v] # c
    BY DEF OwnersOK
<1> HIDE DEF c
<1>3. CASE Tick
    <2>1. /\ executions' = [x \in DOMAIN executions |-> Elapse(executions[x])]
          /\ pc[w] \in Renewing /\ c \in DOMAIN executions => executions[c] = Lease + Offset[w]
        BY <1>3 DEF Tick, InTime, c
    <2>2. pc[w] \in Renewing
        BY DEF Works, Renewing
    <2>3. executions'[c] = Elapse(executions[c]) /\ c \in DOMAIN executions'
        BY <1>0, <2>1
    <2>4. executions[c] = Lease + Offset[w]
        BY <1>0, <2>1, <2>2
    <2>5. Kept
        BY <1>3, <2>3, <2>4
    <2> QED BY <2>5 DEF c
<1>4. ASSUME UNCHANGED executions PROVE ~Tick => Kept
    BY <1>0, <1>4
<1>5. ASSUME NEW v \in Workers, NEW j \in Jobs, NEW e \in Episodes, Take(v, j, e) PROVE ~Tick => Kept
    <2>1. v # w
        BY <1>5 DEF Take, Works
    <2> DEFINE d == [job |-> j, episode |-> e, fence |-> target[j][e].fence + 1,
                     owner |-> v, generation |-> job[j].generation]
    <2>2. /\ executions' = [x \in Live(v) \cup {d} |->
                               IF x = d THEN Lease + Offset[v] ELSE executions[x]]
          /\ d.owner = v
        BY <1>5 DEF Take
    <2> HIDE DEF d
    <2>3. c \in Live(v)
        BY <1>0, <1>1 DEF Live
    <2>4. c # d
        BY <2>1, <2>2 DEF OwnersOK, c
    <2>5. executions'[c] = executions[c] /\ c \in DOMAIN executions'
        BY <2>2, <2>3, <2>4
    <2> QED BY <2>5
<1>6. ASSUME NEW v \in Workers, Release(v) \/ \E outcome \in Verdicts \cup {"error"} : Publish(v, outcome)
      PROVE  ~Tick => Kept
    <2>1. v # w
        BY <1>0, <1>6 DEF Release, Publish, Works
    <2>2. executions' = Popped(claim[v])
        BY <1>6 DEF Release, Publish
    <2> QED BY <1>0, <1>2, <2>1, <2>2 DEF Popped
<1>7. ASSUME NEW v \in Workers, TakeNothing(v) PROVE ~Tick => Kept
    <2>1. UNCHANGED executions \/ executions' = [x \in Live(v) |-> executions[x]]
        BY <1>7 DEF TakeNothing
    <2> QED BY <1>0, <1>1, <1>4, <2>1 DEF Live
<1>8. ASSUME NEW v \in Workers, Heartbeat(v) PROVE ~Tick => Kept
    <2>1. executions' = [executions EXCEPT ![claim[v]] = Lease + Offset[v]]
        BY <1>8 DEF Heartbeat
    <2>2. CASE v = w
        BY <1>0, <1>8, <2>1, <2>2 DEF c
    <2>3. CASE v # w
        BY <1>0, <1>2, <2>1, <2>3
    <2> QED BY <2>2, <2>3
<1>9. CASE ~Tick
    <2>1. \/ UNCHANGED executions
          \/ \E v \in Workers, j \in Jobs, e \in Episodes : Take(v, j, e)
          \/ \E v \in Workers : \/ Release(v) \/ TakeNothing(v) \/ Heartbeat(v)
                                \/ \E outcome \in Verdicts \cup {"error"} : Publish(v, outcome)
        BY ZenonT(60), <1>9 DEF Next, Worker, Client, Environment, BeginReset, NothingToReset, ResetLoad, ResetSave,
            ResetCommit, BeginApply, NothingToApply, ApplyLoad, ApplySave, ApplyCommit, Observe,
            Enter, Submit, Cancel, Retry, RequestApplication, PreviewReset, ConfirmReset, RetryReset,
            HumanEdit, Shutdown, Crash, LoseStoreLease, vars, queueVars
    <2>2. Kept
        BY <1>4, <1>5, <1>6, <1>7, <1>8, <1>9, <2>1
    <2> QED BY <2>2 DEF c
<1> QED BY <1>3, <1>9 DEF c

LEMMA SlotStep ==
    ASSUME TypeInv, OwnersOK, InTime, [Next]_vars, NEW w \in Workers, Works(w) => SlotHeld(w)
    PROVE  Works(w)' => SlotHeld(w)'
<1>0. /\ Lease \in Nat \ {0} /\ Floor \in Int /\ Offset[w] \in Int /\ Floor <= Offset[w]
      /\ 0 \notin Jobs
    BY ConstantsAssumption DEF Jobs
<1>1. ASSUME NEW j \in Jobs, NEW e \in Episodes, Take(w, j, e) PROVE SlotHeld(w)'
    BY <1>0, <1>1, ClaimTaken DEF SlotHeld
<1>2. CASE Works(w)' /\ Works(w) /\ claim'[w] = claim[w]
    <2>1. SlotHeld(w) /\ executions[claim[w]] \in Int
        BY <1>2 DEF SlotHeld, TypeInv, TypeOK
    <2>2. /\ claim[w] \in DOMAIN executions'
          /\ \/ executions'[claim[w]] = executions[claim[w]]
             \/ executions'[claim[w]] = Lease + Offset[w]
             \/ /\ executions[claim[w]] = Lease + Offset[w]
                /\ executions'[claim[w]] = Elapse(executions[claim[w]])
        BY <1>2, <2>1, SlotMoves
    <2>3. executions'[claim[w]] >= Lease + Offset[w] - 1
        BY <1>0, <2>1, <2>2 DEF SlotHeld, Elapse
    <2> QED BY <1>2, <2>1, <2>2, <2>3 DEF SlotHeld
<1> QED BY <1>1, <1>2, WorkMoves

\* What the proofs about running inference need: a working worker has a slot
\* of its own.
SlotsHeldInv == QueueInv /\ OwnersOK /\ \A w \in Workers : Works(w) => SlotHeld(w)

LEMMA SlotsHeldInvariant ==
    ASSUME InTime
    PROVE  Spec => []SlotsHeldInv
<1>1. Init => OwnersOK /\ \A w \in Workers : ~Works(w)
    BY DEF Init, OwnersOK, Works, NoClaim
<1>2. ASSUME QueueInv, QueueInv', SlotsHeldInv, [Next]_vars PROVE SlotsHeldInv'
    <2>1. OwnersOK'
        BY <1>2, OwnersStep DEF QueueInv, SlotsHeldInv
    <2>2. ASSUME NEW w \in Workers PROVE Works(w)' => SlotHeld(w)'
        BY <1>2, SlotStep DEF QueueInv, SlotsHeldInv
    <2> QED BY <1>2, <2>1, <2>2 DEF SlotsHeldInv
<1>3. QueueInv /\ Init => SlotsHeldInv
    BY <1>1 DEF SlotsHeldInv
<1> QED BY <1>2, <1>3, QueueInvariant, PTL DEF Spec

\* As long as leases are renewed in time and clocks differ by less than what
\* is left of one then, the workers that use the device are never more than
\* the capacity: each has a slot of its own in the document.
THEOREM JudgingStaysWithinCapacity ==
    ASSUME InTime
    PROVE  Spec => []JudgingWithinCapacity
<1>1. ASSUME SlotsHeldInv PROVE JudgingWithinCapacity
    <2> DEFINE Working == {w \in Workers : pc[w] \in {"claimed", "judging"}}
               slot == [w \in Working |-> claim[w]]
    <2>1. /\ IsFiniteSet(DOMAIN executions) /\ Cardinality(DOMAIN executions) <= capacity
          /\ capacity \in Nat
        BY <1>1, ConstantsAssumption
           DEF SlotsHeldInv, QueueInv, SlotsOK, CapacityRespected, TypeInv, TypeOK
    <2>2. \A w \in Working : claim[w] \in DOMAIN executions /\ claim[w].owner = w
        BY <1>1 DEF SlotsHeldInv, SlotHeld, OwnersOK, Works
    <2>3. slot \in Injection(Working, DOMAIN executions)
        <3>1. slot \in [Working -> DOMAIN executions]
            BY <2>2
        <3>2. \A v, w \in Working : slot[v] = slot[w] => v = w
            BY <2>2
        <3> QED BY <3>1, <3>2 DEF Injection, IsInjective
    <2>4. IsFiniteSet(Working) /\ Cardinality(Working) <= Cardinality(DOMAIN executions)
        BY <2>1, <2>3, FS_Injection
    <2>5. Cardinality(Working) \in Nat /\ Cardinality(DOMAIN executions) \in Nat
        BY <2>1, <2>4, FS_CardinalityType
    <2>6. Cardinality(Working) <= capacity
        BY <2>1, <2>4, <2>5
    <2> QED BY <2>6 DEF JudgingWithinCapacity
<1> QED BY <1>1, SlotsHeldInvariant, PTL

-----------------------------------------------------------------------------
(* Clocks: a working claim is only lost to a person                        *)

\* A claim c of worker w finds its target t its own, with the lease of its
\* slot, until the fence moves; it moves first without starting the target.
Held(t, c, w, left) ==
    /\ c.fence <= t.fence
    /\ t.fence = c.fence => t.status = "running" /\ t.owner = w /\ t.left = left
    /\ t.fence = c.fence + 1 => t.status # "running"

LEMMA HeldMoves ==
    ASSUME NEW t \in Target, NEW c \in Claim, NEW w \in Workers, NEW left \in Int,
           Held(t, c, w, left)
    PROVE  /\ Held(Cancelled(t), c, w, left) /\ Held(Retried(t), c, w, left)
           /\ \A application : Held([t EXCEPT !.application = application], c, w, left)
           /\ t.fence # c.fence => \A v \in Workers : Held(Taken(t, v), c, w, left)
           /\ t.fence # c.fence =>
                 \A mode, outcome : Held(Published(t, mode, outcome), c, w, left)
           /\ t.fence # c.fence => \A x \in Int : Held([t EXCEPT !.left = x], c, w, left)
<1>0. t.fence \in Nat /\ c.fence \in Nat
    BY DEF Target, Claim
<1>1. Held(Cancelled(t), c, w, left)
    BY <1>0 DEF Held, Cancelled, Target
<1>2. Held(Retried(t), c, w, left)
    BY <1>0 DEF Held, Retried, Target
<1>3. \A application : Held([t EXCEPT !.application = application], c, w, left)
    BY <1>0 DEF Held, Target
<1>4. ASSUME t.fence # c.fence, NEW v \in Workers PROVE Held(Taken(t, v), c, w, left)
    BY <1>0, <1>4 DEF Held, Taken, Target
<1>5. ASSUME t.fence # c.fence, NEW mode, NEW outcome
      PROVE  Held(Published(t, mode, outcome), c, w, left)
    BY <1>0, <1>5 DEF Held, Published, Target
<1>6. ASSUME t.fence # c.fence, NEW x \in Int PROVE Held([t EXCEPT !.left = x], c, w, left)
    BY <1>0, <1>6 DEF Held, Target
<1> QED BY <1>1, <1>2, <1>3, <1>4, <1>5, <1>6

\* Generations only grow, and no job is of a later one.
LEMMA WithdrawnStays ==
    ASSUME TypeInv, ResetsOK, [Next]_vars, NEW k \in Submitted, ~Withdrawn(k)'
    PROVE  ~Withdrawn(k) /\ \A p \in 1 .. MaxPreviews :
                               ~(ConfirmReset(p) /\ previews[p].dataset = job[k].dataset)
<1>1. /\ job[k].dataset \in Datasets /\ job[k].generation \in Nat
      /\ job[k].generation <= generations[job[k].dataset] /\ generations[job[k].dataset] \in Nat
    BY JobOf DEF ResetsOK, TypeInv, TypeOK
<1>2. job'[k].dataset = job[k].dataset /\ job'[k].generation = job[k].generation
    BY JobsKept DEF JobKept
<1>3. \/ generations'[job[k].dataset] = generations[job[k].dataset]
      \/ generations'[job[k].dataset] = generations[job[k].dataset] + 1
    BY <1>1, ResetsChange
<1>4. ASSUME NEW p \in 1 .. MaxPreviews, ConfirmReset(p), previews[p].dataset = job[k].dataset
      PROVE  generations'[job[k].dataset] = generations[job[k].dataset] + 1
    BY <1>1, <1>4 DEF ConfirmReset, TypeInv, TypeOK
<1>5. job[k].generation = generations'[job[k].dataset]
    BY <1>2 DEF Withdrawn
<1> QED BY <1>1, <1>3, <1>4, <1>5 DEF Withdrawn

HeldNow(w) ==
    Works(w) /\ ~Withdrawn(claim[w].job) =>
        Held(target[claim[w].job][claim[w].episode], claim[w], w, executions[claim[w]])

LEMMA HeldStep ==
    ASSUME LabelInv, SlotsHeldInv, InTime, [Next]_vars, NEW w \in Workers, HeldNow(w)
    PROVE  HeldNow(w)'
<1>0. /\ TypeInv /\ FencesOK /\ LockOK /\ WorkOK /\ ResetsOK /\ OwnersOK
      /\ Works(w) => SlotHeld(w)
      /\ Lease \in Nat \ {0} /\ Offset \in [Workers -> Int]
    BY ConstantsAssumption DEF LabelInv, QueueInv, SlotsHeldInv
<1>1. ASSUME NEW j \in Jobs, NEW e \in Episodes, Take(w, j, e) PROVE HeldNow(w)'
    <2>1. /\ claim'[w].job = j /\ claim'[w].episode = e /\ claim'[w].fence = target[j][e].fence + 1
          /\ executions'[claim'[w]] = Lease + Offset[w]
          /\ target'[j][e] = Taken(target[j][e], w) /\ target[j][e] \in Target
        BY <1>0, <1>1, ClaimTaken
    <2>2. /\ target'[j][e].fence = target[j][e].fence + 1 /\ target[j][e].fence \in Nat
          /\ target'[j][e].status = "running" /\ target'[j][e].owner = w
          /\ target'[j][e].left = Lease + Offset[w]
        BY <2>1 DEF Taken, Target
    <2> QED BY <2>1, <2>2 DEF HeldNow, Held
<1>2. CASE /\ Works(w)' /\ Works(w) /\ claim'[w] = claim[w] /\ ~Withdrawn(claim[w].job)'
    <2> DEFINE c == claim[w]
               k == claim[w].job
               f == claim[w].episode
               t == target[k][f]
    <2>1. /\ k \in Submitted /\ f \in Episodes /\ c \in Claim /\ t \in Target
          /\ c \in DOMAIN executions /\ executions[c] \in Int
          /\ executions[c] >= Lease + Offset[w] - 1
        <3>1. k \in Submitted /\ f \in Episodes
            BY <1>0, <1>2 DEF SlotHeld, FencesOK
        <3> QED BY <1>0, <1>2, <3>1, JobOf DEF SlotHeld, TypeInv, TypeOK
    <2>2. /\ ~Withdrawn(k)
          /\ \A p \in 1 .. MaxPreviews : ~(ConfirmReset(p) /\ previews[p].dataset = job[k].dataset)
        BY <1>0, <1>2, <2>1, WithdrawnStays
    <2>3. Held(t, c, w, executions[c])
        BY <1>2, <2>2 DEF HeldNow
    <2>4. c \in DOMAIN executions' /\ (~Tick /\ ~Heartbeat(w) => executions'[c] = executions[c])
        BY <1>0, <1>2, SlotMoves
    <2>5. \A v \in Workers : ~Expired(executions[c], v)
        BY <1>0, <2>1 DEF InTime, Expired
    <2>6. \A v \in Workers \ {w} : claim[v] # c /\
              (claim[v].job = k /\ claim[v].episode = f => claim[v].fence # c.fence)
        BY <1>0, <1>2 DEF OwnersOK, FencesOK, SlotHeld
    <2>7. CASE Tick
        <3>1. target'[k][f] = [t EXCEPT !.left = Elapse(t.left)]
            BY <2>1, <2>7, <1>0, JobOf DEF Tick
        <3>2. executions'[c] = Elapse(executions[c])
            BY <2>1, <2>7 DEF Tick
        <3> HIDE DEF c, t
        <3>3. Held([t EXCEPT !.left = Elapse(t.left)], c, w, Elapse(executions[c]))
            BY <2>1, <2>3 DEF Held, Target
        <3>4. Held(target'[k][f], c, w, executions'[c])
            BY <3>1, <3>2, <3>3
        <3> QED BY <1>2, <3>4 DEF HeldNow, c
    <2>8. CASE Heartbeat(w)
        <3>1. CASE t.fence = c.fence
            <4>1. ValidClaim(w)
                <5>1. job[k].status \notin Terminal
                    BY <1>0, <2>1, <2>3, <3>1 DEF WorkOK, Accounted, Open, Held
                <5> QED BY <1>0, <1>2, <2>1, <2>2, <2>3, <2>5, <3>1, <5>1
                        DEF ValidClaim, Active, Held, OwnersOK, SlotHeld, Expired
            <4>2. target' = Renewed(c, Lease + Offset[w])
                BY <2>8, <4>1 DEF Heartbeat, InTime
            <4>3. target'[k][f] = [t EXCEPT !.left = Lease + Offset[w]]
                BY <1>0, <2>1, <4>2, JobOf DEF Renewed, TypeInv, TypeOK
            <4>4. executions'[c] = Lease + Offset[w]
                BY <2>1, <2>8 DEF Heartbeat
            <4> HIDE DEF c, t
            <4>5. Held([t EXCEPT !.left = Lease + Offset[w]], c, w, Lease + Offset[w])
                BY <2>1, <2>3 DEF Held, Target
            <4>6. Held(target'[k][f], c, w, executions'[c])
                BY <4>3, <4>4, <4>5
            <4> QED BY <1>2, <4>6 DEF HeldNow, c
        <3>2. CASE t.fence # c.fence
            <4>1. UNCHANGED target
                BY <2>8, <3>2 DEF Heartbeat, ValidClaim
            <4>2. Held(target'[k][f], c, w, executions'[c])
                BY <2>3, <3>2, <4>1 DEF Held
            <4> QED BY <1>2, <4>2 DEF HeldNow
        <3> QED BY <3>1, <3>2
    <2>9. CASE ~Tick /\ ~Heartbeat(w)
        <3> DEFINE left == executions[c]
        <3> SUFFICES Held(target'[k][f], c, w, left)
            BY <1>2, <2>4, <2>9 DEF HeldNow
        <3>0. executions'[c] = left /\ left \in Int
            BY <2>1, <2>4, <2>9
        <3>9. /\ \A u \in {Cancelled(t), Retried(t)} : Held(u, c, w, left)
              /\ \A application : Held([t EXCEPT !.application = application], c, w, left)
              /\ t.fence # c.fence => \A v \in Workers : Held(Taken(t, v), c, w, left)
              /\ t.fence # c.fence =>
                    \A mode, outcome : Held(Published(t, mode, outcome), c, w, left)
              /\ t.fence # c.fence => \A x \in Int : Held([t EXCEPT !.left = x], c, w, left)
            <4> HIDE DEF c, t
            <4> QED BY <2>1, <2>3, <3>0, HeldMoves
        <3>1. CASE JobSame(k)
            BY <2>3, <3>1 DEF JobSame
        <3>2. ASSUME NEW v \in Workers, Heartbeat(v) PROVE Held(target'[k][f], c, w, left)
            <4>1. v # w
                BY <2>9, <3>2
            <4>2. \/ target'[k][f] = t
                  \/ /\ ValidClaim(v) /\ claim[v].job = k /\ claim[v].episode = f
                     /\ \E x \in Int : target'[k][f] = [t EXCEPT !.left = x]
                <5>1. \/ UNCHANGED target
                      \/ ValidClaim(v) /\ \E x \in Int : target' = Renewed(claim[v], x)
                    BY <1>0, <3>2 DEF Heartbeat
                <5>2. ASSUME NEW x \in Int, target' = Renewed(claim[v], x)
                      PROVE  target'[k][f] = IF claim[v].job = k /\ claim[v].episode = f
                                             THEN [t EXCEPT !.left = x] ELSE t
                    BY <1>0, <2>1, <5>2, JobOf DEF Renewed, TypeInv, TypeOK
                <5> QED BY <5>1, <5>2
            <4>3. ASSUME ValidClaim(v), claim[v].job = k, claim[v].episode = f
                  PROVE  t.fence # c.fence
                BY <2>6, <4>1, <4>3 DEF ValidClaim
            <4> HIDE DEF c, t
            <4> QED BY <2>3, <3>9, <4>2, <4>3
        <3>3. ASSUME NEW v \in Workers, NEW e \in Episodes, Take(v, k, e)
              PROVE  Held(target'[k][f], c, w, left)
            <4>1. target'[k] = [target[k] EXCEPT ![e] = Taken(target[k][e], v)]
                BY <1>0, <2>1, <3>3, TakeEffect
            <4>2. target[k] \in [Episodes -> Target]
                BY <1>0, <2>1, JobOf
            <4>3. CASE e # f
                BY <2>1, <2>3, <4>1, <4>2, <4>3
            <4>4. CASE e = f
                <5>1. t.status = "queued" \/ Expired(t.left, v)
                    BY <3>3, <4>4 DEF Take, Takeable, Ready
                <5>2. t.fence # c.fence
                    BY <2>3, <2>5, <5>1 DEF Held
                <5>3. target'[k][f] = Taken(t, v)
                    BY <4>1, <4>2, <4>4
                <5> QED BY <3>9, <5>2, <5>3
            <4> QED BY <4>3, <4>4
        <3>4. ASSUME NEW v \in Workers, NEW outcome \in Verdicts \cup {"error"},
                     Publish(v, outcome), ValidClaim(v), claim[v].job = k
              PROVE  Held(target'[k][f], c, w, left)
            <4>1. target'[k] = [target[k] EXCEPT ![claim[v].episode] =
                                   Published(target[k][claim[v].episode], job[k].mode, outcome)]
                BY <1>0, <2>1, <3>4, PublishEffect
            <4>2. target[k] \in [Episodes -> Target]
                BY <1>0, <2>1, JobOf
            <4>3. v # w
                BY <1>0, <1>2, <3>4 DEF Publish, Works, TypeInv, TypeOK
            <4>4. CASE claim[v].episode # f
                BY <2>1, <2>3, <4>1, <4>2, <4>4
            <4>5. CASE claim[v].episode = f
                <5>1. t.fence # c.fence
                    BY <2>6, <3>4, <4>3, <4>5 DEF ValidClaim
                <5>2. target'[k][f] = Published(t, job[k].mode, outcome)
                    BY <2>1, <4>1, <4>2, <4>5
                <5> QED BY <3>9, <5>1, <5>2
            <4> QED BY <4>4, <4>5
        <3>5. CASE Cancel(k)
            <4>1. target'[k][f] = Cancelled(t)
                BY ZenonT(60), <1>0, <2>1, <3>5, CancelEffect
            <4> QED BY <3>9, <4>1
        <3>6. CASE Retry(k)
            <4>1. target'[k][f] = Retried(t)
                BY <1>0, <2>1, <3>6, RetryEffect
            <4> QED BY <3>9, <4>1
        <3>7. ASSUME NEW es \in SUBSET Episodes, RequestApplication(k, es)
              PROVE  Held(target'[k][f], c, w, left)
            <4>1. target'[k][f] \in {t, [t EXCEPT !.application = "queued"]}
                <5>1. target'[k] = Requested(k, es)
                    BY <1>0, <2>1, <3>7, RequestEffect
                <5> QED BY <2>1, <5>1 DEF Requested
            <4> QED BY ZenonT(60), <2>3, <3>9, <4>1
        <3>8. ASSUME NEW v \in Workers, ApplyCommit(v), lock = v, body[v].job = k
              PROVE  Held(target'[k][f], c, w, left)
            <4>1. target'[k] = [target[k] EXCEPT ![body[v].episode] =
                        [target[k][body[v].episode] EXCEPT !.application = body[v].outcome]]
                BY <1>0, <2>1, <3>8, CommitEffect
            <4>2. target[k] \in [Episodes -> Target]
                BY <1>0, <2>1, JobOf
            <4>3. target'[k][f] \in {t, [t EXCEPT !.application = body[v].outcome]}
                BY <2>1, <4>1, <4>2
            <4> QED BY <2>3, <3>9, <4>3
        <3> QED BY <1>0, <2>1, <2>2, <2>9, <3>1, <3>2, <3>3, <3>4, <3>5, <3>6, <3>7, <3>8, RecordSteps
    <2> QED BY <2>7, <2>8, <2>9
<1> QED BY <1>0, <1>1, <1>2, WorkMoves DEF HeldNow

HeldOK == \A w \in Workers : HeldNow(w)
ClaimsHeldInv == LabelInv /\ SlotsHeldInv /\ HeldOK

\* As long as leases are renewed in time, finished inference is only thrown
\* away after a person stopped or withdrew its job: the lease of a working
\* claim is never found expired and nobody takes its target over.
THEOREM TimelyClaimsAreKept ==
    ASSUME InTime
    PROVE  Spec => []TimelyClaimKept
<1>1. Init => HeldOK
    BY DEF Init, HeldOK, HeldNow, Works
<1>2. ASSUME LabelInv, SlotsHeldInv, HeldOK, [Next]_vars PROVE HeldOK'
    BY <1>2, HeldStep DEF HeldOK
<1>3. ASSUME ClaimsHeldInv PROVE TimelyClaimKept
    <2> SUFFICES ASSUME NEW w \in Workers, Works(w), Active(claim[w].job),
                        target[claim[w].job][claim[w].episode].status = "running",
                        target[claim[w].job][claim[w].episode].fence <= claim[w].fence + 1
                 PROVE  ValidClaim(w)
        BY DEF TimelyClaimKept, Works
    <2> DEFINE c == claim[w]
               t == target[c.job][c.episode]
    <2>1. /\ SlotHeld(w) /\ Held(t, c, w, executions[c]) /\ c.owner = w /\ c.job \in Submitted
          /\ c.episode \in Episodes /\ c \in Claim
        BY <1>3 DEF ClaimsHeldInv, SlotsHeldInv, HeldOK, HeldNow, OwnersOK, Active, LabelInv, QueueInv,
                    FencesOK, SlotHeld, TypeInv, TypeOK
    <2>2. t.fence \in Nat /\ c.fence \in Nat
        BY <1>3, <2>1, JobOf DEF ClaimsHeldInv, LabelInv, QueueInv, Target, Claim
    <2>3. t.fence = c.fence /\ t.owner = w /\ t.left = executions[c]
        BY <2>1, <2>2 DEF Held
    <2>4. t.left > Offset[w]
        <3>1. executions[c] \in Int /\ Lease \in Int /\ Offset \in [Workers -> Int]
            BY <1>3, <2>1, ConstantsAssumption
               DEF SlotHeld, ClaimsHeldInv, LabelInv, QueueInv, TypeInv, TypeOK
        <3> QED BY <2>1, <2>3, <3>1 DEF SlotHeld, InTime
    <2> QED BY <2>1, <2>3, <2>4 DEF ValidClaim, SlotHeld
<1> QED BY <1>1, <1>2, <1>3, LabelInvariant, SlotsHeldInvariant, PTL DEF Spec, ClaimsHeldInv
=============================================================================
