-------------------------- MODULE CheckpointUpload --------------------------
(***************************************************************************)
(* How the training wrapper (training/il/scripts/lerobot/train.py and      *)
(* checkpoints.py, Azure ML backend) registers the checkpoints of a run:   *)
(* a scan from time to time while the trainer writes them, one when it has *)
(* ended, one more out of the signal handler, wherever that interrupts the *)
(* wrapper, and the final registration of the newest one.                  *)
(***************************************************************************)
EXTENDS Naturals, Sequences, FiniteSets, FiniteSetsExt

CONSTANTS
    Steps,           \* bound: checkpoints 1 .. Steps, by training step
    Attempts,        \* _AML_REGISTER_MAX_ATTEMPTS
    MaxSignals,      \* bound: signals
    MaxErrors        \* bound: calls that fail, or whose answer is lost

ASSUME UploadAssumption ==
    /\ Steps \in Nat /\ Attempts \in Nat \ {0}
    /\ MaxSignals \in Nat /\ MaxErrors \in Nat

Checkpoints == 1..Steps

VARIABLES
    disk,            \* each directory: "absent", "empty", "partial" or "complete"
    trainer,         \* "running", "done", "failed" or "killed"
    wrapper,         \* "scanning", "ending", "final" or "ended"
    frames,          \* uploads under way; the last one runs, signals push
    uploaded,        \* uploaded_checkpoints
    registered,      \* checkpoints tagged checkpoint_<step>_registered
    versions,        \* how many model versions of each checkpoint there are
    excuses,         \* lost answers, lost tags and interruptions of each
    result,          \* exit code: "none", "success" or "failure"
    signals, errors  \* how many there were

uploadVars == <<disk, trainer, wrapper, frames, uploaded, registered, versions,
                excuses, result, signals, errors>>

UploadInit ==
    /\ disk = [c \in Checkpoints |-> "absent"] /\ trainer = "running"
    /\ wrapper = "scanning" /\ frames = <<>>
    /\ uploaded = {} /\ registered = {}
    /\ versions = [c \in Checkpoints |-> 0] /\ excuses = [c \in Checkpoints |-> 0]
    /\ result = "none" /\ signals = 0 /\ errors = 0

-----------------------------------------------------------------------------
(* The trainer (external)                                                  *)

(* It makes a directory, begins to write the weights and ends it.          *)
Grown == [absent |-> "empty", empty |-> "partial", partial |-> "complete"]
Write ==
    /\ trainer = "running"
    /\ \E c \in Checkpoints :
          /\ disk[c] # "complete" /\ \A b \in 1..(c - 1) : disk[b] = "complete"
          /\ disk' = [disk EXCEPT ![c] = Grown[@]]
    /\ UNCHANGED <<trainer, wrapper, frames, uploaded, registered, versions, excuses,
                   result, signals, errors>>

Exit ==
    /\ trainer = "running"
    /\ \/ trainer' = "failed"
       \/ (\A c \in Checkpoints : disk[c] \in {"absent", "complete"}) /\ trainer' = "done"
    /\ UNCHANGED <<disk, wrapper, frames, uploaded, registered, versions, excuses,
                   result, signals, errors>>

-----------------------------------------------------------------------------
(* upload_new_checkpoints *)

(* A frame: the directories it has still to look at, the one it is at,     *)
(* what it does next and how often it has tried.                           *)
Frame(left, c, at) == [left |-> left, at |-> at, cur |-> c, tries |-> 0]
Listed == {c \in Checkpoints : disk[c] # "absent"}
Scan == Frame(Listed, 0, "next")

Top == frames[Len(frames)]
Running(at) == frames # <<>> /\ Top.at = at
SetTop(f) == frames' = [frames EXCEPT ![Len(frames)] = f]
Pop == frames' = SubSeq(frames, 1, Len(frames) - 1)

(* The next directory that was not uploaded and has weights; log_artifacts *)
(* may fail and changes nothing of this.                                   *)
New(c) == c \notin uploaded /\ disk[c] \in {"partial", "complete"}
Select ==
    /\ Running("next")
    /\ IF Top.left = {} THEN Pop
       ELSE LET c == Min(Top.left)
                rest == Top.left \ {c}
            IN  SetTop(IF New(c) THEN Frame(rest, c, "register") ELSE Frame(rest, 0, "next"))
    /\ UNCHANGED <<disk, trainer, wrapper, uploaded, registered, versions, excuses,
                   result, signals, errors>>

(* _create_model_with_retry: an attempt succeeds, fails, or makes a        *)
(* version and loses the answer.  register_final_checkpoint ends here.     *)
Error == errors < MaxErrors /\ errors' = errors + 1
Excuse(c) == excuses' = [excuses EXCEPT ![c] = @ + 1]
AddVersion == versions' = [versions EXCEPT ![Top.cur] = @ + 1]
IsFinal == Len(frames) = 1 /\ wrapper = "final"

Succeed ==
    IF IsFinal THEN Pop /\ wrapper' = "ended" /\ result' = "success"
    ELSE SetTop([Top EXCEPT !.at = "tag"]) /\ UNCHANGED <<wrapper, result>>
Fail ==
    IF IsFinal THEN Pop /\ wrapper' = "ended" /\ result' = "failure"
    ELSE SetTop([Top EXCEPT !.at = "add"]) /\ UNCHANGED <<wrapper, result>>
Again == SetTop([Top EXCEPT !.tries = @ + 1]) /\ UNCHANGED <<wrapper, result>>
TryAgainThenTag == IF Top.tries + 1 < Attempts THEN Again ELSE Succeed
TryAgain == IF Top.tries + 1 < Attempts THEN Again ELSE Fail

(* Without a client or a lineage file it is not even tried.                *)
RegisterModel ==
    /\ Running("register")
    /\ \/ Succeed /\ AddVersion /\ UNCHANGED <<excuses, errors>>
       \/ TryAgain /\ Error /\ UNCHANGED <<versions, excuses>>
       \/ TryAgain /\ Error /\ AddVersion /\ Excuse(Top.cur)
       \/ Top.tries = 0 /\ Fail /\ Error /\ UNCHANGED <<versions, excuses>>
    /\ UNCHANGED <<disk, trainer, uploaded, registered, signals>>

Tag ==
    /\ Running("tag") /\ SetTop([Top EXCEPT !.at = "add"])
    /\ \/ registered' = registered \cup {Top.cur} /\ UNCHANGED <<excuses, errors>>
       \/ Error /\ Excuse(Top.cur) /\ UNCHANGED registered
    /\ UNCHANGED <<disk, trainer, wrapper, uploaded, versions, result, signals>>

(* Uploaded or dropped, it is not looked at again.                         *)
MarkUploaded ==
    /\ Running("add") /\ uploaded' = uploaded \cup {Top.cur}
    /\ SetTop(Frame(Top.left, 0, "next"))
    /\ UNCHANGED <<disk, trainer, wrapper, registered, versions, excuses,
                   result, signals, errors>>

-----------------------------------------------------------------------------
(* run_training and register_final_checkpoint *)

(* A line of output, more than CHECKPOINT_CHECK_INTERVAL after the last.   *)
ScanNow ==
    /\ wrapper = "scanning" /\ frames = <<>>
    /\ Listed # {} /\ frames' = <<Scan>>
    /\ UNCHANGED <<disk, trainer, wrapper, uploaded, registered, versions, excuses,
                   result, signals, errors>>

(* The output has ended, and with it the trainer.                          *)
ScanLast ==
    /\ wrapper = "scanning" /\ frames = <<>> /\ trainer # "running"
    /\ wrapper' = "ending" /\ frames' = <<Scan>>
    /\ UNCHANGED <<disk, trainer, uploaded, registered, versions, excuses,
                   result, signals, errors>>

(* log_metrics fails, which nothing catches: the trainer is left alone.    *)
LogFails ==
    /\ wrapper = "scanning" /\ frames = <<>>
    /\ Error /\ wrapper' = "ended" /\ result' = "failure"
    /\ UNCHANGED <<disk, trainer, frames, uploaded, registered, versions, excuses, signals>>

(* SIGTERM or SIGINT, between any two steps: the trainer's group is killed *)
(* and the handler uploads before what it interrupted goes on.             *)
Interrupted == {frames[i].cur : i \in DOMAIN frames} \ ({0} \cup uploaded)
Signal ==
    /\ wrapper # "ended" /\ signals < MaxSignals /\ signals' = signals + 1
    /\ trainer' = IF trainer = "running" THEN "killed" ELSE trainer
    /\ frames' = Append(frames, Scan)
    /\ excuses' = [c \in Checkpoints |-> excuses[c] + IF c \in Interrupted THEN 1 ELSE 0]
    /\ UNCHANGED <<disk, wrapper, uploaded, registered, versions, result, errors>>

(* Only a run that ended well is registered; its newest checkpoint is left *)
(* alone if it was registered already.  Its tags may not be readable.      *)
Ends(r) == wrapper' = "ended" /\ result' = r /\ UNCHANGED frames
NewestAnyway == {c \in Listed : c = Max(Listed)}
NewestLeft == {c \in Listed : c = Max(Listed)} \ registered
StartFinal ==
    /\ wrapper = "ending" /\ frames = <<>>
    /\ \/ trainer # "done" /\ Ends("failure") /\ UNCHANGED errors
       \/ trainer = "done" /\ NewestLeft = {} /\ Ends("success") /\ UNCHANGED errors
       \/ trainer = "done" /\ Error /\ Ends("failure")
       \/ /\ trainer = "done" /\ wrapper' = "final"
          /\ \E c \in NewestLeft : frames' = <<Frame({}, c, "register")>>
          /\ UNCHANGED <<result, errors>>
    /\ UNCHANGED <<disk, trainer, uploaded, registered, versions, excuses, signals>>

UploadNext ==
    \/ Write \/ Exit
    \/ Select \/ RegisterModel \/ Tag \/ MarkUploaded
    \/ ScanNow \/ LogFails \/ ScanLast \/ Signal \/ StartFinal

UploadSpec == UploadInit /\ [][UploadNext]_uploadVars

-----------------------------------------------------------------------------
(* Properties *)

(* "each checkpoint becomes one model version" (register_final_checkpoint) *)
(* but for each answer and each tag of it that is lost, and each signal    *)
(* that interrupts its upload, which make one more at most.                *)
OneVersionEach == \A c \in Checkpoints : versions[c] <= 1 + excuses[c]

(* When the wrapper reports success, the newest checkpoint is a model.     *)
NewestRegistered ==
    result = "success" => \A c \in Listed : c = Max(Listed) => versions[c] > 0
=============================================================================
