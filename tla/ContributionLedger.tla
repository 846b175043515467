------------------------ MODULE ContributionLedger ------------------------
(***************************************************************************)
(* Who owns the values of one episode in a label file.  People, judge runs *)
(* and promotions contribute values to fields; the file shows one value    *)
(* per field.  Source: ContributionLedger and DatasetLabelsFile            *)
(* (physical_ai_curation/models.py), plan_withdrawal (storage.py),         *)
(* apply_judge_result (application.py) and the handlers of the viewer that *)
(* write labels (api/routers/labels.py).  Each of them loads the file,     *)
(* changes it and saves it under the revision it loaded, so each is one    *)
(* step here; one that raises saves nothing and is no step.                *)
(***************************************************************************)
EXTENDS Naturals, Sequences, FiniteSets

CONSTANTS
    Authors,       \* people, as principal.scope_id or as actor of a job
    NoOne,         \* no author: None as human_author_id or author_id
    Outcomes,      \* the built-in labels
    Findings,      \* values an analysis field may have
    None,          \* an analysis field without a value
    Analysis,      \* the analysis field that is modelled
    Tag,           \* the label that promoting a finding gives
    Runs,          \* judge runs, named by their place in the run order
    Judges,        \* runs that judge the outcome; the others give findings
    Actor,         \* who submitted each run
    MaxContributions,  \* bound: contributions in the ledger
    MaxUnattributed    \* bound: contributions that come from no run

Tags == {Tag[v] : v \in Findings}
Labels == Outcomes \cup Tags
Fields == Labels \cup {Analysis}

ASSUME LedgerAssumption ==
    /\ NoOne \notin Authors /\ None \notin Findings
    /\ Analysis \notin Labels /\ Outcomes \cap Tags = {}
    /\ \A u, v \in Findings : Tag[u] = Tag[v] => u = v
    /\ Runs \subseteq Nat \ {0} /\ Judges \subseteq Runs
    /\ Actor \in [Runs -> Authors]
    /\ MaxContributions \in Nat /\ MaxUnattributed \in Nat

(* A label that is not there is FALSE, and so is one that resolves to None. *)
Absent(f) == IF f \in Labels THEN FALSE ELSE None
Values(f) == IF f \in Labels THEN BOOLEAN ELSE Findings \cup {None}

(* The file: `items` holds the contributions by field, in the order of     *)
(* their sequence numbers; a contribution is named by its field and its    *)
(* place.  `withdrawn` are the tombstones.  `shown` is the document's      *)
(* episodes[key] and analysis[key].                                        *)
VARIABLE file

Data == BOOLEAN \cup Findings \cup {None}
Item == [origin : {"human", "machine", "legacy-unknown"},
         author : Authors \cup {NoOne},
         run : Runs \cup {0},      \* 0: no machine provenance
         value : Data,
         source : Nat]             \* place in Analysis of what it is derived from, or 0

Ids(F) == UNION {{<<f, i>> : i \in DOMAIN F.items[f]} : f \in Fields}
ItemAt(F, x) == F.items[x[1]][x[2]]

(* Contribution.validate_origin, and what derive takes from its source. *)
Fits(F, f, i) ==
    LET item == F.items[f][i]
    IN  /\ item.value \in Values(f)
        /\ item.origin = "human" <=> item.author # NoOne
        /\ item.origin = "machine" <=> item.run # 0
        /\ item.source # 0 =>
              /\ f \in Tags
              /\ item.source \in DOMAIN F.items[Analysis]
              /\ item.origin = F.items[Analysis][item.source].origin
              /\ item.author = F.items[Analysis][item.source].author
              /\ item.run = F.items[Analysis][item.source].run

(* Types, and ContributionLedger.validate_references. *)
WellFormed(F) ==
    /\ F \in [items : [Fields -> Seq(Item)], withdrawn : SUBSET (Fields \X Nat),
               shown : [Fields -> Data]]
    /\ F.withdrawn \subseteq Ids(F)
    /\ \A f \in Fields : F.shown[f] \in Values(f)
    /\ \A f \in Fields : \A i \in DOMAIN F.items[f] : Fits(F, f, i)

TypeOK == WellFormed(file)

-----------------------------------------------------------------------------
(* resolve *)

Active(F, f) == {i \in DOMAIN F.items[f] : <<f, i>> \notin F.withdrawn}
Human(F, f) == {i \in Active(F, f) : F.items[f][i].origin = "human"}
HumanAuthors(F, f) == {F.items[f][i].author : i \in Human(F, f)}

(* resolve raises when nobody is chosen among several authors, or when the *)
(* chosen one has no contribution of their own while others have.          *)
Resolvable(F, f, a) ==
    IF a = NoOne THEN \A x, y \in HumanAuthors(F, f) : x = y
                 ELSE HumanAuthors(F, f) # {} => a \in HumanAuthors(F, f)

Scoped(F, f, a) == {i \in Human(F, f) : a \in {NoOne, F.items[f][i].author}}
Last(S) == CHOOSE i \in S : \A j \in S : j <= i

(* The later run wins; what has no run loses to any and is ordered by its  *)
(* place.  Two contributions of one run to one field do not occur.         *)
OutranksByPlace(F, f, i, j) == j <= i
Outranks(F, f, i, j) ==
    \/ F.items[f][i].run > F.items[f][j].run
    \/ F.items[f][i].run = F.items[f][j].run /\ j <= i

WinnerIsLatest(F, f, a) ==
    IF Active(F, f) = {} THEN 0 ELSE Last(Active(F, f))
Winner(F, f, a) ==
    LET active == Active(F, f)
    IN  IF Human(F, f) # {} THEN Last(Scoped(F, f, a))
        ELSE IF active = {} THEN 0
        ELSE CHOOSE i \in active : \A j \in active : Outranks(F, f, i, j)

Origin(F, f, a) ==
    LET winner == Winner(F, f, a)
    IN  IF winner = 0 THEN "legacy-unknown" ELSE F.items[f][winner].origin
Value(F, f, a) ==
    LET winner == Winner(F, f, a)
    IN  IF F.items[f] = <<>> THEN F.shown[f]
        ELSE IF winner = 0 THEN Absent(f) ELSE F.items[f][winner].value

(* materialize_episode resolves every field for one author. *)
Materializable(F, a) == \A f \in Fields : Resolvable(F, f, a)
Materialize(F, a) == [F EXCEPT !.shown = [f \in Fields |-> Value(F, f, a)]]

-----------------------------------------------------------------------------
(* record_changes, derive, withdraw *)

(* The identity of a machine contribution is its run and field. *)
RecordedBy(F, r, f) ==
    {i \in DOMAIN F.items[f] : F.items[f][i].run = r /\ F.items[f][i].source = 0}
Immutable(F, current, run) ==
    \A f \in DOMAIN current : \A i \in RecordedBy(F, run, f) :
        run # 0 => F.items[f][i].value = current[f]

Changed(F, previous, current, run) ==
    {f \in DOMAIN current :
        IF run # 0 THEN RecordedBy(F, run, f) = {}
                   ELSE f \in DOMAIN previous => previous[f] # current[f]}

(* The first contribution to a field that shows a value keeps that value.  *)
LegacyItems(F, previous, f) ==
    IF f \in DOMAIN previous /\ F.items[f] = <<>>
    THEN <<[origin |-> "legacy-unknown", author |-> NoOne, run |-> 0,
            value |-> previous[f], source |-> 0]>>
    ELSE <<>>

RecordInPlace(F, previous, current, author, origin, run) ==
    [F EXCEPT !.items = [f \in Fields |->
        LET new == [origin |-> origin, author |-> IF origin = "human" THEN author ELSE NoOne,
                    run |-> run, value |-> current[f], source |-> 0]
        IN  IF f \notin Changed(F, previous, current, run) THEN F.items[f]
            ELSE IF F.items[f] = <<>> THEN LegacyItems(F, previous, f) \o <<new>>
            ELSE [F.items[f] EXCEPT ![Len(F.items[f])] = new]]]
RecordChanges(F, previous, current, author, origin, run) ==
    [F EXCEPT !.items = [f \in Fields |->
        IF f \in Changed(F, previous, current, run)
        THEN F.items[f] \o LegacyItems(F, previous, f) \o
             <<[origin |-> origin, author |-> IF origin = "human" THEN author ELSE NoOne,
                run |-> run, value |-> current[f], source |-> 0]>>
        ELSE F.items[f]]]

(* derive keeps the ownership of its source, contribution src of Analysis. *)
DerivedByHand(F, src) ==
    [F.items[Analysis][src] EXCEPT !.value = TRUE, !.source = src, !.origin = "human"]
Derived(F, src) ==
    [F.items[Analysis][src] EXCEPT !.value = TRUE, !.source = src]
Derive(F, src, f) ==
    IF \E i \in DOMAIN F.items[f] : F.items[f][i].source = src
    THEN F
    ELSE [F EXCEPT !.items[f] = Append(@, Derived(F, src))]

(* withdraw also retires what is derived from a tombstone. *)
RetireOnly(F, ids) == [F EXCEPT !.withdrawn = @ \cup ids]
Retire(F, ids) ==
    LET retired == F.withdrawn \cup ids
    IN  [F EXCEPT !.withdrawn = retired \cup
            {x \in Ids(F) : /\ ItemAt(F, x).source # 0
                            /\ <<Analysis, ItemAt(F, x).source>> \in retired}]

-----------------------------------------------------------------------------
(* plan_withdrawal *)

(* A blocked field gets its contributions back, but none that was already  *)
(* withdrawn.                                                              *)
TombstonesPerEpisode(F, after, blocked) ==
    {x \in after.withdrawn : x \in F.withdrawn \/ blocked = {}}
Tombstones(F, after, blocked) ==
    {x \in after.withdrawn : x \in F.withdrawn \/ x[1] \notin blocked}

(* The contributions of the runs R and what was derived from them go.  A   *)
(* field whose visible value they gave (`losing`) takes the value that is  *)
(* left, with two exceptions.  It keeps its contributions if a run that is *)
(* not covered would win: conflict unlisted_machine_run (`blocked`).  And  *)
(* a label that was there before any run (legacy_value_restored) is not    *)
(* written back: the code does that in namespace "analysis" only.          *)
Plan(F, R) ==
    LET after == Retire(F, {x \in Ids(F) : ItemAt(F, x).run \in R})
        covered == after.withdrawn \ F.withdrawn
        left == [f \in Fields |-> Value(after, f, NoOne)]
        losing == {f \in Fields :
            /\ <<f, Winner(F, f, NoOne)>> \in covered
            /\ Resolvable(F, f, NoOne) /\ Resolvable(after, f, NoOne)
            /\ Origin(F, f, NoOne) # "human"
            /\ \E v \in {F.shown[f], Value(F, f, NoOne), left[f]} : v # Absent(f)}
        blocked == {f \in losing : Origin(after, f, NoOne) = "machine"}
        restored == {f \in losing \cap Labels :
            Origin(after, f, NoOne) = "legacy-unknown" /\ left[f] # Absent(f)}
    IN  [F EXCEPT
            !.withdrawn = Tombstones(F, after, blocked),
            !.shown = [f \in Fields |->
                IF f \in losing \ (blocked \cup restored) THEN left[f] ELSE @[f]]]

-----------------------------------------------------------------------------
(* Operations *)

(* Any file that was written before contributions were tracked. *)
Init ==
    \E legacy \in SUBSET Labels, v \in Findings \cup {None} :
        file = [items |-> [f \in Fields |-> <<>>],
                withdrawn |-> {},
                shown |-> [f \in Fields |-> IF f = Analysis THEN v ELSE f \in legacy]]

Bounded(F) ==
    /\ Cardinality(Ids(F)) <= MaxContributions
    /\ Cardinality({x \in Ids(F) : ItemAt(F, x).run = 0}) <= MaxUnattributed

SaveMaterialized(F, a) ==
    Bounded(F) /\ Materializable(F, a) /\ file' = Materialize(F, a)

ShownLabels == {l \in Labels : file.shown[l]}

(* PUT episodes/{i}/labels: author a replaces the labels by S. *)
SetLabels(a, S, origin) ==
    SaveMaterialized(
        RecordChanges(file, [l \in ShownLabels |-> TRUE],
                      [l \in ShownLabels \cup S |-> l \in S], a, origin, 0), a)

(* PUT episodes/{i}/analysis: author a sets or clears the field. *)
SetAnalysis(a, v, origin) ==
    SaveMaterialized(
        RecordChanges(file, [f \in {Analysis} |-> file.shown[f]],
                      [f \in {Analysis} |-> v], a, origin, 0), a)

(* apply_judge_result, for outcomes and for findings; a retry of an        *)
(* application whose save was not committed comes back with the same run.  *)
ApplyValues(r, current) ==
    /\ Immutable(file, current, r)
    /\ SaveMaterialized(
           RecordChanges(file, [f \in DOMAIN current |-> file.shown[f]], current,
                         Actor[r], "machine", r), Actor[r])

ApplyOutcome(r, outcome) == ApplyValues(r, [l \in Outcomes |-> l = outcome])
ApplyFindings(r, v) == ApplyValues(r, [f \in {Analysis} |-> v])

(* POST labels/import-from-analysis, in two parts.  First the value of the *)
(* analysis field is resolved for the author, and a value that nobody owns *)
(* is recorded, for it to be a source.                                     *)
WithSource(F, a) ==
    IF F.items[Analysis] = <<>>
    THEN RecordChanges(F, <<>>, [f \in {Analysis} |-> F.shown[f]], a, "legacy-unknown", 0)
    ELSE F

(* Then stale tags are retired (if `overwrite`) and the generated one is   *)
(* derived and accepted; accept raises for a tombstone.                    *)
StaleTags(F, a, generated) ==
    {l \in (ShownLabels \cap Tags) \ generated : Origin(F, l, a) # "human"}

Promote(a, overwrite) ==
    LET value == Value(file, Analysis, a)
        F == IF value = None THEN file ELSE WithSource(file, a)
        generated == IF value = None THEN {} ELSE {Tag[value]}
        removed == IF overwrite THEN StaleTags(F, a, generated) ELSE {}
        cleared == Retire(F, {x \in Ids(F) : x[1] \in removed /\ ItemAt(F, x).origin # "human"})
        src == Winner(F, Analysis, a)
        hidden == [cleared EXCEPT !.shown = [f \in Fields |->
                        IF f \in removed THEN FALSE ELSE @[f]]]
        derived == IF value = None THEN hidden ELSE Derive(hidden, src, Tag[value])
    IN  /\ Resolvable(file, Analysis, a)
        /\ generated # {} \/ ShownLabels # {}
        /\ overwrite => \A l \in (ShownLabels \cap Tags) \ generated : Resolvable(F, l, a)
        /\ \A l \in generated : \A i \in DOMAIN derived.items[l] :
               derived.items[l][i].source = src => <<l, i>> \notin derived.withdrawn
        /\ SaveMaterialized(derived, a)

(* DELETE labels/options/{label}, for a label that is not built in. *)
DeleteOptionOnly(l) ==
    file' = Retire(file, {x \in Ids(file) : x[1] = l})
DeleteOption(l) ==
    LET F == Retire(file, {x \in Ids(file) : x[1] = l})
    IN  file' = [F EXCEPT !.shown[l] = FALSE]

(* reset_once publishes the projection for the runs that it covers: those  *)
(* the job document lists and, if asked for, the unlisted ones.            *)
Withdraw(R) == file' = Plan(file, R)

Next ==
    \/ \E a \in Authors, origin \in {"human", "legacy-unknown"} :
          \/ \E S \in SUBSET Labels : SetLabels(a, S, origin)
          \/ \E v \in Findings \cup {None} : SetAnalysis(a, v, origin)
    \/ \E r \in Judges, outcome \in Outcomes : ApplyOutcome(r, outcome)
    \/ \E r \in Runs \ Judges, v \in Findings : ApplyFindings(r, v)
    \/ \E a \in Authors, overwrite \in BOOLEAN : Promote(a, overwrite)
    \/ \E l \in Tags : DeleteOption(l)
    \/ \E R \in SUBSET Runs : Withdraw(R)

Spec == Init /\ [][Next]_file

-----------------------------------------------------------------------------
(* Properties *)

(* As long as one person has edited a field, it shows what that person     *)
(* last said, whatever runs are applied, replayed, promoted and withdrawn  *)
(* and whoever else edits other fields: materialize_episode resolves all   *)
(* fields anew on every write, under the author of that write.             *)
OwnedValuesShown ==
    \A f \in Fields, a \in Authors :
        HumanAuthors(file, f) = {a} =>
            file.shown[f] = file.items[f][Last(Human(file, f))].value

(* Where nobody has edited, the latest run that is in force is shown, in   *)
(* whatever order runs were applied, came back and were withdrawn.         *)
LatestRunShown ==
    \A f \in Fields : \A i \in Active(file, f) :
        /\ Human(file, f) = {}
        /\ file.items[f][i].run # 0
        /\ \A j \in Active(file, f) : file.items[f][j].run <= file.items[f][i].run
        => file.shown[f] = file.items[f][i].value

(* What the file shows of a field that has contributions is what somebody  *)
(* would be shown by resolve: a withdrawn, retired or overruled value does *)
(* not stay visible.                                                       *)
ShownIsResolved ==
    \A f \in Fields :
        \/ file.items[f] = <<>>
        \/ file.shown[f] = Absent(f)
        \/ \E a \in Authors \cup {NoOne} :
              Resolvable(file, f, a) /\ file.shown[f] = Value(file, f, a)

(* A value that was promoted from a finding goes when the finding is       *)
(* withdrawn; it stays only while a run that was not covered contributes   *)
(* to the same field, which the withdrawal reports as a conflict.          *)
DerivedFollowsSource ==
    \A f \in Fields : \A i \in Active(file, f) :
        /\ file.items[f][i].source # 0
        /\ <<Analysis, file.items[f][i].source>> \in file.withdrawn
        => \E j \in Active(file, f) : file.items[f][j].run \notin {0, file.items[f][i].run}

(* ContributionLedger.withdraw keeps tombstones "so subsequent resets      *)
(* cannot revive withdrawn values", and a contribution is never rewritten. *)
HistoryKept ==
    [][/\ file.withdrawn \subseteq file'.withdrawn
       /\ \A x \in Ids(file) : x \in Ids(file') /\ ItemAt(file', x) = ItemAt(file, x)]_file

(* A withdrawal of runs R keeps a contribution of theirs only where a run  *)
(* that is not covered contributed too, and changes no value but one that  *)
(* R gave, or a run that was withdrawn before and was kept back then as a  *)
(* conflict.  In particular no machine value is left when the unlisted     *)
(* runs are covered as well.                                               *)
WithdrawalExact ==
    \A R \in SUBSET Runs :
        LET F == Plan(file, R)
        IN  \A f \in Fields :
                /\ (\E i \in Active(F, f) : F.items[f][i].run \in R) =>
                      \E j \in Active(F, f) : F.items[f][j].run \in Runs \ R
                /\ F.shown[f] # file.shown[f] =>
                      /\ Human(file, f) = {}
                      /\ LET winner == file.items[f][Winner(file, f, NoOne)]
                         IN  \/ winner.run \in R
                             \/ <<Analysis, winner.source>> \in file.withdrawn

(* What storage.py says of a withdrawal: "The pre-existing unprovenanced   *)
(* value is restored rather than guessed removable."                       *)
LegacyLabelsRestored ==
    \A l \in Labels :
        /\ file.items[l] # <<>>
        /\ Human(file, l) = {}
        /\ Origin(file, l, NoOne) = "legacy-unknown"
        => file.shown[l] = Value(file, l, NoOne)
=============================================================================
