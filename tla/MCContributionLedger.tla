---------------------- MODULE MCContributionLedger ----------------------
(* Constants of the TLC runs of ContributionLedger. *)
EXTENDS ContributionLedger, TLC

CONSTANTS ann, bob, success, failure, red, blue, redTag, blueTag

TagOf == [v \in Findings |-> IF v = red THEN redTag ELSE blueTag]

(* The second run was submitted by another person than the first. *)
ActorOf == [r \in Runs |-> IF r \in {2, 4} THEN bob ELSE ann]

(* A behaviour is about outcome labels, or about the analysis and the      *)
(* labels promoted from it: of the operations only set_labels and a        *)
(* withdrawal could touch both.                                            *)
Untouched(fields) ==
    \A f \in fields : file.items[f] = <<>> /\ file.shown[f] = Absent(f)

OutcomeStep ==
    \/ \E a \in Authors, origin \in {"human", "legacy-unknown"}, S \in SUBSET Outcomes :
          SetLabels(a, S, origin)
    \/ \E r \in Judges, outcome \in Outcomes : ApplyOutcome(r, outcome)
    \/ \E R \in SUBSET Judges : Withdraw(R)

FindingStep ==
    \/ \E a \in Authors, origin \in {"human", "legacy-unknown"} :
          \/ \E S \in SUBSET Tags : SetLabels(a, S, origin)
          \/ \E v \in Findings \cup {None} : SetAnalysis(a, v, origin)
    \/ \E r \in Runs \ Judges, v \in Findings : ApplyFindings(r, v)
    \/ \E a \in Authors, overwrite \in BOOLEAN : Promote(a, overwrite)
    \/ \E l \in Tags : DeleteOption(l)
    \/ \E R \in SUBSET (Runs \ Judges) : Withdraw(R)

OneAspect ==
    \/ Untouched(Fields \ Outcomes) /\ OutcomeStep
    \/ Untouched(Outcomes) /\ FindingStep

OneAspectInit == Init /\ (Untouched(Outcomes) \/ Untouched(Fields \ Outcomes))
OneAspectSpec == OneAspectInit /\ [][OneAspect]_file
=============================================================================
