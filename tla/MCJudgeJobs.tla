----------------------------- MODULE MCJudgeJobs -----------------------------
(* Constants of the TLC runs of JudgeJobs. *)
EXTENDS JudgeJobs, TLC

CONSTANTS w1, w2, k1, k2, c1, c2, d1, d2

SameClock == [w \in Workers |-> 0]
AheadClock == [w \in Workers |-> IF w = w1 THEN 0 ELSE 1]

(* For runs in which the clocks agree; otherwise the workers differ.       *)
NameSymmetry == Permutations(Keys) \cup Permutations(Configs) \cup Permutations(Workers)
=============================================================================
