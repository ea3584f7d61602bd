-------------------------- MODULE MCAssessmentLoops --------------------------
(* Instances of AssessmentLoops for TLC.                                   *)
EXTENDS AssessmentLoops, TLC

CONSTANTS c1, c2, w1, w2

TwoOfEach == Permutations({w1, w2}) \cup Permutations({c1, c2})

=============================================================================
