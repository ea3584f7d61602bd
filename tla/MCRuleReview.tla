---------------------------- MODULE MCRuleReview ----------------------------
(* Instances of RuleReview for TLC. *)
EXTENDS RuleReview, TLC

CONSTANTS p1, p2, t1, t2

\* Reviewers are interchangeable in the runs without a liveness property.
ReviewersSymmetry == Permutations(Reviewers)
=============================================================================
