----------------------------- MODULE MCCoverage -----------------------------
(***************************************************************************)
(* Instances of Coverage for TLC: two chains that take two techniques in   *)
(* opposite order, one of them not seeded.                                 *)
(***************************************************************************)
EXTENDS Coverage, TLC
CONSTANTS t1, t2, c1, c2, r1

MCTtps == c1 :> <<t1, t2>> @@ c2 :> <<t2, t1>>
MCSimilar == {<<c1, t2, r1>>, <<c2, t2, r1>>}
MCAnswers == {[p \in Techniques \X Rules |-> v] : v \in {"yes", "partial", "no"}}
MCTagSets == {{t1}}
=============================================================================
