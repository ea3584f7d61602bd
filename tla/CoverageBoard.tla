--------------------------- MODULE CoverageBoard ---------------------------
(***************************************************************************)
(* What the ATT&CK matrix promises its readers, without the mappers: each  *)
(* technique shows a verdict and lists the rules and CVEs it rests on; the *)
(* verdicts of a chain appear together, in one round, for all of its       *)
(* techniques; a verdict other than 'gap' always has a rule to show; a     *)
(* technique that lists something never goes back to listing nothing, and  *)
(* never back to 'no_data'.                                                *)
(***************************************************************************)
EXTENDS Naturals

CONSTANTS
    Techniques, Rules, Cves,
    Chains      \* the sets of techniques a chain has

VARIABLES
    shown, rulesListed, cvesListed,
    round       \* the round in which a technique was last published

boardVars == <<shown, rulesListed, cvesListed, round>>

Verdict == {"covered", "partial", "gap"}
Backed(t) == shown[t] \in {"covered", "partial"} => rulesListed[t] # {}

BoardInit ==
    /\ shown = [t \in Techniques |-> "no_data"]
    /\ rulesListed = [t \in Techniques |-> {}]
    /\ cvesListed = [t \in Techniques |-> {}]
    /\ round = [t \in Techniques |-> 0]

Kept(t) == /\ shown'[t] = shown[t] /\ round'[t] = round[t]
           /\ rulesListed'[t] = rulesListed[t] /\ cvesListed'[t] = cvesListed[t]

\* The verdicts for the techniques T become visible, all of them in one round.
Publish(T) ==
    /\ shown' \in [Techniques -> Verdict \cup {"no_data"}]
    /\ rulesListed' \in [Techniques -> SUBSET Rules]
    /\ cvesListed' \in [Techniques -> SUBSET Cves]
    /\ \E n \in {round'[t] : t \in T} :
         /\ round' = [t \in Techniques |-> IF t \in T THEN n ELSE round[t]]
         /\ \A t \in T : round[t] # n
    /\ \A t \in Techniques \ T : Kept(t)
    /\ \A t \in T : /\ shown'[t] \in Verdict
                    /\ rulesListed[t] # {} => rulesListed'[t] # {}
                    /\ cvesListed'[t] # {}
                    /\ Backed(t)'

BoardNext == \E T \in Chains : Publish(T)

BoardSpec == BoardInit /\ [][BoardNext]_boardVars
=============================================================================
