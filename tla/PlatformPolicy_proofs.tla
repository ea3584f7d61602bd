------------------------ MODULE PlatformPolicy_proofs ------------------------
(***************************************************************************)
(* Proofs about the parts of the platform that keep decisions: who may     *)
(* read what, which profiles and connectors are on, what was contributed   *)
(* and where a rule goes, each for every value of its constants.           *)
(***************************************************************************)
EXTENDS Disclosure, Profiles, Contributions, Connectors, SigmaTargets, FiniteSetTheorems, WellFoundedInduction, TLAPS

-----------------------------------------------------------------------------
(* Disclosure.                                                             *)

DisclosureTypeOK ==
    /\ now \in Nat
    /\ content \in [Content -> [tlp : SourceLevels, until : Nat]]
    /\ promised \in [Content -> Nat]

\* The row still has the end that was promised, or it was declared anew under
\* the releaser and has been cleared since.
EndKept(e) ==
    \/ promised[e] <= now
    \/ content[e].until = promised[e]
    \/ e \in rearmed \ releaser /\ content[e].until = 0

DisclosureInv ==
    /\ DisclosureTypeOK
    /\ \A e \in Content : EndKept(e)
    /\ \A e \in Content \cap releaser : promised[e] <= now \/ e \in rearmed
    /\ releaser \subseteq Content

\* The levels of an embargoed row keep it from everybody but its participants,
\* whatever claims and grants the state has, up to the two wider read paths.
LEMMA EmbargoIsTight ==
    ASSUME DisclosureTypeOK, NEW u \in Users, NEW e \in Content,
           content[e].until > now, ~is_embargo_participant(u, e)
    PROVE  /\ e \notin visible_to_user_sync(u)
           /\ e \in apply_tlp_filter(u) => content[e].tlp = RED /\ has_explicit_grant(u, e)
           /\ visible_to(u, e) => token[u].tier = "maintainer"
  <1>1. effective_tlp(content[e]) = RED
    BY DEF effective_tlp
  <1>2. content[e].until # 0
    BY DEF DisclosureTypeOK
  <1>3. e \notin visible_to_user_sync(u)
    BY <1>1 DEF visible_to_user_sync, RED, CLEAR, GREEN
  <1>4. enforce_tlp_access(u, e) => content[e].tlp = RED /\ has_explicit_grant(u, e)
    BY <1>1 DEF enforce_tlp_access, can_user_access, RED, CLEAR, GREEN
  <1>5. visible_to(u, e) => token[u].tier = "maintainer"
    BY <1>2 DEF visible_to, can_user_access
  <1>6. QED
    BY <1>3, <1>4, <1>5 DEF apply_tlp_filter

LEMMA DisclosureInitially == DisclosureInit => DisclosureInv
  <1> SUFFICES ASSUME DisclosureInit PROVE DisclosureInv
    OBVIOUS
  <1>1. DisclosureTypeOK
    BY DEF DisclosureInit, DisclosureTypeOK
  <1>2. QED
    BY <1>1 DEF DisclosureInit, DisclosureInv, DisclosureTypeOK, EndKept

LEMMA IngestKeeps ==
    ASSUME DisclosureInv, NEW e \in Content, NEW l \in SourceLevels, NEW t \in 0..MaxTime,
           Ingest(e, l, t)
    PROVE  DisclosureInv'
  <1>1. t \in Nat /\ MaxOf(content[e].tlp, l) \in SourceLevels
    BY DEF MaxOf, DisclosureInv, DisclosureTypeOK
  <1>2. DisclosureTypeOK'
    BY <1>1 DEF Ingest, DisclosureInv, DisclosureTypeOK
  <1>3. ASSUME NEW f \in Content PROVE EndKept(f)'
    <2>1. EndKept(f)
      BY DEF DisclosureInv
    <2>2. CASE t = 0
      BY <2>1, <2>2 DEF Ingest, people, DisclosureInv, DisclosureTypeOK, EndKept
    <2>3. CASE t # 0 /\ f = e
      BY <1>1, <2>3 DEF Ingest, people, DisclosureInv, DisclosureTypeOK, EndKept
    <2>4. CASE t # 0 /\ f # e
      <3>1. content'[f] = content[f] /\ promised'[f] = promised[f] /\ UNCHANGED <<now, releaser>>
            /\ (f \in rearmed => f \in rearmed')
        BY <2>4 DEF Ingest, people, DisclosureInv, DisclosureTypeOK
      <3>2. QED
        BY <2>1, <3>1 DEF EndKept
    <2>5. QED
      BY <2>2, <2>3, <2>4
  <1>4. \A f \in Content \cap releaser' : promised'[f] <= now' \/ f \in rearmed'
    BY <1>1 DEF Ingest, DisclosureInv, DisclosureTypeOK, EndKept
  <1>5. QED
    BY <1>2, <1>3, <1>4 DEF Ingest, DisclosureInv

\* What is about to be cleared has reached its end, or was declared anew since.
LEMMA ReleaserKeeps ==
    ASSUME DisclosureInv, ReleaseSelect \/ release_expired \/ ReleaserCrashes
    PROVE  DisclosureInv'
  <1>1. CASE ReleaseSelect
    <2>1. \A f \in Expired : promised[f] <= now \/ f \in rearmed
      BY DEF Expired, DisclosureInv, DisclosureTypeOK, EndKept
    <2>2. \A f \in Content : f \in Expired => content[f].until <= now /\ content[f].until # 0
      BY DEF Expired
    <2>3. \A f \in Content : EndKept(f)'
      BY <1>1, <2>1, <2>2 DEF ReleaseSelect, people, DisclosureInv, DisclosureTypeOK, EndKept
    <2>4. QED
      BY <1>1, <2>1, <2>3
      DEF ReleaseSelect, people, DisclosureInv, DisclosureTypeOK, Expired
  <1>2. CASE release_expired
    <2>1. DisclosureTypeOK'
      BY <1>2 DEF release_expired, DisclosureInv, DisclosureTypeOK
    <2>2. \A f \in Content : EndKept(f)'
      BY <1>2 DEF release_expired, DisclosureInv, DisclosureTypeOK, EndKept
    <2>3. QED
      BY <1>2, <2>1, <2>2 DEF release_expired, DisclosureInv
  <1>3. CASE ReleaserCrashes
    <2>1. \A f \in Content : EndKept(f)'
      BY <1>3 DEF ReleaserCrashes, people, DisclosureInv, DisclosureTypeOK, EndKept
    <2>2. QED
      BY <1>3, <2>1 DEF ReleaserCrashes, people, DisclosureInv, DisclosureTypeOK
  <1>4. QED
    BY <1>1, <1>2, <1>3

LEMMA ReleaseOneKeeps ==
    ASSUME DisclosureInv, NEW u \in Users, NEW e \in Content, release_one(u, e)
    PROVE  DisclosureInv'
  <1>1. DisclosureTypeOK'
    BY DEF release_one, DisclosureInv, DisclosureTypeOK
  <1>2. \A f \in Content : EndKept(f)'
    BY DEF release_one, DisclosureInv, DisclosureTypeOK, EndKept
  <1>3. QED
    BY <1>1, <1>2 DEF release_one, DisclosureInv, DisclosureTypeOK

LEMMA DisclosureStep == DisclosureInv /\ [DisclosureNext]_disclosureVars => DisclosureInv'
  <1> SUFFICES ASSUME DisclosureInv, [DisclosureNext]_disclosureVars PROVE DisclosureInv'
    OBVIOUS
  <1>1. ASSUME UNCHANGED <<now, embargoes>> PROVE DisclosureInv'
    BY <1>1 DEF embargoes, DisclosureInv, DisclosureTypeOK, EndKept
  <1>2. CASE UNCHANGED disclosureVars
    BY <1>1, <1>2 DEF disclosureVars
  <1>3. CASE Administer
    BY <1>1, <1>3 DEF Administer
  <1>4. ASSUME NEW u \in Users, login(u) \/ TokenExpires(u) PROVE DisclosureInv'
    BY <1>1, <1>4 DEF login, TokenExpires
  <1>5. CASE Tick
    <2>1. now' \in Nat /\ now <= now' /\ UNCHANGED <<content, releaser, promised, rearmed>>
      BY <1>5 DEF Tick, embargoes, DisclosureInv, DisclosureTypeOK
    <2>2. QED
      BY <2>1 DEF DisclosureInv, DisclosureTypeOK, EndKept
  <1>6. CASE DisclosureNext
    BY <1>3, <1>4, <1>5, <1>6, IngestKeeps, ReleaserKeeps, ReleaseOneKeeps DEF DisclosureNext
  <1>7. QED
    BY <1>2, <1>6

\* The row of a promise that still holds has its end, unless the promise was
\* made under the releaser.
THEOREM DisclosureInvariant == DisclosureSpec => []DisclosureInv
  BY DisclosureInitially, DisclosureStep, PTL DEF DisclosureSpec

\* An embargo holds until the end its sources declared last, for any users,
\* rows, levels, grants, stale tokens and releases (release_expired,
\* can_user_access, visible_to_user_sync, Event.visible_to).
THEOREM EmbargoHonouredAlways == DisclosureSpec => []EmbargoHonoured
  <1>1. ASSUME DisclosureInv PROVE EmbargoHonoured
    <2>1. SUFFICES ASSUME NEW u \in Users, NEW e \in Content, promised[e] > now,
                          e \notin rearmed, ~is_embargo_participant(u, e)
                   PROVE  /\ e \notin visible_to_user_sync(u)
                          /\ e \in apply_tlp_filter(u) => /\ content[e].tlp = RED
                                                          /\ has_explicit_grant(u, e)
                          /\ visible_to(u, e) => token[u].tier = "maintainer"
      BY DEF EmbargoHonoured
    <2>2. DisclosureTypeOK /\ EndKept(e)
      BY <1>1 DEF DisclosureInv
    <2>3. content[e].until > now
      BY <2>1, <2>2 DEF DisclosureTypeOK, EndKept
    <2>4. QED
      BY <2>1, <2>2, <2>3, EmbargoIsTight
  <1>2. QED
    BY <1>1, DisclosureInvariant, PTL

-----------------------------------------------------------------------------
(* Contributions.                                                          *)

Public(e) == \E s \in ContributeSources : e \in commonsRepo[s].prs
SomeEvaluation == Evaluations \cup {NoEvaluation}

Contribution == [evaluation : SomeEvaluation, tlp : Levels \cup {"none"},
                 left : SUBSET ContributeSources, submitted : BOOLEAN]

ContributionTypeOK ==
    /\ ruleTlp \in Levels
    /\ evaluation \in [Evaluations -> [exists : BOOLEAN, contributed : BOOLEAN]]
    /\ contributing \in [Contributors -> Contribution]
    /\ commonsRepo \in [ContributeSources -> [branches : SUBSET SomeEvaluation,
                                              prs : SUBSET SomeEvaluation,
                                              merged : SomeEvaluation]]

\* An answered pull request is there before anything is marked with it, and a
\* clear payload was made while the rule was clear.
ContributionInv ==
    /\ ContributionTypeOK
    /\ \A c \in Contributors : contributing[c].submitted => Public(contributing[c].evaluation)
    /\ \A e \in Evaluations : evaluation[e].contributed => Public(e)
    /\ \A c \in Contributors :
         contributing[c].tlp = "clear" => contributing[c].evaluation \in cleared
    /\ \A s \in ContributeSources : commonsRepo[s].branches \subseteq cleared

LEMMA ContributionInitially == ContributionInit => ContributionInv
  <1> SUFFICES ASSUME ContributionInit PROVE ContributionInv
    OBVIOUS
  <1>1. ContributionTypeOK
    BY DEF ContributionInit, ContributionTypeOK, Contribution, NoEvaluationRow, NoContribution,
           SomeEvaluation
  <1>2. QED
    BY <1>1 DEF ContributionInit, ContributionInv, NoEvaluationRow, NoContribution

LEMMA NoContributionType ==
    /\ NoContribution \in Contribution
    /\ ~NoContribution.submitted /\ NoContribution.tlp # "clear"
  BY DEF NoContribution, Contribution, SomeEvaluation

\* One source of a batch, however far it gets.
LEMMA SourceKeeps ==
    ASSUME ContributionInv, NEW c \in Contributors, NEW s \in ContributeSources,
           NEW n \in 0..3, NEW a \in BOOLEAN, contribute_to_source(c, s, n, a)
    PROVE  ContributionInv'
  <1>1. UNCHANGED <<ruleTlp, cleared, evaluation>>
    BY DEF contribute_to_source
  <1>2. CASE contributing[c].tlp # "clear"
    <2>1. UNCHANGED commonsRepo /\ contributing' = [contributing EXCEPT ![c].left = @ \ {s}]
      BY <1>2 DEF contribute_to_source
    <2>2. \A d \in Contributors : /\ contributing'[d].submitted = contributing[d].submitted
                                  /\ contributing'[d].evaluation = contributing[d].evaluation
                                  /\ contributing'[d].tlp = contributing[d].tlp
      BY <2>1 DEF ContributionInv, ContributionTypeOK, Contribution
    <2>3. ContributionTypeOK'
      BY <1>1, <2>1 DEF ContributionInv, ContributionTypeOK, Contribution
    <2>4. QED
      BY <1>1, <2>1, <2>2, <2>3 DEF ContributionInv, Public
  <1>3. CASE contributing[c].tlp = "clear"
    <2> DEFINE e == contributing[c].evaluation
               reached == IF commonsRepo[s].merged # NoEvaluation /\ n > 1 THEN 1 ELSE n
               branches == IF reached >= 1 THEN commonsRepo[s].branches \cup {e}
                           ELSE commonsRepo[s].branches
               prs == IF reached = 3 THEN commonsRepo[s].prs \cup {e} ELSE commonsRepo[s].prs
               answered == contributing[c].submitted \/ (reached = 3 /\ a)
    <2>1. /\ commonsRepo' = [commonsRepo EXCEPT ![s].branches = branches, ![s].prs = prs]
          /\ contributing' = [contributing EXCEPT ![c].left = @ \ {s},
                                                 ![c].submitted = answered]
      BY <1>3 DEF contribute_to_source, create_chain_pr
    <2>2. e \in SomeEvaluation /\ e \in cleared
      BY <1>3 DEF ContributionInv, ContributionTypeOK, Contribution
    <2>3. /\ branches \in SUBSET SomeEvaluation /\ prs \in SUBSET SomeEvaluation
          /\ commonsRepo[s].prs \subseteq prs /\ branches \subseteq cleared
      BY <2>2 DEF ContributionInv, ContributionTypeOK
    <2>4. answered \in BOOLEAN /\ (answered => contributing[c].submitted \/ e \in prs)
      OBVIOUS
    <2> HIDE DEF branches, prs, answered
    <2>5. ContributionTypeOK'
      <3>1. contributing[c] \in Contribution
        BY DEF ContributionInv, ContributionTypeOK
      <3>2. [contributing[c] EXCEPT !.left = @ \ {s}, !.submitted = answered] \in Contribution
        BY <2>4, <3>1 DEF Contribution
      <3>3. contributing' \in [Contributors -> Contribution]
        BY <2>1, <3>2 DEF ContributionInv, ContributionTypeOK
      <3>4. commonsRepo' \in [ContributeSources -> [branches : SUBSET SomeEvaluation,
                                                    prs : SUBSET SomeEvaluation,
                                                    merged : SomeEvaluation]]
        BY <2>1, <2>3 DEF ContributionInv, ContributionTypeOK
      <3>5. QED
        BY <1>1, <3>3, <3>4 DEF ContributionInv, ContributionTypeOK
    <2>6. /\ commonsRepo'[s].prs = prs
          /\ \A t \in ContributeSources : commonsRepo[t].prs \subseteq commonsRepo'[t].prs
      BY <2>1, <2>3 DEF ContributionInv, ContributionTypeOK
    <2>7. \A x : Public(x) => Public(x)'
      BY <2>6 DEF Public
    <2>8. ASSUME NEW d \in Contributors, contributing'[d].submitted
          PROVE  Public(contributing[d].evaluation)'
      <3>1. contributing'[d].evaluation = contributing[d].evaluation
        BY <2>1 DEF ContributionInv, ContributionTypeOK, Contribution
      <3>2. CASE d = c
        <4>1. answered
          BY <2>1, <2>8, <3>2 DEF ContributionInv, ContributionTypeOK, Contribution
        <4>2. CASE contributing[c].submitted
          BY <2>7, <3>1, <3>2, <4>2 DEF ContributionInv
        <4>3. CASE e \in prs
          BY <2>6, <3>1, <3>2, <4>3 DEF Public
        <4>4. QED
          BY <2>4, <4>1, <4>2, <4>3
      <3>3. CASE d # c
        <4>1. contributing'[d] = contributing[d]
          BY <2>1, <3>3 DEF ContributionInv, ContributionTypeOK
        <4>2. QED
          BY <2>7, <2>8, <3>1, <4>1 DEF ContributionInv
      <3>4. QED
        BY <3>2, <3>3
    <2>9. \A d \in Contributors : /\ contributing'[d].tlp = contributing[d].tlp
                                  /\ contributing'[d].evaluation = contributing[d].evaluation
      BY <2>1 DEF ContributionInv, ContributionTypeOK, Contribution
    <2>10. \A t \in ContributeSources : commonsRepo'[t].branches \subseteq cleared
      BY <2>1, <2>3 DEF ContributionInv, ContributionTypeOK
    <2>11. QED
      BY <1>1, <2>5, <2>7, <2>8, <2>9, <2>10 DEF ContributionInv
  <1>4. QED
    BY <1>2, <1>3

LEMMA ContributionStep ==
    ContributionInv /\ [ContributionNext]_contributionVars => ContributionInv'
  <1> SUFFICES ASSUME ContributionInv, [ContributionNext]_contributionVars
               PROVE  ContributionInv'
    OBVIOUS
  <1> USE DEF ContributionInv, ContributionTypeOK
  <1>1. CASE UNCHANGED contributionVars
    BY <1>1 DEF contributionVars, Public
  <1>2. ASSUME NEW e \in Evaluations, record(e) PROVE ContributionInv'
    <2>1. [NoEvaluationRow EXCEPT !.exists = TRUE]
            \in [exists : BOOLEAN, contributed : BOOLEAN]
          /\ ~[NoEvaluationRow EXCEPT !.exists = TRUE].contributed
      BY DEF NoEvaluationRow
    <2>2. QED
      BY <1>2, <2>1 DEF record, Public
  <1>3. ASSUME NEW c \in Contributors, mark_contributed(c) PROVE ContributionInv'
    <2> DEFINE e == contributing[c].evaluation
    <2>1. UNCHANGED <<ruleTlp, cleared, commonsRepo>> /\ contributing' = [contributing EXCEPT ![c] = NoContribution]
      BY <1>3 DEF mark_contributed
    <2>2. \A d \in Contributors : contributing'[d].submitted \/ contributing'[d].tlp = "clear"
                                   => contributing'[d] = contributing[d]
      BY <2>1, NoContributionType
    <2>3. contributing' \in [Contributors -> Contribution]
      BY <2>1, NoContributionType
    <2>4. evaluation' = [evaluation EXCEPT ![e].contributed = @ \/ contributing[c].submitted]
      BY <1>3 DEF mark_contributed
    <2>5. evaluation' \in [Evaluations -> [exists : BOOLEAN, contributed : BOOLEAN]]
      BY <2>4
    <2>6. \A x \in Evaluations : evaluation'[x].contributed =>
            evaluation[x].contributed \/ (x = e /\ contributing[c].submitted)
      BY <2>4
    <2>7. QED
      BY <2>1, <2>2, <2>3, <2>5, <2>6 DEF Public
  <1>4. ASSUME NEW c \in Contributors, ContributorDies(c) PROVE ContributionInv'
    BY <1>4, NoContributionType DEF ContributorDies, Public
  <1>5. ASSUME NEW c \in Contributors, NEW e \in Evaluations, contribute_evaluation(c, e)
        PROVE  ContributionInv'
    <2> DEFINE x == [evaluation |-> e, tlp |-> ruleTlp, left |-> ContributeSources,
                     submitted |-> FALSE]
    <2>1. x \in Contribution /\ ~x.submitted
      BY DEF SomeEvaluation, Contribution
    <2>2. /\ contributing' = [contributing EXCEPT ![c] = x]
          /\ UNCHANGED <<ruleTlp, evaluation, commonsRepo>>
          /\ cleared \subseteq cleared' /\ (x.tlp = "clear" => x.evaluation \in cleared')
      BY <1>5 DEF contribute_evaluation
    <2> HIDE DEF x
    <2>3. QED
      BY <2>1, <2>2 DEF Public
  <1>6. ASSUME NEW s \in ContributeSources, NEW e \in Evaluations, MergePullRequest(s, e)
        PROVE  ContributionInv'
    <2>1. commonsRepo' = [commonsRepo EXCEPT ![s].merged = e] /\ e \in SomeEvaluation
          /\ UNCHANGED <<ruleTlp, cleared, evaluation, contributing>>
      BY <1>6 DEF MergePullRequest, SomeEvaluation
    <2>2. \A t \in ContributeSources : /\ commonsRepo'[t].prs = commonsRepo[t].prs
                                       /\ commonsRepo'[t].branches = commonsRepo[t].branches
      BY <2>1
    <2>3. ContributionTypeOK'
      BY <2>1
    <2>4. \A x : Public(x)' <=> Public(x)
      BY <2>2 DEF Public
    <2>5. QED
      BY <2>1, <2>2, <2>3, <2>4
  <1>7. ASSUME NEW l \in Levels, RefreshSource(l) PROVE ContributionInv'
    BY <1>7 DEF RefreshSource, Public
  <1>8. QED
    BY <1>1, <1>2, <1>3, <1>4, <1>5, <1>6, <1>7, SourceKeeps DEF ContributionNext

\* What a contribute request was answered with is on the host, for any number of
\* requests, sources and evaluations.
THEOREM ContributionInvariant == ContributionSpec => []ContributionInv
  BY ContributionInitially, ContributionStep, PTL DEF ContributionSpec

\* An evaluation marked as contributed has a pull request, and a host has only
\* what was asked for while the rule was clear (contribute_evaluation).
THEOREM ContributedHasPRAlways == ContributionSpec => []ContributedHasPR
  <1>1. ContributionInv => ContributedHasPR
    BY DEF ContributionInv, ContributedHasPR, Public
  <1>2. QED
    BY <1>1, ContributionInvariant, PTL

-----------------------------------------------------------------------------
(* Profiles, with one operator at a time: what a request loaded is what    *)
(* the row still has when it commits, whatever the seed script did.        *)

Profile == [exists : BOOLEAN, builtin : BOOLEAN, body : Bodies, enabled : BOOLEAN]
Patch == [body : Bodies, flag : {{}, {TRUE}, {FALSE}}]
OpenEdit ==
    [op : {"patch"}, name : ProfileNames, arg : Patch, row : Profile]
    \cup [op : {"toggle", "delete"}, name : ProfileNames, arg : BOOLEAN, row : Profile]

ProfileTypeOK ==
    /\ profiles \in [ProfileNames -> Profile]
    /\ edit \in [Editors -> {NoEdit} \cup OpenEdit]
    /\ seed \in [todo : SUBSET BuiltinNames, open : SUBSET BuiltinNames, loaded : Profile]
    /\ profileChoice \in [ProfileNames -> {{}, {TRUE}, {FALSE}}]

EditFresh(o) ==
    edit[o] # NoEdit =>
      /\ profiles[edit[o].name].exists
      /\ profiles[edit[o].name].enabled = edit[o].row.enabled

ProfileInv ==
    /\ ProfileTypeOK
    /\ \A o \in Editors : EditFresh(o)
    /\ \A n \in ProfileNames : profileChoice[n] # {} =>
         profiles[n].exists /\ profiles[n].enabled \in profileChoice[n]

LEMMA NoProfileType == NoProfile \in Profile /\ ~NoProfile.exists
  BY ProfileAssumption DEF NoProfile, Profile

LEMMA NoSeedType ==
    NoSeed \in [todo : SUBSET BuiltinNames, open : SUBSET BuiltinNames, loaded : Profile]
  BY NoProfileType DEF NoSeed

LEMMA OpenEditType ==
    ASSUME NEW x \in OpenEdit
    PROVE  /\ x # NoEdit /\ x.name \in ProfileNames /\ x.row \in Profile
           /\ x.op = "patch" => x.arg \in Patch
           /\ x.op # "patch" => x.arg \in BOOLEAN
  <1>1. NoEdit.op = "none"
    BY DEF NoEdit
  <1>2. x.op \in {"patch", "toggle", "delete"}
    BY DEF OpenEdit
  <1>3. QED
    BY <1>1, <1>2 DEF OpenEdit

LEMMA ProfileInitially == ProfileInit => ProfileInv
  <1> SUFFICES ASSUME ProfileInit PROVE ProfileInv
    OBVIOUS
  <1>1. ProfileTypeOK
    BY NoProfileType, NoSeedType DEF ProfileInit, ProfileTypeOK
  <1>2. QED
    BY <1>1 DEF ProfileInit, ProfileInv, EditFresh

\* A request loads a row that is there.
LEMMA LoadKeeps ==
    ASSUME ProfileInv, NEW o \in Editors, NEW n \in ProfileNames, profiles[n].exists,
           NEW op, NEW arg, LoadRow(o, op, n, arg),
           [op |-> op, name |-> n, arg |-> arg, row |-> profiles[n]] \in OpenEdit
    PROVE  ProfileInv'
  <1> DEFINE x == [op |-> op, name |-> n, arg |-> arg, row |-> profiles[n]]
  <1>1. /\ x \in OpenEdit /\ x.name = n /\ x.row = profiles[n]
        /\ edit' = [edit EXCEPT ![o] = x] /\ UNCHANGED <<profiles, seed, profileChoice>>
    BY DEF LoadRow
  <1> HIDE DEF x
  <1>2. ProfileTypeOK'
    BY <1>1 DEF ProfileInv, ProfileTypeOK
  <1>3. \A p \in Editors : EditFresh(p)'
    BY <1>1 DEF ProfileInv, ProfileTypeOK, EditFresh
  <1>4. QED
    BY <1>1, <1>2, <1>3 DEF ProfileInv

\* The only operator's request ends: the row of its name is written, and the
\* answer agrees with it.
LEMMA AnswerKeeps ==
    ASSUME \A o, p \in Editors : o = p,
           ProfileInv, NEW o \in Editors, NEW n \in ProfileNames, NEW row \in Profile,
           NEW choice \in {{}, {TRUE}, {FALSE}},
           choice # {} => row.exists /\ row.enabled \in choice,
           profiles' = [profiles EXCEPT ![n] = row], Answered(o, n, choice), UNCHANGED seed
    PROVE  ProfileInv'
  <1>1. ProfileTypeOK'
    BY DEF ProfileInv, ProfileTypeOK, Answered
  <1>2. \A p \in Editors : edit'[p] = NoEdit
    BY DEF ProfileInv, ProfileTypeOK, Answered
  <1>3. \A p \in Editors : EditFresh(p)'
    BY <1>2 DEF EditFresh
  <1>4. \A m \in ProfileNames : profileChoice'[m] # {} =>
          profiles'[m].exists /\ profiles'[m].enabled \in profileChoice'[m]
    BY DEF ProfileInv, ProfileTypeOK, Answered
  <1>5. QED
    BY <1>1, <1>3, <1>4 DEF ProfileInv

LEMMA CreateKeeps ==
    ASSUME \A o, p \in Editors : o = p,
           ProfileInv, NEW o \in Editors, NEW n \in ProfileNames, NEW body \in Bodies,
           NEW enabled \in BOOLEAN, create_custom(o, n, body, enabled)
    PROVE  ProfileInv'
  <1> DEFINE row == Custom(body, enabled)
  <1>1. row \in Profile /\ row.exists /\ row.enabled = enabled
    BY DEF Custom, Profile
  <1>2. profiles' = [profiles EXCEPT ![n] = row] /\ Answered(o, n, {enabled}) /\ UNCHANGED seed
    BY DEF create_custom
  <1> HIDE DEF row
  <1>3. QED
    BY <1>1, <1>2, AnswerKeeps

LEMMA PatchKeeps ==
    ASSUME \A o, p \in Editors : o = p,
           ProfileInv, NEW o \in Editors, update_custom(o)
    PROVE  ProfileInv'
  <1>1. edit[o] \in OpenEdit /\ edit[o].op = "patch" /\ EditFresh(o)
    BY DEF ProfileInv, ProfileTypeOK, update_custom, NoEdit
  <1>2. PICK n \in ProfileNames : n = edit[o].name
    BY <1>1, OpenEditType
  <1>3. PICK patch \in Patch : patch = edit[o].arg
    BY <1>1, OpenEditType
  <1> DEFINE loaded == edit[o].row
             Set(column, was, values) == IF \E v \in values : v # was
                                         THEN CHOOSE v \in values : TRUE ELSE column
             body == Set(profiles[n].body, loaded.body, {patch.body})
             enabled == Set(profiles[n].enabled, loaded.enabled, patch.flag)
             row == [profiles[n] EXCEPT !.body = body, !.enabled = enabled]
             choice == IF patch.flag = {} THEN profileChoice[n] ELSE patch.flag
  <1>4. /\ profiles' = [profiles EXCEPT ![n].body = body, ![n].enabled = enabled]
        /\ Answered(o, n, choice) /\ UNCHANGED seed
    BY <1>2, <1>3 DEF update_custom
  <1>5. /\ profiles[n] \in Profile /\ profiles[n].exists
        /\ profiles[n].enabled = loaded.enabled /\ loaded \in Profile
        /\ patch.body \in Bodies /\ patch.flag \in {{}, {TRUE}, {FALSE}}
        /\ profileChoice[n] \in {{}, {TRUE}, {FALSE}}
    BY <1>1, <1>2, <1>3, OpenEditType DEF ProfileInv, ProfileTypeOK, EditFresh, Patch
  <1>6. body \in Bodies
    BY <1>5 DEF Profile
  <1>7. /\ enabled \in BOOLEAN
        /\ patch.flag = {} => enabled = profiles[n].enabled
        /\ patch.flag # {} => enabled \in patch.flag
    BY <1>5 DEF Profile
  <1>8. /\ choice \in {{}, {TRUE}, {FALSE}}
        /\ choice # {} => enabled \in choice
    BY <1>5, <1>7 DEF ProfileInv
  <1>9. profiles' = [profiles EXCEPT ![n] = row]
    BY <1>4
  <1> HIDE DEF body, enabled, choice
  <1>10. row \in Profile /\ row.exists /\ row.enabled = enabled
    BY <1>5, <1>6, <1>7 DEF Profile
  <1> HIDE DEF row
  <1>11. choice # {} => row.exists /\ row.enabled \in choice
    BY <1>8, <1>10
  <1>12. choice \in {{}, {TRUE}, {FALSE}} /\ row \in Profile
        /\ Answered(o, n, choice) /\ UNCHANGED seed
    BY <1>4, <1>8, <1>10
  <1>13. QED
    BY <1>9, <1>11, <1>12, AnswerKeeps

LEMMA ToggleKeeps ==
    ASSUME \A o, p \in Editors : o = p,
           ProfileInv, NEW o \in Editors, SetEnabled(o)
    PROVE  ProfileInv'
  <1>1. edit[o] \in OpenEdit /\ edit[o].op = "toggle" /\ EditFresh(o)
    BY DEF ProfileInv, ProfileTypeOK, SetEnabled, NoEdit
  <1>2. PICK n \in ProfileNames : n = edit[o].name
    BY <1>1, OpenEditType
  <1>3. PICK enabled \in BOOLEAN : enabled = edit[o].arg
    BY <1>1, OpenEditType
  <1>4. /\ profiles \in [ProfileNames -> Profile] /\ profiles[n].exists
        /\ profiles[n].enabled = edit[o].row.enabled
    BY <1>1, <1>2, OpenEditType DEF ProfileInv, ProfileTypeOK, EditFresh
  <1>5. Answered(o, n, {enabled}) /\ UNCHANGED seed
    BY <1>2, <1>3 DEF SetEnabled
  <1> DEFINE row == IF enabled = edit[o].row.enabled THEN profiles[n]
                    ELSE [profiles[n] EXCEPT !.enabled = enabled]
  <1>6. profiles' = [profiles EXCEPT ![n] = row]
    BY <1>2, <1>3, <1>4 DEF SetEnabled
  <1>7. row \in Profile /\ row.exists /\ row.enabled = enabled
    BY <1>4 DEF Profile
  <1> HIDE DEF row
  <1>8. QED
    BY <1>5, <1>6, <1>7, AnswerKeeps

LEMMA DeleteKeeps ==
    ASSUME \A o, p \in Editors : o = p,
           ProfileInv, NEW o \in Editors, delete_custom(o)
    PROVE  ProfileInv'
  <1>1. edit[o] \in OpenEdit
    BY DEF ProfileInv, ProfileTypeOK, delete_custom, NoEdit
  <1>2. PICK n \in ProfileNames : n = edit[o].name
    BY <1>1, OpenEditType
  <1>3. QED
    BY <1>2, NoProfileType, AnswerKeeps DEF delete_custom

\* The seed script writes a row: an existing one keeps its flag.
LEMMA SeedKeeps ==
    ASSUME ProfileInv, NEW n \in BuiltinNames, SeedCommit(n)
    PROVE  ProfileInv'
  <1> DEFINE loaded == seed.loaded
             old == profiles[n]
             body == IF loaded.exists /\ loaded.body = Shipped THEN old.body ELSE Shipped
             enabled == IF loaded.exists THEN old.enabled ELSE n \in DefaultEnabled
             row == [old EXCEPT !.exists = TRUE, !.builtin = TRUE, !.enabled = enabled,
                                !.body = body]
  <1>1. /\ n \in ProfileNames /\ old \in Profile /\ old.exists = loaded.exists
        /\ loaded \in Profile /\ UNCHANGED <<edit, profileChoice>>
    BY ProfileAssumption DEF ProfileInv, ProfileTypeOK, SeedCommit
  <1>2. profiles' = [profiles EXCEPT ![n] = row]
    BY DEF SeedCommit, upsert_builtin
  <1>3. body \in Bodies /\ enabled \in BOOLEAN /\ (old.exists => enabled = old.enabled)
    <2>1. body \in Bodies
      BY <1>1, ProfileAssumption DEF Profile
    <2>2. old.enabled \in BOOLEAN
      BY <1>1 DEF Profile
    <2>3. old.exists => enabled = old.enabled
      BY <1>1
    <2>4. enabled \in BOOLEAN
      <3>1. CASE loaded.exists
        BY <2>2, <3>1
      <3>2. CASE ~loaded.exists
        BY <3>2
      <3>3. QED
        BY <3>1, <3>2
    <2>5. QED
      BY <2>1, <2>3, <2>4
  <1> HIDE DEF body, enabled
  <1>4. row \in Profile /\ row.exists /\ row.enabled = enabled
    BY <1>1, <1>3 DEF Profile
  <1> HIDE DEF row
  <1>5. \A m \in ProfileNames : profiles[m].exists =>
          profiles'[m].exists /\ profiles'[m].enabled = profiles[m].enabled
    BY <1>1, <1>2, <1>3, <1>4 DEF ProfileInv, ProfileTypeOK
  <1>6. seed' \in [todo : SUBSET BuiltinNames, open : SUBSET BuiltinNames, loaded : Profile]
    BY NoSeedType, NoProfileType DEF SeedCommit, ProfileInv, ProfileTypeOK
  <1>7. ProfileTypeOK'
    BY <1>1, <1>2, <1>4, <1>6 DEF ProfileInv, ProfileTypeOK
  <1>8. ASSUME NEW o \in Editors PROVE EditFresh(o)'
    <2>1. CASE edit[o] = NoEdit
      BY <1>1, <2>1 DEF EditFresh
    <2>2. CASE edit[o] # NoEdit
      <3>1. edit[o].name \in ProfileNames
        BY <2>2, OpenEditType DEF ProfileInv, ProfileTypeOK
      <3>2. QED
        BY <1>1, <1>5, <2>2, <3>1 DEF ProfileInv, EditFresh
    <2>3. QED
      BY <2>1, <2>2
  <1>9. \A m \in ProfileNames : profileChoice'[m] # {} =>
          profiles'[m].exists /\ profiles'[m].enabled \in profileChoice'[m]
    BY <1>1, <1>5 DEF ProfileInv
  <1>10. QED
    BY <1>7, <1>8, <1>9 DEF ProfileInv

LEMMA ProfileStep ==
    ASSUME \A o, p \in Editors : o = p
    PROVE  ProfileInv /\ [ProfileNext]_profileVars => ProfileInv'
  <1> SUFFICES ASSUME ProfileInv, [ProfileNext]_profileVars PROVE ProfileInv'
    OBVIOUS
  <1>1. CASE UNCHANGED profileVars
    BY <1>1 DEF profileVars, ProfileInv, ProfileTypeOK, EditFresh
  <1>2. ASSUME UNCHANGED <<profiles, edit, profileChoice>>,
               seed' \in [todo : SUBSET BuiltinNames, open : SUBSET BuiltinNames, loaded : Profile]
        PROVE  ProfileInv'
    BY <1>2 DEF ProfileInv, ProfileTypeOK, EditFresh
  <1>3. CASE StartSeed \/ SeedFails
    <2>1. seed' \in [todo : SUBSET BuiltinNames, open : SUBSET BuiltinNames, loaded : Profile]
      BY <1>3, NoSeedType, NoProfileType DEF StartSeed, SeedFails
    <2>2. QED
      BY <1>2, <1>3, <2>1 DEF StartSeed, SeedFails
  <1>4. ASSUME NEW n \in BuiltinNames, SeedLoad(n) PROVE ProfileInv'
    <2>1. seed' \in [todo : SUBSET BuiltinNames, open : SUBSET BuiltinNames, loaded : Profile]
      BY <1>4, ProfileAssumption DEF SeedLoad, ProfileInv, ProfileTypeOK
    <2>2. QED
      BY <1>2, <1>4, <2>1 DEF SeedLoad
  <1>5. ASSUME NEW o \in Editors, EditFails(o) PROVE ProfileInv'
    BY <1>5 DEF EditFails, ProfileInv, ProfileTypeOK, EditFresh
  <1>6. ASSUME NEW o \in Editors, NEW n \in ProfileNames,
               \/ LoadDelete(o, n) \/ \E e \in BOOLEAN : LoadToggle(o, n, e)
               \/ \E b \in Bodies, e \in BOOLEAN : \E flag \in {{}, {e}} : LoadPatch(o, n, b, flag)
        PROVE  ProfileInv'
    <2>1. profiles[n] \in Profile
      BY DEF ProfileInv, ProfileTypeOK
    <2>2. \A op \in {"toggle", "delete"}, e \in BOOLEAN :
            [op |-> op, name |-> n, arg |-> e, row |-> profiles[n]] \in OpenEdit
      BY <2>1 DEF OpenEdit
    <2>3. CASE LoadDelete(o, n)
      BY <2>2, <2>3, LoadKeeps DEF LoadDelete
    <2>4. ASSUME NEW e \in BOOLEAN, LoadToggle(o, n, e) PROVE ProfileInv'
      BY <2>2, <2>4, LoadKeeps DEF LoadToggle
    <2>5. ASSUME NEW b \in Bodies, NEW e \in BOOLEAN, NEW flag \in {{}, {e}},
                 LoadPatch(o, n, b, flag)
          PROVE  ProfileInv'
      <3> DEFINE arg == [body |-> b, flag |-> flag]
      <3>1. arg \in Patch
        BY DEF Patch
      <3>2. profiles[n].exists /\ LoadRow(o, "patch", n, arg)
        BY <2>5 DEF LoadPatch
      <3> HIDE DEF arg
      <3>3. [op |-> "patch", name |-> n, arg |-> arg, row |-> profiles[n]] \in OpenEdit
        BY <2>1, <3>1 DEF OpenEdit
      <3>4. QED
        BY <3>2, <3>3, LoadKeeps
    <2>6. QED
      BY <1>6, <2>3, <2>4, <2>5
  <1>7. CASE ProfileNext
    BY <1>3, <1>4, <1>5, <1>6, <1>7, CreateKeeps, PatchKeeps, ToggleKeeps, DeleteKeeps, SeedKeeps
       DEF ProfileNext
  <1>8. QED
    BY <1>1, <1>7

\* With one operator at a time, however often the seed script runs, fails or
\* promotes a row, an open request still describes the flag of its row.
THEOREM ProfileInvariant ==
    ASSUME \A o, p \in Editors : o = p
    PROVE  ProfileSpec => []ProfileInv
  BY ProfileInitially, ProfileStep, PTL DEF ProfileSpec

\* Re-running the seed never overrides what an operator was answered with
\* (upsert_builtin), for any set of profiles and releases.
THEOREM SeedKeepsChoiceAlways ==
    ASSUME \A o, p \in Editors : o = p
    PROVE  ProfileSpec => []SeedKeepsChoice
  <1>1. ProfileInv => SeedKeepsChoice
    BY DEF ProfileInv, SeedKeepsChoice
  <1>2. QED
    BY <1>1, ProfileInvariant, PTL

-----------------------------------------------------------------------------
(* Connectors.                                                             *)

Entry == [enabled : BOOLEAN, initialized : BOOLEAN, unhealthy : BOOLEAN, failures : Nat,
          last : HealthStatuses \cup {"unknown"}]
StateRow == [exists : BOOLEAN, enabled : BOOLEAN]
Request == [pc : {"none", "sync", "check"}, name : ConnectorNames \cup {"none"},
            left : SUBSET ConnectorNames,
            writes : SUBSET [name : ConnectorNames, row : StateRow], toggles : BOOLEAN]
Choice == [enabled : BOOLEAN, answered : BOOLEAN]

ConnectorTypeOK ==
    /\ booted \in BOOLEAN
    /\ entry \in [ConnectorNames -> Entry]
    /\ stateRow \in [ConnectorNames -> StateRow]
    /\ request \in [Operators -> Request]
    /\ answeredChoice \in [ConnectorNames -> Choice]
    /\ \A o \in Operators : request[o].pc # "none" => request[o].name \in ConnectorNames

Clean(e) == e.last = "healthy" => ~e.unhealthy /\ e.failures < FAILURE_THRESHOLD

LEMMA NoEntryType == NoEntry \in Entry /\ Clean(NoEntry)
  BY DEF NoEntry, Entry, Clean

LEMMA NoRequestType ==
    /\ NoRequest \in Request /\ NoRequest.pc = "none" /\ NoRequest.left = {}
    /\ NoRequest.writes = {} /\ ~NoRequest.toggles
  BY DEF NoRequest, Request

LEMMA RecordedType ==
    ASSUME NEW e \in Entry, NEW n \in Recorded(e)
    PROVE  n \in Nat
  BY DEF Recorded, Entry

\* _record_failure: the flag goes up with the threshold, the configuration stays.
LEMMA RecordFailureKeeps ==
    ASSUME NEW e \in Entry, Clean(e), NEW n \in Nat
    PROVE  /\ record_failure(e, n) \in Entry /\ Clean(record_failure(e, n))
           /\ record_failure(e, n).enabled = e.enabled
  <1> DEFINE a == [e EXCEPT !.failures = n, !.unhealthy = TRUE, !.last = "unhealthy"]
             b == [e EXCEPT !.failures = n]
  <1>1. a \in Entry /\ a.last = "unhealthy" /\ a.enabled = e.enabled
    BY DEF Entry, HealthStatuses
  <1>2. b \in Entry /\ b.last = e.last /\ b.unhealthy = e.unhealthy /\ b.failures = n
        /\ b.enabled = e.enabled
    BY DEF Entry
  <1>3. record_failure(e, n) = IF n >= FAILURE_THRESHOLD /\ ~e.unhealthy THEN a ELSE b
    BY DEF record_failure
  <1> HIDE DEF a, b
  <1>4. CASE n >= FAILURE_THRESHOLD /\ ~e.unhealthy
    BY <1>1, <1>3, <1>4 DEF Clean
  <1>5. CASE ~(n >= FAILURE_THRESHOLD /\ ~e.unhealthy)
    <2>1. record_failure(e, n) = b
      BY <1>3, <1>5
    <2>2. b.last = "healthy" => ~b.unhealthy /\ b.failures < FAILURE_THRESHOLD
      BY <1>2, <1>5, ConnectorAssumption DEF Clean
    <2>3. QED
      BY <1>2, <2>1, <2>2 DEF Clean
  <1>6. QED
    BY <1>4, <1>5

\* run_health_check: only a healthy answer clears the window.
LEMMA CheckedKeepsClean ==
    ASSUME NEW e \in Entry, Clean(e), NEW health \in HealthStatuses, NEW n \in Nat
    PROVE  /\ Checked(e, health, n) \in Entry /\ Clean(Checked(e, health, n))
           /\ Checked(e, health, n).enabled = e.enabled
  <1>1. CASE health = "unhealthy"
    <2> DEFINE d == [e EXCEPT !.last = health]
    <2>1. d \in Entry /\ Clean(d) /\ d.enabled = e.enabled
      BY <1>1 DEF Entry, Clean
    <2>2. Checked(e, health, n) = record_failure(d, n)
      BY <1>1 DEF Checked
    <2> HIDE DEF d
    <2>3. QED
      BY <2>1, <2>2, RecordFailureKeeps
  <1>2. CASE health = "healthy"
    <2> DEFINE d == [e EXCEPT !.last = health, !.failures = 0, !.unhealthy = FALSE]
    <2>1. d \in Entry /\ d.failures = 0 /\ ~d.unhealthy /\ d.enabled = e.enabled
      BY <1>2 DEF Entry
    <2>2. Checked(e, health, n) = d
      BY <1>2 DEF Checked
    <2> HIDE DEF d
    <2>3. QED
      BY <2>1, <2>2, ConnectorAssumption DEF Clean
  <1>3. CASE health = "degraded"
    <2> DEFINE d == [e EXCEPT !.last = health]
    <2>1. d \in Entry /\ d.last = "degraded" /\ d.enabled = e.enabled
      BY <1>3 DEF Entry
    <2>2. Checked(e, health, n) = d
      BY <1>3 DEF Checked
    <2> HIDE DEF d
    <2>3. QED
      BY <2>1, <2>2 DEF Clean
  <1>4. QED
    BY <1>1, <1>2, <1>3 DEF HealthStatuses

\* A connector comes up with the flag register gave it.
LEMMA InitializedEntry ==
    ASSUME ConnectorTypeOK, NEW c \in ConnectorNames, NEW ok
    PROVE  /\ register(c) \in Entry
           /\ register(c).enabled = (stateRow[c].enabled \/ ~stateRow[c].exists)
           /\ initialize_all(c, ok) \in Entry /\ Clean(initialize_all(c, ok))
           /\ initialize_all(c, ok).enabled = register(c).enabled
  <1> DEFINE f == stateRow[c].enabled \/ ~stateRow[c].exists
             e == [NoEntry EXCEPT !.enabled = f]
             up == [e EXCEPT !.initialized = TRUE]
             bad == [e EXCEPT !.unhealthy = TRUE, !.failures = 1]
  <1>1. register(c) = e
    BY DEF register
  <1>2. f \in BOOLEAN
    OBVIOUS
  <1> HIDE DEF f
  <1>3. e \in Entry /\ e.enabled = f /\ e.last = NoEntry.last
    BY <1>2, NoEntryType DEF Entry
  <1>4. NoEntry.last = "unknown"
    BY DEF NoEntry
  <1>5. initialize_all(c, ok) \in {e, up, bad}
    BY <1>1 DEF initialize_all
  <1> HIDE DEF e
  <1>a. up \in Entry /\ up.enabled = e.enabled /\ up.last = e.last
    BY <1>3 DEF Entry
  <1>b. bad \in Entry /\ bad.enabled = e.enabled /\ bad.last = e.last
    BY <1>3 DEF Entry
  <1> HIDE DEF up, bad
  <1>6. \A x \in {e, up, bad} : x \in Entry /\ x.enabled = f /\ x.last = "unknown"
    BY <1>3, <1>4, <1>a, <1>b
  <1>7. QED
    BY <1>1, <1>3, <1>5, <1>6 DEF Clean, f

HealthInv ==
    /\ ConnectorTypeOK
    /\ \A c \in ConnectorNames : Clean(entry[c])

LEMMA ConnectorInitially == ConnectorInit => HealthInv
  <1> SUFFICES ASSUME ConnectorInit PROVE HealthInv
    OBVIOUS
  <1>1. NoStateRow \in StateRow /\ [enabled |-> TRUE, answered |-> TRUE] \in Choice
    BY DEF NoStateRow, StateRow, Choice
  <1>2. QED
    BY <1>1, NoEntryType, NoRequestType DEF ConnectorInit, HealthInv, ConnectorTypeOK

\* The rows are read and compared for the connector of the request.
LEMMA BeginSyncType ==
    ASSUME ConnectorTypeOK, NEW o \in Operators, NEW c \in ConnectorNames, NEW b \in BOOLEAN,
           BeginSync(o, c, b)
    PROVE  /\ request' \in [Operators -> Request]
           /\ request'[o].pc = "sync" /\ request'[o].name = c /\ request'[o].toggles = b
           /\ request'[o].left = ConnectorNames /\ request'[o].writes = {}
           /\ \A p \in Operators : request'[p].pc # "none" => request'[p].name \in ConnectorNames
  <1> DEFINE x == [pc |-> "sync", name |-> c, left |-> ConnectorNames, writes |-> {},
                   toggles |-> b]
  <1>1. /\ x \in Request /\ x.pc = "sync" /\ x.name = c /\ x.left = ConnectorNames
        /\ x.writes = {} /\ x.toggles = b
    BY DEF Request
  <1>2. request' = [request EXCEPT ![o] = x]
    BY DEF BeginSync
  <1> HIDE DEF x
  <1>3. QED
    BY <1>1, <1>2 DEF ConnectorTypeOK

\* A failing call, or a health check: one entry is recorded anew, its flag kept.
LEMMA EntryKeeps ==
    ASSUME HealthInv, NEW c \in ConnectorNames, NEW x \in Entry, Clean(x),
           entry' = [entry EXCEPT ![c] = x]
    PROVE  entry' \in [ConnectorNames -> Entry] /\ \A d \in ConnectorNames : Clean(entry'[d])
  BY DEF HealthInv, ConnectorTypeOK

\* CallFails, and the answer of a health check.
LEMMA FailureStep ==
    ASSUME HealthInv, NEW c \in ConnectorNames, safe_enrich(c) \/ stream_new_cves(c)
    PROVE  /\ UNCHANGED <<booted, stateRow, request, answeredChoice>>
           /\ entry' \in [ConnectorNames -> Entry]
           /\ \A d \in ConnectorNames : Clean(entry'[d]) /\ entry'[d].enabled = entry[d].enabled
  <1>1. CallFails(c)
    BY DEF safe_enrich, stream_new_cves
  <1>2. entry[c] \in Entry /\ Clean(entry[c]) /\ entry \in [ConnectorNames -> Entry]
    BY DEF HealthInv, ConnectorTypeOK
  <1>3. PICK n \in Recorded(entry[c]) :
          entry' = [entry EXCEPT ![c] = record_failure(entry[c], n)]
    BY <1>1 DEF CallFails
  <1>4. n \in Nat
    BY <1>2, RecordedType
  <1> DEFINE x == record_failure(entry[c], n)
  <1>5. x \in Entry /\ Clean(x) /\ x.enabled = entry[c].enabled
    BY <1>2, <1>4, RecordFailureKeeps
  <1> HIDE DEF x
  <1>6. entry' = [entry EXCEPT ![c] = x]
    BY <1>3 DEF x
  <1>7. entry' \in [ConnectorNames -> Entry] /\ \A d \in ConnectorNames : Clean(entry'[d])
    BY <1>5, <1>6, EntryKeeps
  <1>8. \A d \in ConnectorNames : entry'[d].enabled = entry[d].enabled
    BY <1>2, <1>5, <1>6
  <1>9. QED
    BY <1>1, <1>7, <1>8 DEF CallFails

LEMMA HealthCheckStep ==
    ASSUME HealthInv, NEW o \in Operators, NEW h \in HealthStatuses, run_health_check(o, h)
    PROVE  /\ UNCHANGED <<booted, stateRow, answeredChoice>>
           /\ entry' \in [ConnectorNames -> Entry]
           /\ \A d \in ConnectorNames : Clean(entry'[d]) /\ entry'[d].enabled = entry[d].enabled
           /\ \E c \in ConnectorNames : BeginSync(o, c, FALSE)
  <1>1. PICK c \in ConnectorNames : c = request[o].name
    BY DEF HealthInv, ConnectorTypeOK, run_health_check
  <1>2. entry[c] \in Entry /\ Clean(entry[c]) /\ entry \in [ConnectorNames -> Entry]
    BY DEF HealthInv, ConnectorTypeOK
  <1>3. PICK n \in Recorded(entry[c]) :
          entry' = [entry EXCEPT ![c] = Checked(entry[c], h, n)]
    BY <1>1 DEF run_health_check
  <1>4. n \in Nat
    BY <1>2, RecordedType
  <1> DEFINE x == Checked(entry[c], h, n)
  <1>5. x \in Entry /\ Clean(x) /\ x.enabled = entry[c].enabled
    BY <1>2, <1>4, CheckedKeepsClean
  <1> HIDE DEF x
  <1>6. entry' = [entry EXCEPT ![c] = x]
    BY <1>3 DEF x
  <1>7. entry' \in [ConnectorNames -> Entry] /\ \A d \in ConnectorNames : Clean(entry'[d])
    BY <1>5, <1>6, EntryKeeps
  <1>8. \A d \in ConnectorNames : entry'[d].enabled = entry[d].enabled
    BY <1>2, <1>5, <1>6
  <1>9. UNCHANGED <<booted, stateRow, answeredChoice>> /\ BeginSync(o, c, FALSE)
    BY <1>1 DEF run_health_check
  <1>10. QED
    BY <1>7, <1>8, <1>9

LEMMA BootStep ==
    ASSUME HealthInv, NEW ok, bootstrap_connectors(ok)
    PROVE  /\ HealthInv'
           /\ \A c \in ConnectorNames :
                /\ entry'[c].enabled = (stateRow[c].enabled \/ ~stateRow[c].exists)
                /\ stateRow'[c].enabled = (stateRow[c].enabled \/ ~stateRow[c].exists)
                /\ stateRow'[c].exists
  <1>1. /\ booted' = TRUE /\ UNCHANGED <<request, answeredChoice>>
        /\ entry' = [c \in ConnectorNames |-> initialize_all(c, ok)]
        /\ stateRow' = [c \in ConnectorNames |->
                          [exists |-> TRUE, enabled |-> register(c).enabled]]
    BY DEF bootstrap_connectors
  <1>2. ASSUME NEW c \in ConnectorNames
        PROVE  /\ entry'[c] \in Entry /\ Clean(entry'[c])
               /\ entry'[c].enabled = (stateRow[c].enabled \/ ~stateRow[c].exists)
    BY <1>1, InitializedEntry DEF HealthInv
  <1>3. ASSUME NEW c \in ConnectorNames
        PROVE  /\ stateRow'[c] \in StateRow /\ stateRow'[c].exists
               /\ stateRow'[c].enabled = (stateRow[c].enabled \/ ~stateRow[c].exists)
    <2> DEFINE f == register(c).enabled
               x == [exists |-> TRUE, enabled |-> f]
    <2>1. f \in BOOLEAN /\ f = (stateRow[c].enabled \/ ~stateRow[c].exists)
      BY InitializedEntry DEF HealthInv, Entry
    <2>2. stateRow'[c] = x
      BY <1>1
    <2> HIDE DEF f
    <2>3. x \in StateRow /\ x.exists /\ x.enabled = f
      BY <2>1 DEF StateRow
    <2> HIDE DEF x
    <2>4. QED
      BY <2>1, <2>2, <2>3
  <1>4. entry' \in [ConnectorNames -> Entry] /\ stateRow' \in [ConnectorNames -> StateRow]
    BY <1>1, <1>2, <1>3
  <1>5. QED
    BY <1>1, <1>2, <1>3, <1>4 DEF HealthInv, ConnectorTypeOK

LEMMA DownStep ==
    ASSUME HealthInv, shutdown_all \/ ApiCrashes
    PROVE  HealthInv'
  BY NoEntryType, NoRequestType
     DEF shutdown_all, ApiCrashes, Down, HealthInv, ConnectorTypeOK

LEMMA ToggleStep ==
    ASSUME HealthInv, NEW o \in Operators, NEW c \in ConnectorNames, NEW b \in BOOLEAN,
           set_enabled(o, c, b)
    PROVE  /\ HealthInv' /\ entry'[c].enabled = b
           /\ answeredChoice'[c].enabled = b /\ ~answeredChoice'[c].answered
           /\ \A d \in ConnectorNames : d # c => /\ entry'[d] = entry[d]
                                               /\ answeredChoice'[d] = answeredChoice[d]
  <1> DEFINE e == [entry[c] EXCEPT !.enabled = b]
             x == [enabled |-> b, answered |-> FALSE]
  <1>1. entry[c] \in Entry /\ Clean(entry[c]) /\ entry \in [ConnectorNames -> Entry]
        /\ answeredChoice \in [ConnectorNames -> Choice]
    BY DEF HealthInv, ConnectorTypeOK
  <1>2. /\ e \in Entry /\ e.enabled = b /\ e.last = entry[c].last
        /\ e.unhealthy = entry[c].unhealthy /\ e.failures = entry[c].failures
    BY <1>1 DEF Entry
  <1>3. x \in Choice /\ x.enabled = b /\ ~x.answered
    BY DEF Choice
  <1>4. /\ entry' = [entry EXCEPT ![c] = e] /\ answeredChoice' = [answeredChoice EXCEPT ![c] = x]
        /\ BeginSync(o, c, TRUE) /\ UNCHANGED <<booted, stateRow>>
    BY DEF set_enabled
  <1> HIDE DEF e, x
  <1>5. Clean(e)
    BY <1>1, <1>2 DEF Clean
  <1>6. entry' \in [ConnectorNames -> Entry] /\ \A d \in ConnectorNames : Clean(entry'[d])
    BY <1>2, <1>4, <1>5, EntryKeeps
  <1>7. /\ request' \in [Operators -> Request]
        /\ \A p \in Operators : request'[p].pc # "none" => request'[p].name \in ConnectorNames
    BY <1>4, BeginSyncType DEF HealthInv
  <1>8. HealthInv'
    BY <1>3, <1>4, <1>6, <1>7 DEF HealthInv, ConnectorTypeOK
  <1>9. QED
    BY <1>1, <1>2, <1>3, <1>4, <1>8

\* A request opens that toggles nothing.
LEMMA OpenStep ==
    ASSUME HealthInv, NEW o \in Operators, NEW c \in ConnectorNames,
           update_config(o, c) \/ StartHealthCheck(o, c)
    PROVE  /\ HealthInv' /\ booted /\ UNCHANGED <<booted, entry, stateRow, answeredChoice>>
           /\ BeginSync(o, c, FALSE)
              \/ (request'[o].pc = "check" /\ \A p \in Operators : p # o => request'[p] = request[p])
  <1>1. booted /\ UNCHANGED <<booted, entry, stateRow, answeredChoice>>
    BY DEF update_config, StartHealthCheck
  <1>2. CASE update_config(o, c)
    <2>1. BeginSync(o, c, FALSE)
      BY <1>2 DEF update_config
    <2>2. QED
      BY <1>1, <2>1, BeginSyncType DEF HealthInv, ConnectorTypeOK
  <1>3. CASE StartHealthCheck(o, c)
    <2> DEFINE x == [NoRequest EXCEPT !.pc = "check", !.name = c]
    <2>1. x \in Request /\ x.pc = "check" /\ x.name = c
      BY NoRequestType DEF Request
    <2>2. request' = [request EXCEPT ![o] = x]
      BY <1>3 DEF StartHealthCheck
    <2> HIDE DEF x
    <2>3. QED
      BY <1>1, <2>1, <2>2 DEF HealthInv, ConnectorTypeOK
  <1>4. QED
    BY <1>2, <1>3

LEMMA RowOfType ==
    ASSUME HealthInv, NEW c \in ConnectorNames
    PROVE  RowOf(c) \in StateRow /\ RowOf(c).exists /\ RowOf(c).enabled = entry[c].enabled
  <1> DEFINE f == entry[c].enabled
  <1>1. f \in BOOLEAN /\ RowOf(c) = [exists |-> TRUE, enabled |-> f]
    BY DEF HealthInv, ConnectorTypeOK, Entry, RowOf
  <1> HIDE DEF f
  <1>2. RowOf(c) \in StateRow /\ RowOf(c).exists /\ RowOf(c).enabled = f
    BY <1>1 DEF StateRow
  <1>3. QED
    BY <1>2 DEF f

\* One row is read and compared.
LEMMA SyncRowStep ==
    ASSUME HealthInv, NEW o \in Operators, NEW c \in ConnectorNames, SyncRow(o, c)
    PROVE  /\ HealthInv' /\ UNCHANGED <<booted, entry, stateRow, answeredChoice>>
           /\ request[o].pc = "sync" /\ request'[o].pc = "sync"
           /\ request'[o].name = request[o].name /\ request'[o].toggles = request[o].toggles
           /\ request'[o].left = request[o].left \ {c}
           /\ request'[o].writes = IF RowOf(c) = stateRow[c] THEN request[o].writes
                                  ELSE request[o].writes \cup {[name |-> c, row |-> RowOf(c)]}
           /\ \A p \in Operators : p # o => request'[p] = request[p]
  <1> DEFINE left == request[o].left \ {c}
             w == [name |-> c, row |-> RowOf(c)]
             writes == IF RowOf(c) = stateRow[c] THEN request[o].writes
                       ELSE request[o].writes \cup {w}
             x == [request[o] EXCEPT !.left = left, !.writes = writes]
  <1>1. request[o] \in Request /\ request \in [Operators -> Request]
    BY DEF HealthInv, ConnectorTypeOK
  <1>2. request' = [request EXCEPT ![o] = x] /\ request[o].pc = "sync"
        /\ UNCHANGED <<booted, entry, stateRow, answeredChoice>>
    BY <1>1 DEF SyncRow
  <1>3. w \in [name : ConnectorNames, row : StateRow]
    BY RowOfType
  <1> HIDE DEF w
  <1>4. left \in SUBSET ConnectorNames
        /\ writes \in SUBSET [name : ConnectorNames, row : StateRow]
    BY <1>1, <1>3 DEF Request
  <1> HIDE DEF left, writes
  <1>5. /\ x \in Request /\ x.pc = request[o].pc /\ x.name = request[o].name
        /\ x.toggles = request[o].toggles /\ x.left = left /\ x.writes = writes
    BY <1>1, <1>4 DEF Request
  <1> HIDE DEF x
  <1>6. request'[o] = x /\ request' \in [Operators -> Request]
        /\ \A p \in Operators : p # o => request'[p] = request[p]
    BY <1>1, <1>2, <1>5
  <1>7. HealthInv'
    BY <1>2, <1>5, <1>6 DEF HealthInv, ConnectorTypeOK
  <1>8. QED
    BY <1>2, <1>5, <1>6, <1>7 DEF left, writes, w

\* The commit of sync_state_to_db.
LEMMA SyncCommitStep ==
    ASSUME HealthInv, NEW o \in Operators, sync_state_to_db(o)
    PROVE  /\ HealthInv' /\ UNCHANGED <<booted, entry>>
           /\ \A p \in Operators : request'[p] = NoRequest \/ (p # o /\ request'[p] = request[p])
           /\ \A c \in ConnectorNames :
                \/ /\ stateRow'[c] = stateRow[c]
                   /\ ~\E w \in request[o].writes : w.name = c
                \/ \E w \in request[o].writes : w.name = c /\ stateRow'[c] = w.row
           /\ \A c \in ConnectorNames :
                /\ answeredChoice'[c].enabled = answeredChoice[c].enabled
                /\ answeredChoice'[c].answered =>
                     answeredChoice[c].answered \/ (c = request[o].name /\ request[o].toggles)
  <1>1. /\ request[o] \in Request /\ request \in [Operators -> Request]
        /\ request[o].name \in ConnectorNames
        /\ answeredChoice \in [ConnectorNames -> Choice]
        /\ stateRow \in [ConnectorNames -> StateRow]
    BY DEF HealthInv, ConnectorTypeOK, sync_state_to_db
  <1>2. UNCHANGED <<booted, entry>> /\ request' = [request EXCEPT ![o] = NoRequest]
    BY DEF sync_state_to_db
  <1>3. request' \in [Operators -> Request]
        /\ \A p \in Operators : request'[p] = NoRequest \/ (p # o /\ request'[p] = request[p])
    BY <1>1, <1>2, NoRequestType
  <1> DEFINE W == request[o].writes
  <1>4. stateRow' = [c \in ConnectorNames |->
                      IF \E w \in W : w.name = c
                      THEN (CHOOSE w \in W : w.name = c).row ELSE stateRow[c]]
    BY DEF sync_state_to_db
  <1>5. W \subseteq [name : ConnectorNames, row : StateRow]
    BY <1>1 DEF Request
  <1> HIDE DEF W
  <1>6. ASSUME NEW c \in ConnectorNames
        PROVE  /\ stateRow'[c] \in StateRow
               /\ \/ stateRow'[c] = stateRow[c] /\ ~\E w \in W : w.name = c
                  \/ \E w \in W : w.name = c /\ stateRow'[c] = w.row
    <2>1. CASE \E w \in W : w.name = c
      <3>1. PICK w \in W : w.name = c /\ w = (CHOOSE v \in W : v.name = c)
        BY <2>1
      <3>2. stateRow'[c] = w.row
        BY <1>4, <2>1, <3>1
      <3>3. QED
        BY <1>5, <3>1, <3>2
    <2>2. CASE ~\E w \in W : w.name = c
      BY <1>1, <1>4, <2>2
    <2>3. QED
      BY <2>1, <2>2
  <1>7. stateRow' \in [ConnectorNames -> StateRow]
    BY <1>4, <1>6
  <1>8. PICK n \in ConnectorNames : n = request[o].name
    BY <1>1
  <1> DEFINE a == answeredChoice[n].answered \/ request[o].toggles
             x == [answeredChoice[n] EXCEPT !.answered = a]
  <1>9. answeredChoice' = [answeredChoice EXCEPT ![n] = x]
    BY <1>1, <1>8 DEF sync_state_to_db
  <1>10. a \in BOOLEAN /\ (a => answeredChoice[n].answered \/ request[o].toggles)
    OBVIOUS
  <1> HIDE DEF a
  <1>11. x \in Choice /\ x.enabled = answeredChoice[n].enabled /\ x.answered = a
    BY <1>1, <1>10 DEF Choice
  <1> HIDE DEF x
  <1>12. ASSUME NEW c \in ConnectorNames
         PROVE  /\ answeredChoice'[c].enabled = answeredChoice[c].enabled
                /\ answeredChoice'[c].answered =>
                     answeredChoice[c].answered \/ (c = request[o].name /\ request[o].toggles)
    BY <1>1, <1>8, <1>9, <1>10, <1>11
  <1>13. answeredChoice' \in [ConnectorNames -> Choice]
    BY <1>1, <1>9, <1>11
  <1>14. HealthInv'
    <2>1. \A p \in Operators : request'[p].pc # "none" => request'[p].name \in ConnectorNames
      BY <1>3, NoRequestType DEF HealthInv, ConnectorTypeOK
    <2>2. QED
      BY <1>2, <1>3, <1>7, <1>13, <2>1 DEF HealthInv, ConnectorTypeOK
  <1>15. QED
    BY <1>2, <1>3, <1>6, <1>12, <1>14 DEF W

LEMMA HealthStep == HealthInv /\ [ConnectorNext]_connectorVars => HealthInv'
  <1> SUFFICES ASSUME HealthInv, [ConnectorNext]_connectorVars PROVE HealthInv'
    OBVIOUS
  <1>1. CASE UNCHANGED connectorVars
    BY <1>1 DEF connectorVars, HealthInv, ConnectorTypeOK
  <1>2. ASSUME NEW c \in ConnectorNames, safe_enrich(c) \/ stream_new_cves(c) PROVE HealthInv'
    BY <1>2, FailureStep DEF HealthInv, ConnectorTypeOK
  <1>3. ASSUME NEW o \in Operators, NEW h \in HealthStatuses, run_health_check(o, h)
        PROVE  HealthInv'
    BY <1>3, HealthCheckStep, BeginSyncType DEF HealthInv, ConnectorTypeOK
  <1>4. CASE ConnectorNext
    BY <1>2, <1>3, <1>4, BootStep, DownStep, ToggleStep, OpenStep, SyncRowStep, SyncCommitStep
       DEF ConnectorNext
  <1>5. QED
    BY <1>1, <1>4

\* Entries, rows and requests are well formed and a connector reported healthy
\* is below the threshold, for any number of operators and connectors.
THEOREM HealthInvariant == ConnectorSpec => []HealthInv
  BY ConnectorInitially, HealthStep, PTL DEF ConnectorSpec

\* However health checks and failing enrichments interleave, a healthy
\* connector's flag is down and its window below the threshold
\* (run_health_check, _record_failure).
THEOREM HealthyIsCleanAlways == ConnectorSpec => []HealthyIsClean
  <1>1. HealthInv => HealthyIsClean
    BY DEF HealthInv, HealthyIsClean, Clean
  <1>2. QED
    BY <1>1, HealthInvariant, PTL

\* What a sync has compared so far agrees with the table and its writes, and
\* memory has the flag the operator asked for.
SyncFresh(o) ==
    request[o].pc = "sync" =>
      /\ \A w \in request[o].writes : w.row = RowOf(w.name)
      /\ \A c \in ConnectorNames \ request[o].left :
           RowOf(c) = stateRow[c] \/ \E w \in request[o].writes : w.name = c
      /\ request[o].toggles =>
           answeredChoice[request[o].name].enabled = entry[request[o].name].enabled

Kept(c) ==
    /\ booted => stateRow[c].exists
    /\ ~stateRow[c].exists => answeredChoice[c].enabled
    /\ answeredChoice[c].answered =>
         /\ booted => entry[c].enabled = answeredChoice[c].enabled
         /\ stateRow[c].exists => stateRow[c].enabled = answeredChoice[c].enabled

ChoiceInv ==
    /\ HealthInv
    /\ \A o \in Operators : (request[o].pc # "none" => booted) /\ SyncFresh(o)
    /\ \A c \in ConnectorNames : Kept(c)

LEMMA ChoiceInitially == ConnectorInit => ChoiceInv
  <1> SUFFICES ASSUME ConnectorInit PROVE ChoiceInv
    OBVIOUS
  <1>1. HealthInv
    BY ConnectorInitially
  <1>2. ~NoStateRow.exists /\ [enabled |-> TRUE, answered |-> TRUE].enabled
    BY DEF NoStateRow
  <1>3. QED
    BY <1>1, <1>2, NoRequestType DEF ConnectorInit, ChoiceInv, SyncFresh, Kept

\* A request that has just begun has compared nothing.
LEMMA SyncBegins ==
    ASSUME \A o, p \in Operators : o = p,
           ConnectorTypeOK, NEW o \in Operators, NEW c \in ConnectorNames, NEW b \in BOOLEAN,
           BeginSync(o, c, b), b => answeredChoice'[c].enabled = entry'[c].enabled
    PROVE  \A p \in Operators : SyncFresh(p)'
  BY BeginSyncType DEF SyncFresh

LEMMA ChoiceToggle ==
    ASSUME \A o, p \in Operators : o = p,
           ChoiceInv, NEW o \in Operators, NEW c \in ConnectorNames, NEW b \in BOOLEAN,
           set_enabled(o, c, b)
    PROVE  ChoiceInv'
  <1>1. /\ HealthInv' /\ entry'[c].enabled = b
        /\ answeredChoice'[c].enabled = b /\ ~answeredChoice'[c].answered
        /\ \A d \in ConnectorNames : d # c => /\ entry'[d] = entry[d]
                                            /\ answeredChoice'[d] = answeredChoice[d]
    BY ToggleStep DEF ChoiceInv
  <1>2. booted /\ UNCHANGED <<booted, stateRow>> /\ BeginSync(o, c, TRUE)
    BY DEF set_enabled
  <1>3. \A p \in Operators : SyncFresh(p)'
    BY <1>1, <1>2, SyncBegins DEF ChoiceInv, HealthInv
  <1>4. \A d \in ConnectorNames : Kept(d)'
    BY <1>1, <1>2 DEF ChoiceInv, Kept
  <1>5. QED
    BY <1>1, <1>2, <1>3, <1>4 DEF ChoiceInv

LEMMA ChoiceOpen ==
    ASSUME \A o, p \in Operators : o = p,
           ChoiceInv, NEW o \in Operators, NEW c \in ConnectorNames,
           update_config(o, c) \/ StartHealthCheck(o, c)
    PROVE  ChoiceInv'
  <1>1. /\ HealthInv' /\ booted /\ UNCHANGED <<booted, entry, stateRow, answeredChoice>>
        /\ BeginSync(o, c, FALSE) \/ request'[o].pc = "check"
    BY OpenStep DEF ChoiceInv
  <1>2. \A p \in Operators : SyncFresh(p)'
    <2>1. CASE BeginSync(o, c, FALSE)
      BY <2>1, SyncBegins DEF ChoiceInv, HealthInv
    <2>2. CASE request'[o].pc = "check"
      BY <2>2 DEF SyncFresh
    <2>3. QED
      BY <1>1, <2>1, <2>2
  <1>3. \A d \in ConnectorNames : Kept(d)'
    BY <1>1 DEF ChoiceInv, Kept
  <1>4. QED
    BY <1>1, <1>2, <1>3 DEF ChoiceInv

\* Failures and checks record health and leave the flags alone.
LEMMA ChoiceFailure ==
    ASSUME ChoiceInv, NEW c \in ConnectorNames, safe_enrich(c) \/ stream_new_cves(c)
    PROVE  ChoiceInv'
  <1>1. /\ UNCHANGED <<booted, stateRow, request, answeredChoice>>
        /\ \A d \in ConnectorNames : entry'[d].enabled = entry[d].enabled
        /\ entry' \in [ConnectorNames -> Entry] /\ \A d \in ConnectorNames : Clean(entry'[d])
    BY FailureStep DEF ChoiceInv
  <1>2. HealthInv'
    BY <1>1 DEF ChoiceInv, HealthInv, ConnectorTypeOK
  <1>3. \A d \in ConnectorNames : RowOf(d)' = RowOf(d)
    BY <1>1 DEF RowOf
  <1>4. ASSUME NEW o \in Operators PROVE SyncFresh(o)'
    <2>1. /\ request[o].pc # "none" => request[o].name \in ConnectorNames
          /\ \A w \in request[o].writes : w.name \in ConnectorNames
          /\ SyncFresh(o)
      BY DEF ChoiceInv, HealthInv, ConnectorTypeOK, Request
    <2>2. QED
      BY <1>1, <1>3, <2>1 DEF SyncFresh
  <1>5. \A d \in ConnectorNames : Kept(d)'
    BY <1>1 DEF ChoiceInv, Kept
  <1>6. QED
    BY <1>1, <1>2, <1>4, <1>5 DEF ChoiceInv

LEMMA ChoiceHealthCheck ==
    ASSUME \A o, p \in Operators : o = p,
           ChoiceInv, NEW o \in Operators, NEW h \in HealthStatuses, run_health_check(o, h)
    PROVE  ChoiceInv'
  <1>1. /\ UNCHANGED <<booted, stateRow, answeredChoice>>
        /\ entry' \in [ConnectorNames -> Entry]
        /\ \A d \in ConnectorNames : Clean(entry'[d]) /\ entry'[d].enabled = entry[d].enabled
        /\ \E c \in ConnectorNames : BeginSync(o, c, FALSE)
    BY HealthCheckStep DEF ChoiceInv
  <1>2. HealthInv'
    BY <1>1, BeginSyncType DEF ChoiceInv, HealthInv, ConnectorTypeOK
  <1>3. booted
    BY DEF ChoiceInv, run_health_check
  <1>4. \A p \in Operators : SyncFresh(p)'
    BY <1>1, SyncBegins DEF ChoiceInv, HealthInv
  <1>5. \A d \in ConnectorNames : Kept(d)'
    BY <1>1 DEF ChoiceInv, Kept
  <1>6. QED
    BY <1>1, <1>2, <1>3, <1>4, <1>5 DEF ChoiceInv

LEMMA ChoiceSyncRow ==
    ASSUME \A o, p \in Operators : o = p,
           ChoiceInv, NEW o \in Operators, NEW c \in ConnectorNames, SyncRow(o, c)
    PROVE  ChoiceInv'
  <1> DEFINE w == [name |-> c, row |-> RowOf(c)]
  <1>1. /\ HealthInv' /\ UNCHANGED <<booted, entry, stateRow, answeredChoice>>
        /\ request[o].pc = "sync" /\ request'[o].pc = "sync"
        /\ request'[o].name = request[o].name /\ request'[o].toggles = request[o].toggles
        /\ request'[o].left = request[o].left \ {c}
        /\ request'[o].writes = IF RowOf(c) = stateRow[c] THEN request[o].writes
                               ELSE request[o].writes \cup {w}
    BY SyncRowStep DEF ChoiceInv
  <1>2. w.name = c /\ w.row = RowOf(c)
    OBVIOUS
  <1> HIDE DEF w
  <1>3. \A d : RowOf(d)' = RowOf(d)
    BY <1>1 DEF RowOf
  <1>4. SyncFresh(o)'
    <2>1. SyncFresh(o)
      BY DEF ChoiceInv
    <2>2. CASE RowOf(c) = stateRow[c]
      BY <1>1, <1>3, <2>1, <2>2 DEF SyncFresh
    <2>3. CASE RowOf(c) # stateRow[c]
      BY <1>1, <1>2, <1>3, <2>1, <2>3 DEF SyncFresh
    <2>4. QED
      BY <2>2, <2>3
  <1>5. booted /\ \A d \in ConnectorNames : Kept(d)'
    BY <1>1 DEF ChoiceInv, Kept
  <1>6. QED
    BY <1>1, <1>4, <1>5 DEF ChoiceInv

\* The commit brings every row to the flag in memory.
LEMMA ChoiceCommit ==
    ASSUME \A o, p \in Operators : o = p,
           ChoiceInv, NEW o \in Operators, sync_state_to_db(o)
    PROVE  ChoiceInv'
  <1>1. /\ HealthInv' /\ UNCHANGED <<booted, entry>>
        /\ \A p \in Operators : request'[p] = NoRequest
    BY SyncCommitStep DEF ChoiceInv
  <1>2. request[o].pc = "sync" /\ request[o].left = {} /\ booted /\ SyncFresh(o)
    BY DEF sync_state_to_db, ChoiceInv
  <1>3. ASSUME NEW c \in ConnectorNames PROVE stateRow'[c] = RowOf(c)
    <2>1. \/ /\ stateRow'[c] = stateRow[c]
             /\ ~\E w \in request[o].writes : w.name = c
          \/ \E w \in request[o].writes : w.name = c /\ stateRow'[c] = w.row
      BY SyncCommitStep DEF ChoiceInv
    <2>2. QED
      BY <1>2, <2>1 DEF SyncFresh
  <1>4. ASSUME NEW c \in ConnectorNames PROVE Kept(c)'
    <2>1. stateRow'[c].exists /\ stateRow'[c].enabled = entry'[c].enabled
      BY <1>1, <1>3, RowOfType DEF ChoiceInv
    <2>2. answeredChoice'[c].answered => entry[c].enabled = answeredChoice'[c].enabled
      <3>1. /\ answeredChoice'[c].enabled = answeredChoice[c].enabled
            /\ answeredChoice'[c].answered =>
                 answeredChoice[c].answered \/ (c = request[o].name /\ request[o].toggles)
        BY SyncCommitStep DEF ChoiceInv
      <3>2. answeredChoice[c].answered => entry[c].enabled = answeredChoice[c].enabled
        BY <1>2 DEF ChoiceInv, Kept
      <3>3. c = request[o].name /\ request[o].toggles =>
              entry[c].enabled = answeredChoice[c].enabled
        BY <1>2 DEF SyncFresh
      <3>4. QED
        BY <3>1, <3>2, <3>3
    <2>3. QED
      BY <1>1, <2>1, <2>2 DEF Kept
  <1>5. \A p \in Operators : (request'[p].pc # "none" => booted') /\ SyncFresh(p)'
    BY <1>1, NoRequestType DEF SyncFresh
  <1>6. QED
    BY <1>1, <1>4, <1>5 DEF ChoiceInv

LEMMA ChoiceBoot ==
    ASSUME ChoiceInv, NEW ok, bootstrap_connectors(ok)
    PROVE  ChoiceInv'
  <1>1. /\ HealthInv'
        /\ \A c \in ConnectorNames :
             /\ entry'[c].enabled = (stateRow[c].enabled \/ ~stateRow[c].exists)
             /\ stateRow'[c].enabled = (stateRow[c].enabled \/ ~stateRow[c].exists)
             /\ stateRow'[c].exists
    BY BootStep DEF ChoiceInv
  <1>2. ~booted /\ UNCHANGED <<request, answeredChoice>>
    BY DEF bootstrap_connectors
  <1>3. \A o \in Operators : request'[o].pc = "none"
    BY <1>2 DEF ChoiceInv
  <1>4. ASSUME NEW c \in ConnectorNames PROVE Kept(c)'
    <2>1. stateRow[c].enabled \in BOOLEAN /\ stateRow[c].exists \in BOOLEAN
          /\ answeredChoice[c].enabled \in BOOLEAN
      BY DEF ChoiceInv, HealthInv, ConnectorTypeOK, StateRow, Choice
    <2>2. answeredChoice[c].answered =>
            (stateRow[c].enabled \/ ~stateRow[c].exists) = answeredChoice[c].enabled
      BY <2>1 DEF ChoiceInv, Kept
    <2>3. QED
      BY <1>1, <1>2, <2>2 DEF Kept
  <1>5. QED
    BY <1>1, <1>3, <1>4 DEF ChoiceInv, SyncFresh

LEMMA ChoiceDown ==
    ASSUME ChoiceInv, shutdown_all \/ ApiCrashes
    PROVE  ChoiceInv'
  <1>1. HealthInv' /\ ~booted' /\ UNCHANGED <<stateRow, answeredChoice>>
        /\ \A o \in Operators : request'[o] = NoRequest
    BY DownStep DEF ChoiceInv, shutdown_all, ApiCrashes, Down
  <1>2. \A c \in ConnectorNames : Kept(c)'
    BY <1>1 DEF ChoiceInv, Kept
  <1>3. QED
    BY <1>1, <1>2, NoRequestType DEF ChoiceInv, SyncFresh

LEMMA ChoiceStep ==
    ASSUME \A o, p \in Operators : o = p
    PROVE  ChoiceInv /\ [ConnectorNext]_connectorVars => ChoiceInv'
  <1> SUFFICES ASSUME ChoiceInv, [ConnectorNext]_connectorVars PROVE ChoiceInv'
    OBVIOUS
  <1>1. CASE UNCHANGED connectorVars
    BY <1>1 DEF connectorVars, ChoiceInv, HealthInv, ConnectorTypeOK, SyncFresh, Kept, RowOf
  <1>2. CASE ConnectorNext
    BY <1>2, ChoiceToggle, ChoiceOpen, ChoiceFailure, ChoiceHealthCheck, ChoiceSyncRow,
       ChoiceCommit, ChoiceBoot, ChoiceDown DEF ConnectorNext
  <1>3. QED
    BY <1>1, <1>2

\* With one operator at a time, what an open sync compared is still so when it
\* commits, and a connector without a row is one nobody switched off.
THEOREM ChoiceInvariant ==
    ASSUME \A o, p \in Operators : o = p
    PROVE  ConnectorSpec => []ChoiceInv
  BY ChoiceInitially, ChoiceStep, PTL DEF ConnectorSpec

\* With one operator at a time, a toggle that was answered is in connector_state
\* and survives crashes and restarts (sync_state_to_db, bootstrap_connectors).
THEOREM OperatorChoiceKeptAlways ==
    ASSUME \A o, p \in Operators : o = p
    PROVE  ConnectorSpec => []OperatorChoiceKept
  <1>1. ChoiceInv => OperatorChoiceKept
    BY DEF ChoiceInv, Kept, OperatorChoiceKept
  <1>2. QED
    BY <1>1, ChoiceInvariant, PTL


-----------------------------------------------------------------------------
(* Sigma targets.                                                          *)

LEMMA EnabledFinite == IsFiniteSet(EnabledTargets)
  BY TargetAssumption, FS_Subset DEF EnabledTargets

\* Every order of the SELECT holds every enabled target.
LEMMA OrderComplete ==
    ASSUME NEW o \in LoadOrders
    PROVE  /\ DOMAIN o = 1..Cardinality(EnabledTargets)
           /\ \A i \in DOMAIN o : o[i] \in EnabledTargets
           /\ \A i \in DOMAIN o : i # 0
           /\ \A t \in EnabledTargets : \E i \in DOMAIN o : o[i] = t
           /\ \A i, j \in DOMAIN o : o[i] = o[j] => i = j
           /\ \A i \in DOMAIN o : 1..(i - 1) \subseteq (DOMAIN o) \ {i}
  <1> DEFINE n == Cardinality(EnabledTargets)
  <1>1. n \in Nat
    BY EnabledFinite, FS_CardinalityType
  <1>2. IsFiniteSet(1..n) /\ Cardinality(1..n) = n
    <2>1. 1 \in Int /\ n \in Int
      BY <1>1
    <2>2. IsFiniteSet(1..n) /\ Cardinality(1..n) = IF 1 > n THEN 0 ELSE n - 1 + 1
      BY <2>1, FS_Interval
    <2>3. QED
      BY <1>1, <2>2
  <1>3. o \in [1..n -> EnabledTargets] /\ \A i, j \in 1..n : o[i] = o[j] => i = j
    BY DEF LoadOrders
  <1>4. o \in Injection(1..n, EnabledTargets)
    BY <1>3 DEF Injection, IsInjective
  <1>5. o \in Surjection(1..n, EnabledTargets)
    BY <1>2, <1>4, EnabledFinite, FS_Injection
  <1>6. \A t \in EnabledTargets : \E i \in 1..n : o[i] = t
    BY <1>5 DEF Surjection
  <1>7. \A i \in 1..n : i # 0 /\ 1..(i - 1) \subseteq (1..n) \ {i}
    BY <1>1
  <1>8. QED
    BY <1>3, <1>6, <1>7

\* One claimant gets the rule, wherever the order puts it.
LEMMA ClaimantDecides ==
    ASSUME NEW kind \in RuleKinds, NEW t, Claimants(kind) = {t}, NEW o \in LoadOrders
    PROVE  select_target(o, kind) = Destination(o, t, kind)
  <1> DEFINE m == FirstIndex(o, LAMBDA u : MatchOf(u, kind) # 0)
  <1>1. \A u \in EnabledTargets : MatchOf(u, kind) # 0 <=> u = t
    BY DEF Claimants
  <1>2. t \in EnabledTargets
    BY DEF Claimants
  <1>3. PICK i \in DOMAIN o : o[i] = t
    BY <1>2, OrderComplete
  <1>4. MatchOf(o[i], kind) # 0 /\ \A j \in 1..(i - 1) : ~(MatchOf(o[j], kind) # 0)
    BY <1>1, <1>2, <1>3, OrderComplete
  <1>5. m \in DOMAIN o /\ MatchOf(o[m], kind) # 0
    BY <1>3, <1>4 DEF FirstIndex
  <1>6. m # 0 /\ o[m] = t
    BY <1>1, <1>5, OrderComplete
  <1>7. QED
    BY <1>6 DEF select_target

\* Without a claimant the only default gets it, or there is no target.
LEMMA DefaultDecides ==
    ASSUME NEW kind \in RuleKinds, Claimants(kind) = {}, NEW o \in LoadOrders
    PROVE  /\ Defaults = {} => select_target(o, kind) = NoTarget
           /\ \A d : Defaults = {d} => select_target(o, kind) = d
  <1> DEFINE m == FirstIndex(o, LAMBDA u : MatchOf(u, kind) # 0)
             f == FirstIndex(o, LAMBDA u : targets[u].default)
  <1>1. m = 0
    <2>1. ~ \E i \in DOMAIN o : MatchOf(o[i], kind) # 0
      BY OrderComplete DEF Claimants
    <2>2. QED
      BY <2>1 DEF FirstIndex
  <1>2. ASSUME Defaults = {} PROVE select_target(o, kind) = NoTarget
    <2>1. ~ \E i \in DOMAIN o : targets[o[i]].default
      BY <1>2, OrderComplete DEF Defaults
    <2>2. f = 0
      BY <2>1 DEF FirstIndex
    <2>3. QED
      BY <1>1, <2>2 DEF select_target
  <1>3. ASSUME NEW d, Defaults = {d} PROVE select_target(o, kind) = d
    <2>1. d \in EnabledTargets /\ \A u \in EnabledTargets : targets[u].default => u = d
      BY <1>3 DEF Defaults
    <2>2. targets[d].default
      BY <1>3 DEF Defaults
    <2>3. PICK i \in DOMAIN o : o[i] = d
      BY <2>1, OrderComplete
    <2>4. targets[o[i]].default /\ \A j \in 1..(i - 1) : ~targets[o[j]].default
      BY <2>1, <2>2, <2>3, OrderComplete
    <2>5. f \in DOMAIN o /\ targets[o[f]].default
      BY <2>3, <2>4 DEF FirstIndex
    <2>6. f # 0 /\ o[f] = d
      BY <2>1, <2>5, OrderComplete
    <2>7. QED
      BY <1>1, <2>6 DEF select_target
  <1>4. QED
    BY <1>2, <1>3

LEMMA RoutingIsUnambiguous == UnambiguousRouting
  <1> SUFFICES ASSUME NEW kind \in RuleKinds,
                      \/ Cardinality(Claimants(kind)) = 1
                      \/ Claimants(kind) = {} /\ Cardinality(Defaults) <= 1
               PROVE  \E t \in EnabledTargets \cup {NoTarget} :
                        \A o \in LoadOrders : select_target(o, kind) = t
    BY DEF UnambiguousRouting
  <1>1. IsFiniteSet(Claimants(kind)) /\ IsFiniteSet(Defaults)
    BY EnabledFinite, FS_Subset DEF Claimants, Defaults
  <1>2. CASE Cardinality(Claimants(kind)) = 1
    <2>1. PICK t : Claimants(kind) = {t}
      BY <1>1, <1>2, FS_Singleton
    <2>2. t \in EnabledTargets
      BY <2>1 DEF Claimants
    <2> DEFINE name == targets[t].clauses[MatchOf(t, kind)].target_name
               goal == IF name \in EnabledTargets THEN name ELSE t
    <2>3. goal \in EnabledTargets
      BY <2>2
    <2>4. \A o \in LoadOrders : select_target(o, kind) = goal
      BY <2>1, ClaimantDecides DEF Destination
    <2>5. QED
      BY <2>3, <2>4
  <1>3. CASE Claimants(kind) = {} /\ Cardinality(Defaults) <= 1
    <2>1. CASE Defaults = {}
      BY <1>3, <2>1, DefaultDecides
    <2>2. CASE Defaults # {}
      <3>1. Cardinality(Defaults) = 1
        <4>1. Cardinality(Defaults) \in Nat
          BY <1>1, FS_CardinalityType
        <4>2. Cardinality(Defaults) # 0
          BY <1>1, <2>2, FS_EmptySet
        <4>3. QED
          BY <1>3, <4>1, <4>2
      <3>2. PICK d : Defaults = {d}
        BY <1>1, <3>1, FS_Singleton
      <3>3. d \in EnabledTargets
        BY <3>2 DEF Defaults
      <3>4. QED
        BY <1>3, <3>2, <3>3, DefaultDecides
    <2>3. QED
      BY <2>1, <2>2
  <1>4. QED
    BY <1>2, <1>3

\* RoutingEngine.select_target sends a rule to the same place whatever order the
\* rows come in, unless it warned, for any targets and clauses of any length.
THEOREM UnambiguousRoutingAlways == TargetSpec => []UnambiguousRouting
  BY RoutingIsUnambiguous, PTL
=============================================================================
