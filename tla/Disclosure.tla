------------------------------ MODULE Disclosure ------------------------------
(***************************************************************************)
(* Who may read what, and until when: the declared TLP of an entity, the   *)
(* embargo that overrides it, grants and embargo participants, the claims  *)
(* of a token issued at login, the beat task that releases what expired,   *)
(* and the predicates every read path evaluates at the time of the read.   *)
(* TLP levels are their restriction_level: 0 clear, 1 green, 2 amber,      *)
(* 3 amber+strict, 4 red.                                                  *)
(***************************************************************************)
EXTENDS Naturals

CONSTANTS
    Users, Content,      \* users; rows of cves, source_documents, attack_chains
    SourceLevels,        \* levels a source declares
    MaxTime              \* bound: the clock

VARIABLES
    now,
    content,       \* declared TLP and embargo_until (0 is NULL) of each row
    grants,        \* tlp_access_grants: user, entity, expiry
    participants,  \* embargo_participants
    account,       \* users: tier and clearance
    token,         \* the claims each user presents
    releaser,      \* ids the release_embargoed_content task selected
    promised,      \* history: the end a source declared last, 0 once a maintainer lifted it
    rearmed        \* history: rows declared anew while the releaser had their ids

people == <<grants, participants, account, token>>
embargoes == <<content, releaser, promised, rearmed>>
disclosureVars == <<now, people, embargoes>>

CLEAR == 0
GREEN == 1
RED == 4
Grant(u, e, x) == [user |-> u, entity |-> e, expires |-> x]
Participant(u, e) == [user |-> u, entity |-> e]
Account(t, c) == [tier |-> t, clearance |-> c]
NoToken == Account("anonymous", CLEAR)
MaxOf(a, b) == IF a > b THEN a ELSE b

(***************************************************************************)
(* Predicates.                                                             *)
(***************************************************************************)
effective_tlp(row) == IF row.until > now THEN RED ELSE row.tlp
is_anonymous(claims) == claims.tier = "anonymous"
has_explicit_grant(u, e) ==
    \E g \in grants : g.user = u /\ g.entity = e /\ (g.expires = 0 \/ g.expires > now)
is_embargo_participant(u, e) == Participant(u, e) \in participants

can_user_access(u, claims, tlp, e, embargoed) ==
    \/ tlp = CLEAR /\ ~embargoed
    \/ /\ ~is_anonymous(claims)
       /\ IF embargoed THEN is_embargo_participant(u, e)
          ELSE \/ tlp = GREEN /\ claims.clearance >= GREEN
               \/ tlp > GREEN /\ has_explicit_grant(u, e)

\* apply_tlp_filter and enforce_tlp_access: an entity that is red by itself is
\* not counted as embargoed.
enforce_tlp_access(u, e) ==
    LET effective == effective_tlp(content[e])
    IN can_user_access(u, token[u], effective, e, effective = RED /\ content[e].tlp # RED)

apply_tlp_filter(u) == {e \in Content : enforce_tlp_access(u, e)}

\* The fast path, without the database.
visible_to_user_sync(u) ==
    {e \in Content : \/ effective_tlp(content[e]) = CLEAR
                     \/ /\ ~is_anonymous(token[u])
                        /\ effective_tlp(content[e]) = GREEN
                        /\ token[u].clearance >= GREEN}

\* Event.visible_to, of an event about e: emitted with the declared level, and
\* as embargoed when there is an end, past or not.
visible_to(u, e) ==
    \/ token[u].tier = "maintainer"
    \/ can_user_access(u, token[u], content[e].tlp, e, content[e].until # 0)

require_maintainer(u) == token[u].tier = "maintainer" \/ token[u].clearance = RED

(***************************************************************************)
(* Writers.                                                                *)
(***************************************************************************)

\* apply_record and _apply_merged_enrichment: the level only rises, the embargo
\* of the last record that has one is taken.
Ingest(e, tlp, until) ==
    /\ content' = [content EXCEPT ![e] = [tlp |-> MaxOf(@.tlp, tlp),
                                          until |-> IF until = 0 THEN @.until ELSE until]]
    /\ IF until = 0 THEN UNCHANGED <<promised, rearmed>>
       ELSE /\ promised' = [promised EXCEPT ![e] = until]
            /\ rearmed' = IF e \in releaser THEN rearmed \cup {e} ELSE rearmed \ {e}
    /\ UNCHANGED <<now, people, releaser>>

\* Grants, participants and accounts are administered outside the API.
Administer ==
    /\ \/ \E u \in Users, e \in Content, x \in {0, MaxTime} :
            /\ grants' = grants \cup {Grant(u, e, x)}
            /\ UNCHANGED <<participants, account>>
       \/ \E u \in Users, e \in Content :
            /\ participants' = participants \cup {Participant(u, e)}
            /\ UNCHANGED <<grants, account>>
       \/ \E u \in Users, t \in {"authenticated", "maintainer"}, c \in {CLEAR, GREEN} :
            /\ account' = [account EXCEPT ![u] = Account(t, c)]
            /\ UNCHANGED <<grants, participants>>
    /\ UNCHANGED <<now, embargoes, token>>

\* Claims are copied into the token at login and not looked up again.
login(u) ==
    /\ token' = [token EXCEPT ![u] = account[u]]
    /\ UNCHANGED <<now, embargoes, grants, participants, account>>

TokenExpires(u) ==
    /\ token[u] # NoToken
    /\ token' = [token EXCEPT ![u] = NoToken]
    /\ UNCHANGED <<now, embargoes, grants, participants, account>>

(***************************************************************************)
(* Releases.                                                               *)
(***************************************************************************)
\* Mutant: the end is not compared with the clock.
ExpiredAny == {e \in Content : content[e].until # 0}

Expired == {e \in Content : content[e].until # 0 /\ content[e].until <= now}

\* release_expired learns the ids first ...
ReleaseSelect ==
    /\ releaser = {} /\ Expired # {}
    /\ releaser' = Expired
    /\ UNCHANGED <<now, people, content, promised, rearmed>>

\* ... and clears them by id, with their participants, in one transaction: an
\* embargo declared in between is cleared with the one that expired.
release_expired ==
    /\ releaser # {}
    /\ content' = [e \in Content |-> IF e \in releaser THEN [content[e] EXCEPT !.until = 0]
                                     ELSE content[e]]
    /\ participants' = {p \in participants : p.entity \notin releaser}
    /\ releaser' = {}
    /\ UNCHANGED <<now, grants, account, token, promised, rearmed>>

ReleaserCrashes ==
    /\ releaser # {} /\ releaser' = {} /\ rearmed' = rearmed \ releaser
    /\ UNCHANGED <<now, people, content, promised>>

release_one(u, e) ==
    /\ require_maintainer(u) /\ content[e].until # 0
    /\ content' = [content EXCEPT ![e].until = 0]
    /\ participants' = {p \in participants : p.entity # e}
    /\ promised' = [promised EXCEPT ![e] = 0]
    /\ rearmed' = rearmed \ {e}
    /\ UNCHANGED <<now, grants, account, token, releaser>>

Tick ==
    /\ now < MaxTime /\ now' = now + 1
    /\ UNCHANGED <<people, embargoes>>

DisclosureInit ==
    /\ now = 0
    /\ content \in [Content -> {[tlp |-> l, until |-> 0] : l \in SourceLevels}]
    /\ grants = {} /\ participants = {} /\ releaser = {} /\ rearmed = {}
    /\ promised = [e \in Content |-> 0]
    /\ account = [u \in Users |-> Account("authenticated", GREEN)]
    /\ token = [u \in Users |-> NoToken]

DisclosureNext ==
    \/ Tick \/ Administer
    \/ \E u \in Users : login(u) \/ TokenExpires(u)
    \/ \E e \in Content, l \in SourceLevels, t \in 0..MaxTime : Ingest(e, l, t)
    \/ ReleaseSelect \/ release_expired \/ ReleaserCrashes
    \/ \E u \in Users, e \in Content : release_one(u, e)

DisclosureSpec == DisclosureInit /\ [][DisclosureNext]_disclosureVars

(***************************************************************************)
(* Properties.                                                             *)
(***************************************************************************)

\* An embargo holds until the end its sources declared last: unless a maintainer
\* lifted it, or it was declared while the releaser was about to clear the row
\* by its id, only the participants read the row before that end, whatever was
\* granted, released or claimed by a token since. Two read paths are wider: a
\* row that is red by itself is not counted as embargoed and a grant opens it
\* (apply_tlp_filter), and maintainers see every event (Event.visible_to).
EmbargoHonoured ==
    \A u \in Users, e \in Content :
      promised[e] > now /\ e \notin rearmed /\ ~is_embargo_participant(u, e) =>
        /\ e \notin visible_to_user_sync(u)
        /\ e \in apply_tlp_filter(u) => content[e].tlp = RED /\ has_explicit_grant(u, e)
        /\ visible_to(u, e) => token[u].tier = "maintainer"

=============================================================================
