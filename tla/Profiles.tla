------------------------------- MODULE Profiles -------------------------------
(***************************************************************************)
(* Logsource profiles: built-in ones that the seed script inserts, updates *)
(* and promotes, custom ones that operators create, patch and delete, and  *)
(* the enabled flag that operators set on both.  A session loads a row and *)
(* later writes the columns it changed.                                    *)
(***************************************************************************)
EXTENDS Naturals

CONSTANTS
    ProfileNames,
    BuiltinNames,        \* the names the seed script ships
    DefaultEnabled,      \* those shipped as enabled
    Bodies,              \* contents of a profile
    Shipped,             \* the content the next release ships, one of Bodies
    Editors              \* operators' requests that may be open together

ASSUME ProfileAssumption == BuiltinNames \subseteq ProfileNames /\ Shipped \in Bodies

VARIABLES
    profiles,      \* logsource_profiles
    edit,          \* the request each operator has open
    seed,          \* what the seed script's session loaded
    profileChoice  \* the flag the operators were last answered with, if any

profileVars == <<profiles, edit, seed, profileChoice>>

NoProfile == [exists |-> FALSE, builtin |-> FALSE, body |-> Shipped, enabled |-> FALSE]
NoEdit == [op |-> "none"]
NoSeed == [todo |-> {}, open |-> {}, loaded |-> NoProfile]
Custom(body, enabled) == [exists |-> TRUE, builtin |-> FALSE, body |-> body, enabled |-> enabled]

(***************************************************************************)
(* ProfileStore behind the API.  A request answers at its commit.          *)
(***************************************************************************)
Answered(o, n, choice) ==
    /\ edit' = [edit EXCEPT ![o] = NoEdit]
    /\ profileChoice' = [profileChoice EXCEPT ![n] = choice]

LoadRow(o, op, n, arg) ==
    /\ edit[o] = NoEdit
    /\ edit' = [edit EXCEPT ![o] = [op |-> op, name |-> n, arg |-> arg, row |-> profiles[n]]]
    /\ UNCHANGED <<profiles, seed, profileChoice>>

\* The name is unique: a second insert is refused.
create_custom(o, n, body, enabled) ==
    /\ edit[o] = NoEdit /\ ~profiles[n].exists
    /\ profiles' = [profiles EXCEPT ![n] = Custom(body, enabled)]
    /\ Answered(o, n, {enabled})
    /\ UNCHANGED seed

\* Only custom rows are patched or deleted, by what was loaded.
LoadPatch(o, n, body, flag) ==
    /\ profiles[n].exists /\ ~profiles[n].builtin
    /\ LoadRow(o, "patch", n, [body |-> body, flag |-> flag])
LoadDelete(o, n) ==
    profiles[n].exists /\ ~profiles[n].builtin /\ LoadRow(o, "delete", n, FALSE)
LoadToggle(o, n, enabled) == profiles[n].exists /\ LoadRow(o, "toggle", n, enabled)

\* A patch may carry the flag (a set of at most one); columns that keep their
\* loaded value are not written.
update_custom(o) ==
    /\ edit[o].op = "patch" /\ profiles[edit[o].name].exists
    /\ LET n == edit[o].name
           patch == edit[o].arg
           Set(column, loaded, values) == IF \E v \in values : v # loaded
                                          THEN CHOOSE v \in values : TRUE ELSE column
       IN /\ profiles' = [profiles EXCEPT
                ![n].body = Set(@, edit[o].row.body, {patch.body}),
                ![n].enabled = Set(@, edit[o].row.enabled, patch.flag)]
          /\ Answered(o, n, IF patch.flag = {} THEN profileChoice[n] ELSE patch.flag)
    /\ UNCHANGED seed

\* No write when the loaded flag already has the value.
SetEnabled(o) ==
    /\ edit[o].op = "toggle" /\ profiles[edit[o].name].exists
    /\ LET n == edit[o].name
       IN /\ profiles' = IF edit[o].arg = edit[o].row.enabled THEN profiles
                         ELSE [profiles EXCEPT ![n].enabled = edit[o].arg]
          /\ Answered(o, n, {edit[o].arg})
    /\ UNCHANGED seed

delete_custom(o) ==
    /\ edit[o].op = "delete"
    /\ LET n == edit[o].name
       IN /\ profiles' = [profiles EXCEPT ![n] = NoProfile]
          /\ Answered(o, n, {})
    /\ UNCHANGED seed

\* The row went away under the request, or its process died.
EditFails(o) ==
    /\ edit[o] # NoEdit
    /\ edit' = [edit EXCEPT ![o] = NoEdit]
    /\ UNCHANGED <<profiles, seed, profileChoice>>

(***************************************************************************)
(* scripts/seed_profiles: one name after the other, a transaction each.    *)
(***************************************************************************)
StartSeed ==
    /\ seed = NoSeed
    /\ seed' = [todo |-> BuiltinNames, open |-> {}, loaded |-> NoProfile]
    /\ UNCHANGED <<profiles, edit, profileChoice>>

SeedLoad(n) ==
    /\ n \in seed.todo /\ seed.open = {}
    /\ seed' = [todo |-> seed.todo \ {n}, open |-> {n}, loaded |-> profiles[n]]
    /\ UNCHANGED <<profiles, edit, profileChoice>>

\* Mutant: a refreshed row comes up with the default flag.
upsert_builtin_default(n, row, loaded) ==
    [row EXCEPT !.exists = TRUE, !.builtin = TRUE, !.enabled = n \in DefaultEnabled,
                !.body = IF loaded.exists /\ loaded.body = Shipped THEN @ ELSE Shipped]

\* A new row gets the default flag, an existing one keeps its own; a custom row
\* of the same name is promoted.
upsert_builtin(n, row, loaded) ==
    [row EXCEPT !.exists = TRUE, !.builtin = TRUE,
                !.enabled = IF loaded.exists THEN @ ELSE n \in DefaultEnabled,
                !.body = IF loaded.exists /\ loaded.body = Shipped THEN @ ELSE Shipped]

SeedCommit(n) ==
    /\ n \in seed.open
    /\ profiles[n].exists = seed.loaded.exists
    /\ profiles' = [profiles EXCEPT ![n] = upsert_builtin(n, profiles[n], seed.loaded)]
    /\ seed' = IF seed.todo = {} THEN NoSeed
               ELSE [seed EXCEPT !.open = {}, !.loaded = NoProfile]
    /\ UNCHANGED <<edit, profileChoice>>

\* Killed, or the name was created or deleted under the script, which ends.
SeedFails ==
    /\ seed # NoSeed /\ seed' = NoSeed
    /\ UNCHANGED <<profiles, edit, profileChoice>>

ProfileInit ==
    /\ profiles = [n \in ProfileNames |-> NoProfile]
    /\ edit = [o \in Editors |-> NoEdit]
    /\ seed = NoSeed
    /\ profileChoice = [n \in ProfileNames |-> {}]

ProfileNext ==
    \/ StartSeed \/ SeedFails
    \/ \E n \in BuiltinNames : SeedLoad(n) \/ SeedCommit(n)
    \/ \E o \in Editors : update_custom(o) \/ SetEnabled(o) \/ delete_custom(o) \/ EditFails(o)
    \/ \E o \in Editors, n \in ProfileNames :
         \/ LoadDelete(o, n)
         \/ \E b \in Bodies, e \in BOOLEAN :
              \/ create_custom(o, n, b, e) \/ LoadToggle(o, n, e)
              \/ \E flag \in {{}, {e}} : LoadPatch(o, n, b, flag)

ProfileSpec == ProfileInit /\ [][ProfileNext]_profileVars

(***************************************************************************)
(* Properties.                                                             *)
(***************************************************************************)

\* With one operator at a time, the enabled flag is what the operator was last
\* answered with, however often and wherever the seed script runs, fails or
\* promotes the row meanwhile ("re-running the seed must not stomp those
\* decisions", upsert_builtin).
SeedKeepsChoice ==
    \A n \in ProfileNames :
      (profiles[n].exists /\ profileChoice[n] # {})
        => profiles[n].enabled \in profileChoice[n]
=============================================================================
