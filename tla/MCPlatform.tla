----------------------------- MODULE MCPlatform -----------------------------
(***************************************************************************)
(* Instances, for TLC, of the parts that share no table, queue or cache    *)
(* with each other.  Since none reads what another writes, interleaving    *)
(* them adds nothing: in each behaviour one part, the focus, moves and the *)
(* others stay as they were at the start.                                  *)
(***************************************************************************)
EXTENDS AttackChains, Prompts, LlmCalls, Events, Embedding, Connectors,
        Disclosure, Commons, SigmaTargets, Contributions, Profiles, ArtifactRouter

CONSTANTS s1, s2, k1     \* two commons sources, a kind of rules

VARIABLE focus

MCConditions == {{k1}, {}}

\* One class is listed that the policy never skips: it must have no effect.
MCSkipClasses == SIGMA_SKIP_CLASSES \cup {"directly_detectable"}

Still(part) ==
    /\ part # "chains" => UNCHANGED chainVars
    /\ part # "prompts" => UNCHANGED promptVars
    /\ part # "llm" => UNCHANGED llmVars
    /\ part # "events" => UNCHANGED eventVars
    /\ part # "embedding" => UNCHANGED embeddingVars
    /\ part # "connectors" => UNCHANGED connectorVars
    /\ part # "disclosure" => UNCHANGED disclosureVars
    /\ part # "commons" => UNCHANGED commonsVars
    /\ part # "targets" => UNCHANGED targetVars
    /\ part # "contributions" => UNCHANGED contributionVars
    /\ part # "profiles" => UNCHANGED profileVars
    /\ part # "router" => UNCHANGED vars
    /\ UNCHANGED focus

PlatformInit ==
    /\ focus \in {"chains", "prompts", "llm", "events", "embedding",
                   "connectors", "disclosure", "commons", "targets",
                   "contributions", "profiles", "router"}
    /\ ChainInit
    /\ PromptInit
    /\ LlmInit
    /\ EventInit
    /\ EmbeddingInit
    /\ ConnectorInit
    /\ DisclosureInit
    /\ focus # "disclosure" => \A e \in Content : content[e].tlp = CLEAR
    /\ CommonsInit
    /\ TargetInit
    /\ ContributionInit
    /\ focus # "contributions" => ruleTlp = "clear"
    /\ ProfileInit
    /\ Init

PlatformNext ==
    \/ focus = "chains" /\ ChainNext /\ Still("chains")
    \/ focus = "prompts" /\ PromptNext /\ Still("prompts")
    \/ focus = "llm" /\ LlmNext /\ Still("llm")
    \/ focus = "events" /\ EventNext /\ Still("events")
    \/ focus = "embedding" /\ EmbeddingNext /\ Still("embedding")
    \/ focus = "connectors" /\ ConnectorNext /\ Still("connectors")
    \/ focus = "disclosure" /\ DisclosureNext /\ Still("disclosure")
    \/ focus = "commons" /\ CommonsNext /\ Still("commons")
    \/ focus = "targets" /\ TargetNext /\ Still("targets")
    \/ focus = "contributions" /\ ContributionNext /\ Still("contributions")
    \/ focus = "profiles" /\ ProfileNext /\ Still("profiles")
    \/ focus = "router" /\ Next /\ Still("router")

PlatformSpec ==
    PlatformInit
    /\ [][PlatformNext]_<<focus, chainVars, promptVars, llmVars, eventVars,
                           embeddingVars, connectorVars, disclosureVars,
                           commonsVars, targetVars, contributionVars, profileVars, vars>>
=============================================================================
