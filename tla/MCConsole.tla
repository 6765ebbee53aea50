------------------------------ MODULE MCConsole ------------------------------
(***************************************************************************)
(* The operators' side, for TLC: the publication of a tenant with two       *)
(* locations, its prompts with two transactions, and the platform's own     *)
(* configuration, and two requests with the grants they need.  The locks    *)
(* keep the two publications apart, neither shares a row with the prompts,  *)
(* and grants change only by time: each is a scene of its own, in which the *)
(* others' state stays as it was.                                           *)
(***************************************************************************)
EXTENDS ConfigurationPublication, PromptRelease, PlatformConfiguration, ConsoleAccess, TLC

CONSTANTS a1, a2,  \* the operators, their transactions and requests
          l1, l2,  \* the locations, and the experiments
          r1, r2,  \* the releases
          m1, m2   \* the provider models

VARIABLE scene

MCSnapshot == [tenant : 1..3, location : 1..3]
              \cup [platform : 2..3, model : {m1, m2}, from : 0..3]
MCOffered == {[op |-> "settings"], [op |-> "route", model |-> m2],
              [op |-> "rate", model |-> m1, from |-> 1],
              [op |-> "rate", model |-> m1, from |-> 2],
              [op |-> "rate", model |-> m2, from |-> 1]}
MCVariants == [e \in {l1, l2} |-> {1, 2}]
MCEvaluations == <<2, 1>>

\* Roles by key: who configures, who audits and operates, who runs the platform.
MCRoleCaps == <<{"console:read", "tenant:configure"},
                {"console:read", "analytics:read", "audit:read-raw", "ai:operate"},
                {"console:read", "platform:admin", "analytics:read"}>>
MCSiteOf == [s \in {"site"} |-> "north"]
Given(a, s, r, t) == [account |-> a, scope |-> s, role |-> r, until |-> t]
MCGrantSets ==
    {{}} \cup
    {{Given("ann", "north", 1, t), Given("ann", "south", 2, 4), Given("bob", "north", 2, 4)}
       : t \in {1, 3}} \cup
    {{Given("ann", "north", 2, t), Given("ann", "platform", 3, 2 * t), Given("bob", "south", 1, 2)}
       : t \in {1, 2}}
Asks(i, a, s, act) == [subject |-> i, address |-> a, scope |-> s, act |-> act]
MCWishes == {Asks(1, "ann", "north", act) : act \in {"detail", "configure"}} \cup
            {Asks(1, "ann", "site", act) : act \in {"bench", "analytics", "catalogue", "prompts"}} \cup
            {Asks(1, "ann", "platform", act) : act \in {"overview", "bootstrap", "platform"}} \cup
            {Asks(2, "ann", "site", "distribution"), Asks(1, "bob", "north", "form")}

MCSymmetry == Permutations({a1, a2}) \cup Permutations({l1, l2})

ownPublicationVars == <<revision, draft, audit, view, staging>>
ownPlatformVars == <<now, platform, proposal, publication, capable, opened,
                     publishing, rate, primary>>

ownAccessVars == <<external, grant, minted, asking, served>>

ConsoleInit == /\ scene \in {"publication", "prompts", "platform", "access"}
               /\ PublicationInit
               /\ PromptInit
               /\ PlatformInit
               /\ AccessInit
               /\ scene # "platform" => capable = [a \in Admin |-> Capability]
               /\ (scene = "access") = (grant # {})

ConsoleNext ==
    \/ /\ scene = "publication" /\ PublicationNext
       /\ UNCHANGED <<scene, promptVars, ownPlatformVars, ownAccessVars>>
    \/ /\ scene = "prompts" /\ PromptNext
       /\ UNCHANGED <<scene, consoleVars, ownPlatformVars, ownAccessVars>>
    \/ /\ scene = "platform" /\ PlatformNext
       /\ UNCHANGED <<scene, promptVars, ownPublicationVars, ownAccessVars>>
    \/ /\ scene = "access" /\ AccessNext
       /\ UNCHANGED <<scene, promptVars, ownPublicationVars, releaseVars, platform, proposal,
                      publication, capable, opened, publishing, rate, primary>>

ConsoleSpec ==
    ConsoleInit /\ [][ConsoleNext]_<<scene, consoleVars, promptVars, ownPlatformVars,
                                      ownAccessVars>>
=============================================================================
