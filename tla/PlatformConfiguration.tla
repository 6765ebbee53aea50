------------------------ MODULE PlatformConfiguration ------------------------
(***************************************************************************)
(* How administrators stage and publish the platform's own configuration    *)
(* (packages/db/control-plane/console-store.ts, migration 29): one draft,   *)
(* whose changes need one capability or two, and one publication that moves *)
(* provider routes, closes and opens price rates and renews the snapshot of *)
(* every active location.  A publication begins, waits for the locks that   *)
(* exclude all others, and then checks again and commits: what it read, its *)
(* grants and the clock may change in between.  Prices are left out: a rate *)
(* is known by its model and the time it starts.                            *)
(***************************************************************************)
EXTENDS ConfigurationRelease, DatabaseClock, FiniteSets

CONSTANTS Admin, ProviderModel, FirstModel, NoModel,
          Offered,          \* bound: the changes that are staged
          MaxProposals,     \* bound on the drafts that are known at once
          MaxStagings,      \* bound on the revisions of a draft
          PublicationLife   \* an interactive transaction is closed after 20 s

ASSUME PlatformAssumption ==
    /\ FirstModel \in ProviderModel /\ NoModel \notin ProviderModel
    /\ {MaxProposals, PublicationLife} \subseteq Nat /\ MaxStagings \in Nat \ {0}

VARIABLES platform,     \* platform_configuration_states.published_revision
          proposal,     \* platform_configuration_drafts
          publication,  \* platform_configuration_publications
          capable,      \* the platform capabilities of each administrator
          opened,       \* the platform configuration each has read
          publishing,   \* their publications that wait for a lock
          rate,         \* price_rates
          primary       \* provider_models with routing_priority 1

platformVars == <<release, pointer, history, now, platform, proposal, publication,
                  capable, opened, publishing, rate, primary>>

Capability == {"platform:admin", "provider:manage"}
Forever == MaxTime + 1
Change == {[op |-> "settings"]}
          \cup [op : {"route"}, model : ProviderModel]
          \cup [op : {"rate"}, model : ProviderModel, from : 0..MaxTime]
ProposalRow == [id : Nat, revision : 0..MaxStagings, base : Nat, changes : SUBSET Change]
NoProposal == [id |-> 0, revision |-> 0, base |-> 0, changes |-> {}]
Rate == [model : ProviderModel, from : 0..MaxTime, to : 1..Forever]

ASSUME OfferedAssumption == Offered \subseteq Change

PlatformTypeOK ==
    /\ now \in 0..MaxTime
    /\ platform \in Nat
    /\ proposal \in ProposalRow
    /\ publication \subseteq [revision : Nat, draft : ProposalRow, actor : Admin]
    /\ capable \in [Admin -> SUBSET Capability]
    /\ opened \in [Admin -> [revision : Nat, draft : ProposalRow,
                             reply : {"none", "published", "conflict", "no-draft"}]]
    /\ publishing \in [Admin -> [at : {"idle", "waiting"}, began : 0..MaxTime]]
    /\ rate \subseteq Rate
    /\ primary \in ProviderModel

NotPublishing == [at |-> "idle", began |-> 0]

PlatformInit ==
    /\ ClockInit
    /\ platform = 1
    /\ proposal = NoProposal
    /\ publication = {}
    /\ capable \in [Admin -> {{"platform:admin"}, Capability}]
    /\ opened = [a \in Admin |-> [revision |-> 1, draft |-> NoProposal, reply |-> "none"]]
    /\ publishing = [a \in Admin |-> NotPublishing]
    /\ rate = [model : ProviderModel, from : {0}, to : {Forever}]
    /\ primary = FirstModel

-----------------------------------------------------------------------------
(* Drafts *)

\* platformConfigurationCapabilities: the union for the whole draft.
Required(changes) ==
    {"platform:admin"} \cup
    IF \A c \in changes : c.op = "settings" THEN {} ELSE {"provider:manage"}

\* Fault: one capability for every change.
AdminHeld(a, changes) == "platform:admin" \in capable[a]

\* grantedForPlatform, and the row policies, for a draft with these changes.
Held(a, changes) == Required(changes) \subseteq capable[a]

\* A draft with changes its reader may not make is no draft to him.
Visible(a) == proposal # NoProposal /\ Held(a, proposal.changes)

\* readPlatformConfigurationState
OpenPlatform(a) ==
    /\ capable[a] # {}
    /\ opened' = [opened EXCEPT ![a] = [revision |-> platform, reply |-> "none",
                    draft |-> IF Visible(a) THEN proposal ELSE NoProposal]]
    /\ UNCHANGED <<releaseVars, now, platform, proposal, publication, capable,
                   publishing, rate, primary>>

\* Two changes of one identity: the later replaces the earlier.
SameChange(c, d) == c.op = d.op /\ (c.op = "rate" => c = d)

\* The draft the administrator has read is the one there is.
AsOpened(a) == /\ Visible(a)
               /\ proposal.id = opened[a].draft.id
               /\ proposal.revision = opened[a].draft.revision

Unpublished == UNCHANGED <<releaseVars, now, platform, publication, capable, opened,
                           publishing, rate, primary>>

\* Bound: an identity nobody knows any more is taken again.
Unknown(id) == /\ proposal.id # id
               /\ \A p \in publication : p.draft.id # id
               /\ \A a \in Admin : opened[a].draft.id # id

\* savePlatformConfigurationDraft: an invisible draft is in the way of a new one.
StageChange(a, c) ==
    /\ opened[a].revision = platform
    /\ Held(a, {c})
    /\ \/ /\ opened[a].draft = NoProposal /\ proposal = NoProposal
          /\ \E id \in 1..MaxProposals :
               /\ Unknown(id) /\ \A older \in 1..(id - 1) : ~Unknown(older)
               /\ proposal' = [id |-> id, revision |-> 1, base |-> platform,
                               changes |-> {c}]
       \/ /\ AsOpened(a) /\ proposal.revision < MaxStagings
          /\ LET merged == {d \in proposal.changes : ~SameChange(d, c)} \cup {c} IN
             /\ Held(a, merged)
             /\ proposal' = [proposal EXCEPT !.revision = @ + 1, !.changes = merged]
    /\ Unpublished

\* cancelPlatformConfigurationDraft
CancelProposal(a) ==
    /\ opened[a].revision = platform
    /\ AsOpened(a)
    /\ proposal' = NoProposal
    /\ Unpublished

\* Bound: of an administrator whose publication waits, and who could do both.
Revoke(a) ==
    /\ publishing[a].at = "waiting" /\ capable[a] = Capability
    /\ \E c \in capable[a] : capable' = [capable EXCEPT ![a] = @ \ {c}]
    /\ UNCHANGED <<releaseVars, now, platform, proposal, publication, opened,
                   publishing, rate, primary>>

-----------------------------------------------------------------------------
(* publishPlatformConfiguration *)

\* The publication an administrator asks for again.
Repeated(a) == \E p \in publication :
    /\ platform = opened[a].revision + 1 /\ p.revision = platform
    /\ p.draft.id = opened[a].draft.id /\ p.draft.revision = opened[a].draft.revision
    /\ Held(a, p.draft.changes)

\* What is answered when there is nothing to publish.
Answer(a) == CASE Repeated(a) -> "published"
               [] ~Repeated(a) /\ platform # opened[a].revision -> "conflict"
               [] ~Repeated(a) /\ platform = opened[a].revision ->
                    IF Visible(a) THEN "conflict" ELSE "no-draft"

Unpriced == UNCHANGED <<releaseVars, now, platform, proposal, publication, capable,
                        rate, primary>>

Replied(a) == /\ opened' = [opened EXCEPT ![a].reply = Answer(a)]
               /\ publishing' = [publishing EXCEPT ![a] = NotPublishing]
               /\ Unpriced

\* The preflight: nothing is locked for who sees no draft.
BeginPublication(a) ==
    /\ publishing[a].at = "idle"
    /\ opened[a].draft # NoProposal
    /\ capable[a] # {}
    /\ \/ ~Visible(a) /\ Replied(a)
       \/ /\ Visible(a)
          /\ publishing' = [publishing EXCEPT ![a] = [at |-> "waiting", began |-> now]]
          /\ opened' = [opened EXCEPT ![a].reply = "none"]
          /\ Unpriced

ProposalCurrent(a) == /\ opened[a].revision = platform
                  /\ AsOpened(a)
                  /\ proposal.base = platform

\* The locks are held: the state, the draft and the grants are read again.
NotPublished(a) ==
    /\ publishing[a].at = "waiting"
    /\ "platform:admin" \in capable[a]
    /\ ~ProposalCurrent(a)
    /\ Replied(a)

\* A check fails, the transaction is closed or the function dies.
AbandonPublication(a) ==
    /\ publishing[a].at = "waiting"
    /\ publishing' = [publishing EXCEPT ![a] = NotPublishing]
    /\ UNCHANGED opened
    /\ Unpriced

\* The rates a draft opens.
Opens(changes) == {c \in changes : c.op = "rate"}

\* Fault: a rate may start at any time after the last one.
ProspectiveToLast(a, c) == \A r \in rate : r.model = c.model => r.from < c.from

\* A rate starts after the last one and not before the transaction began.
Prospective(a, c) == /\ c.from >= publishing[a].began
                     /\ \A r \in rate : r.model = c.model => r.from < c.from

\* Each rate of a model ends where the next one starts.
Superseded(changes) ==
    LET starts(m) == {r.from : r \in {s \in rate : s.model = m}}
                     \cup {c.from : c \in {d \in Opens(changes) : d.model = m}}
        end(m, t) == LET later == {s \in starts(m) : s > t} IN
                     IF later = {} THEN Forever ELSE CHOOSE s \in later : \A u \in later : s <= u
    IN UNION {{[model |-> m, from |-> t, to |-> end(m, t)] : t \in starts(m)}
              : m \in ProviderModel}

Routed(changes) ==
    LET routes == {c \in changes : c.op = "route"} IN
    IF routes = {} THEN primary ELSE (CHOOSE c \in routes : TRUE).model

InForce(rates, m, t) == {r \in rates : r.model = m /\ r.from <= t /\ t < r.to}

\* Every active location gets a snapshot with the rate in force, or none does.
Renewed(active, r) ==
    [l \in Location |-> IF l \in active
                        THEN [platform |-> platform + 1, model |-> r.model, from |-> r.from]
                        ELSE NoSnapshot]

RenewLocations(id) ==
    /\ release[id].at = "absent"
    /\ \E r \in InForce(rate', primary', now), active \in SUBSET Location :
         RegisterLive(id, Renewed(active, r))

PublishPlatform(a, id) ==
    /\ publishing[a].at = "waiting"
    /\ ProposalCurrent(a)
    /\ \A c \in Opens(proposal.changes) : Prospective(a, c)
    /\ rate' = Superseded(proposal.changes)
    /\ primary' = Routed(proposal.changes)
    /\ RenewLocations(id)
    /\ platform' = platform + 1
    /\ publication' = publication \cup
         {[revision |-> platform + 1, draft |-> proposal, actor |-> a]}
    /\ proposal' = NoProposal
    /\ opened' = [opened EXCEPT ![a].reply = "published"]
    /\ publishing' = [publishing EXCEPT ![a] = NotPublishing]
    /\ UNCHANGED <<now, capable>>

-----------------------------------------------------------------------------
(* prepare reserves at the rate its snapshot names, if the row is still there *)
ReservationRate(l) == {r \in rate : /\ r.model = pointer[l].snapshot.model
                                     /\ r.from = pointer[l].snapshot.from}

PlatformTick ==
    /\ \A a \in Admin : publishing[a].at = "waiting" =>
                        now < publishing[a].began + PublicationLife
    /\ Tick
    /\ UNCHANGED <<releaseVars, platform, proposal, publication, capable, opened,
                   publishing, rate, primary>>

PlatformNext ==
    \/ \E a \in Admin :
         \/ OpenPlatform(a)
         \/ \E c \in Offered : StageChange(a, c)
         \/ CancelProposal(a)
         \/ Revoke(a)
         \/ BeginPublication(a)
         \/ NotPublished(a)
         \/ AbandonPublication(a)
         \/ \E id \in ReleaseId : PublishPlatform(a, id)
    \/ PlatformTick

PlatformSpec == ReleaseInit /\ PlatformInit /\ [][PlatformNext]_platformVars

-----------------------------------------------------------------------------
(* Properties *)

(* Who publishes has read the very draft that is published, with everything  *)
(* others added to it, and holds what its changes need, however long the     *)
(* locks took and whoever was stripped of a grant meanwhile; and no draft is *)
(* published twice.                                                          *)
PlatformPublishedAuthorized ==
    [][\A p \in publication' \ publication :
         /\ Required(p.draft.changes) \subseteq capable[p.actor]
         /\ opened[p.actor].draft = p.draft
         /\ \A q \in publication : q.draft.id # p.draft.id]_platformVars

StartsInForce(rates, m, t) == {r.from : r \in InForce(rates, m, t)}

(* The rate a model had at a time that is past, by more than a publication   *)
(* may take, is never rewritten; and a model never has two rates at a time.  *)
RatesNeverRewritten ==
    [][\A m \in ProviderModel, t \in 0..MaxTime :
         /\ Cardinality(InForce(rate', m, t)) = 1
         /\ t < now - PublicationLife =>
              StartsInForce(rate', m, t) = StartsInForce(rate, m, t)]_platformVars

(* A request is reserved, and its call billed, at the rate that is in force  *)
(* then, as docs/agents/domain.md:270 and 355 say.                           *)
PricedInForce == \A l \in Location : pointer[l] # NoPointer =>
    \A r \in ReservationRate(l) : r \in InForce(rate, r.model, now)
=============================================================================
