---------------------- MODULE ConfigurationPublication ----------------------
(***************************************************************************)
(* How operators stage and publish the configuration of one tenant          *)
(* (packages/db/control-plane/console-store.ts): a scope, the tenant or one *)
(* of its locations, has a revision and at most one draft.  A command names *)
(* the revision and the draft its operator has read, and may be sent again  *)
(* when its answer is lost.  A publication locks the tenant's release set   *)
(* and its scope's row before it reads, and commits everything at once: it  *)
(* is one step.  The snapshot of a location is known by the revisions of    *)
(* the tenant and of the location it was made from.                         *)
(***************************************************************************)
EXTENDS ConfigurationRelease, FiniteSets

CONSTANTS Operator, Tenant,
          MaxDrafts,    \* bound on the drafts that are known at once
          MaxSaves,     \* bound on the revisions of a draft
          Candidates    \* identities of the releases that wait for a promotion

ASSUME PublicationAssumption ==
    /\ Tenant \notin Location
    /\ MaxDrafts \in Nat /\ MaxSaves \in Nat
    /\ Candidates \subseteq ReleaseId

VARIABLES revision,  \* config_revision of each scope
          draft,     \* configuration_drafts
          audit,     \* configuration_audit_events
          view,      \* the configuration state each operator has read
          staging    \* the snapshots a release script has found live

publicationVars == <<revision, draft, audit, view, staging>>
consoleVars == <<release, pointer, history, revision, draft, audit, view, staging>>

Scope == Location \cup {Tenant}
DraftId == 1..MaxDrafts
NoDraft == 0
DraftRow == [id : DraftId \cup {NoDraft}, revision : 0..MaxSaves, base : Nat]
NoDraftRow == [id |-> NoDraft, revision |-> 0, base |-> 0]
Reply == {"none", "published", "conflict", "no-draft"}
View == [scope : Scope, revision : Nat, draft : DraftRow, reply : Reply]
AuditRow == [scope : Scope, revision : Nat, draft : DraftId,
             draftRevision : 1..MaxSaves, release : ReleaseId]
NoMembers == [l \in Location |-> NoSnapshot]

PublicationTypeOK ==
    /\ ReleaseTypeOK
    /\ revision \in [Scope -> Nat \ {0}]
    /\ draft \in [Scope -> DraftRow]
    /\ audit \subseteq AuditRow
    /\ view \in [Operator -> View]
    /\ staging \in [Location -> Snapshot \cup {NoSnapshot}]

PublicationInit ==
    /\ ReleaseInit
    /\ revision = [s \in Scope |-> 1]
    /\ draft = [s \in Scope |-> NoDraftRow]
    /\ audit = {}
    /\ view = [o \in Operator |-> [scope |-> Tenant, revision |-> 1,
                                   draft |-> NoDraftRow, reply |-> "none"]]
    /\ staging = NoMembers

-----------------------------------------------------------------------------
(* readConfigurationState *)
ReadState(o, s) ==
    /\ view' = [view EXCEPT ![o] = [scope |-> s, revision |-> revision[s],
                                    draft |-> draft[s], reply |-> "none"]]
    /\ UNCHANGED <<releaseVars, revision, draft, audit, staging>>

\* Fault: the draft is known by its identity alone.
SameDraftId(o) == draft[view[o].scope].id = view[o].draft.id

\* The scope and its draft are still those the operator has read.
SameDraft(o) == LET s == view[o].scope IN
    /\ draft[s].id = view[o].draft.id
    /\ draft[s].revision = view[o].draft.revision

Expected(o) == revision[view[o].scope] = view[o].revision /\ SameDraft(o)

Unused(id) == /\ \A s \in Scope : draft[s].id # id
              /\ \A e \in audit : e.draft # id
              /\ \A o \in Operator : view[o].draft.id # id

\* saveConfigurationDraft: the changes are merged into the draft, whose
\* revision stands for them, or begin one.  Bound: an identity nobody knows any
\* more is taken again.
SaveDraft(o) ==
    LET s == view[o].scope IN
    /\ Expected(o)
    /\ \/ /\ draft[s].id = NoDraft
          /\ \E id \in DraftId :
               /\ Unused(id) /\ \A older \in 1..(id - 1) : ~Unused(older)
               /\ draft' = [draft EXCEPT ![s] = [id |-> id, revision |-> 1,
                                                base |-> revision[s]]]
       \/ /\ draft[s].id # NoDraft /\ draft[s].revision < MaxSaves
          /\ draft' = [draft EXCEPT ![s].revision = @ + 1]
    /\ UNCHANGED <<releaseVars, revision, audit, view, staging>>

CancelDraft(o) ==
    /\ Expected(o)
    /\ view[o].draft.id # NoDraft
    /\ draft' = [draft EXCEPT ![view[o].scope] = NoDraftRow]
    /\ UNCHANGED <<releaseVars, revision, audit, view, staging>>

-----------------------------------------------------------------------------
(* publishConfiguration *)

Replies(o, reply) == view' = [view EXCEPT ![o].reply = reply]

\* The publication of this operator's draft that was committed before.
Completed(o) == {e \in audit :
    /\ e.scope = view[o].scope /\ e.revision = view[o].revision + 1
    /\ e.draft = view[o].draft.id /\ e.draftRevision = view[o].draft.revision}

Publishable(o) ==
    LET s == view[o].scope IN
    /\ view[o].draft.id # NoDraft
    /\ SameDraft(o)
    /\ draft[s].base = revision[s]

\* The snapshots of the locations of a scope that has been published.
Materialized(s) == [l \in Location |->
    IF s \in {l, Tenant}
    THEN [tenant |-> IF s = Tenant THEN revision[s] + 1 ELSE revision[Tenant],
          location |-> IF s = l THEN revision[s] + 1 ELSE revision[l]]
    ELSE NoSnapshot]

\* Registered as the candidate that was named, or promoted at once.
Publish(o, r) ==
    LET s == view[o].scope
        member == Materialized(s)
    IN /\ revision[s] = view[o].revision
       /\ draft[s].id # NoDraft
       /\ Publishable(o)
       /\ IF r \in Candidates THEN Register(r, member)
          ELSE release[r].at = "absent" /\ RegisterLive(r, member)
       /\ revision' = [revision EXCEPT ![s] = @ + 1]
       /\ audit' = audit \cup
            {[scope |-> s, revision |-> revision[s] + 1, draft |-> draft[s].id,
              draftRevision |-> draft[s].revision, release |-> r]}
       /\ draft' = [draft EXCEPT ![s] = NoDraftRow]
       /\ Replies(o, "published")
       /\ UNCHANGED staging

\* Nothing is written; a repetition is answered like the first.
PublishRefused(o) ==
    LET s == view[o].scope IN
    /\ \/ /\ revision[s] # view[o].revision
          /\ IF view[o].draft.id # NoDraft /\ Completed(o) # {}
             THEN Replies(o, "published") ELSE Replies(o, "conflict")
       \/ /\ revision[s] = view[o].revision
          /\ draft[s].id = NoDraft
          /\ Replies(o, "no-draft")
       \/ /\ revision[s] = view[o].revision
          /\ draft[s].id # NoDraft /\ ~Publishable(o)
          /\ Replies(o, "conflict")
    /\ UNCHANGED <<releaseVars, revision, draft, audit, staging>>

-----------------------------------------------------------------------------
(* The release script finds the live snapshots reusable, and stages them.    *)
FindLive ==
    /\ \A l \in Location : pointer[l] # NoPointer
    /\ staging' = [l \in Location |-> pointer[l].snapshot]
    /\ UNCHANGED <<releaseVars, revision, draft, audit, view>>

StageFound(r) ==
    /\ staging # NoMembers
    /\ Register(r, staging)
    /\ staging' = NoMembers
    /\ UNCHANGED <<revision, draft, audit, view>>

PublicationNext ==
    \/ \E o \in Operator :
         \/ \E s \in Scope : ReadState(o, s)
         \/ SaveDraft(o)
         \/ CancelDraft(o)
         \/ \E r \in ReleaseId : Publish(o, r)
         \/ PublishRefused(o)
    \/ FindLive
    \/ \E r \in Candidates : StageFound(r)
    \/ ReleaseNext /\ UNCHANGED publicationVars

PublicationSpec == PublicationInit /\ [][PublicationNext]_consoleVars

-----------------------------------------------------------------------------
(* Properties *)

(* An operator who is told that a draft is published, at once or when asking *)
(* again, has read that draft as it was published, with every change another *)
(* operator added to it; and no draft is published twice.                    *)
PublishedWasReviewed ==
    /\ \A o \in Operator : view[o].reply = "published" =>
         \E e \in audit : /\ e.scope = view[o].scope
                          /\ e.draft = view[o].draft.id
                          /\ e.draftRevision = view[o].draft.revision
    /\ \A e, f \in audit : e.draft = f.draft => e = f
=============================================================================
