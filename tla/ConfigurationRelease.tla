------------------------ MODULE ConfigurationRelease ------------------------
(***************************************************************************)
(* The live configuration of a tenant's locations (packages/db, migration   *)
(* 34).  A release names one immutable snapshot for each of its members and *)
(* the pointers they had when it was registered.  Only a promotion whose    *)
(* release still finds those pointers moves them; a restore puts them back. *)
(* Every function takes one advisory lock before it reads, so each is one   *)
(* step; the log of pointer events is append-only.                          *)
(***************************************************************************)
EXTENDS Naturals, Sequences

CONSTANTS ReleaseId, Location, Snapshot, NoRelease, NoSnapshot,
          MaxMoves   \* bound on the pointer events

ASSUME ReleaseAssumption ==
    NoRelease \notin ReleaseId /\ NoSnapshot \notin Snapshot /\ MaxMoves \in Nat

VARIABLES release,   \* configuration_releases, with members and previous pointers
          pointer,   \* configuration_live_pointers
          history    \* configuration_release_pointer_events, one per call

releaseVars == <<release, pointer, history>>

Pointer == [release : ReleaseId, snapshot : Snapshot, revision : 1..(MaxMoves + 1)]
NoPointer == [release |-> NoRelease, snapshot |-> NoSnapshot, revision |-> 0]
ReleaseRow == [at : {"absent", "registered"},
               member : [Location -> Snapshot \cup {NoSnapshot}],
               previous : [Location -> Pointer \cup {NoPointer}],
               created : 0..MaxMoves]  \* the events there were at created_at
NoReleaseRow == [at |-> "absent", member |-> [l \in Location |-> NoSnapshot],
                 previous |-> [l \in Location |-> NoPointer], created |-> 0]
PointerEvent == [kind : {"PROMOTE", "RESTORE"}, release : ReleaseId]

ReleaseTypeOK ==
    /\ release \in [ReleaseId -> ReleaseRow]
    /\ pointer \in [Location -> Pointer \cup {NoPointer}]
    /\ history \in Seq(PointerEvent)
    /\ Len(history) <= MaxMoves

ReleaseInit ==
    /\ release = [r \in ReleaseId |-> NoReleaseRow]
    /\ pointer = [l \in Location |-> NoPointer]
    /\ history = << >>

Members(row) == {l \in Location : row.member[l] # NoSnapshot}

-----------------------------------------------------------------------------
(* register_configuration_release *)

\* The row of a release over these snapshots, registered now.
Captured(member) ==
    [at |-> "registered", member |-> member, created |-> Len(history),
     previous |-> [l \in Location |-> IF member[l] = NoSnapshot THEN NoPointer
                                      ELSE pointer[l]]]

\* An identity is new, or is registered again with the same members.
Registrable(r, member) ==
    release[r].at = "absent" \/ release[r].member = member

Registered(r, member) == IF release[r].at = "absent" THEN Captured(member)
                         ELSE release[r]

Register(r, member) ==
    /\ Registrable(r, member)
    /\ release' = [release EXCEPT ![r] = Registered(r, member)]
    /\ UNCHANGED <<pointer, history>>

-----------------------------------------------------------------------------
(* promote_configuration_release *)

\* The revision a promotion gives: the captured one and one.
PromotedPointer(r, row, l) ==
    [release |-> r, snapshot |-> row.member[l], revision |-> row.previous[l].revision + 1]

\* Exactly what the promotion left is live.
IsLive(r, row) == \A l \in Members(row) : pointer[l] = PromotedPointer(r, row, l)

\* Fault: any number of promotions, as long as the pointers are the captured ones.
PromotedTwice(r) == FALSE

PromotedBefore(r) == \E k \in DOMAIN history : history[k] = [kind |-> "PROMOTE", release |-> r]

\* Fault: the pointers are replaced whatever they are.
FoundAny(row) == \A l \in Members(row) : pointer[l].revision \in Nat

\* The pointers are those captured.
FoundAsCaptured(row) == \A l \in Members(row) : pointer[l] = row.previous[l]

Promotable(r, row) == ~PromotedBefore(r) /\ FoundAsCaptured(row)

\* The release is one-shot: a repetition is accepted while it is live.
Promotion(r, row) ==
    IF IsLive(r, row) THEN UNCHANGED <<pointer, history>>
    ELSE /\ Promotable(r, row)
         /\ Len(history) < MaxMoves
         /\ pointer' = [l \in Location |-> IF l \in Members(row)
                                           THEN PromotedPointer(r, row, l)
                                           ELSE pointer[l]]
         /\ history' = Append(history, [kind |-> "PROMOTE", release |-> r])

Promote(r) ==
    /\ release[r].at = "registered"
    /\ Promotion(r, release[r])
    /\ UNCHANGED release

\* Registered and promoted in one transaction.
RegisterLive(r, member) ==
    /\ Registrable(r, member)
    /\ release' = [release EXCEPT ![r] = Registered(r, member)]
    /\ Promotion(r, Registered(r, member))

\* activate_configuration_release: the rollback registers the target's members
\* under an identity of its own.
Activate(r, target) ==
    /\ release[target].at = "registered"
    /\ RegisterLive(r, release[target].member)

-----------------------------------------------------------------------------
(* restore_configuration_release: only what this promotion left is undone. *)

RestoredPointer(row, l) ==
    IF row.previous[l] = NoPointer THEN NoPointer
    ELSE [row.previous[l] EXCEPT !.revision = pointer[l].revision + 1]

Restore(r) ==
    LET row == release[r] IN
    /\ row.at = "registered"
    /\ IsLive(r, row)
    /\ Len(history) < MaxMoves
    /\ pointer' = [l \in Location |->
         IF l \in Members(row) THEN RestoredPointer(row, l) ELSE pointer[l]]
    /\ history' = Append(history, [kind |-> "RESTORE", release |-> r])
    /\ UNCHANGED release

ReleaseNext == \E r \in ReleaseId :
    \/ Promote(r)
    \/ Restore(r)
    \/ \E target \in ReleaseId : Activate(r, target)

-----------------------------------------------------------------------------
(* Properties *)

Moves(k, l) == l \in Members(release[history[k].release])

(* A release moves the live pointers once, and only those nobody moved since *)
(* it captured them: not even away and back again.  Where it captured none,  *)
(* it may find none again after a restore.                                   *)
PromotedAsCaptured == \A k \in DOMAIN history :
    LET r == history[k].release IN
    history[k].kind = "PROMOTE" =>
        /\ \A j \in DOMAIN history : history[j] = history[k] => j = k
        /\ \A l \in Members(release[r]) : release[r].previous[l] # NoPointer =>
             ~ \E j \in (release[r].created + 1)..(k - 1) : Moves(j, l)
=============================================================================
