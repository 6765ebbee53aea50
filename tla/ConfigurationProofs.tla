-------------------------- MODULE ConfigurationProofs -------------------------
(***************************************************************************)
(* The live configuration and its publication, the platform's own, and the *)
(* commands that take effect at once, for every set of locations,          *)
(* snapshots, administrators, changes, operators and slugs.                *)
(***************************************************************************)
EXTENDS ConfigurationPublication, PlatformConfiguration, ConsoleCatalogue,
        FiniteSetTheorems, TLAPS

-----------------------------------------------------------------------------
(* Releases, pointers and the log: the inductive invariant *)

PromotedIn(hist, r) == \E k \in DOMAIN hist : hist[k] = [kind |-> "PROMOTE", release |-> r]

\* A release's member at l found a live pointer when it was registered.
Captures(rel, r, l) == /\ rel[r].at = "registered"
                       /\ l \in Members(rel[r])
                       /\ rel[r].previous[l] # NoPointer

\* No event between these two moved the pointer of l.
Untouched(rel, hist, l, from, to) ==
    \A j \in DOMAIN hist : from < j /\ j < to => l \notin Members(rel[hist[j].release])

\* A pointer that is or was live: of a release that was promoted, and of a
\* later revision than the pointer this release replaced.
WasLive(rel, hist, l, p) ==
    /\ p = [release |-> p.release, snapshot |-> p.snapshot, revision |-> p.revision]
    /\ p.release \in ReleaseId /\ p.revision \in Nat
    /\ PromotedIn(hist, p.release)
    /\ rel[p.release].at = "registered" /\ l \in Members(rel[p.release])
    /\ rel[p.release].previous[l].revision \in Nat
    /\ rel[p.release].previous[l].revision < p.revision

RowsInv(rel, ptr, hist) ==
    /\ rel = [r \in ReleaseId |-> rel[r]] /\ ptr = [l \in Location |-> ptr[l]]
    /\ hist \in Seq(PointerEvent)
    /\ \A r \in ReleaseId : rel[r].at \in {"absent", "registered"}
    /\ \A r \in ReleaseId : rel[r].at = "registered" => rel[r].created \in 0..Len(hist)
    /\ \A k \in DOMAIN hist : rel[hist[k].release].at = "registered"

\* What was captured is live still, or is never live again.
CapturedInv(rel, ptr, hist, r, l) ==
    LET p == rel[r].previous[l] IN
    /\ WasLive(rel, hist, l, p)
    /\ p.release # r
    /\ p.release = ptr[l].release => p.revision <= ptr[l].revision
    /\ ptr[l] = p => Untouched(rel, hist, l, rel[r].created, Len(hist) + 1)

\* Only what the last promotion replaced can come back, as a new revision.
PointerInv(rel, ptr, hist, l) ==
    ptr[l] # NoPointer =>
        /\ WasLive(rel, hist, l, ptr[l])
        /\ LET x == rel[ptr[l].release].previous[l] IN
           x # NoPointer /\ ptr[l].revision = x.revision + 1 =>
               \A r \in ReleaseId :
                   Captures(rel, r, l) /\ rel[r].previous[l].release = x.release =>
                       rel[r].previous[l].revision <= x.revision

PromotionInv(rel, hist) == \A k \in DOMAIN hist :
    LET r == hist[k].release IN
    hist[k].kind = "PROMOTE" =>
        /\ \A j \in DOMAIN hist : hist[j] = hist[k] => j = k
        /\ \A l \in Members(rel[r]) : rel[r].previous[l] # NoPointer =>
             Untouched(rel, hist, l, rel[r].created, k)

LiveInv(rel, ptr, hist) ==
    /\ RowsInv(rel, ptr, hist)
    /\ \A l \in Location : PointerInv(rel, ptr, hist, l)
    /\ \A r \in ReleaseId, l \in Location :
         Captures(rel, r, l) => CapturedInv(rel, ptr, hist, r, l)
    /\ PromotionInv(rel, hist)

LEMMA NoPointerRow == /\ NoPointer.release = NoRelease /\ NoPointer.revision = 0
                      /\ NoRelease \notin ReleaseId
  BY ReleaseAssumption DEF NoPointer

LEMMA ReleaseInitInv == ReleaseInit => LiveInv(release, pointer, history)
<1> SUFFICES ASSUME ReleaseInit PROVE LiveInv(release, pointer, history)
  OBVIOUS
<1>1. /\ \A r \in ReleaseId : release[r].at = "absent"
      /\ \A l \in Location : pointer[l] = NoPointer
      /\ history = << >>
  BY DEF ReleaseInit, NoReleaseRow
<1>2. RowsInv(release, pointer, history)
  BY <1>1 DEF ReleaseInit, RowsInv
<1>3. QED
  BY <1>1, <1>2 DEF LiveInv, PointerInv, Captures, PromotionInv

-----------------------------------------------------------------------------
(* A release is registered *)

Registers(rel, ptr, hist, rel2, r, member) ==
    /\ rel[r].at = "absent"
    /\ rel2 = [rel EXCEPT ![r] =
                 [at |-> "registered", member |-> member, created |-> Len(hist),
                  previous |-> [l \in Location |-> IF member[l] = NoSnapshot
                                                   THEN NoPointer ELSE ptr[l]]]]

LEMMA RegisterLemma ==
    ASSUME NEW rel, NEW ptr, NEW hist, NEW rel2, NEW member, NEW r \in ReleaseId,
           LiveInv(rel, ptr, hist),
           Registers(rel, ptr, hist, rel2, r, member)
    PROVE  LiveInv(rel2, ptr, hist)
<1> USE DEF Registers
<1> DEFINE row == rel2[r]
<1>1. /\ row.at = "registered" /\ row.created = Len(hist)
      /\ \A l \in Members(row) : l \in Location /\ row.previous[l] = ptr[l]
      /\ \A q \in ReleaseId : q # r => rel2[q] = rel[q]
      /\ rel2 = [q \in ReleaseId |-> rel2[q]]
  BY DEF LiveInv, RowsInv, Members
<1>2. hist \in Seq(PointerEvent) /\ Len(hist) \in Nat
  BY DEF LiveInv, RowsInv
<1>3. ASSUME NEW k \in DOMAIN hist
      PROVE  hist[k].release \in ReleaseId \ {r} /\ rel2[hist[k].release] = rel[hist[k].release]
  <2>1. hist[k] \in PointerEvent
    BY <1>2
  <2>2. hist[k].release \in ReleaseId /\ rel[hist[k].release].at = "registered"
    BY <2>1 DEF PointerEvent, LiveInv, RowsInv
  <2>3. QED
    BY <1>1, <2>2
<1>4. RowsInv(rel2, ptr, hist)
  <2>1. \A q \in ReleaseId : rel2[q].at = "registered" => rel2[q].created \in 0..Len(hist)
    <3>1. Len(hist) \in 0..Len(hist)
      BY <1>2
    <3>2. QED
      BY <1>1, <3>1 DEF LiveInv, RowsInv
  <2>2. \A q \in ReleaseId : rel2[q].at \in {"absent", "registered"}
    BY <1>1 DEF LiveInv, RowsInv
  <2>3. \A k \in DOMAIN hist : rel2[hist[k].release].at = "registered"
    BY <1>3 DEF LiveInv, RowsInv
  <2>4. QED
    BY <1>1, <1>2, <2>1, <2>2, <2>3 DEF LiveInv, RowsInv
<1>5. ASSUME NEW l \in Location, NEW p, WasLive(rel, hist, l, p)
      PROVE  /\ p.release # r /\ rel2[p.release] = rel[p.release]
             /\ WasLive(rel2, hist, l, p)
  BY <1>1, <1>5 DEF WasLive
<1>6. ASSUME NEW l \in Location, NEW i, NEW j
      PROVE  Untouched(rel, hist, l, i, j) => Untouched(rel2, hist, l, i, j)
  BY <1>3 DEF Untouched
<1>7. ASSUME NEW q \in ReleaseId \ {r}, NEW l \in Location
      PROVE  Captures(rel2, q, l) <=> Captures(rel, q, l)
  BY <1>1 DEF Captures
<1>8. ASSUME NEW l \in Location, Captures(rel2, r, l)
      PROVE  /\ row.previous[l] = ptr[l] /\ ptr[l] # NoPointer
             /\ WasLive(rel, hist, l, ptr[l]) /\ PointerInv(rel, ptr, hist, l)
  BY <1>1, <1>8 DEF Captures, LiveInv, PointerInv
<1>9. ASSUME NEW q \in ReleaseId, NEW l \in Location, Captures(rel2, q, l)
      PROVE  CapturedInv(rel2, ptr, hist, q, l)
  <2>1. CASE q # r
    <3>1. CapturedInv(rel, ptr, hist, q, l) /\ rel2[q] = rel[q]
      BY <1>1, <1>7, <1>9, <2>1 DEF LiveInv
    <3>2. QED
      BY <1>5, <1>6, <3>1 DEF CapturedInv
  <2>2. CASE q = r
    <3>1. WasLive(rel2, hist, l, ptr[l]) /\ ptr[l].release # r /\ ptr[l].revision \in Nat
      BY <1>5, <1>8, <1>9, <2>2 DEF WasLive
    <3>2. Untouched(rel2, hist, l, Len(hist), Len(hist) + 1)
      BY <1>2 DEF Untouched
    <3>3. rel2[q].previous[l] = ptr[l] /\ rel2[q].created = Len(hist)
      BY <1>1, <1>8, <1>9, <2>2
    <3>4. ptr[l].revision <= ptr[l].revision
      BY <3>1
    <3>5. QED
      BY <2>2, <3>1, <3>2, <3>3, <3>4 DEF CapturedInv
  <2>3. QED
    BY <2>1, <2>2
<1>10. ASSUME NEW l \in Location PROVE PointerInv(rel2, ptr, hist, l)
  <2> SUFFICES ASSUME ptr[l] # NoPointer PROVE PointerInv(rel2, ptr, hist, l)
    BY DEF PointerInv
  <2> DEFINE x == rel[ptr[l].release].previous[l]
  <2>1. WasLive(rel, hist, l, ptr[l]) /\ PointerInv(rel, ptr, hist, l)
    BY DEF LiveInv, PointerInv
  <2>2. rel2[ptr[l].release] = rel[ptr[l].release] /\ WasLive(rel2, hist, l, ptr[l])
    BY <1>5, <2>1
  <2>3. ASSUME x # NoPointer, ptr[l].revision = x.revision + 1, NEW q \in ReleaseId,
               Captures(rel2, q, l), rel2[q].previous[l].release = x.release
        PROVE  rel2[q].previous[l].revision <= x.revision
    <3>1. CASE q # r
      BY <1>1, <1>7, <2>1, <2>3, <3>1 DEF PointerInv
    <3>2. CASE q = r
      <4>1. Captures(rel, ptr[l].release, l)
        BY <2>1, <2>3 DEF Captures, WasLive
      <4>2. x.release # ptr[l].release
        BY <4>1, <2>1 DEF LiveInv, CapturedInv, WasLive
      <4>3. QED
        BY <1>8, <2>3, <3>2, <4>2
    <3>3. QED
      BY <3>1, <3>2
  <2>4. QED
    BY <2>2, <2>3 DEF PointerInv
<1>11. PromotionInv(rel2, hist)
  <2> SUFFICES ASSUME NEW k \in DOMAIN hist, hist[k].kind = "PROMOTE",
                      NEW l \in Members(rel2[hist[k].release]),
                      rel2[hist[k].release].previous[l] # NoPointer
               PROVE  Untouched(rel2, hist, l, rel2[hist[k].release].created, k)
    BY DEF LiveInv, PromotionInv
  <2>1. l \in Location /\ rel2[hist[k].release] = rel[hist[k].release]
    BY <1>3 DEF Members
  <2>2. QED
    BY <1>6, <2>1 DEF LiveInv, PromotionInv
<1>12. QED
  BY <1>4, <1>9, <1>10, <1>11 DEF LiveInv

-----------------------------------------------------------------------------
(* The pointers of a release are moved *)

LEMMA Appended ==
    ASSUME NEW hist \in Seq(PointerEvent), NEW e \in PointerEvent,
           NEW hist2, hist2 = Append(hist, e)
    PROVE  /\ hist2 \in Seq(PointerEvent) /\ Len(hist) \in Nat /\ Len(hist2) = Len(hist) + 1
           /\ \A k \in DOMAIN hist : k \in DOMAIN hist2 /\ hist2[k] = hist[k]
           /\ \A k \in DOMAIN hist2 : k \in DOMAIN hist \/ k = Len(hist) + 1
           /\ Len(hist) + 1 \in DOMAIN hist2 /\ Len(hist) + 1 \notin DOMAIN hist
           /\ hist2[Len(hist) + 1] = e
           /\ \A k \in DOMAIN hist : hist[k] \in PointerEvent /\ k \in Nat /\ k < Len(hist) + 1
  OBVIOUS

LEMMA WasLiveStill ==
    ASSUME NEW rel, NEW hist \in Seq(PointerEvent), NEW e \in PointerEvent,
           NEW hist2, hist2 = Append(hist, e), NEW l, NEW p, WasLive(rel, hist, l, p)
    PROVE  WasLive(rel, hist2, l, p)
<1>1. PromotedIn(hist2, p.release)
  BY Appended DEF WasLive, PromotedIn
<1>2. QED
  BY <1>1 DEF WasLive

LEMMA WasLiveNow ==
    ASSUME NEW rel, NEW hist, NEW l, NEW r \in ReleaseId, NEW snapshot, NEW n \in Nat, NEW m \in Nat,
           PromotedIn(hist, r), rel[r].at = "registered", l \in Members(rel[r]),
           n = rel[r].previous[l].revision, n < m
    PROVE  WasLive(rel, hist, l, [release |-> r, snapshot |-> snapshot, revision |-> m])
  BY DEF WasLive

\* An event moves the members of its release, to pointers that nobody captured.
MovesTo(rel, ptr, hist, ptr2, hist2, e, r) ==
    /\ e \in PointerEvent /\ e.release = r
    /\ rel[r].at = "registered"
    /\ hist2 = Append(hist, e)
    /\ ptr2 = [l \in Location |-> ptr2[l]]
    /\ \A l \in Location \ Members(rel[r]) : ptr2[l] = ptr[l]
    /\ \A l \in Members(rel[r]) :
         /\ PointerInv(rel, ptr2, hist2, l)
         /\ \A q \in ReleaseId : Captures(rel, q, l) =>
              /\ ptr2[l] # rel[q].previous[l]
              /\ rel[q].previous[l].release = ptr2[l].release =>
                   rel[q].previous[l].revision <= ptr2[l].revision
    /\ PromotionInv(rel, hist2)

LEMMA MoveLemma ==
    ASSUME NEW rel, NEW ptr, NEW hist, NEW ptr2, NEW hist2, NEW e, NEW r,
           LiveInv(rel, ptr, hist),
           MovesTo(rel, ptr, hist, ptr2, hist2, e, r)
    PROVE  LiveInv(rel, ptr2, hist2)
<1>0. /\ e \in PointerEvent /\ e.release = r
      /\ rel[r].at = "registered"
      /\ hist2 = Append(hist, e)
      /\ ptr2 = [l \in Location |-> ptr2[l]]
      /\ \A l \in Location \ Members(rel[r]) : ptr2[l] = ptr[l]
      /\ \A l \in Members(rel[r]) :
           /\ PointerInv(rel, ptr2, hist2, l)
           /\ \A q \in ReleaseId : Captures(rel, q, l) =>
                /\ ptr2[l] # rel[q].previous[l]
                /\ rel[q].previous[l].release = ptr2[l].release =>
                     rel[q].previous[l].revision <= ptr2[l].revision
      /\ PromotionInv(rel, hist2)
  BY DEF MovesTo
<1>1. hist \in Seq(PointerEvent)
  BY DEF LiveInv, RowsInv
<1>2. RowsInv(rel, ptr2, hist2)
  <2>1. \A q \in ReleaseId : rel[q].at = "registered" => rel[q].created \in 0..Len(hist2)
    <3>1. \A q \in ReleaseId : rel[q].at = "registered" => rel[q].created \in 0..Len(hist)
      BY DEF LiveInv, RowsInv
    <3>2. Len(hist) \in Nat /\ Len(hist2) = Len(hist) + 1
      BY <1>0, <1>1, Appended
    <3>3. QED
      BY <3>1, <3>2
  <2>2. ASSUME NEW k \in DOMAIN hist2 PROVE rel[hist2[k].release].at = "registered"
    <3>1. CASE k \in DOMAIN hist
      <4>1. hist2[k] = hist[k]
        BY <1>0, <1>1, <3>1, Appended
      <4>2. QED
        BY <3>1, <4>1 DEF LiveInv, RowsInv
    <3>2. CASE k = Len(hist) + 1
      BY <1>0, <1>1, <3>2, Appended
    <3>3. QED
      BY <1>0, <1>1, <3>1, <3>2, Appended
  <2>3. hist2 \in Seq(PointerEvent)
    BY <1>0, <1>1, Appended
  <2>4. QED
    BY <1>0, <2>1, <2>2, <2>3 DEF LiveInv, RowsInv
<1>3. ASSUME NEW l \in Location PROVE PointerInv(rel, ptr2, hist2, l)
  <2>1. CASE l \notin Members(rel[r])
    <3>1. ptr2[l] = ptr[l] /\ PointerInv(rel, ptr, hist, l)
      BY <1>0, <2>1 DEF LiveInv
    <3>2. WasLive(rel, hist, l, ptr[l]) => WasLive(rel, hist2, l, ptr[l])
      BY <1>0, <1>1, WasLiveStill
    <3>3. QED
      BY <3>1, <3>2 DEF PointerInv
  <2>2. QED
    BY <1>0, <2>1
<1>4. ASSUME NEW q \in ReleaseId, NEW l \in Location, Captures(rel, q, l)
      PROVE  CapturedInv(rel, ptr2, hist2, q, l)
  <2> DEFINE p == rel[q].previous[l]
  <2>1. CapturedInv(rel, ptr, hist, q, l)
    BY <1>4 DEF LiveInv
  <2>2. WasLive(rel, hist2, l, p) /\ p.release # q
    BY <1>0, <1>1, <2>1, WasLiveStill DEF CapturedInv
  <2>3. CASE l \in Members(rel[r])
    BY <1>0, <1>4, <2>2, <2>3 DEF CapturedInv
  <2>4. CASE l \notin Members(rel[r])
    <3>1. ptr2[l] = ptr[l]
      BY <1>0, <2>4
    <3>2. ASSUME Untouched(rel, hist, l, rel[q].created, Len(hist) + 1)
          PROVE  Untouched(rel, hist2, l, rel[q].created, Len(hist2) + 1)
      BY <1>0, <1>1, <2>4, <3>2, Appended DEF Untouched
    <3>3. QED
      BY <2>1, <2>2, <3>1, <3>2 DEF CapturedInv
  <2>5. QED
    BY <2>3, <2>4
<1>5. QED
  BY <1>0, <1>2, <1>3, <1>4 DEF LiveInv

\* The one promotion of a release finds what it captured.
Promotes(rel, ptr, hist, ptr2, hist2, r) ==
    /\ rel[r].at = "registered"
    /\ ~PromotedIn(hist, r)
    /\ \A l \in Members(rel[r]) : ptr[l] = rel[r].previous[l]
    /\ ptr2 = [l \in Location |-> IF l \in Members(rel[r])
                                  THEN [release |-> r, snapshot |-> rel[r].member[l],
                                        revision |-> rel[r].previous[l].revision + 1]
                                  ELSE ptr[l]]
    /\ hist2 = Append(hist, [kind |-> "PROMOTE", release |-> r])

LEMMA PromoteLemma ==
    ASSUME NEW rel, NEW ptr, NEW hist, NEW ptr2, NEW hist2, NEW r \in ReleaseId,
           LiveInv(rel, ptr, hist),
           Promotes(rel, ptr, hist, ptr2, hist2, r)
    PROVE  LiveInv(rel, ptr2, hist2)
<1> USE DEF Promotes
<1> DEFINE e == [kind |-> "PROMOTE", release |-> r]
<1>1. /\ e \in PointerEvent /\ e.release = r /\ e.kind = "PROMOTE"
      /\ hist \in Seq(PointerEvent) /\ Members(rel[r]) \subseteq Location
  BY DEF PointerEvent, LiveInv, RowsInv, Members
<1> HIDE DEF e
<1>2. hist2 = Append(hist, e) /\ PromotedIn(hist2, r)
  <2>1. hist2 = Append(hist, e)
    BY DEF e
  <2>2. QED
    BY <1>1, <2>1, Appended DEF PromotedIn, e
<1>3. ASSUME NEW l \in Members(rel[r])
      PROVE  /\ rel[r].previous[l].revision \in Nat
             /\ WasLive(rel, hist2, l, ptr2[l])
  <2>1. ptr[l].revision \in Nat
    <3>1. PointerInv(rel, ptr, hist, l)
      BY <1>1 DEF LiveInv
    <3>2. QED
      BY <3>1, NoPointerRow DEF PointerInv, WasLive
  <2>2. rel[r].previous[l].revision \in Nat
    BY <2>1
  <2>3. ptr2[l] = [release |-> r, snapshot |-> rel[r].member[l],
                   revision |-> rel[r].previous[l].revision + 1]
    BY <1>1
  <2>4. QED
    <3>1. PICK n \in Nat : n = rel[r].previous[l].revision
      BY <2>2
    <3>2. n + 1 \in Nat /\ n < n + 1 /\ rel[r].previous[l].revision + 1 = n + 1
      BY <3>1
    <3>3. WasLive(rel, hist2, l, [release |-> r, snapshot |-> rel[r].member[l], revision |-> n + 1])
      BY <1>2, <3>1, <3>2, WasLiveNow
    <3>4. QED
      BY <2>2, <2>3, <3>2, <3>3
<1>4. ASSUME NEW l \in Members(rel[r]), NEW q \in ReleaseId, Captures(rel, q, l)
      PROVE  rel[q].previous[l].release # r
  BY <1>1, <1>4 DEF LiveInv, CapturedInv, WasLive
<1>5. ASSUME NEW l \in Members(rel[r]) PROVE PointerInv(rel, ptr2, hist2, l)
  <2>1. ptr2[l].release = r
    BY <1>1
  <2>2. ASSUME rel[r].previous[l] # NoPointer, NEW q \in ReleaseId, Captures(rel, q, l),
               rel[q].previous[l].release = rel[r].previous[l].release
        PROVE  rel[q].previous[l].revision <= rel[r].previous[l].revision
    BY <1>1, <2>2 DEF LiveInv, CapturedInv
  <2>3. QED
    BY <1>3, <2>1, <2>2 DEF PointerInv
<1>6. ASSUME NEW l \in Members(rel[r]), NEW q \in ReleaseId, Captures(rel, q, l)
      PROVE  ptr2[l].release # rel[q].previous[l].release
  BY <1>1, <1>4, <1>6
<1>7. PromotionInv(rel, hist2)
  <2> SUFFICES ASSUME NEW k \in DOMAIN hist2, hist2[k].kind = "PROMOTE"
               PROVE  /\ \A j \in DOMAIN hist2 : hist2[j] = hist2[k] => j = k
                      /\ \A l \in Members(rel[hist2[k].release]) :
                           rel[hist2[k].release].previous[l] # NoPointer =>
                             Untouched(rel, hist2, l, rel[hist2[k].release].created, k)
    BY DEF PromotionInv
  <2>1. \A j \in DOMAIN hist : hist[j] # e
    BY DEF PromotedIn, e
  <2>2. CASE k \in DOMAIN hist
    <3>1. hist2[k] = hist[k] /\ hist[k].kind = "PROMOTE" /\ k < Len(hist) + 1 /\ k \in Nat
      BY <1>1, <1>2, <2>2, Appended
    <3>2. \A j \in DOMAIN hist2 : hist2[j] = hist2[k] => j = k
      BY <1>1, <1>2, <2>1, <2>2, <3>1, Appended DEF LiveInv, PromotionInv
    <3>3. ASSUME NEW l \in Members(rel[hist2[k].release]),
                 rel[hist2[k].release].previous[l] # NoPointer
          PROVE  Untouched(rel, hist2, l, rel[hist2[k].release].created, k)
      <4>1. Untouched(rel, hist, l, rel[hist[k].release].created, k)
        BY <2>2, <3>1, <3>3 DEF LiveInv, PromotionInv
      <4>2. QED
        BY <1>1, <1>2, <3>1, <4>1, Appended DEF Untouched
    <3>4. QED
      BY <3>2, <3>3
  <2>3. CASE k = Len(hist) + 1
    <3>1. hist2[k] = e
      BY <1>1, <1>2, <2>3, Appended
    <3>2. \A j \in DOMAIN hist2 : hist2[j] = hist2[k] => j = k
      BY <1>1, <1>2, <2>1, <2>3, <3>1, Appended
    <3>3. ASSUME NEW l \in Members(rel[r]), rel[r].previous[l] # NoPointer
          PROVE  Untouched(rel, hist2, l, rel[r].created, k)
      <4>1. Untouched(rel, hist, l, rel[r].created, Len(hist) + 1)
        BY <1>1, <3>3 DEF LiveInv, CapturedInv, Captures
      <4>2. QED
        BY <1>1, <1>2, <2>3, <4>1, Appended DEF Untouched
    <3>4. QED
      BY <1>1, <3>1, <3>2, <3>3
  <2>4. QED
    BY <1>1, <1>2, <2>2, <2>3, Appended
<1>8. \A l \in Location \ Members(rel[r]) : ptr2[l] = ptr[l]
  OBVIOUS
<1>9. ptr2 = [l \in Location |-> ptr2[l]]
  OBVIOUS
<1>10. \A l \in Members(rel[r]) :
         /\ PointerInv(rel, ptr2, hist2, l)
         /\ \A q \in ReleaseId : Captures(rel, q, l) =>
              /\ ptr2[l] # rel[q].previous[l]
              /\ rel[q].previous[l].release = ptr2[l].release =>
                   rel[q].previous[l].revision <= ptr2[l].revision
  BY <1>5, <1>6
<1>11. MovesTo(rel, ptr, hist, ptr2, hist2, e, r)
  BY <1>1, <1>2, <1>7, <1>8, <1>9, <1>10 DEF MovesTo
<1>12. QED
  BY <1>11, MoveLemma

\* What a live promotion replaced: the last pointer that was captured of its release.
LEMMA ReplacedLemma ==
    ASSUME NEW rel, NEW ptr, NEW hist, NEW r \in ReleaseId, NEW l \in Members(rel[r]),
           LiveInv(rel, ptr, hist),
           rel[r].at = "registered",
           NEW x, x = rel[r].previous[l], x # NoPointer,
           NEW p, p = ptr[l], p.release = r, p.revision = x.revision + 1
    PROVE  /\ WasLive(rel, hist, l, x)
           /\ x.revision \in Nat /\ x.release \in ReleaseId
           /\ x = [release |-> x.release, snapshot |-> x.snapshot, revision |-> x.revision]
           /\ \A q \in ReleaseId :
                Captures(rel, q, l) /\ rel[q].previous[l].release = x.release =>
                  /\ rel[q].previous[l].revision \in Nat
                  /\ rel[q].previous[l].revision <= x.revision
<1>1. l \in Location /\ Captures(rel, r, l)
  BY DEF Members, Captures
<1>2. WasLive(rel, hist, l, x)
  BY <1>1 DEF LiveInv, CapturedInv
<1>3. p # NoPointer
  BY NoPointerRow
<1>4. PointerInv(rel, ptr, hist, l)
  BY <1>1 DEF LiveInv
<1>5. \A q \in ReleaseId :
        Captures(rel, q, l) /\ rel[q].previous[l].release = x.release =>
          rel[q].previous[l].revision <= x.revision
  BY <1>3, <1>4 DEF PointerInv
<1>6. \A q \in ReleaseId : Captures(rel, q, l) => rel[q].previous[l].revision \in Nat
  BY <1>1 DEF LiveInv, CapturedInv, WasLive
<1>7. QED
  BY <1>2, <1>5, <1>6 DEF WasLive

\* The pointer a restore leaves: of the release before, with a revision of its own.
LEMMA RestoredLemma ==
    ASSUME NEW x, x = [release |-> x.release, snapshot |-> x.snapshot, revision |-> x.revision],
           x.revision \in Nat, NEW p, p.revision = x.revision + 1
    PROVE  [x EXCEPT !.revision = p.revision + 1]
             = [release |-> x.release, snapshot |-> x.snapshot, revision |-> x.revision + 2]
<1>1. p.revision + 1 = x.revision + 2
  OBVIOUS
<1>2. QED
  BY <1>1

\* A restore finds what its release left, so nothing was moved in between.
Restores(rel, ptr, hist, ptr2, hist2, r) ==
    /\ rel[r].at = "registered"
    /\ \A l \in Members(rel[r]) :
         ptr[l] = [release |-> r, snapshot |-> rel[r].member[l],
                   revision |-> rel[r].previous[l].revision + 1]
    /\ ptr2 = [l \in Location |->
                 IF l \in Members(rel[r])
                 THEN IF rel[r].previous[l] = NoPointer THEN NoPointer
                      ELSE [rel[r].previous[l] EXCEPT !.revision = ptr[l].revision + 1]
                 ELSE ptr[l]]
    /\ hist2 = Append(hist, [kind |-> "RESTORE", release |-> r])

LEMMA RestoreLemma ==
    ASSUME NEW rel, NEW ptr, NEW hist, NEW ptr2, NEW hist2, NEW r \in ReleaseId,
           LiveInv(rel, ptr, hist),
           Restores(rel, ptr, hist, ptr2, hist2, r)
    PROVE  LiveInv(rel, ptr2, hist2)
<1> USE DEF Restores
<1> DEFINE e == [kind |-> "RESTORE", release |-> r]
<1>1. /\ e \in PointerEvent /\ e.release = r /\ e.kind = "RESTORE"
      /\ hist \in Seq(PointerEvent) /\ Members(rel[r]) \subseteq Location
  BY DEF PointerEvent, LiveInv, RowsInv, Members
<1> HIDE DEF e
<1>2. hist2 = Append(hist, e)
  BY DEF e
<1>3. ASSUME NEW l \in Members(rel[r]), rel[r].previous[l] # NoPointer,
             NEW x, x = rel[r].previous[l]
      PROVE  /\ WasLive(rel, hist, l, x)
             /\ x.revision \in Nat /\ x.release \in ReleaseId
             /\ ptr2[l] = [release |-> x.release, snapshot |-> x.snapshot,
                           revision |-> x.revision + 2]
             /\ \A q \in ReleaseId :
                  Captures(rel, q, l) /\ rel[q].previous[l].release = x.release =>
                    /\ rel[q].previous[l].revision \in Nat
                    /\ rel[q].previous[l].revision <= x.revision
  <2>1. ptr[l].release = r /\ ptr[l].revision = x.revision + 1
    <3>1. ptr[l] = [release |-> r, snapshot |-> rel[r].member[l], revision |-> x.revision + 1]
      BY <1>3
    <3>2. QED
      BY <3>1
  <2>2. /\ WasLive(rel, hist, l, x)
        /\ x.revision \in Nat /\ x.release \in ReleaseId
        /\ x = [release |-> x.release, snapshot |-> x.snapshot, revision |-> x.revision]
        /\ \A q \in ReleaseId :
             Captures(rel, q, l) /\ rel[q].previous[l].release = x.release =>
               /\ rel[q].previous[l].revision \in Nat
               /\ rel[q].previous[l].revision <= x.revision
    BY <1>3, <2>1, ReplacedLemma
  <2>3. ptr2[l] = [x EXCEPT !.revision = ptr[l].revision + 1]
    BY <1>1, <1>3
  <2>4. [x EXCEPT !.revision = ptr[l].revision + 1]
          = [release |-> x.release, snapshot |-> x.snapshot, revision |-> x.revision + 2]
    BY <2>1, <2>2, RestoredLemma
  <2>5. QED
    BY <2>2, <2>3, <2>4
<1>4. ASSUME NEW l \in Members(rel[r]), rel[r].previous[l] = NoPointer
      PROVE  ptr2[l] = NoPointer
  BY <1>1, <1>4
<1>5. ASSUME NEW l \in Members(rel[r]) PROVE PointerInv(rel, ptr2, hist2, l)
  <2> SUFFICES ASSUME ptr2[l] # NoPointer PROVE PointerInv(rel, ptr2, hist2, l)
    BY DEF PointerInv
  <2>1. PICK x : x = rel[r].previous[l]
    OBVIOUS
  <2>2. PICK q : q = x.release
    OBVIOUS
  <2>3. /\ WasLive(rel, hist, l, x) /\ x.revision \in Nat
        /\ ptr2[l] = [release |-> q, snapshot |-> x.snapshot, revision |-> x.revision + 2]
    BY <1>3, <1>4, <2>1, <2>2
  <2>4. WasLive(rel, hist2, l, x)
    BY <1>1, <1>2, <2>3, WasLiveStill
  <2>5. /\ q \in ReleaseId /\ PromotedIn(hist2, q)
        /\ rel[q].at = "registered" /\ l \in Members(rel[q])
        /\ rel[q].previous[l].revision \in Nat
        /\ rel[q].previous[l].revision < x.revision
    BY <2>2, <2>4 DEF WasLive
  <2>6. x.revision + 2 \in Nat /\ rel[q].previous[l].revision < x.revision + 2
    BY <2>3, <2>5
  <2>7. WasLive(rel, hist2, l, ptr2[l])
    <3>1. WasLive(rel, hist2, l, [release |-> q, snapshot |-> x.snapshot, revision |-> x.revision + 2])
      BY <2>5, <2>6, WasLiveNow
    <3>2. QED
      BY <2>3, <3>1
  <2>8. ptr2[l].revision = x.revision + 2 /\ ptr2[l].release = q
    BY <2>3
  <2>9. x.revision + 2 # rel[q].previous[l].revision + 1
    BY <2>3, <2>5
  <2>10. QED
    BY <2>7, <2>8, <2>9 DEF PointerInv
<1>6. ASSUME NEW l \in Members(rel[r]), NEW q \in ReleaseId, Captures(rel, q, l)
      PROVE  /\ ptr2[l] # rel[q].previous[l]
             /\ rel[q].previous[l].release = ptr2[l].release =>
                  rel[q].previous[l].revision <= ptr2[l].revision
  <2>1. CASE rel[r].previous[l] = NoPointer
    <3>1. rel[q].previous[l].release \in ReleaseId
      BY <1>1, <1>6 DEF LiveInv, CapturedInv, WasLive
    <3>2. QED
      BY <1>4, <1>6, <2>1, <3>1, NoPointerRow DEF Captures
  <2>2. CASE rel[r].previous[l] # NoPointer
    <3>1. PICK x : x = rel[r].previous[l]
      OBVIOUS
    <3>2. /\ ptr2[l].release = x.release /\ ptr2[l].revision = x.revision + 2
          /\ x.revision \in Nat
      <4>1. /\ ptr2[l] = [release |-> x.release, snapshot |-> x.snapshot,
                          revision |-> x.revision + 2]
            /\ x.revision \in Nat
        BY <1>3, <2>2, <3>1
      <4>2. QED
        BY <4>1
    <3>3. rel[q].previous[l].release = x.release =>
            /\ rel[q].previous[l].revision \in Nat
            /\ rel[q].previous[l].revision <= x.revision
      BY <1>3, <1>6, <2>2, <3>1
    <3>4. PICK y : y = rel[q].previous[l]
      OBVIOUS
    <3>5. y.release = x.release => y.revision # x.revision + 2 /\ y.revision <= x.revision + 2
      BY <3>2, <3>3, <3>4
    <3>6. QED
      BY <3>2, <3>4, <3>5
  <2>3. QED
    BY <2>1, <2>2
<1>7. PromotionInv(rel, hist2)
  <2> SUFFICES ASSUME NEW k \in DOMAIN hist2, hist2[k].kind = "PROMOTE"
               PROVE  /\ \A j \in DOMAIN hist2 : hist2[j] = hist2[k] => j = k
                      /\ \A l \in Members(rel[hist2[k].release]) :
                           rel[hist2[k].release].previous[l] # NoPointer =>
                             Untouched(rel, hist2, l, rel[hist2[k].release].created, k)
    BY DEF PromotionInv
  <2>1. k \in DOMAIN hist /\ hist2[k] = hist[k] /\ k < Len(hist) + 1 /\ k \in Nat
    BY <1>1, <1>2, Appended
  <2>2. \A j \in DOMAIN hist2 : hist2[j] = hist2[k] => j = k
    BY <1>1, <1>2, <2>1, Appended DEF LiveInv, PromotionInv
  <2>3. ASSUME NEW l \in Members(rel[hist2[k].release]),
               rel[hist2[k].release].previous[l] # NoPointer
        PROVE  Untouched(rel, hist2, l, rel[hist2[k].release].created, k)
    <3>1. Untouched(rel, hist, l, rel[hist[k].release].created, k)
      BY <2>1, <2>3 DEF LiveInv, PromotionInv
    <3>2. QED
      BY <1>1, <1>2, <2>1, <3>1, Appended DEF Untouched
  <2>4. QED
    BY <2>2, <2>3
<1>8. \A l \in Location \ Members(rel[r]) : ptr2[l] = ptr[l]
  OBVIOUS
<1>9. ptr2 = [l \in Location |-> ptr2[l]]
  OBVIOUS
<1>10. \A l \in Members(rel[r]) :
         /\ PointerInv(rel, ptr2, hist2, l)
         /\ \A q \in ReleaseId : Captures(rel, q, l) =>
              /\ ptr2[l] # rel[q].previous[l]
              /\ rel[q].previous[l].release = ptr2[l].release =>
                   rel[q].previous[l].revision <= ptr2[l].revision
  BY <1>5, <1>6
<1>11. MovesTo(rel, ptr, hist, ptr2, hist2, e, r)
  BY <1>1, <1>2, <1>7, <1>8, <1>9, <1>10 DEF MovesTo
<1>12. QED
  BY <1>11, MoveLemma

-----------------------------------------------------------------------------
(* The operations keep it *)

LEMMA RegisteredLemma ==
    ASSUME NEW r \in ReleaseId, NEW member,
           LiveInv(release, pointer, history),
           release' = [release EXCEPT ![r] = Registered(r, member)]
    PROVE  /\ LiveInv(release', pointer, history)
           /\ release'[r] = Registered(r, member) /\ release'[r].at = "registered"
<1>1. release = [q \in ReleaseId |-> release[q]] /\ release[r].at \in {"absent", "registered"}
  BY DEF LiveInv, RowsInv
<1>2. release'[r] = Registered(r, member)
  BY <1>1
<1>3. CASE release[r].at = "absent"
  <2>1. Registered(r, member) = Captured(member)
    BY <1>3 DEF Registered
  <2>2. Registers(release, pointer, history, release', r, member)
    BY <1>3, <2>1 DEF Captured, Registers
  <2>3. LiveInv(release', pointer, history)
    BY <2>2, RegisterLemma
  <2>4. QED
    BY <1>2, <2>1, <2>3 DEF Captured
<1>4. CASE release[r].at = "registered"
  <2>1. Registered(r, member) = release[r]
    BY <1>4 DEF Registered
  <2>2. release' = release
    BY <1>1, <2>1
  <2>3. QED
    BY <1>2, <1>4, <2>1, <2>2
<1>5. QED
  BY <1>1, <1>3, <1>4

LEMMA PromotionLemma ==
    ASSUME NEW rel, NEW r \in ReleaseId,
           LiveInv(rel, pointer, history),
           rel[r].at = "registered",
           Promotion(r, rel[r])
    PROVE  LiveInv(rel, pointer', history')
<1>1. CASE IsLive(r, rel[r])
  <2>1. pointer' = pointer /\ history' = history
    BY <1>1 DEF Promotion
  <2>2. QED
    BY <2>1
<1>2. CASE ~IsLive(r, rel[r])
  <2>1. Promotable(r, rel[r])
    BY <1>2 DEF Promotion
  <2>2. /\ ~PromotedIn(history, r)
        /\ \A l \in Members(rel[r]) : pointer[l] = rel[r].previous[l]
    BY <2>1 DEF Promotable, PromotedBefore, PromotedIn, FoundAsCaptured
  <2>3. /\ pointer' = [l \in Location |-> IF l \in Members(rel[r])
                                      THEN [release |-> r, snapshot |-> rel[r].member[l],
                                            revision |-> rel[r].previous[l].revision + 1]
                                      ELSE pointer[l]]
        /\ history' = Append(history, [kind |-> "PROMOTE", release |-> r])
    BY <1>2 DEF Promotion, PromotedPointer
  <2>4. Promotes(rel, pointer, history, pointer', history', r)
    BY <2>2, <2>3 DEF Promotes
  <2>5. QED
    BY <2>4, PromoteLemma
<1>3. QED
  BY <1>1, <1>2

LEMMA RegisterLiveLemma ==
    ASSUME NEW r \in ReleaseId, NEW member,
           LiveInv(release, pointer, history),
           RegisterLive(r, member)
    PROVE  LiveInv(release', pointer', history')
<1>1. release' = [release EXCEPT ![r] = Registered(r, member)] /\ Promotion(r, Registered(r, member))
  BY DEF RegisterLive
<1>2. /\ LiveInv(release', pointer, history)
      /\ release'[r] = Registered(r, member) /\ release'[r].at = "registered"
  BY <1>1, RegisteredLemma
<1>3. QED
  BY <1>1, <1>2, PromotionLemma

LEMMA ReleaseStepLemma ==
    ASSUME LiveInv(release, pointer, history), ReleaseNext
    PROVE  LiveInv(release', pointer', history')
<1>1. PICK r \in ReleaseId : \/ Promote(r) \/ Restore(r)
                             \/ \E target \in ReleaseId : Activate(r, target)
  BY DEF ReleaseNext
<1>2. CASE Promote(r)
  <2>1. release[r].at = "registered" /\ Promotion(r, release[r]) /\ release' = release
    BY <1>2 DEF Promote
  <2>2. QED
    BY <2>1, PromotionLemma
<1>3. CASE Restore(r)
  <2>1. /\ release[r].at = "registered" /\ release' = release
        /\ \A l \in Members(release[r]) :
             pointer[l] = [release |-> r, snapshot |-> release[r].member[l],
                           revision |-> release[r].previous[l].revision + 1]
    BY <1>3 DEF Restore, IsLive, PromotedPointer
  <2>2. /\ history' = Append(history, [kind |-> "RESTORE", release |-> r])
        /\ pointer' = [l \in Location |->
             IF l \in Members(release[r])
             THEN IF release[r].previous[l] = NoPointer THEN NoPointer
                  ELSE [release[r].previous[l] EXCEPT !.revision = pointer[l].revision + 1]
             ELSE pointer[l]]
    BY <1>3 DEF Restore, RestoredPointer
  <2>3. Restores(release, pointer, history, pointer', history', r)
    BY <2>1, <2>2 DEF Restores
  <2>4. QED
    BY <2>1, <2>3, RestoreLemma
<1>4. CASE \E target \in ReleaseId : Activate(r, target)
  BY <1>4, RegisterLiveLemma DEF Activate
<1>5. QED
  BY <1>1, <1>2, <1>3, <1>4

LEMMA PublicationStepLemma ==
    ASSUME LiveInv(release, pointer, history), [PublicationNext]_consoleVars
    PROVE  LiveInv(release', pointer', history')
<1>1. CASE UNCHANGED releaseVars
  BY <1>1 DEF releaseVars
<1>2. ASSUME NEW r \in ReleaseId, NEW member, Register(r, member)
      PROVE  LiveInv(release', pointer', history')
  BY <1>2, RegisteredLemma DEF Register
<1>3. ASSUME NEW o \in Operator, NEW r \in ReleaseId, Publish(o, r)
      PROVE  LiveInv(release', pointer', history')
  <2>1. CASE r \in Candidates
    <3>1. Register(r, Materialized(view[o].scope))
      BY <1>3, <2>1 DEF Publish
    <3>2. QED
      BY <1>2, <3>1
  <2>2. CASE r \notin Candidates
    <3>1. RegisterLive(r, Materialized(view[o].scope))
      BY <1>3, <2>2 DEF Publish
    <3>2. QED
      BY <3>1, RegisterLiveLemma
  <2>3. QED
    BY <2>1, <2>2
<1>4. CASE ReleaseNext
  BY <1>4, ReleaseStepLemma
<1>5. ASSUME NEW r \in Candidates, StageFound(r)
      PROVE  LiveInv(release', pointer', history')
  <2>1. r \in ReleaseId
    BY PublicationAssumption
  <2>2. QED
    BY <1>2, <1>5, <2>1 DEF StageFound
<1>6. CASE \/ UNCHANGED consoleVars
           \/ FindLive
           \/ \E o \in Operator : \/ \E s \in Scope : ReadState(o, s)
                                  \/ SaveDraft(o) \/ CancelDraft(o) \/ PublishRefused(o)
  <2>1. UNCHANGED releaseVars
    BY <1>6 DEF consoleVars, releaseVars, FindLive, ReadState, SaveDraft, CancelDraft, PublishRefused
  <2>2. QED
    BY <1>1, <2>1
<1>7. QED
  BY <1>3, <1>4, <1>5, <1>6 DEF PublicationNext

LEMMA PromotedLemma == LiveInv(release, pointer, history) => PromotedAsCaptured
<1> SUFFICES ASSUME LiveInv(release, pointer, history), NEW k \in DOMAIN history,
                    history[k].kind = "PROMOTE"
             PROVE  LET r == history[k].release IN
                    /\ \A j \in DOMAIN history : history[j] = history[k] => j = k
                    /\ \A l \in Members(release[r]) : release[r].previous[l] # NoPointer =>
                         ~ \E j \in (release[r].created + 1)..(k - 1) : Moves(j, l)
  BY DEF PromotedAsCaptured
<1>1. PICK r : r = history[k].release
  OBVIOUS
<1>2. \A j \in DOMAIN history : history[j] = history[k] => j = k
  BY DEF LiveInv, PromotionInv
<1>3. ASSUME NEW l \in Members(release[r]), release[r].previous[l] # NoPointer,
             NEW j \in (release[r].created + 1)..(k - 1), Moves(j, l)
      PROVE  FALSE
  <2>1. Untouched(release, history, l, release[r].created, k)
    BY <1>1, <1>3 DEF LiveInv, PromotionInv
  <2>2. history \in Seq(PointerEvent) /\ r \in ReleaseId /\ release[r].at = "registered"
    <3>1. history \in Seq(PointerEvent) /\ release[r].at = "registered"
      BY <1>1 DEF LiveInv, RowsInv
    <3>2. history[k] \in PointerEvent
      BY <3>1
    <3>3. QED
      BY <1>1, <3>1, <3>2 DEF PointerEvent
  <2>3. release[r].created \in Nat /\ DOMAIN history = 1..Len(history)
    <3>1. release[r].created \in 0..Len(history)
      BY <2>2 DEF LiveInv, RowsInv
    <3>2. Len(history) \in Nat /\ DOMAIN history = 1..Len(history)
      BY <2>2
    <3>3. QED
      BY <3>1, <3>2
  <2>4. j \in DOMAIN history /\ release[r].created < j /\ j < k
    BY <2>2, <2>3
  <2>5. QED
    BY <1>3, <2>1, <2>4 DEF Untouched, Moves
<1>4. QED
  BY <1>1, <1>2, <1>3

(* A release moves the live pointers at most once, and only where nobody has *)
(* moved them since it captured them, whatever publications, promotions,     *)
(* rollbacks and restores come before.                                       *)
THEOREM PromotedTheorem == PublicationSpec => []PromotedAsCaptured
<1>1. PublicationInit => LiveInv(release, pointer, history)
  BY ReleaseInitInv DEF PublicationInit
<1>2. LiveInv(release, pointer, history) /\ [PublicationNext]_consoleVars
        => LiveInv(release, pointer, history)'
  BY PublicationStepLemma
<1>3. QED
  BY <1>1, <1>2, PromotedLemma, PTL DEF PublicationSpec

-----------------------------------------------------------------------------
(* Drafts and publications *)

DraftsInv ==
    /\ draft = [s \in Scope |-> draft[s]]
    /\ \A s \in Scope : draft[s] = [id |-> draft[s].id, revision |-> draft[s].revision,
                                    base |-> draft[s].base]
    /\ view = [o \in Operator |-> view[o]]
    /\ \A o \in Operator :
         /\ view[o] = [scope |-> view[o].scope, revision |-> view[o].revision,
                       draft |-> view[o].draft, reply |-> view[o].reply]
         /\ view[o].scope \in Scope
    \* No two scopes have the same draft, and no draft that was published is one still.
    /\ \A s, t \in Scope : draft[s].id # NoDraft /\ draft[s].id = draft[t].id => s = t
    /\ \A s \in Scope, e \in audit : draft[s].id # NoDraft => e.draft # draft[s].id
    /\ PublishedWasReviewed

LEMMA DraftsInit == PublicationInit => DraftsInv
  BY DEF PublicationInit, DraftsInv, NoDraftRow, Scope, PublishedWasReviewed

\* An operation that changes one scope's draft, and neither view nor audit.
LEMMA DraftLemma ==
    ASSUME DraftsInv, NEW s \in Scope, NEW i, NEW n, NEW b,
           draft' = [draft EXCEPT ![s] = [id |-> i, revision |-> n, base |-> b]],
           view' = view, audit' = audit,
           \/ i \in {NoDraft, draft[s].id}
           \/ (\A t \in Scope : draft[t].id # i) /\ \A e \in audit : e.draft # i
    PROVE  DraftsInv'
<1>1. /\ draft'[s] = [id |-> i, revision |-> n, base |-> b]
      /\ draft' = [t \in Scope |-> draft'[t]]
      /\ \A t \in Scope : t # s => draft'[t] = draft[t]
  BY DEF DraftsInv
<1>2. draft'[s].id = i
  BY <1>1
<1>3. \A t \in Scope : draft'[t] = [id |-> draft'[t].id, revision |-> draft'[t].revision,
                                    base |-> draft'[t].base]
  BY <1>1 DEF DraftsInv
<1>4. \A t, u \in Scope : draft'[t].id # NoDraft /\ draft'[t].id = draft'[u].id => t = u
  BY <1>1, <1>2 DEF DraftsInv
<1>5. \A t \in Scope, e \in audit : draft'[t].id # NoDraft => e.draft # draft'[t].id
  BY <1>1, <1>2 DEF DraftsInv
<1>6. QED
  BY <1>1, <1>3, <1>4, <1>5 DEF DraftsInv, PublishedWasReviewed

\* An operator's view is replaced; one who is told of a publication is told the truth.
LEMMA ViewLemma ==
    ASSUME DraftsInv, NEW o \in Operator, NEW v,
           v = [scope |-> v.scope, revision |-> v.revision, draft |-> v.draft, reply |-> v.reply],
           v.scope \in Scope,
           view' = [view EXCEPT ![o] = v],
           draft' = draft, audit' = audit,
           v.reply = "published" =>
             \E e \in audit : /\ e.scope = v.scope /\ e.draft = v.draft.id
                              /\ e.draftRevision = v.draft.revision
    PROVE  DraftsInv'
<1>1. /\ view'[o] = v /\ view' = [u \in Operator |-> view'[u]]
      /\ \A u \in Operator : u # o => view'[u] = view[u]
  BY DEF DraftsInv
<1>2. PublishedWasReviewed'
  BY <1>1 DEF DraftsInv, PublishedWasReviewed
<1>3. \A u \in Operator :
         /\ view'[u] = [scope |-> view'[u].scope, revision |-> view'[u].revision,
                        draft |-> view'[u].draft, reply |-> view'[u].reply]
         /\ view'[u].scope \in Scope
  BY <1>1 DEF DraftsInv
<1>4. QED
  BY <1>1, <1>2, <1>3 DEF DraftsInv

LEMMA SaveDraftLemma ==
    ASSUME DraftsInv, NEW o \in Operator, SaveDraft(o)
    PROVE  DraftsInv'
<1>1. PICK s \in Scope : s = view[o].scope
  BY DEF DraftsInv
<1>2. view' = view /\ audit' = audit
  BY DEF SaveDraft
<1>3. ASSUME NEW id \in DraftId, Unused(id),
             draft' = [draft EXCEPT ![s] = [id |-> id, revision |-> 1, base |-> revision[s]]]
      PROVE  DraftsInv'
  <2>1. (\A t \in Scope : draft[t].id # id) /\ \A e \in audit : e.draft # id
    BY <1>3 DEF Unused
  <2>2. QED
    BY <1>2, <1>3, <2>1, DraftLemma
<1>4. ASSUME draft' = [draft EXCEPT ![s].revision = @ + 1] PROVE DraftsInv'
  <2>1. draft[s] = [id |-> draft[s].id, revision |-> draft[s].revision, base |-> draft[s].base]
    BY DEF DraftsInv
  <2>2. draft' = [draft EXCEPT ![s] = [id |-> draft[s].id, revision |-> draft[s].revision + 1,
                                       base |-> draft[s].base]]
    <3>1. PICK d : d = draft[s]
      OBVIOUS
    <3>2. draft' = [draft EXCEPT ![s] = [d EXCEPT !.revision = d.revision + 1]]
      BY <1>4, <3>1
    <3>3. d = [id |-> d.id, revision |-> d.revision, base |-> d.base]
      BY <2>1, <3>1
    <3>4. [d EXCEPT !.revision = d.revision + 1]
            = [id |-> d.id, revision |-> d.revision + 1, base |-> d.base]
      BY <3>3
    <3>5. QED
      BY <3>1, <3>2, <3>4
  <2>3. draft[s].id \in {NoDraft, draft[s].id}
    OBVIOUS
  <2>4. QED
    BY <1>2, <2>2, <2>3, DraftLemma
<1>5. QED
  BY <1>1, <1>3, <1>4 DEF SaveDraft

LEMMA CancelDraftLemma ==
    ASSUME DraftsInv, NEW o \in Operator, CancelDraft(o)
    PROVE  DraftsInv'
<1>1. PICK s \in Scope : s = view[o].scope
  BY DEF DraftsInv
<1>2. /\ view' = view /\ audit' = audit
      /\ draft' = [draft EXCEPT ![s] = [id |-> NoDraft, revision |-> 0, base |-> 0]]
  BY <1>1 DEF CancelDraft, NoDraftRow, NoDraft
<1>3. NoDraft \in {NoDraft, draft[s].id}
  OBVIOUS
<1>4. QED
  BY <1>2, <1>3, DraftLemma

LEMMA PublishLemma ==
    ASSUME DraftsInv, NEW o \in Operator, NEW r, Publish(o, r)
    PROVE  DraftsInv'
<1>1. PICK s \in Scope : s = view[o].scope
  BY DEF DraftsInv
<1>2. PICK d : d = draft[s].id
  OBVIOUS
<1>3. /\ d # NoDraft
      /\ d = view[o].draft.id /\ draft[s].revision = view[o].draft.revision
  BY <1>1, <1>2 DEF Publish, Publishable, SameDraft
<1>4. PICK f : /\ audit' = audit \cup {f}
               /\ f.scope = s /\ f.draft = d /\ f.draftRevision = view[o].draft.revision
  <2>1. audit' = audit \cup
            {[scope |-> s, revision |-> revision[s] + 1, draft |-> draft[s].id,
              draftRevision |-> draft[s].revision, release |-> r]}
    BY <1>1 DEF Publish
  <2>2. PICK f : f = [scope |-> s, revision |-> revision[s] + 1, draft |-> d,
                      draftRevision |-> draft[s].revision, release |-> r]
    OBVIOUS
  <2>3. f.scope = s /\ f.draft = d /\ f.draftRevision = draft[s].revision
    BY <2>2
  <2>4. audit' = audit \cup {f}
    BY <1>2, <2>1, <2>2
  <2>5. QED
    BY <1>3, <2>3, <2>4
<1>5. /\ draft' = [t \in Scope |-> IF t = s THEN NoDraftRow ELSE draft[t]]
      /\ view' = [view EXCEPT ![o].reply = "published"]
  BY <1>1 DEF Publish, Replies, DraftsInv
<1>6. /\ view' = [u \in Operator |-> view'[u]]
      /\ \A u \in Operator : u # o => view'[u] = view[u]
      /\ view'[o] = [scope |-> s, revision |-> view[o].revision,
                     draft |-> view[o].draft, reply |-> "published"]
  BY <1>1, <1>5 DEF DraftsInv
<1>7. \A u \in Operator :
         /\ view'[u] = [scope |-> view'[u].scope, revision |-> view'[u].revision,
                        draft |-> view'[u].draft, reply |-> view'[u].reply]
         /\ view'[u].scope \in Scope
  BY <1>6 DEF DraftsInv
<1>8. draft'[s].id = NoDraft /\ \A t \in Scope : t # s => draft'[t] = draft[t]
  BY <1>5 DEF NoDraftRow
<1>9. \A t \in Scope : draft'[t] = [id |-> draft'[t].id, revision |-> draft'[t].revision,
                                    base |-> draft'[t].base]
  BY <1>5 DEF DraftsInv, NoDraftRow
<1>10. \A t, u \in Scope : draft'[t].id # NoDraft /\ draft'[t].id = draft'[u].id => t = u
  BY <1>8 DEF DraftsInv
<1>11. \A t \in Scope, e \in audit' : draft'[t].id # NoDraft => e.draft # draft'[t].id
  BY <1>2, <1>3, <1>4, <1>8 DEF DraftsInv
<1>12. \A e, g \in audit' : e.draft = g.draft => e = g
  BY <1>2, <1>3, <1>4 DEF DraftsInv, PublishedWasReviewed
<1>13. ASSUME NEW u \in Operator, view'[u].reply = "published"
       PROVE  \E e \in audit' : /\ e.scope = view'[u].scope /\ e.draft = view'[u].draft.id
                                /\ e.draftRevision = view'[u].draft.revision
  <2>1. CASE u = o
    BY <1>3, <1>4, <1>6, <2>1
  <2>2. CASE u # o
    BY <1>4, <1>6, <1>13, <2>2 DEF DraftsInv, PublishedWasReviewed
  <2>3. QED
    BY <2>1, <2>2
<1>14. draft' = [t \in Scope |-> draft'[t]]
  BY <1>5
<1>15. QED
  BY <1>6, <1>7, <1>9, <1>10, <1>11, <1>12, <1>13, <1>14 DEF DraftsInv, PublishedWasReviewed

LEMMA RefusedLemma ==
    ASSUME DraftsInv, NEW o \in Operator, PublishRefused(o)
    PROVE  DraftsInv'
<1>1. PICK reply : /\ Replies(o, reply)
                   /\ reply = "published" => Completed(o) # {}
  <2>1. \/ Replies(o, "published") /\ Completed(o) # {}
        \/ Replies(o, "conflict") \/ Replies(o, "no-draft")
    BY DEF PublishRefused
  <2>2. QED
    BY <2>1
<1>2. PICK v : v = [scope |-> view[o].scope, revision |-> view[o].revision,
                    draft |-> view[o].draft, reply |-> reply]
  OBVIOUS
<1>3. view' = [view EXCEPT ![o] = v]
  <2>1. PICK w : w = view[o]
    OBVIOUS
  <2>2. view' = [view EXCEPT ![o] = [w EXCEPT !.reply = reply]]
    BY <1>1, <2>1 DEF Replies
  <2>3. w = [scope |-> w.scope, revision |-> w.revision, draft |-> w.draft, reply |-> w.reply]
    BY <2>1 DEF DraftsInv
  <2>4. [w EXCEPT !.reply = reply] = v
    BY <1>2, <2>1, <2>3
  <2>5. QED
    BY <2>2, <2>4
<1>4. /\ v = [scope |-> v.scope, revision |-> v.revision, draft |-> v.draft, reply |-> v.reply]
      /\ v.scope = view[o].scope /\ v.draft = view[o].draft /\ v.reply = reply
  BY <1>2
<1>5. v.scope \in Scope
  BY <1>4 DEF DraftsInv
<1>6. v.reply = "published" =>
        \E e \in audit : /\ e.scope = v.scope /\ e.draft = v.draft.id
                         /\ e.draftRevision = v.draft.revision
  BY <1>1, <1>4 DEF Completed
<1>7. draft' = draft /\ audit' = audit
  BY DEF PublishRefused
<1>8. QED
  BY <1>3, <1>4, <1>5, <1>6, <1>7, ViewLemma

LEMMA ReadStateLemma ==
    ASSUME DraftsInv, NEW o \in Operator, NEW s \in Scope, ReadState(o, s)
    PROVE  DraftsInv'
<1>1. PICK v : v = [scope |-> s, revision |-> revision[s], draft |-> draft[s], reply |-> "none"]
  OBVIOUS
<1>2. /\ v = [scope |-> v.scope, revision |-> v.revision, draft |-> v.draft, reply |-> v.reply]
      /\ v.scope \in Scope /\ v.reply = "none"
  BY <1>1
<1>3. view' = [view EXCEPT ![o] = v] /\ draft' = draft /\ audit' = audit
  BY <1>1 DEF ReadState
<1>4. QED
  BY <1>2, <1>3, ViewLemma

LEMMA DraftsStep == DraftsInv /\ [PublicationNext]_consoleVars => DraftsInv'
<1> SUFFICES ASSUME DraftsInv, [PublicationNext]_consoleVars PROVE DraftsInv'
  OBVIOUS
<1>1. CASE draft' = draft /\ view' = view /\ audit' = audit
  BY <1>1 DEF DraftsInv, PublishedWasReviewed
<1>2. CASE \/ UNCHANGED consoleVars \/ FindLive \/ \E r \in Candidates : StageFound(r)
           \/ ReleaseNext /\ UNCHANGED publicationVars
  <2>1. draft' = draft /\ view' = view /\ audit' = audit
    BY <1>2 DEF consoleVars, publicationVars, FindLive, StageFound
  <2>2. QED
    BY <1>1, <2>1
<1>3. CASE \E o \in Operator :
             \/ \E s \in Scope : ReadState(o, s)
             \/ SaveDraft(o)
             \/ CancelDraft(o)
             \/ \E r \in ReleaseId : Publish(o, r)
             \/ PublishRefused(o)
  BY <1>3, ReadStateLemma, SaveDraftLemma, CancelDraftLemma, PublishLemma, RefusedLemma
<1>4. QED
  BY <1>2, <1>3 DEF PublicationNext

(* Whoever is told that a draft is published has read it as it was           *)
(* published, and no draft is published twice, however saves, cancellations, *)
(* publications and their repetitions of several operators interleave.       *)
THEOREM PublishedTheorem == PublicationSpec => []PublishedWasReviewed
<1>1. DraftsInv => PublishedWasReviewed
  BY DEF DraftsInv
<1>2. QED
  BY <1>1, DraftsInit, DraftsStep, PTL DEF PublicationSpec

-----------------------------------------------------------------------------
(* The platform's draft and publications *)

\* No administrator knows a later revision of the draft than there is, nor
\* another draft under its revision; and none that is published is one still.
ProposalInv ==
    /\ proposal = [id |-> proposal.id, revision |-> proposal.revision,
                   base |-> proposal.base, changes |-> proposal.changes]
    /\ proposal.changes \subseteq Change
    /\ opened = [a \in Admin |-> opened[a]]
    /\ \A a \in Admin : opened[a] = [revision |-> opened[a].revision,
                                     draft |-> opened[a].draft, reply |-> opened[a].reply]
    /\ proposal # NoProposal =>
         /\ proposal.id \in Nat \ {0} /\ proposal.revision \in Nat
         /\ \A p \in publication : p.draft.id # proposal.id
         /\ \A a \in Admin : opened[a].draft.id = proposal.id =>
              /\ opened[a].draft.revision \in Nat
              /\ opened[a].draft.revision <= proposal.revision
              /\ opened[a].draft.revision = proposal.revision => opened[a].draft = proposal

LEMMA NoProposalRow == NoProposal.id = 0 /\ NoProposal.changes = {} /\ NoProposal.revision = 0
  BY DEF NoProposal

LEMMA ProposalInit == PlatformInit => ProposalInv
  BY DEF PlatformInit, ProposalInv, NoProposal

\* An operation that leaves the draft, and shows it or none to one administrator.
LEMMA OpenedLemma ==
    ASSUME ProposalInv, NEW a \in Admin, NEW v,
           v = [revision |-> v.revision, draft |-> v.draft, reply |-> v.reply],
           v.draft \in {proposal, NoProposal, opened[a].draft},
           opened' = [opened EXCEPT ![a] = v],
           proposal' = proposal, publication' = publication
    PROVE  ProposalInv'
<1>1. /\ opened'[a] = v /\ opened' = [b \in Admin |-> opened'[b]]
      /\ \A b \in Admin : b # a => opened'[b] = opened[b]
  BY DEF ProposalInv
<1>2. \A b \in Admin : opened'[b] = [revision |-> opened'[b].revision,
                                     draft |-> opened'[b].draft, reply |-> opened'[b].reply]
  BY <1>1 DEF ProposalInv
<1>3. ASSUME proposal # NoProposal, NEW b \in Admin, opened'[b].draft.id = proposal.id
      PROVE  /\ opened'[b].draft.revision \in Nat
             /\ opened'[b].draft.revision <= proposal.revision
             /\ opened'[b].draft.revision = proposal.revision => opened'[b].draft = proposal
  <2>1. CASE opened'[b].draft \in {NoProposal, opened[b].draft}
    BY <1>3, <2>1, NoProposalRow DEF ProposalInv
  <2>2. CASE opened'[b].draft = proposal
    <3>1. proposal.revision \in Nat
      BY <1>3 DEF ProposalInv
    <3>2. QED
      BY <2>2, <3>1
  <2>3. QED
    BY <1>1, <2>1, <2>2
<1>4. QED
  BY <1>1, <1>2, <1>3 DEF ProposalInv

\* An operation that ends the draft, perhaps publishes it, and shows it to nobody.
LEMMA NoProposalLemma ==
    ASSUME ProposalInv, NEW a \in Admin, NEW reply,
           proposal' = NoProposal,
           opened' = opened \/ opened' = [opened EXCEPT ![a].reply = reply]
    PROVE  ProposalInv'
<1>1. PICK w : w = opened[a]
  OBVIOUS
<1>2. w = [revision |-> w.revision, draft |-> w.draft, reply |-> w.reply]
  BY <1>1 DEF ProposalInv
<1>3. ASSUME opened' = [opened EXCEPT ![a] = [w EXCEPT !.reply = reply]]
      PROVE  /\ opened' = [b \in Admin |-> opened'[b]]
             /\ \A b \in Admin : opened'[b] = [revision |-> opened'[b].revision,
                                     draft |-> opened'[b].draft, reply |-> opened'[b].reply]
  <2>1. [w EXCEPT !.reply = reply] = [revision |-> w.revision, draft |-> w.draft, reply |-> reply]
    BY <1>2
  <2>2. QED
    BY <1>3, <2>1 DEF ProposalInv
<1>4. /\ opened' = [b \in Admin |-> opened'[b]]
      /\ \A b \in Admin : opened'[b] = [revision |-> opened'[b].revision,
                                     draft |-> opened'[b].draft, reply |-> opened'[b].reply]
  BY <1>1, <1>3 DEF ProposalInv
<1>5. /\ proposal' = [id |-> proposal'.id, revision |-> proposal'.revision,
                     base |-> proposal'.base, changes |-> proposal'.changes]
      /\ proposal'.changes \subseteq Change
  BY DEF NoProposal
<1>6. QED
  BY <1>4, <1>5 DEF ProposalInv

LEMMA StageLemma ==
    ASSUME ProposalInv, NEW a \in Admin, NEW c \in Offered, StageChange(a, c)
    PROVE  ProposalInv'
<1>1. opened' = opened /\ publication' = publication
  BY DEF StageChange, Unpublished
<1>2. ASSUME NEW id \in 1..MaxProposals, Unknown(id),
             proposal' = [id |-> id, revision |-> 1, base |-> platform, changes |-> {c}]
      PROVE  ProposalInv'
  <2>1. /\ proposal'.id = id /\ proposal'.revision = 1 /\ proposal'.changes = {c}
        /\ proposal' = [id |-> proposal'.id, revision |-> proposal'.revision,
                        base |-> proposal'.base, changes |-> proposal'.changes]
    BY <1>2
  <2>2. id \in Nat \ {0} /\ c \in Change
    BY PlatformAssumption, OfferedAssumption
  <2>3. (\A p \in publication : p.draft.id # id) /\ \A b \in Admin : opened[b].draft.id # id
    BY <1>2 DEF Unknown
  <2>4. QED
    BY <1>1, <2>1, <2>2, <2>3 DEF ProposalInv
<1>3. ASSUME AsOpened(a), NEW merged \in SUBSET Change,
             proposal' = [proposal EXCEPT !.revision = @ + 1, !.changes = merged]
      PROVE  ProposalInv'
  <2>1. proposal # NoProposal
    BY <1>3 DEF AsOpened, Visible
  <2>2. proposal' = [id |-> proposal.id, revision |-> proposal.revision + 1,
                     base |-> proposal.base, changes |-> merged]
    BY <1>3 DEF ProposalInv
  <2>3. /\ proposal'.id = proposal.id /\ proposal'.revision = proposal.revision + 1
        /\ proposal'.changes = merged
        /\ proposal' = [id |-> proposal'.id, revision |-> proposal'.revision,
                        base |-> proposal'.base, changes |-> proposal'.changes]
    BY <2>2
  <2>4. /\ proposal.id \in Nat \ {0} /\ proposal.revision \in Nat
        /\ \A p \in publication : p.draft.id # proposal.id
    BY <2>1 DEF ProposalInv
  <2>5. ASSUME NEW b \in Admin, opened[b].draft.id = proposal.id
        PROVE  /\ opened[b].draft.revision \in Nat
               /\ opened[b].draft.revision <= proposal.revision + 1
               /\ opened[b].draft.revision # proposal.revision + 1
    <3>1. opened[b].draft.revision \in Nat /\ opened[b].draft.revision <= proposal.revision
      BY <2>1, <2>5 DEF ProposalInv
    <3>2. QED
      BY <2>4, <3>1
  <2>6. QED
    BY <1>1, <2>3, <2>4, <2>5 DEF ProposalInv
<1>4. {d \in proposal.changes : ~SameChange(d, c)} \cup {c} \in SUBSET Change
  BY OfferedAssumption DEF ProposalInv
<1>5. QED
  BY <1>2, <1>3, <1>4 DEF StageChange

LEMMA ProposalStep == ProposalInv /\ [PlatformNext]_platformVars => ProposalInv'
<1> SUFFICES ASSUME ProposalInv, [PlatformNext]_platformVars PROVE ProposalInv'
  OBVIOUS
<1>1. CASE proposal' = proposal /\ opened' = opened /\ publication' = publication
  BY <1>1 DEF ProposalInv
<1>2. CASE UNCHANGED platformVars \/ PlatformTick
  BY <1>1, <1>2 DEF platformVars, PlatformTick
<1>3. ASSUME NEW a \in Admin, OpenPlatform(a) PROVE ProposalInv'
  <2>1. PICK v : v = [revision |-> platform, reply |-> "none",
                      draft |-> IF Visible(a) THEN proposal ELSE NoProposal]
    OBVIOUS
  <2>2. /\ v = [revision |-> v.revision, draft |-> v.draft, reply |-> v.reply]
        /\ v.draft \in {proposal, NoProposal, opened[a].draft}
    BY <2>1
  <2>3. opened' = [opened EXCEPT ![a] = v] /\ proposal' = proposal /\ publication' = publication
    BY <1>3, <2>1 DEF OpenPlatform
  <2>4. QED
    BY <2>2, <2>3, OpenedLemma
<1>4. ASSUME NEW a \in Admin, NEW reply, opened' = [opened EXCEPT ![a].reply = reply],
             proposal' = proposal, publication' = publication
      PROVE  ProposalInv'
  <2>1. PICK w : w = opened[a]
    OBVIOUS
  <2>2. w = [revision |-> w.revision, draft |-> w.draft, reply |-> w.reply]
    BY <2>1 DEF ProposalInv
  <2>3. PICK v : v = [revision |-> w.revision, draft |-> w.draft, reply |-> reply]
    OBVIOUS
  <2>4. /\ v = [revision |-> v.revision, draft |-> v.draft, reply |-> v.reply]
        /\ v.draft \in {proposal, NoProposal, opened[a].draft}
    BY <2>1, <2>3
  <2>5. [w EXCEPT !.reply = reply] = v
    BY <2>2, <2>3
  <2>6. opened' = [opened EXCEPT ![a] = v]
    BY <1>4, <2>1, <2>5
  <2>7. QED
    BY <1>4, <2>4, <2>6, OpenedLemma
<1>5. ASSUME NEW a \in Admin, \/ BeginPublication(a) \/ NotPublished(a) \/ AbandonPublication(a)
                              \/ Revoke(a)
      PROVE  ProposalInv'
  <2>1. proposal' = proposal /\ publication' = publication
    BY <1>5 DEF BeginPublication, NotPublished, AbandonPublication, Revoke, Replied, Unpriced
  <2>2. opened' = opened \/ \E reply : opened' = [opened EXCEPT ![a].reply = reply]
    BY <1>5 DEF BeginPublication, NotPublished, AbandonPublication, Revoke, Replied
  <2>3. QED
    BY <1>1, <1>4, <2>1, <2>2
<1>6. ASSUME NEW a \in Admin, CancelProposal(a) PROVE ProposalInv'
  BY <1>6, NoProposalLemma DEF CancelProposal, Unpublished
<1>7. ASSUME NEW a \in Admin, NEW id, PublishPlatform(a, id) PROVE ProposalInv'
  BY <1>7, NoProposalLemma DEF PublishPlatform
<1>8. QED
  BY <1>2, <1>3, <1>5, <1>6, <1>7, StageLemma DEF PlatformNext

\* What a step publishes.
LEMMA PublishedLemma ==
    ASSUME ProposalInv, [PlatformNext]_platformVars, NEW p \in publication' \ publication
    PROVE  /\ Required(p.draft.changes) \subseteq capable[p.actor]
           /\ opened[p.actor].draft = p.draft
           /\ \A q \in publication : q.draft.id # p.draft.id
<1>1. PICK a \in Admin, id \in ReleaseId : PublishPlatform(a, id)
  <2>1. \/ publication' = publication
        \/ \E a \in Admin, id \in ReleaseId : PublishPlatform(a, id)
    BY DEF PlatformNext, platformVars, PlatformTick, OpenPlatform, StageChange, CancelProposal,
           Revoke, BeginPublication, NotPublished, AbandonPublication, Replied, Unpriced, Unpublished
  <2>2. QED
    BY <2>1
<1>2. p = [revision |-> platform + 1, draft |-> proposal, actor |-> a]
  BY <1>1 DEF PublishPlatform
<1>3. p.draft = proposal /\ p.actor = a
  BY <1>2
<1>4. AsOpened(a)
  BY <1>1 DEF PublishPlatform, ProposalCurrent
<1>5. /\ proposal # NoProposal /\ Held(a, proposal.changes)
      /\ proposal.id = opened[a].draft.id /\ proposal.revision = opened[a].draft.revision
  BY <1>4 DEF AsOpened, Visible
<1>6. QED
  BY <1>3, <1>5 DEF ProposalInv, Held

(* Whoever publishes holds, at the commit, what every change of the draft    *)
(* needs, has read that very draft, and publishes it for the first time:     *)
(* for any number of administrators, changes and grants taken back.          *)
THEOREM PlatformPublishedTheorem == PlatformSpec => PlatformPublishedAuthorized
<1>1. ProposalInv /\ [PlatformNext]_platformVars =>
        [\A p \in publication' \ publication :
           /\ Required(p.draft.changes) \subseteq capable[p.actor]
           /\ opened[p.actor].draft = p.draft
           /\ \A q \in publication : q.draft.id # p.draft.id]_platformVars
  BY PublishedLemma
<1>2. QED
  BY <1>1, ProposalInit, ProposalStep, PTL DEF PlatformSpec, PlatformPublishedAuthorized

-----------------------------------------------------------------------------
(* The rates *)

LEMMA LeastElement ==
    ASSUME NEW S \in SUBSET Nat, S # {}
    PROVE  \E m \in S : \A n \in S : m <= n
<1>1. IsWellFoundedOn(OpToRel(<,Nat), Nat)
  BY NatLessThanWellFounded
<1>2. PICK m \in S : \A n \in S : ~(<<n, m>> \in OpToRel(<,Nat))
  BY <1>1, WFMin
<1>3. \A n \in S : ~(n < m)
  BY <1>2 DEF OpToRel
<1>4. QED
  BY <1>3

LEMMA LastUntil ==
    ASSUME NEW S \in SUBSET Nat, 0 \in S, NEW t \in Nat
    PROVE  \E s \in S : s <= t /\ \A u \in S : u <= t => u <= s
<1>1. PICK D : D = {d \in 0..t : t - d \in S}
  OBVIOUS
<1>2. D \in SUBSET Nat /\ t \in D
  BY <1>1
<1>3. PICK d \in D : \A e \in D : d <= e
  BY <1>2, LeastElement
<1>4. t - d \in S /\ t - d <= t
  BY <1>1, <1>2
<1>5. ASSUME NEW u \in S, u <= t PROVE u <= t - d
  <2>1. t - u \in 0..t /\ t - (t - u) = u
    BY <1>5
  <2>2. t - u \in D
    BY <1>1, <2>1
  <2>3. d <= t - u /\ d \in Nat /\ u \in Nat
    BY <1>2, <1>3, <2>2
  <2>4. QED
    BY <2>3
<1>6. QED
  BY <1>4, <1>5

\* The times from which a model has a rate, and where the rate of one of them ends.
Starts(rates, m) == {r.from : r \in {s \in rates : s.model = m}}
EndOf(S, t) == LET later == {s \in S : s > t} IN
               IF later = {} THEN Forever ELSE CHOOSE s \in later : \A u \in later : s <= u

\* Every model has a rate from the beginning, and each ends where the next begins.
Timeline(rates) ==
    /\ \A m \in ProviderModel : Starts(rates, m) \subseteq 0..MaxTime /\ 0 \in Starts(rates, m)
    /\ \A r \in rates :
         /\ r.model \in ProviderModel
         /\ r = [model |-> r.model, from |-> r.from,
                 to |-> EndOf(Starts(rates, r.model), r.from)]

LEMMA EndOfLemma ==
    ASSUME NEW S \in SUBSET (0..MaxTime), NEW s \in S
    PROVE  /\ EndOf(S, s) \in Nat /\ s < EndOf(S, s)
           /\ \A u \in S : u > s => EndOf(S, s) <= u
           /\ EndOf(S, s) \in S \cup {Forever}
<1>1. PICK later : later = {u \in S : u > s}
  OBVIOUS
<1>2. MaxTime \in Nat /\ Forever \in Nat /\ s < Forever
  BY ClockAssumption DEF Forever
<1>3. CASE later = {}
  <2>1. EndOf(S, s) = Forever
    BY <1>1, <1>3 DEF EndOf
  <2>2. QED
    BY <1>1, <1>2, <1>3, <2>1
<1>4. CASE later # {}
  <2>1. later \in SUBSET Nat
    <3>1. \A u \in 0..MaxTime : u \in Nat
      BY <1>2
    <3>2. QED
      BY <1>1, <3>1
  <2>2. \E m \in later : \A u \in later : m <= u
    BY <1>4, <2>1, LeastElement
  <2>3. PICK e : e = CHOOSE m \in later : \A u \in later : m <= u
    OBVIOUS
  <2>4. e \in later /\ \A u \in later : e <= u
    BY <2>2, <2>3
  <2>5. EndOf(S, s) = e
    BY <1>1, <1>4, <2>3 DEF EndOf
  <2>6. QED
    BY <1>1, <2>1, <2>4, <2>5
<1>5. QED
  BY <1>3, <1>4

\* One rate is in force at a time: the last that has started.
LEMMA InForceLemma ==
    ASSUME NEW rates, Timeline(rates), NEW m \in ProviderModel, NEW t \in 0..MaxTime
    PROVE  \E s \in Starts(rates, m) :
             /\ s <= t /\ \A u \in Starts(rates, m) : u <= t => u <= s
             /\ \E r : InForce(rates, m, t) = {r} /\ r.from = s
<1>1. PICK S : S = Starts(rates, m)
  OBVIOUS
<1>2. S \in SUBSET (0..MaxTime) /\ 0 \in S /\ MaxTime \in Nat
  BY <1>1, ClockAssumption DEF Timeline
<1>3. PICK s \in S : s <= t /\ \A u \in S : u <= t => u <= s
  <2>1. \A u \in 0..MaxTime : u \in Nat
    BY <1>2
  <2>2. S \in SUBSET Nat /\ 0 \in S /\ t \in Nat
    BY <1>2, <2>1
  <2>3. QED
    BY <2>2, LastUntil
<1>4. PICK r \in rates : r.model = m /\ r.from = s
  BY <1>1 DEF Starts
<1>5. \A q \in rates : q.model = m => q.from \in S /\ q.to = EndOf(S, q.from)
  <2>1. ASSUME NEW q \in rates, q.model = m PROVE q.from \in S /\ q.to = EndOf(S, q.from)
    <3>1. q.from \in S
      BY <1>1, <2>1 DEF Starts
    <3>2. q = [model |-> m, from |-> q.from, to |-> EndOf(S, q.from)]
      BY <1>1, <2>1 DEF Timeline
    <3>3. QED
      BY <3>1, <3>2
  <2>2. QED
    BY <2>1
<1>6. ASSUME NEW q \in rates, q.model = m, q.from <= t, t < q.to
      PROVE  q = r
  <2>1. q.from \in S /\ q.to = EndOf(S, q.from)
    BY <1>5, <1>6
  <2>2. s > q.from => q.to <= s
    BY <2>1, <1>2, EndOfLemma
  <2>3. q.from = s
    <3>1. q.to \in Nat
      BY <1>2, <2>1, EndOfLemma
    <3>2. PICK f, e : f = q.from /\ e = q.to
      OBVIOUS
    <3>3. f <= t /\ t < e /\ f \in S /\ e \in Nat /\ (s > f => e <= s) /\ s <= t /\ f <= s
      BY <1>3, <1>6, <2>1, <2>2, <3>1, <3>2
    <3>4. \A u \in 0..MaxTime : u \in Nat
      BY <1>2
    <3>5. f \in Nat /\ s \in Nat /\ t \in Nat
      BY <1>2, <3>3, <3>4
    <3>6. f = s
      BY <3>3, <3>5
    <3>7. QED
      BY <3>2, <3>6
  <2>4. q = [model |-> m, from |-> s, to |-> EndOf(S, s)]
    BY <1>1, <1>6, <2>3 DEF Timeline
  <2>5. r = [model |-> m, from |-> s, to |-> EndOf(S, s)]
    BY <1>1, <1>4 DEF Timeline
  <2>6. QED
    BY <2>4, <2>5
<1>7. t < r.to
  <2>1. r.to = EndOf(S, s)
    BY <1>4, <1>5
  <2>2. /\ EndOf(S, s) \in Nat /\ s < EndOf(S, s) /\ EndOf(S, s) \in S \cup {Forever}
    BY <1>2, EndOfLemma
  <2>3. EndOf(S, s) \in S => ~(EndOf(S, s) <= t)
    BY <1>2, <1>3, <2>2
  <2>4. t < Forever
    BY <1>2 DEF Forever
  <2>5. QED
    BY <1>2, <2>1, <2>2, <2>3, <2>4
<1>8. InForce(rates, m, t) = {r}
  BY <1>3, <1>4, <1>6, <1>7 DEF InForce
<1>9. QED
  BY <1>1, <1>3, <1>4, <1>8

LEMMA TimelineInit == PlatformInit => Timeline(rate)
<1> SUFFICES ASSUME PlatformInit PROVE Timeline(rate)
  OBVIOUS
<1>1. rate = [model : ProviderModel, from : {0}, to : {Forever}] /\ MaxTime \in Nat
  BY ClockAssumption DEF PlatformInit
<1>2. ASSUME NEW m \in ProviderModel PROVE Starts(rate, m) = {0}
  <2>1. [model |-> m, from |-> 0, to |-> Forever] \in rate
    BY <1>1
  <2>2. \A r \in rate : r.from = 0
    BY <1>1
  <2>3. [model |-> m, from |-> 0, to |-> Forever] \in {s \in rate : s.model = m}
    BY <2>1
  <2>4. 0 \in Starts(rate, m)
    BY <2>3 DEF Starts
  <2>5. QED
    BY <2>2, <2>4 DEF Starts
<1>3. EndOf({0}, 0) = Forever
  BY DEF EndOf
<1>4. ASSUME NEW r \in rate
      PROVE  /\ r.model \in ProviderModel
             /\ r = [model |-> r.model, from |-> r.from, to |-> EndOf(Starts(rate, r.model), r.from)]
  <2>1. r.model \in ProviderModel /\ r = [model |-> r.model, from |-> 0, to |-> Forever]
    BY <1>1
  <2>2. Starts(rate, r.model) = {0} /\ r.from = 0
    BY <1>2, <2>1
  <2>3. QED
    BY <1>3, <2>1, <2>2
<1>5. QED
  <2>1. {0} \subseteq 0..MaxTime
    BY <1>1
  <2>2. QED
    BY <1>2, <1>4, <2>1 DEF Timeline

\* The rates a draft opens for a model.
Opened(changes, m) == {c.from : c \in {d \in Opens(changes) : d.model = m}}

LEMMA SupersededLemma ==
    ASSUME Timeline(rate), NEW changes \in SUBSET Change
    PROVE  /\ Timeline(Superseded(changes))
           /\ \A m \in ProviderModel :
                Starts(Superseded(changes), m) = Starts(rate, m) \cup Opened(changes, m)
<1> DEFINE S(m) == Starts(rate, m) \cup Opened(changes, m)
           rates == Superseded(changes)
<1>1. \A r : r \in rates <=> \E m \in ProviderModel : \E t \in S(m) :
                              r = [model |-> m, from |-> t, to |-> EndOf(S(m), t)]
  BY DEF Superseded, Starts, Opened, EndOf
<1>2. ASSUME NEW m \in ProviderModel PROVE S(m) \subseteq 0..MaxTime /\ 0 \in S(m)
  <2>1. \A c \in Opens(changes) : c.from \in 0..MaxTime
    BY DEF Opens, Change
  <2>2. QED
    BY <2>1 DEF Timeline, Opened
<1> HIDE DEF rates, S
<1>3. ASSUME NEW m \in ProviderModel PROVE Starts(rates, m) = S(m)
  <2>1. ASSUME NEW t \in S(m) PROVE t \in Starts(rates, m)
    <3>1. PICK r : r = [model |-> m, from |-> t, to |-> EndOf(S(m), t)]
      OBVIOUS
    <3>2. r \in rates /\ r.model = m /\ r.from = t
      BY <1>1, <3>1
    <3>3. QED
      BY <3>2 DEF Starts
  <2>2. ASSUME NEW t \in Starts(rates, m) PROVE t \in S(m)
    <3>1. PICK r \in rates : r.model = m /\ r.from = t
      BY <2>2 DEF Starts
    <3>2. QED
      BY <1>1, <3>1
  <2>3. QED
    BY <2>1, <2>2
<1>4. ASSUME NEW r \in rates
      PROVE  /\ r.model \in ProviderModel
             /\ r = [model |-> r.model, from |-> r.from, to |-> EndOf(Starts(rates, r.model), r.from)]
  <2>0. PICK m \in ProviderModel :
          \E t \in S(m) : r = [model |-> m, from |-> t, to |-> EndOf(S(m), t)]
    BY <1>1
  <2>1. PICK t \in S(m) : r = [model |-> m, from |-> t, to |-> EndOf(S(m), t)]
    BY <2>0
  <2>2. r.model = m /\ r.from = t
    BY <2>1
  <2>3. QED
    BY <1>3, <2>1, <2>2
<1>5. Timeline(rates)
  BY <1>2, <1>3, <1>4 DEF Timeline
<1>6. QED
  BY <1>3, <1>5 DEF rates, S

\* No publication waits longer than its transaction may last.
WaitingInv ==
    /\ now \in Nat
    /\ publishing = [a \in Admin |-> publishing[a]]
    /\ \A a \in Admin : publishing[a].at = "waiting" =>
         publishing[a].began \in Nat /\ now <= publishing[a].began + PublicationLife

RatesInv == ProposalInv /\ WaitingInv /\ Timeline(rate)

LEMMA WaitingInit == PlatformInit => WaitingInv
  BY DEF PlatformInit, WaitingInv, ClockInit, NotPublishing

LEMMA WaitingStep == WaitingInv /\ [PlatformNext]_platformVars => WaitingInv'
<1> SUFFICES ASSUME WaitingInv, [PlatformNext]_platformVars PROVE WaitingInv'
  OBVIOUS
<1>1. CASE now' = now /\ publishing' = publishing
  BY <1>1 DEF WaitingInv
<1>2. ASSUME NEW a \in Admin, now' = now,
             \/ publishing' = [publishing EXCEPT ![a] = NotPublishing]
             \/ publishing' = [publishing EXCEPT ![a] = [at |-> "waiting", began |-> now]]
      PROVE  WaitingInv'
  BY <1>2, PlatformAssumption DEF WaitingInv, NotPublishing
<1>3. CASE PlatformTick
  <2>1. /\ now' = now + 1 /\ publishing' = publishing
        /\ \A a \in Admin : publishing[a].at = "waiting" =>
                             now < publishing[a].began + PublicationLife
    BY <1>3 DEF PlatformTick, Tick
  <2>2. PublicationLife \in Nat
    BY PlatformAssumption
  <2>3. QED
    BY <2>1, <2>2 DEF WaitingInv
<1>4. ASSUME NEW a \in Admin, \/ BeginPublication(a) \/ NotPublished(a) \/ AbandonPublication(a)
                              \/ \E id \in ReleaseId : PublishPlatform(a, id)
      PROVE  WaitingInv'
  <2>1. now' = now
    BY <1>4 DEF BeginPublication, NotPublished, AbandonPublication, PublishPlatform, Replied, Unpriced
  <2>2. \/ publishing' = [publishing EXCEPT ![a] = NotPublishing]
        \/ publishing' = [publishing EXCEPT ![a] = [at |-> "waiting", began |-> now]]
    BY <1>4 DEF BeginPublication, NotPublished, AbandonPublication, PublishPlatform, Replied
  <2>3. QED
    BY <1>2, <2>1, <2>2
<1>5. CASE \/ UNCHANGED platformVars
           \/ \E a \in Admin : \/ OpenPlatform(a) \/ CancelProposal(a) \/ Revoke(a)
                               \/ \E c \in Offered : StageChange(a, c)
  <2>1. now' = now /\ publishing' = publishing
    BY <1>5 DEF platformVars, OpenPlatform, CancelProposal, Revoke, StageChange, Unpublished
  <2>2. QED
    BY <1>1, <2>1
<1>6. QED
  BY <1>3, <1>4, <1>5 DEF PlatformNext

\* What a step does to the rates: nothing, or it opens some that start later.
LEMMA RatesStepLemma ==
    ASSUME RatesInv, [PlatformNext]_platformVars
    PROVE  /\ Timeline(rate')
           /\ \A m \in ProviderModel :
                /\ Starts(rate, m) \subseteq Starts(rate', m)
                /\ \A t \in Starts(rate', m) \ Starts(rate, m) : t >= now - PublicationLife
<1>1. CASE rate' = rate
  BY <1>1 DEF RatesInv
<1>2. ASSUME NEW a \in Admin, NEW id \in ReleaseId, PublishPlatform(a, id)
      PROVE  /\ Timeline(rate')
             /\ \A m \in ProviderModel :
                  /\ Starts(rate, m) \subseteq Starts(rate', m)
                  /\ \A t \in Starts(rate', m) \ Starts(rate, m) : t >= now - PublicationLife
  <2>1. PICK changes \in SUBSET Change : changes = proposal.changes
    BY DEF RatesInv, ProposalInv
  <2>2. /\ publishing[a].at = "waiting" /\ rate' = Superseded(changes)
        /\ \A c \in Opens(changes) : c.from >= publishing[a].began
    BY <1>2, <2>1 DEF PublishPlatform, Prospective
  <2>3. /\ publishing[a].began \in Nat /\ now \in Nat
        /\ now <= publishing[a].began + PublicationLife
        /\ PublicationLife \in Nat /\ MaxTime \in Nat
    BY <2>2, PlatformAssumption, ClockAssumption DEF RatesInv, WaitingInv
  <2>4. /\ Timeline(rate')
        /\ \A m \in ProviderModel : Starts(rate', m) = Starts(rate, m) \cup Opened(changes, m)
    BY <2>2, SupersededLemma DEF RatesInv
  <2>5. \A m \in ProviderModel : \A t \in Opened(changes, m) : t >= now - PublicationLife
    <3>1. \A c \in Opens(changes) : c.from \in 0..MaxTime
      BY DEF Opens, Change
    <3>2. \A c \in Opens(changes) : c.from >= now - PublicationLife
      BY <2>2, <2>3, <3>1
    <3>3. QED
      BY <3>2 DEF Opened
  <2>6. QED
    BY <2>4, <2>5
<1>3. \/ rate' = rate
      \/ \E a \in Admin, id \in ReleaseId : PublishPlatform(a, id)
  BY DEF PlatformNext, platformVars, PlatformTick, OpenPlatform, StageChange, CancelProposal,
         Revoke, BeginPublication, NotPublished, AbandonPublication, Replied, Unpriced, Unpublished
<1>4. QED
  BY <1>1, <1>2, <1>3

\* No rate of the past is touched.
LEMMA PastRatesLemma ==
    ASSUME RatesInv, [PlatformNext]_platformVars, NEW m \in ProviderModel, NEW t \in 0..MaxTime
    PROVE  /\ Cardinality(InForce(rate', m, t)) = 1
           /\ t < now - PublicationLife =>
                StartsInForce(rate', m, t) = StartsInForce(rate, m, t)
<1>1. PICK s \in Starts(rate, m) :
        /\ s <= t /\ \A u \in Starts(rate, m) : u <= t => u <= s
        /\ \E r : InForce(rate, m, t) = {r} /\ r.from = s
  BY InForceLemma DEF RatesInv
<1>2. /\ Timeline(rate')
      /\ Starts(rate, m) \subseteq Starts(rate', m)
      /\ \A u \in Starts(rate', m) \ Starts(rate, m) : u >= now - PublicationLife
  BY RatesStepLemma
<1>3. PICK s2 \in Starts(rate', m) :
        /\ s2 <= t /\ \A u \in Starts(rate', m) : u <= t => u <= s2
        /\ \E r : InForce(rate', m, t) = {r} /\ r.from = s2
  BY <1>2, InForceLemma
<1>4. Cardinality(InForce(rate', m, t)) = 1
  BY <1>3, FS_Singleton
<1>5. StartsInForce(rate, m, t) = {s} /\ StartsInForce(rate', m, t) = {s2}
  BY <1>1, <1>3 DEF StartsInForce
<1>6. ASSUME t < now - PublicationLife PROVE s2 = s
  <2>1. /\ Starts(rate, m) \subseteq 0..MaxTime /\ Starts(rate', m) \subseteq 0..MaxTime
        /\ now \in Nat /\ PublicationLife \in Nat /\ MaxTime \in Nat
    BY <1>2, PlatformAssumption, ClockAssumption DEF RatesInv, Timeline, WaitingInv
  <2>2. s2 \in Starts(rate, m)
    BY <1>2, <1>3, <1>6, <2>1
  <2>3. s2 <= s /\ s <= s2
    BY <1>1, <1>2, <1>3, <2>2
  <2>4. QED
    BY <2>1, <2>2, <2>3
<1>7. QED
  BY <1>4, <1>5, <1>6

(* A model has exactly one rate at every time, and no publication, however   *)
(* long it waited for its locks, rewrites the rate of a time that was past   *)
(* when its transaction could have begun.                                    *)
THEOREM RatesTheorem == PlatformSpec => RatesNeverRewritten
<1>1. PlatformInit => RatesInv
  BY ProposalInit, WaitingInit, TimelineInit DEF RatesInv
<1>2. RatesInv /\ [PlatformNext]_platformVars => RatesInv'
  BY ProposalStep, WaitingStep, RatesStepLemma DEF RatesInv
<1>3. RatesInv /\ [PlatformNext]_platformVars =>
        [\A m \in ProviderModel, t \in 0..MaxTime :
           /\ Cardinality(InForce(rate', m, t)) = 1
           /\ t < now - PublicationLife =>
                StartsInForce(rate', m, t) = StartsInForce(rate, m, t)]_platformVars
  BY PastRatesLemma
<1>4. QED
  BY <1>1, <1>2, <1>3, PTL DEF PlatformSpec, RatesNeverRewritten

-----------------------------------------------------------------------------
(* The platform's publications move the live pointers too *)

OtherOperation(a) ==
    \/ OpenPlatform(a) \/ CancelProposal(a) \/ Revoke(a)
    \/ BeginPublication(a) \/ NotPublished(a) \/ AbandonPublication(a)
    \/ \E c \in Offered : StageChange(a, c)

\* Only a publication touches the releases, and the rates and routes.
LEMMA OthersLeave ==
    ASSUME \/ UNCHANGED platformVars \/ PlatformTick
           \/ \E a \in Admin : OtherOperation(a)
    PROVE  /\ UNCHANGED <<releaseVars, rate, primary>>
           /\ now' = now \/ (now < MaxTime /\ now' = now + 1)
<1>1. CASE UNCHANGED platformVars \/ PlatformTick
  BY <1>1 DEF platformVars, releaseVars, PlatformTick, Tick
<1>2. CASE \E a \in Admin : OtherOperation(a)
  BY <1>2 DEF OtherOperation, releaseVars, OpenPlatform, CancelProposal, Revoke, BeginPublication,
              NotPublished, AbandonPublication, StageChange, Replied, Unpriced, Unpublished
<1>3. QED
  BY <1>1, <1>2

LEMMA PlatformCases ==
    ASSUME [PlatformNext]_platformVars
    PROVE  \/ \/ UNCHANGED platformVars \/ PlatformTick
              \/ \E a \in Admin : OtherOperation(a)
           \/ \E a \in Admin, id \in ReleaseId : PublishPlatform(a, id)
  BY DEF PlatformNext, OtherOperation

LEMMA PlatformReleaseStep ==
    ASSUME LiveInv(release, pointer, history), [PlatformNext]_platformVars
    PROVE  LiveInv(release', pointer', history')
<1>1. CASE UNCHANGED releaseVars
  BY <1>1 DEF releaseVars
<1>2. ASSUME NEW a \in Admin, NEW id \in ReleaseId, PublishPlatform(a, id)
      PROVE  LiveInv(release', pointer', history')
  <2>1. PICK member : RegisterLive(id, member)
    BY <1>2 DEF PublishPlatform, RenewLocations
  <2>2. QED
    BY <2>1, RegisterLiveLemma
<1>3. QED
  BY <1>1, <1>2, OthersLeave, PlatformCases

(* The platform's publications, too, replace a live pointer only where       *)
(* nobody has moved it since it was captured, and at most once.              *)
THEOREM PlatformPromotedTheorem == PlatformSpec => []PromotedAsCaptured
<1>1. LiveInv(release, pointer, history) /\ [PlatformNext]_platformVars
        => LiveInv(release, pointer, history)'
  BY PlatformReleaseStep
<1>2. QED
  BY <1>1, ReleaseInitInv, PromotedLemma, PTL DEF PlatformSpec

-----------------------------------------------------------------------------
(* The rate of a live snapshot *)

\* A request is reserved at the one rate its location's snapshot names, which has
\* started: prepare never finds that rate missing.
LiveRateKept == \A l \in Location : pointer[l] # NoPointer =>
    \E r : ReservationRate(l) = {r} /\ r.from <= now

\* The snapshot names the start of a rate of its model.
NamesRate(snapshot, rates, t) ==
    /\ snapshot.model \in ProviderModel
    /\ snapshot.from \in Starts(rates, snapshot.model)
    /\ snapshot.from <= t

LiveRatesInv ==
    /\ RatesInv
    /\ LiveInv(release, pointer, history)
    /\ primary \in ProviderModel /\ now \in 0..MaxTime
    /\ \A l \in Location : pointer[l] # NoPointer => NamesRate(pointer[l].snapshot, rate, now)

\* No start is taken back, and time only goes on.
LEMMA StillNamed ==
    ASSUME NEW snapshot, NEW rates, NEW later, NEW t \in Nat, NEW u \in Nat, t <= u,
           Timeline(rates),
           \A m \in ProviderModel : Starts(rates, m) \subseteq Starts(later, m),
           NamesRate(snapshot, rates, t)
    PROVE  NamesRate(snapshot, later, u)
<1>1. PICK m, s : m = snapshot.model /\ s = snapshot.from
  OBVIOUS
<1>2. m \in ProviderModel /\ s \in Starts(rates, m) /\ s <= t
  BY <1>1 DEF NamesRate
<1>3. s \in Nat
  BY <1>2, ClockAssumption DEF Timeline
<1>4. s <= u
  BY <1>2, <1>3
<1>5. QED
  BY <1>1, <1>2, <1>4 DEF NamesRate

\* The first provider is the one a draft routes to, or stays.
LEMMA RoutedLemma ==
    ASSUME primary \in ProviderModel, NEW changes \in SUBSET Change
    PROVE  Routed(changes) \in ProviderModel
<1>1. PICK routes : routes = {c \in changes : c.op = "route"}
  OBVIOUS
<1>2. \A c \in routes : c.model \in ProviderModel
  <2>1. \A c \in routes : c \in Change /\ c.op = "route"
    BY <1>1
  <2>2. \A c \in Change : c.op = "route" => c.model \in ProviderModel
    BY DEF Change
  <2>3. QED
    BY <2>1, <2>2
<1>3. CASE routes = {}
  BY <1>1, <1>3 DEF Routed
<1>4. CASE routes # {}
  <2>1. (CHOOSE c \in routes : TRUE) \in routes
    BY <1>4
  <2>2. Routed(changes) = (CHOOSE c \in routes : TRUE).model
    BY <1>1, <1>4 DEF Routed
  <2>3. QED
    BY <1>2, <2>1, <2>2
<1>5. QED
  BY <1>3, <1>4

\* A publication leaves a pointer alone, or has it name a rate that is in force.
LEMMA RenewedPointer ==
    ASSUME LiveRatesInv, NEW a \in Admin, NEW id \in ReleaseId, PublishPlatform(a, id),
           NEW l \in Location, pointer'[l] # NoPointer, Timeline(rate'), primary' \in ProviderModel
    PROVE  pointer'[l] = pointer[l] \/ NamesRate(pointer'[l].snapshot, rate', now)
<1>1. now' = now /\ RenewLocations(id)
  BY DEF PublishPlatform
<1>2. PICK r \in InForce(rate', primary', now'), active \in SUBSET Location :
        RegisterLive(id, Renewed(active, r))
  BY <1>1 DEF RenewLocations
<1>3. PICK member : member = Renewed(active, r)
  OBVIOUS
<1>4. release[id].at = "absent"
  BY <1>1 DEF RenewLocations
<1>5. PICK row : row = Registered(id, member)
  OBVIOUS
<1>6. row.member = member /\ Promotion(id, row)
  BY <1>2, <1>3, <1>4, <1>5 DEF RegisterLive, Registered, Captured
<1>7. CASE pointer' = pointer
  BY <1>7
<1>8. CASE pointer' = [k \in Location |-> IF k \in Members(row) THEN PromotedPointer(id, row, k)
                                          ELSE pointer[k]]
  <2>1. CASE l \notin Members(row)
    BY <1>8, <2>1
  <2>2. CASE l \in Members(row)
    <3>1. pointer'[l] = PromotedPointer(id, row, l)
      BY <1>8, <2>2
    <3>2. pointer'[l].snapshot = member[l]
      BY <1>6, <3>1 DEF PromotedPointer
    <3>3. member[l] # NoSnapshot
      BY <1>6, <2>2 DEF Members
    <3>4. member[l] = [platform |-> platform + 1, model |-> r.model, from |-> r.from]
      BY <1>3, <3>3 DEF Renewed
    <3>5. r \in rate' /\ r.model = primary' /\ r.from <= now
      BY <1>1, <1>2 DEF InForce
    <3>6. r.from \in Starts(rate', r.model)
      BY <3>5 DEF Starts
    <3>7. PICK s : s = member[l]
      OBVIOUS
    <3>8. s.model = r.model /\ s.from = r.from
      BY <3>4, <3>7
    <3>9. NamesRate(s, rate', now)
      BY <3>5, <3>6, <3>8 DEF NamesRate
    <3>10. QED
      BY <3>2, <3>7, <3>9
  <2>3. QED
    BY <2>1, <2>2
<1>9. QED
  BY <1>6, <1>7, <1>8 DEF Promotion

LEMMA LiveRatesStep == LiveRatesInv /\ [PlatformNext]_platformVars => LiveRatesInv'
<1> SUFFICES ASSUME LiveRatesInv, [PlatformNext]_platformVars PROVE LiveRatesInv'
  OBVIOUS
<1>1. RatesInv' /\ LiveInv(release', pointer', history')
  BY ProposalStep, WaitingStep, RatesStepLemma, PlatformReleaseStep DEF LiveRatesInv, RatesInv
<1>2. \A m \in ProviderModel : Starts(rate, m) \subseteq Starts(rate', m)
  BY RatesStepLemma DEF LiveRatesInv
<1>3. now \in Nat /\ MaxTime \in Nat /\ Timeline(rate) /\ Timeline(rate')
  BY <1>1, ClockAssumption DEF LiveRatesInv, RatesInv
<1>4. CASE \/ UNCHANGED platformVars \/ PlatformTick
           \/ \E a \in Admin : OtherOperation(a)
  <2>1. /\ pointer' = pointer /\ rate' = rate /\ primary' = primary
        /\ now' = now \/ (now < MaxTime /\ now' = now + 1)
    BY <1>4, OthersLeave DEF releaseVars
  <2>2. now' \in 0..MaxTime /\ now' \in Nat /\ now <= now'
    BY <1>3, <2>1 DEF LiveRatesInv
  <2>3. ASSUME NEW l \in Location, pointer[l] # NoPointer
        PROVE  NamesRate(pointer[l].snapshot, rate, now')
    <3>1. NamesRate(pointer[l].snapshot, rate, now)
      BY <2>3 DEF LiveRatesInv
    <3>2. QED
      BY <1>3, <2>2, <3>1, StillNamed
  <2>4. QED
    BY <1>1, <2>1, <2>2, <2>3 DEF LiveRatesInv
<1>5. ASSUME NEW a \in Admin, NEW id \in ReleaseId, PublishPlatform(a, id)
      PROVE  LiveRatesInv'
  <2>1. now' = now /\ primary' = Routed(proposal.changes) /\ proposal.changes \in SUBSET Change
    BY <1>5 DEF PublishPlatform, LiveRatesInv, RatesInv, ProposalInv
  <2>2. primary' \in ProviderModel
    BY <2>1, RoutedLemma DEF LiveRatesInv
  <2>3. ASSUME NEW l \in Location, pointer'[l] # NoPointer
        PROVE  NamesRate(pointer'[l].snapshot, rate', now)
    <3>1. CASE pointer'[l] = pointer[l]
      <4>1. NamesRate(pointer[l].snapshot, rate, now)
        BY <2>3, <3>1 DEF LiveRatesInv
      <4>2. NamesRate(pointer[l].snapshot, rate', now)
        BY <1>2, <1>3, <4>1, StillNamed
      <4>3. QED
        BY <3>1, <4>2
    <3>2. QED
      BY <1>3, <1>5, <2>2, <2>3, <3>1, RenewedPointer
  <2>4. QED
    BY <1>1, <2>1, <2>2, <2>3 DEF LiveRatesInv
<1>6. QED
  BY <1>4, <1>5, PlatformCases

LEMMA LiveRatesInit == ReleaseInit /\ PlatformInit => LiveRatesInv
<1> SUFFICES ASSUME ReleaseInit, PlatformInit PROVE LiveRatesInv
  OBVIOUS
<1>1. RatesInv /\ LiveInv(release, pointer, history)
  BY ProposalInit, WaitingInit, TimelineInit, ReleaseInitInv DEF RatesInv
<1>2. primary \in ProviderModel /\ now \in 0..MaxTime
  BY PlatformAssumption, ClockAssumption DEF PlatformInit, ClockInit
<1>3. \A l \in Location : pointer[l] = NoPointer
  BY DEF ReleaseInit
<1>4. QED
  BY <1>1, <1>2, <1>3 DEF LiveRatesInv

\* The start of a rate and its model name one row.
LEMMA OneRate ==
    ASSUME NEW rates, Timeline(rates), NEW m \in ProviderModel, NEW s \in Starts(rates, m)
    PROVE  \E r : {q \in rates : q.model = m /\ q.from = s} = {r} /\ r.from = s
<1>1. PICK r \in rates : r.model = m /\ r.from = s
  BY DEF Starts
<1>2. ASSUME NEW q \in rates, q.model = m, q.from = s PROVE q = r
  <2>1. q = [model |-> m, from |-> s, to |-> EndOf(Starts(rates, m), s)]
    BY <1>2 DEF Timeline
  <2>2. r = [model |-> m, from |-> s, to |-> EndOf(Starts(rates, m), s)]
    BY <1>1 DEF Timeline
  <2>3. QED
    BY <2>1, <2>2
<1>3. QED
  BY <1>1, <1>2

(* Whatever the platform publishes, the rate a live snapshot names is still  *)
(* there, is one row, and has started: prepare may reserve at a rate that is *)
(* no longer in force, but never at none, at two or at one of the future.    *)
THEOREM LiveRateTheorem == PlatformSpec => []LiveRateKept
<1>1. ReleaseInit /\ PlatformInit => LiveRatesInv
  BY LiveRatesInit
<1>2. LiveRatesInv => LiveRateKept
  <2> SUFFICES ASSUME LiveRatesInv, NEW l \in Location, pointer[l] # NoPointer
               PROVE  \E r : ReservationRate(l) = {r} /\ r.from <= now
    BY DEF LiveRateKept
  <2>1. PICK m, s : m = pointer[l].snapshot.model /\ s = pointer[l].snapshot.from
    OBVIOUS
  <2>2. m \in ProviderModel /\ s \in Starts(rate, m) /\ s <= now /\ Timeline(rate)
    BY <2>1 DEF LiveRatesInv, NamesRate, RatesInv
  <2>3. PICK r : {q \in rate : q.model = m /\ q.from = s} = {r} /\ r.from = s
    BY <2>2, OneRate
  <2>4. ReservationRate(l) = {r}
    BY <2>1, <2>3 DEF ReservationRate
  <2>5. QED
    BY <2>2, <2>3, <2>4
<1>3. QED
  BY <1>1, <1>2, LiveRatesStep, PTL DEF PlatformSpec

-----------------------------------------------------------------------------
(* The platform's state is well typed *)

LEMMA RateTyped == ASSUME NEW rates, Timeline(rates) PROVE rates \subseteq Rate
<1> SUFFICES ASSUME NEW r \in rates PROVE r \in Rate
  OBVIOUS
<1>1. PICK m, s, S : m = r.model /\ s = r.from /\ S = Starts(rates, r.model)
  OBVIOUS
<1>2. /\ m \in ProviderModel /\ S \in SUBSET (0..MaxTime)
      /\ r = [model |-> m, from |-> s, to |-> EndOf(S, s)]
  BY <1>1 DEF Timeline
<1>3. s \in S
  BY <1>1 DEF Starts
<1>4. PICK e : e = EndOf(S, s)
  OBVIOUS
<1>5. e \in Nat /\ s < e /\ e \in S \cup {Forever}
  BY <1>2, <1>3, <1>4, EndOfLemma
<1>6. MaxTime \in Nat /\ s \in 0..MaxTime /\ e \in 1..Forever
  BY <1>2, <1>3, <1>5, ClockAssumption DEF Forever
<1>7. QED
  BY <1>2, <1>4, <1>6 DEF Rate

\* A draft is staged, staged on or gone.
LEMMA ProposalTyped ==
    ASSUME PlatformTypeOK, [PlatformNext]_platformVars
    PROVE  proposal' \in ProposalRow
<1>1. ASSUME NEW a \in Admin, NEW c \in Offered, StageChange(a, c) PROVE proposal' \in ProposalRow
  <2>1. c \in Change /\ platform \in Nat /\ proposal \in ProposalRow /\ MaxStagings \in Nat \ {0}
    BY OfferedAssumption, PlatformAssumption DEF PlatformTypeOK
  <2>2. ASSUME NEW id \in 1..MaxProposals,
               proposal' = [id |-> id, revision |-> 1, base |-> platform, changes |-> {c}]
        PROVE  proposal' \in ProposalRow
    <3>1. id \in Nat /\ 1 \in 0..MaxStagings /\ {c} \in SUBSET Change
      BY <2>1, PlatformAssumption
    <3>2. QED
      BY <2>1, <2>2, <3>1 DEF ProposalRow
  <2>3. ASSUME proposal.revision < MaxStagings, NEW merged \in SUBSET Change,
               proposal' = [proposal EXCEPT !.revision = @ + 1, !.changes = merged]
        PROVE  proposal' \in ProposalRow
    <3>1. PICK n : n = proposal.revision
      OBVIOUS
    <3>2. n \in 0..MaxStagings /\ n < MaxStagings
      BY <2>1, <2>3, <3>1 DEF ProposalRow
    <3>3. n + 1 \in 0..MaxStagings
      BY <2>1, <3>2
    <3>4. PICK x : x = [proposal EXCEPT !.revision = n + 1]
      OBVIOUS
    <3>5. x \in ProposalRow /\ proposal' = [x EXCEPT !.changes = merged]
      BY <2>1, <2>3, <3>1, <3>3, <3>4 DEF ProposalRow
    <3>6. QED
      BY <3>5 DEF ProposalRow
  <2>4. {d \in proposal.changes : ~SameChange(d, c)} \cup {c} \in SUBSET Change
    BY <2>1 DEF ProposalRow
  <2>5. QED
    BY <1>1, <2>2, <2>3, <2>4 DEF StageChange
<1>2. NoProposal \in ProposalRow
  BY PlatformAssumption DEF NoProposal, ProposalRow
<1>3. \/ proposal' \in {proposal, NoProposal}
      \/ \E a \in Admin, c \in Offered : StageChange(a, c)
  BY DEF PlatformNext, platformVars, PlatformTick, OpenPlatform, CancelProposal, Revoke,
         BeginPublication, NotPublished, AbandonPublication, PublishPlatform, Replied, Unpriced
<1>4. QED
  BY <1>1, <1>2, <1>3 DEF PlatformTypeOK

OpenedRow == [revision : Nat, draft : ProposalRow,
              reply : {"none", "published", "conflict", "no-draft"}]

\* An administrator reads the platform's configuration, or is answered.
LEMMA OpenedTyped ==
    ASSUME PlatformTypeOK, [PlatformNext]_platformVars
    PROVE  opened' \in [Admin -> OpenedRow]
<1>1. opened \in [Admin -> OpenedRow] /\ platform \in Nat /\ proposal \in ProposalRow
  BY DEF PlatformTypeOK, OpenedRow
<1>2. ASSUME NEW a \in Admin, OpenPlatform(a) PROVE opened' \in [Admin -> OpenedRow]
  <2>1. PICK d : d = IF Visible(a) THEN proposal ELSE NoProposal
    OBVIOUS
  <2>2. d \in ProposalRow
    BY <1>1, <2>1, PlatformAssumption DEF NoProposal, ProposalRow
  <2>3. opened' = [opened EXCEPT ![a] = [revision |-> platform, reply |-> "none", draft |-> d]]
    BY <1>2, <2>1 DEF OpenPlatform
  <2>4. [revision |-> platform, reply |-> "none", draft |-> d] \in OpenedRow
    BY <1>1, <2>2 DEF OpenedRow
  <2>5. QED
    BY <1>1, <2>3, <2>4
<1>3. ASSUME NEW a \in Admin, NEW reply \in {"none", "published", "conflict", "no-draft"},
             opened' = [opened EXCEPT ![a].reply = reply]
      PROVE  opened' \in [Admin -> OpenedRow]
  <2>1. [opened[a] EXCEPT !.reply = reply] \in OpenedRow
    BY <1>1 DEF OpenedRow
  <2>2. QED
    BY <1>1, <1>3, <2>1
<1>4. \A a \in Admin : Answer(a) \in {"none", "published", "conflict", "no-draft"}
  <2> SUFFICES ASSUME NEW a \in Admin
               PROVE  Answer(a) \in {"none", "published", "conflict", "no-draft"}
    OBVIOUS
  <2>1. CASE Repeated(a)
    BY <2>1 DEF Answer
  <2>2. CASE ~Repeated(a) /\ platform # opened[a].revision
    BY <2>2 DEF Answer
  <2>3. CASE ~Repeated(a) /\ platform = opened[a].revision
    BY <2>3 DEF Answer
  <2>4. QED
    BY <2>1, <2>2, <2>3
<1>5. \/ opened' = opened
      \/ \E a \in Admin : OpenPlatform(a)
      \/ \E a \in Admin, reply \in {"none", "published", "conflict", "no-draft"} :
            opened' = [opened EXCEPT ![a].reply = reply]
  BY <1>4 DEF PlatformNext, platformVars, PlatformTick, StageChange, CancelProposal, Revoke,
         BeginPublication, NotPublished, AbandonPublication, PublishPlatform, Replied, Unpublished
<1>6. QED
  BY <1>1, <1>2, <1>3, <1>5

PublicationRow == [revision : Nat, draft : ProposalRow, actor : Admin]

LEMMA PublicationsTyped ==
    ASSUME PlatformTypeOK, [PlatformNext]_platformVars
    PROVE  platform' \in Nat /\ publication' \subseteq PublicationRow
<1>1. platform \in Nat /\ publication \subseteq PublicationRow /\ proposal \in ProposalRow
  BY DEF PlatformTypeOK, PublicationRow
<1>2. ASSUME NEW a \in Admin, NEW id \in ReleaseId, PublishPlatform(a, id)
      PROVE  platform' \in Nat /\ publication' \subseteq PublicationRow
  <2>1. /\ platform' = platform + 1
        /\ publication' = publication \cup
             {[revision |-> platform + 1, draft |-> proposal, actor |-> a]}
    BY <1>2 DEF PublishPlatform
  <2>2. [revision |-> platform + 1, draft |-> proposal, actor |-> a] \in PublicationRow
    BY <1>1 DEF PublicationRow
  <2>3. QED
    BY <1>1, <2>1, <2>2
<1>3. \/ platform' = platform /\ publication' = publication
      \/ \E a \in Admin, id \in ReleaseId : PublishPlatform(a, id)
  BY DEF PlatformNext, platformVars, PlatformTick, OpenPlatform, StageChange, CancelProposal,
         Revoke, BeginPublication, NotPublished, AbandonPublication, Replied, Unpriced, Unpublished
<1>4. QED
  BY <1>1, <1>2, <1>3

LEMMA GrantsTyped ==
    ASSUME PlatformTypeOK, [PlatformNext]_platformVars
    PROVE  /\ capable' \in [Admin -> SUBSET Capability]
           /\ publishing' \in [Admin -> [at : {"idle", "waiting"}, began : 0..MaxTime]]
<1>1. /\ capable \in [Admin -> SUBSET Capability] /\ now \in 0..MaxTime
      /\ publishing \in [Admin -> [at : {"idle", "waiting"}, began : 0..MaxTime]]
  BY DEF PlatformTypeOK
<1>2. \/ capable' = capable
      \/ \E a \in Admin, c \in Capability : capable' = [capable EXCEPT ![a] = @ \ {c}]
  <2>1. ASSUME NEW a \in Admin, Revoke(a)
        PROVE  \E c \in Capability : capable' = [capable EXCEPT ![a] = @ \ {c}]
    BY <1>1, <2>1 DEF Revoke
  <2>2. \/ capable' = capable \/ \E a \in Admin : Revoke(a)
    BY DEF PlatformNext, platformVars, PlatformTick, OpenPlatform, StageChange, CancelProposal,
           BeginPublication, NotPublished, AbandonPublication, PublishPlatform, Replied,
           Unpriced, Unpublished
  <2>3. QED
    BY <2>1, <2>2
<1>3. \/ publishing' = publishing
      \/ \E a \in Admin : publishing' = [publishing EXCEPT ![a] = NotPublishing]
      \/ \E a \in Admin : publishing' = [publishing EXCEPT ![a] = [at |-> "waiting", began |-> now]]
  BY DEF PlatformNext, platformVars, PlatformTick, OpenPlatform, StageChange, CancelProposal, Revoke,
         BeginPublication, NotPublished, AbandonPublication, PublishPlatform, Replied, Unpublished
<1>4. NotPublishing \in [at : {"idle", "waiting"}, began : 0..MaxTime]
  BY ClockAssumption DEF NotPublishing
<1>5. [at |-> "waiting", began |-> now] \in [at : {"idle", "waiting"}, began : 0..MaxTime]
  BY <1>1
<1>6. capable' \in [Admin -> SUBSET Capability]
  BY <1>1, <1>2
<1>7. publishing' \in [Admin -> [at : {"idle", "waiting"}, began : 0..MaxTime]]
  BY <1>1, <1>3, <1>4, <1>5
<1>8. QED
  BY <1>6, <1>7

\* The state of the platform's configuration is well typed.
THEOREM PlatformTyped == PlatformSpec => []PlatformTypeOK
<1>1. ReleaseInit /\ PlatformInit => LiveRatesInv /\ PlatformTypeOK
  <2> SUFFICES ASSUME PlatformInit, LiveRatesInv PROVE PlatformTypeOK
    BY LiveRatesInit
  <2>1. rate \subseteq Rate
    BY RateTyped DEF LiveRatesInv, RatesInv
  <2>2. NoProposal \in ProposalRow
    BY PlatformAssumption DEF NoProposal, ProposalRow
  <2>3. /\ opened \in [Admin -> OpenedRow]
        /\ publishing \in [Admin -> [at : {"idle", "waiting"}, began : 0..MaxTime]]
    BY <2>2, ClockAssumption DEF PlatformInit, OpenedRow, NotPublishing
  <2>4. capable \in [Admin -> SUBSET Capability]
    BY DEF PlatformInit, Capability
  <2>5. QED
    BY <2>1, <2>2, <2>3, <2>4 DEF PlatformInit, PlatformTypeOK, LiveRatesInv, OpenedRow
<1>2. LiveRatesInv /\ PlatformTypeOK /\ [PlatformNext]_platformVars
        => (LiveRatesInv /\ PlatformTypeOK)'
  <2> SUFFICES ASSUME LiveRatesInv, PlatformTypeOK, [PlatformNext]_platformVars
               PROVE  LiveRatesInv' /\ PlatformTypeOK'
    OBVIOUS
  <2>1. LiveRatesInv'
    BY LiveRatesStep
  <2>2. rate' \subseteq Rate /\ now' \in 0..MaxTime /\ primary' \in ProviderModel
    BY <2>1, RateTyped DEF LiveRatesInv, RatesInv
  <2>3. QED
    BY <2>1, <2>2, ProposalTyped, OpenedTyped, PublicationsTyped, GrantsTyped
       DEF PlatformTypeOK, OpenedRow, PublicationRow
<1>3. QED
  BY <1>1, <1>2, PTL DEF PlatformSpec

-----------------------------------------------------------------------------
(* Commands that take effect at once: the inductive invariant *)

OfKind(S, kind) == {j \in S : j.kind = kind}

\* The versions of a kind are numbered from one without gaps.
IssuesSound(S) ==
    /\ IsFiniteSet(S)
    /\ \A kind \in Numbered :
         {i.number : i \in OfKind(S, kind)} = 1..Cardinality(OfKind(S, kind))

RowsAt(L, kind, key) == {r \in L : r.kind = kind /\ r.of = Owner(kind) /\ r.key = key}

\* No two rows have one slug; the operators' own account has its row.
ListingSound(L) ==
    /\ \A r \in L : r = [kind |-> r.kind, of |-> r.of, key |-> r.key, says |-> r.says,
                         status |-> r.status, whole |-> r.whole, formats |-> r.formats]
    /\ \A q, r \in L : q.kind \in Keyed /\ q.of = Owner(q.kind) /\ r \in RowsAt(L, q.kind, q.key)
           => q = r
    /\ RowsAt(L, "account", Home) # {}

\* A number that was read is one of the versions', or the next.
RequestSound(x, S, n) ==
    /\ x = [at |-> x.at, id |-> x.id, command |-> x.command, number |-> x.number,
            fitting |-> x.fitting]
    /\ x.at # "idle" => x.id \in 1..n
    /\ x.at # "idle" /\ x.fitting => \E i \in S : Suits(i, x.command.says)
    /\ x.at = "read" /\ x.command.do \in Numbered =>
         x.number \in 1..(Cardinality(OfKind(S, x.command.do)) + 1)

ToldSound(t, S, L, n) ==
    /\ t.id \in 1..n
    /\ t.command.do \in Keyed => RowsAt(L, t.command.do, t.command.key) # {}
    /\ t.at = "accepted" /\ t.command.do \in Numbered => Issued(t) \in S
    /\ t.at = "accepted" /\ t.command.do = "account" /\ t.fitting =>
         \E r \in RowsAt(L, "account", t.command.key) : r.formats # {}

\* Every command is one operator's, until he is told of it; one creator is accepted.
CommandsApart ==
    /\ \A c, d \in Clerk : c # d /\ request[c].at # "idle" /\ request[d].at # "idle" =>
         request[c].id # request[d].id
    /\ \A c \in Clerk, t \in told : request[c].at # "idle" => t.id # request[c].id
    /\ \A t, u \in Accepted : t.command.do \in Keyed /\ t.id # u.id =>
         <<t.command.do, t.command.key>> # <<u.command.do, u.command.key>>

CatalogueInv ==
    /\ sent \in Nat
    /\ request = [c \in Clerk |-> request[c]]
    /\ IssuesSound(issue)
    /\ ListingSound(listing)
    /\ \A c \in Clerk : RequestSound(request[c], issue, sent)
    /\ \A t \in told : ToldSound(t, issue, listing, sent)
    /\ CommandsApart

LEMMA Kinds == /\ Keyed \cap Numbered = {}
               /\ "update" \notin Keyed \cup Numbered /\ "status" \notin Keyed \cup Numbered
               /\ "destination" \notin Keyed \cup Numbered
               /\ "account" \in Keyed /\ "prompt" \in Numbered
  BY DEF Keyed, Numbered

\* No row of a list is lost, and an account keeps its formats.
Keeps(L, M) == \A r \in L : r.kind \in Keyed =>
    \E q \in M : /\ q.kind = r.kind /\ q.of = r.of /\ q.key = r.key
                 /\ q.formats = r.formats

LEMMA RowsStay ==
    ASSUME NEW L, NEW M, Keeps(L, M), NEW kind \in Keyed, NEW key,
           NEW r \in RowsAt(L, kind, key)
    PROVE  \E q \in RowsAt(M, kind, key) : q.formats = r.formats
<1>1. r \in L /\ r.kind = kind /\ r.of = Owner(kind) /\ r.key = key
  BY DEF RowsAt
<1>2. PICK q \in M : q.kind = r.kind /\ q.of = r.of /\ q.key = r.key /\ q.formats = r.formats
  BY <1>1 DEF Keeps
<1>3. q \in RowsAt(M, kind, key)
  BY <1>1, <1>2 DEF RowsAt
<1>4. QED
  BY <1>2, <1>3

LEMMA ToldStays ==
    ASSUME NEW S, NEW T, S \subseteq T, NEW L, NEW M, Keeps(L, M),
           NEW n \in Nat, NEW m \in Nat, n <= m, NEW t, ToldSound(t, S, L, n)
    PROVE  ToldSound(t, T, M, m)
<1>1. t.id \in 1..m
  BY DEF ToldSound
<1>2. t.command.do \in Keyed => RowsAt(M, t.command.do, t.command.key) # {}
  BY RowsStay DEF ToldSound
<1>3. t.at = "accepted" /\ t.command.do \in Numbered => Issued(t) \in T
  BY DEF ToldSound
<1>4. ASSUME t.at = "accepted", t.command.do = "account", t.fitting
      PROVE  \E r \in RowsAt(M, "account", t.command.key) : r.formats # {}
  <2>1. PICK r \in RowsAt(L, "account", t.command.key) : r.formats # {}
    BY <1>4 DEF ToldSound
  <2>2. QED
    BY <2>1, RowsStay, Kinds
<1>5. QED
  BY <1>1, <1>2, <1>3, <1>4 DEF ToldSound

LEMMA RequestStays ==
    ASSUME NEW S, NEW T, IsFiniteSet(T), S \subseteq T,
           NEW n \in Nat, NEW m \in Nat, n <= m, NEW x, RequestSound(x, S, n)
    PROVE  RequestSound(x, T, m)
<1>1. PICK A, B : A = OfKind(S, x.command.do) /\ B = OfKind(T, x.command.do)
  OBVIOUS
<1>2. A \subseteq B /\ B \subseteq T
  BY <1>1 DEF OfKind
<1>3. IsFiniteSet(B)
  BY <1>2, FS_Subset
<1>4. IsFiniteSet(A) /\ Cardinality(A) <= Cardinality(B)
  BY <1>2, <1>3, FS_Subset
<1>5. Cardinality(A) \in Nat /\ Cardinality(B) \in Nat
  BY <1>3, <1>4, FS_CardinalityType
<1>6. x.at = "read" /\ x.command.do \in Numbered => x.number \in 1..(Cardinality(B) + 1)
  BY <1>1, <1>4, <1>5 DEF RequestSound
<1>7. QED
  BY <1>1, <1>6 DEF RequestSound

LEMMA KeepsSelf == ASSUME NEW L PROVE Keeps(L, L)
  BY DEF Keeps

-----------------------------------------------------------------------------
(* Versions *)

LEMMA KindFinite ==
    ASSUME NEW S, IssuesSound(S), NEW kind
    PROVE  IsFiniteSet(OfKind(S, kind)) /\ Cardinality(OfKind(S, kind)) \in Nat
<1>1. OfKind(S, kind) \subseteq S
  BY DEF OfKind
<1>2. IsFiniteSet(OfKind(S, kind))
  BY <1>1, FS_Subset DEF IssuesSound
<1>3. QED
  BY <1>2, FS_CardinalityType

LEMMA MaxOfRange == ASSUME NEW n \in Nat PROVE Max(0..n) = n
<1>1. \A x \in 0..n : (\A y \in 0..n : x >= y) <=> x = n
  OBVIOUS
<1>2. n \in 0..n
  OBVIOUS
<1>3. QED
  BY <1>1, <1>2 DEF Max

LEMMA NextNumber ==
    ASSUME IssuesSound(issue), NEW kind \in Numbered
    PROVE  NextVersion(kind) = Cardinality(OfKind(issue, kind)) + 1
<1>1. PICK n : n = Cardinality(OfKind(issue, kind))
  OBVIOUS
<1>2. n \in Nat
  BY <1>1, KindFinite
<1>3. {i.number : i \in {j \in issue : j.kind = kind}} = 1..n
  BY <1>1 DEF IssuesSound, OfKind
<1>4. {0} \cup 1..n = 0..n
  BY <1>2
<1>5. NextVersion(kind) = Max(0..n) + 1
  BY <1>3, <1>4 DEF NextVersion
<1>6. QED
  BY <1>1, <1>2, <1>5, MaxOfRange

\* The next version leaves no gap.
LEMMA IssueAdded ==
    ASSUME NEW S, IssuesSound(S), NEW x, x.kind \in Numbered,
           x.number \in 1..(Cardinality(OfKind(S, x.kind)) + 1),
           \A i \in OfKind(S, x.kind) : i.number # x.number
    PROVE  IssuesSound(S \cup {x})
<1>1. IsFiniteSet(S \cup {x})
  BY FS_AddElement DEF IssuesSound
<1>2. ASSUME NEW kind \in Numbered
      PROVE  {i.number : i \in OfKind(S \cup {x}, kind)} =
                 1..Cardinality(OfKind(S \cup {x}, kind))
  <2>1. PICK A : A = OfKind(S, kind)
    OBVIOUS
  <2>2. IsFiniteSet(A) /\ Cardinality(A) \in Nat
    BY <2>1, KindFinite
  <2>3. PICK n : n = Cardinality(A)
    OBVIOUS
  <2>4. {i.number : i \in A} = 1..n
    BY <2>1, <2>3 DEF IssuesSound
  <2>5. CASE x.kind # kind
    <3>1. OfKind(S \cup {x}, kind) = A
      BY <2>1, <2>5 DEF OfKind
    <3>2. QED
      BY <2>3, <2>4, <3>1
  <2>6. CASE x.kind = kind
    <3>1. OfKind(S \cup {x}, kind) = A \cup {x}
      BY <2>1, <2>6 DEF OfKind
    <3>2. x \notin A
      BY <2>1, <2>6
    <3>3. Cardinality(A \cup {x}) = n + 1
      BY <2>2, <2>3, <3>2, FS_AddElement
    <3>4. x.number = n + 1
      <4>1. x.number \notin 1..n
        BY <2>1, <2>4, <2>6
      <4>2. x.number \in 1..(n + 1) /\ n \in Nat
        BY <2>1, <2>2, <2>3, <2>6
      <4>3. QED
        BY <4>1, <4>2
    <3>5. {i.number : i \in A \cup {x}} = (1..n) \cup {n + 1}
      BY <2>4, <3>4
    <3>6. (1..n) \cup {n + 1} = 1..(n + 1)
      BY <2>2, <2>3
    <3>7. QED
      BY <3>1, <3>3, <3>5, <3>6
  <2>7. QED
    BY <2>5, <2>6
<1>3. QED
  BY <1>1, <1>2 DEF IssuesSound

-----------------------------------------------------------------------------
(* Rows *)

LEMMA RowIs ==
    ASSUME NEW kind, NEW of, NEW command, NEW formats
    PROVE  LET r == Row(kind, of, command, formats) IN
           /\ r.kind = kind /\ r.of = of /\ r.key = command.key /\ r.formats = formats
           /\ r = [kind |-> r.kind, of |-> r.of, key |-> r.key, says |-> r.says,
                   status |-> r.status, whole |-> r.whole, formats |-> r.formats]
  BY DEF Row

LEMMA FoundRows == \A kind, key : Found(kind, key) = RowsAt(listing, kind, key)
  BY DEF Found, RowsAt

LEMMA InsertedSound ==
    ASSUME ListingSound(listing), NEW command, command.do \in Keyed, ~Taken(command)
    PROVE  /\ ListingSound(listing \cup Inserted(command))
           /\ Keeps(listing, listing \cup Inserted(command))
           /\ \E r \in RowsAt(listing \cup Inserted(command), command.do, command.key) :
                command.do = "account" => r.formats = NewestFormat(command.says)
<1>1. RowsAt(listing, command.do, command.key) = {}
  BY FoundRows DEF Taken
<1>2. PICK M : M = listing \cup Inserted(command)
  OBVIOUS
<1>3. PICK x : /\ x \in Inserted(command) /\ x.kind = command.do /\ x.of = Owner(x.kind)
               /\ x.key = command.key
               /\ command.do = "account" => x.formats = NewestFormat(command.says)
               /\ \A y \in Inserted(command) \ {x} :
                    y.kind = "category" /\ y.of # Owner("category") /\ command.do = "account"
  <2>1. CASE command.do = "account"
    <3>1. PICK x, y, cat : /\ x = Row("account", "platform", command, NewestFormat(command.says))
                      /\ cat = [command EXCEPT !.key = "service"]
                      /\ y = Row("category", command.key, cat, {})
      OBVIOUS
    <3>2. Inserted(command) = {x, y}
      BY <2>1, <3>1 DEF Inserted
    <3>3. /\ x.kind = "account" /\ x.of = "platform" /\ x.key = command.key
          /\ x.formats = NewestFormat(command.says)
          /\ y.kind = "category" /\ y.of = command.key
      BY <3>1, RowIs
    <3>4. command.key # Home
      BY <1>1, <2>1 DEF ListingSound
    <3>5. QED
      BY <2>1, <3>2, <3>3, <3>4 DEF Owner
  <2>2. CASE command.do # "account"
    <3>1. PICK x : x = Row(command.do, Home, command, {})
      OBVIOUS
    <3>2. Inserted(command) = {x}
      BY <2>2, <3>1 DEF Inserted
    <3>3. x.kind = command.do /\ x.of = Home /\ x.key = command.key
      BY <3>1, RowIs
    <3>4. QED
      BY <2>2, <3>2, <3>3 DEF Owner
  <2>3. QED
    BY <2>1, <2>2
<1>4. ASSUME NEW r \in M
      PROVE  r = [kind |-> r.kind, of |-> r.of, key |-> r.key, says |-> r.says,
                  status |-> r.status, whole |-> r.whole, formats |-> r.formats]
  <2>1. CASE r \in listing
    BY <2>1 DEF ListingSound
  <2>2. CASE r \in Inserted(command)
    BY <2>2, RowIs DEF Inserted
  <2>3. QED
    BY <1>2, <2>1, <2>2
<1>5. ASSUME NEW kind \in Keyed, NEW key, NEW q \in RowsAt(M, kind, key),
             NEW r \in RowsAt(M, kind, key)
      PROVE  q = r
  <2>1. /\ q \in M /\ q.kind = kind /\ q.of = Owner(kind) /\ q.key = key
        /\ r \in M /\ r.kind = kind /\ r.of = Owner(kind) /\ r.key = key
    BY <1>5 DEF RowsAt
  <2>2. q \in listing \cup {x} /\ r \in listing \cup {x}
    BY <1>2, <1>3, <2>1
  <2>3. CASE q = x \/ r = x
    <3>1. kind = command.do /\ key = command.key
      BY <1>3, <2>1, <2>3
    <3>2. q \notin listing /\ r \notin listing
      BY <1>1, <2>1, <3>1 DEF RowsAt
    <3>3. QED
      BY <2>2, <3>2
  <2>4. CASE q \in listing /\ r \in listing
    <3>1. r \in RowsAt(listing, q.kind, q.key)
      BY <2>1, <2>4 DEF RowsAt
    <3>2. QED
      BY <2>1, <2>4, <3>1 DEF ListingSound
  <2>5. QED
    BY <2>2, <2>3, <2>4
<1>6. RowsAt(M, "account", Home) # {}
  BY <1>2 DEF ListingSound, RowsAt
<1>7. ListingSound(M)
  <2>1. ASSUME NEW q \in M, NEW r \in M, q.kind \in Keyed, q.of = Owner(q.kind),
               r \in RowsAt(M, q.kind, q.key)
        PROVE  q = r
    <3>1. q \in RowsAt(M, q.kind, q.key)
      BY <2>1 DEF RowsAt
    <3>2. QED
      BY <1>5, <2>1, <3>1
  <2>2. QED
    BY <1>4, <1>6, <2>1 DEF ListingSound
<1>8. Keeps(listing, M)
  BY <1>2 DEF Keeps
<1>9. x \in RowsAt(M, command.do, command.key)
  BY <1>2, <1>3 DEF RowsAt
<1>10. QED
  BY <1>2, <1>3, <1>7, <1>8, <1>9

\* An update keeps every row in its place.
LEMMA UpdatedSound ==
    ASSUME ListingSound(listing), NEW kind, NEW command
    PROVE  ListingSound(Updated(kind, command)) /\ Keeps(listing, Updated(kind, command))
<1>1. PICK M : M = Updated(kind, command)
  OBVIOUS
<1>2. DEFINE Image(r) == IF r \in Found(kind, command.key)
                         THEN [r EXCEPT !.says = command.says, !.status = command.status]
                         ELSE r
<1>3. M = {Image(r) : r \in listing}
  BY <1>1 DEF Updated
<1>4. ASSUME NEW r \in listing
      PROVE  /\ Image(r).kind = r.kind /\ Image(r).of = r.of /\ Image(r).key = r.key
             /\ Image(r).formats = r.formats
             /\ Image(r) = [kind |-> Image(r).kind, of |-> Image(r).of, key |-> Image(r).key,
                            says |-> Image(r).says, status |-> Image(r).status,
                            whole |-> Image(r).whole, formats |-> Image(r).formats]
  <2>1. r = [kind |-> r.kind, of |-> r.of, key |-> r.key, says |-> r.says,
             status |-> r.status, whole |-> r.whole, formats |-> r.formats]
    BY DEF ListingSound
  <2>2. PICK n : n = [r EXCEPT !.says = command.says, !.status = command.status]
    OBVIOUS
  <2>3. n = [kind |-> r.kind, of |-> r.of, key |-> r.key, says |-> command.says,
             status |-> command.status, whole |-> r.whole, formats |-> r.formats]
    BY <2>1, <2>2
  <2>4. Image(r) = n \/ Image(r) = r
    BY <2>2
  <2>5. QED
    BY <2>1, <2>3, <2>4
<1> HIDE DEF Image
<1>5. \A r \in M : r = [kind |-> r.kind, of |-> r.of, key |-> r.key, says |-> r.says,
                        status |-> r.status, whole |-> r.whole, formats |-> r.formats]
  BY <1>3, <1>4
<1>6. ASSUME NEW k \in Keyed, NEW key, NEW q \in RowsAt(M, k, key), NEW r \in RowsAt(M, k, key)
      PROVE  q = r
  <2>1. PICK a \in listing : q = Image(a)
    BY <1>3, <1>6 DEF RowsAt
  <2>2. PICK b \in listing : r = Image(b)
    BY <1>3, <1>6 DEF RowsAt
  <2>3. a \in RowsAt(listing, k, key) /\ b \in RowsAt(listing, k, key)
    BY <1>4, <1>6, <2>1, <2>2 DEF RowsAt
  <2>4. a = b
    BY <2>3 DEF ListingSound, RowsAt
  <2>5. QED
    BY <2>1, <2>2, <2>4
<1>7. RowsAt(M, "account", Home) # {}
  <2>1. PICK a \in RowsAt(listing, "account", Home) : TRUE
    BY DEF ListingSound
  <2>2. a \in listing /\ Image(a) \in M
    BY <1>3, <2>1 DEF RowsAt
  <2>3. Image(a) \in RowsAt(M, "account", Home)
    BY <1>4, <2>1, <2>2 DEF RowsAt
  <2>4. QED
    BY <2>3
<1>8. Keeps(listing, M)
  BY <1>3, <1>4 DEF Keeps
<1>9. ListingSound(M)
  <2>1. ASSUME NEW q \in M, NEW r \in M, q.kind \in Keyed, q.of = Owner(q.kind),
               r \in RowsAt(M, q.kind, q.key)
        PROVE  q = r
    <3>1. q \in RowsAt(M, q.kind, q.key)
      BY <2>1 DEF RowsAt
    <3>2. QED
      BY <1>6, <2>1, <3>1
  <2>2. QED
    BY <1>5, <1>7, <2>1 DEF ListingSound
<1>10. QED
  BY <1>1, <1>8, <1>9

LEMMA UpsertedSound ==
    ASSUME ListingSound(listing), NEW command
    PROVE  ListingSound(Upserted(command)) /\ Keeps(listing, Upserted(command))
<1>1. PICK M, x : M = Upserted(command) /\ x = Row("destination", Home, command, {})
  OBVIOUS
<1>2. x.kind = "destination" /\ M = {r \in listing : r.kind # "destination"} \cup {x}
  BY <1>1, RowIs DEF Upserted
<1>3. \A kind \in Keyed : \A key : RowsAt(M, kind, key) = RowsAt(listing, kind, key)
  BY <1>2, Kinds DEF RowsAt
<1>4. \A r \in M : r = [kind |-> r.kind, of |-> r.of, key |-> r.key, says |-> r.says,
                        status |-> r.status, whole |-> r.whole, formats |-> r.formats]
  BY <1>1, <1>2, RowIs DEF ListingSound
<1>5. ListingSound(M)
  <2>1. ASSUME NEW q \in M, NEW r \in M, q.kind \in Keyed, q.of = Owner(q.kind),
               r \in RowsAt(M, q.kind, q.key)
        PROVE  q = r
    <3>1. q \in listing /\ r \in listing /\ r \in RowsAt(listing, q.kind, q.key)
      BY <1>2, <1>3, <2>1, Kinds DEF RowsAt
    <3>2. QED
      BY <2>1, <3>1 DEF ListingSound
  <2>2. RowsAt(M, "account", Home) # {}
    BY <1>3, Kinds DEF ListingSound
  <2>3. QED
    BY <1>4, <2>1, <2>2 DEF ListingSound
<1>6. Keeps(listing, M)
  BY <1>2, Kinds DEF Keeps
<1>7. QED
  BY <1>1, <1>5, <1>6

LEMMA WrittenSound ==
    ASSUME ListingSound(listing), NEW command, ~Taken(command)
    PROVE  /\ ListingSound(Written(command)) /\ Keeps(listing, Written(command))
           /\ command.do \in Keyed =>
                \E r \in RowsAt(Written(command), command.do, command.key) :
                    command.do = "account" => r.formats = NewestFormat(command.says)
<1>1. CASE command.do \in Keyed
  <2>1. Written(command) = listing \cup Inserted(command)
    BY <1>1, Kinds DEF Written
  <2>2. QED
    BY <1>1, <2>1, InsertedSound
<1>2. CASE command.do \notin Keyed
  <2>1. \/ Written(command) = Updated("location", command)
        \/ Written(command) = Updated("account", command)
        \/ Written(command) = Upserted(command)
        \/ Written(command) = listing
    BY <1>2 DEF Written
  <2>2. QED
    BY <1>2, <2>1, UpdatedSound, UpsertedSound, KeepsSelf
<1>3. QED
  BY <1>1, <1>2

-----------------------------------------------------------------------------
(* Steps *)

\* What a step may do to the versions, the rows and the commands.
LEMMA CatalogueStep ==
    ASSUME CatalogueInv,
           sent' \in Nat, sent <= sent', request' = [c \in Clerk |-> request'[c]],
           IssuesSound(issue)', issue \subseteq issue',
           ListingSound(listing)', Keeps(listing, listing'),
           \A c \in Clerk : request'[c] = request[c] \/ RequestSound(request'[c], issue', sent'),
           \A t \in told' \ told : ToldSound(t, issue', listing', sent'),
           CommandsApart'
    PROVE  CatalogueInv'
<1>1. sent \in Nat /\ IsFiniteSet(issue')
  BY DEF CatalogueInv, IssuesSound
<1>2. ASSUME NEW c \in Clerk PROVE RequestSound(request'[c], issue', sent')
  BY <1>1, RequestStays DEF CatalogueInv
<1>3. ASSUME NEW t \in told' PROVE ToldSound(t, issue', listing', sent')
  BY <1>1, <1>3, ToldStays DEF CatalogueInv
<1>4. (\A c \in Clerk : RequestSound(request[c], issue, sent))'
  BY <1>2 DEF RequestSound, Suits, OfKind
<1>5. (\A t \in told : ToldSound(t, issue, listing, sent))'
  BY <1>3 DEF ToldSound, RowsAt, Issued
<1>6. QED
  BY <1>4, <1>5 DEF CatalogueInv

LEMMA IdleSound == \A S, n : RequestSound(NoRequest, S, n) /\ NoRequest.at = "idle"
  BY DEF NoRequest, RequestSound

LEMMA EndsKeeps == ASSUME CatalogueInv, NEW c \in Clerk, Ends(c) PROVE CatalogueInv'
<1>1. /\ UNCHANGED <<listing, issue, sent, told>>
      /\ request' = [request EXCEPT ![c] = NoRequest]
  BY DEF Ends, Ended
<1>2. /\ request' = [d \in Clerk |-> request'[d]]
      /\ \A d \in Clerk : request'[d] = IF d = c THEN NoRequest ELSE request[d]
  BY <1>1 DEF CatalogueInv
<1>3. CommandsApart'
  BY <1>1, <1>2, IdleSound DEF CatalogueInv, CommandsApart, Accepted
<1>4. \A d \in Clerk : request'[d] = request[d] \/ RequestSound(request'[d], issue', sent')
  BY <1>2, IdleSound
<1>5. /\ sent' \in Nat /\ sent <= sent' /\ issue \subseteq issue'
      /\ IssuesSound(issue)' /\ ListingSound(listing)' /\ told' \ told = {}
  BY <1>1 DEF CatalogueInv
<1>6. Keeps(listing, listing')
  BY <1>1, KeepsSelf
<1>7. QED
  BY <1>2, <1>3, <1>4, <1>5, <1>6, CatalogueStep

LEMMA SendKeeps ==
    ASSUME CatalogueInv, NEW c \in Clerk, NEW command, Send(c, command) PROVE CatalogueInv'
<1>1. PICK x : x = [at |-> "sent", id |-> sent', command |-> command, number |-> 0,
                    fitting |-> \E i \in issue : Suits(i, command.says)]
  OBVIOUS
<1>2. /\ UNCHANGED <<listing, issue, told>> /\ sent \in Nat /\ sent' = sent + 1
      /\ request' = [request EXCEPT ![c] = x]
  BY <1>1 DEF Send, CatalogueInv
<1>3. /\ request' = [d \in Clerk |-> request'[d]]
      /\ \A d \in Clerk : request'[d] = IF d = c THEN x ELSE request[d]
  BY <1>2 DEF CatalogueInv
<1>4. RequestSound(x, issue', sent')
  <2>1. /\ x.at = "sent" /\ x.id = sent' /\ x.command = command
        /\ x.fitting = (\E i \in issue : Suits(i, command.says))
        /\ x = [at |-> x.at, id |-> x.id, command |-> x.command, number |-> x.number,
                fitting |-> x.fitting]
    BY <1>1
  <2>2. sent' \in 1..sent'
    BY <1>2
  <2>3. QED
    BY <1>2, <2>1, <2>2 DEF RequestSound
<1>5. /\ \A d \in Clerk : request[d].at # "idle" => request[d].id # x.id
      /\ \A t \in told : t.id # x.id
  BY <1>1, <1>2 DEF CatalogueInv, RequestSound, ToldSound
<1>6. CommandsApart'
  <2>1. /\ \A d, e \in Clerk : d # e /\ request'[d].at # "idle" /\ request'[e].at # "idle" =>
             request'[d].id # request'[e].id
        /\ \A d \in Clerk, t \in told' : request'[d].at # "idle" => t.id # request'[d].id
    BY <1>2, <1>3, <1>5 DEF CatalogueInv, CommandsApart
  <2>2. QED
    BY <1>2, <2>1 DEF CatalogueInv, CommandsApart, Accepted
<1>7. \A d \in Clerk : request'[d] = request[d] \/ RequestSound(request'[d], issue', sent')
  BY <1>3, <1>4
<1>8. /\ sent' \in Nat /\ sent <= sent' /\ issue \subseteq issue'
      /\ IssuesSound(issue)' /\ ListingSound(listing)' /\ told' \ told = {}
  BY <1>2 DEF CatalogueInv
<1>9. Keeps(listing, listing')
  BY <1>2, KeepsSelf
<1>10. QED
  BY <1>3, <1>6, <1>7, <1>8, <1>9, CatalogueStep

\* A command that was answered leaves its operator without one.
LEMMA TellsApart ==
    ASSUME CatalogueInv, NEW c \in Clerk, request[c].at # "idle",
           request' = [request EXCEPT ![c] = NoRequest],
           NEW word, NEW x, x = [request[c] EXCEPT !.at = word],
           told' = told \cup {x},
           word = "accepted" /\ x.command.do \in Keyed =>
               RowsAt(listing, x.command.do, x.command.key) = {}
    PROVE  CommandsApart'
<1>1. \A d \in Clerk : request'[d] = IF d = c THEN NoRequest ELSE request[d]
  BY DEF CatalogueInv
<1>2. x.id = request[c].id /\ x.command = request[c].command /\ x.at = word
  <2>1. PICK r : r = request[c]
    OBVIOUS
  <2>2. r = [at |-> r.at, id |-> r.id, command |-> r.command, number |-> r.number,
             fitting |-> r.fitting]
    BY <2>1 DEF CatalogueInv, RequestSound
  <2>3. x = [r EXCEPT !.at = word]
    BY <2>1
  <2>4. x.id = r.id /\ x.command = r.command /\ x.at = word
    BY <2>2, <2>3
  <2>5. QED
    BY <2>1, <2>4
<1>3. \A d, e \in Clerk : d # e /\ request'[d].at # "idle" /\ request'[e].at # "idle" =>
          request'[d].id # request'[e].id
  BY <1>1, IdleSound DEF CatalogueInv, CommandsApart
<1>4. ASSUME NEW d \in Clerk, NEW t \in told', request'[d].at # "idle"
      PROVE  t.id # request'[d].id
  <2>1. d # c /\ request'[d] = request[d]
    BY <1>1, <1>4, IdleSound
  <2>2. CASE t \in told
    BY <1>4, <2>1, <2>2 DEF CatalogueInv, CommandsApart
  <2>3. CASE t = x
    BY <1>2, <1>4, <2>1, <2>3 DEF CatalogueInv, CommandsApart
  <2>4. QED
    BY <1>4, <2>2, <2>3
<1>5. ASSUME NEW t \in told', t.at = "accepted", NEW u \in told', u.at = "accepted",
             t.command.do \in Keyed, t.id # u.id
      PROVE  <<t.command.do, t.command.key>> # <<u.command.do, u.command.key>>
  <2>1. \A v \in told : v.command.do \in Keyed =>
            RowsAt(listing, v.command.do, v.command.key) # {}
    BY DEF CatalogueInv, ToldSound
  <2>2. CASE t \in told /\ u \in told
    BY <1>5, <2>2 DEF CatalogueInv, CommandsApart, Accepted
  <2>3. CASE t \in told /\ u = x
    BY <1>2, <1>5, <2>1, <2>3
  <2>4. CASE t = x /\ u \in told
    BY <1>2, <1>5, <2>1, <2>4
  <2>5. QED
    BY <1>5, <2>2, <2>3, <2>4
<1>6. QED
  BY <1>3, <1>4, <1>5 DEF CommandsApart, Accepted

LEMMA LookKeeps == ASSUME CatalogueInv, NEW c \in Clerk, Look(c) PROVE CatalogueInv'
<1>1. PICK r : r = request[c]
  OBVIOUS
<1>2. /\ UNCHANGED <<listing, issue, sent>> /\ r.at = "sent"
      /\ RequestSound(r, issue, sent) /\ sent \in Nat
  BY <1>1 DEF Look, CatalogueInv
<1>3. /\ sent' \in Nat /\ sent <= sent' /\ issue \subseteq issue'
      /\ IssuesSound(issue)' /\ ListingSound(listing)'
  BY <1>2 DEF CatalogueInv
<1>4. Keeps(listing, listing')
  BY <1>2, KeepsSelf
<1>5. CASE Taken(r.command)
  <2>1. PICK x : x = [r EXCEPT !.at = "taken"]
    OBVIOUS
  <2>2. request' = [request EXCEPT ![c] = NoRequest] /\ told' = told \cup {x}
    BY <1>1, <1>5, <2>1 DEF Look, Ended
  <2>3. /\ request' = [d \in Clerk |-> request'[d]]
        /\ \A d \in Clerk : request'[d] = request[d] \/ RequestSound(request'[d], issue', sent')
    BY <2>2, IdleSound DEF CatalogueInv
  <2>4. x.id = r.id /\ x.command = r.command /\ x.at = "taken"
    BY <1>2, <2>1 DEF RequestSound
  <2>5. ToldSound(x, issue', listing', sent')
    BY <1>2, <1>5, <2>4, FoundRows DEF ToldSound, RequestSound, Taken
  <2>6. CommandsApart'
    <3>1. request[c].at # "idle" /\ x = [request[c] EXCEPT !.at = "taken"]
      BY <1>1, <1>2, <2>1
    <3>2. PICK word : word = "taken"
      OBVIOUS
    <3>3. word = "accepted" /\ x.command.do \in Keyed =>
              RowsAt(listing, x.command.do, x.command.key) = {}
      BY <3>2
    <3>4. /\ request[c].at # "idle" /\ x = [request[c] EXCEPT !.at = word]
          /\ request' = [request EXCEPT ![c] = NoRequest] /\ told' = told \cup {x}
      BY <2>2, <3>1, <3>2
    <3>5. QED
      BY <3>3, <3>4, TellsApart
  <2>7. QED
    BY <1>3, <1>4, <2>2, <2>3, <2>5, <2>6, CatalogueStep
<1>6. CASE ~Taken(r.command) /\ Refused(r.command)
  <2>1. Ended(c) /\ UNCHANGED told
    BY <1>1, <1>6 DEF Look
  <2>2. Ends(c) \/ UNCHANGED shown
    BY DEF Look
  <2>3. Ends(c)
    BY <1>1, <1>2, <2>1 DEF Ends, Look
  <2>4. QED
    BY <2>3, EndsKeeps
<1>7. CASE ~Taken(r.command) /\ ~Refused(r.command)
  <2>1. PICK n : n = IF r.command.do \in Numbered THEN NextVersion(r.command.do) ELSE 0
    OBVIOUS
  <2>2. request' = [request EXCEPT ![c].at = "read", ![c].number = n] /\ UNCHANGED told
    BY <1>1, <1>7, <2>1 DEF Look, Reads
  <2>3. PICK y : y = [at |-> "read", id |-> r.id, command |-> r.command, number |-> n,
                      fitting |-> r.fitting]
    OBVIOUS
  <2>4. request' = [request EXCEPT ![c] = y]
    <3>1. r = [at |-> r.at, id |-> r.id, command |-> r.command, number |-> r.number,
               fitting |-> r.fitting]
      BY <1>2 DEF RequestSound
    <3>2. request' = [request EXCEPT ![c] = [[request[c] EXCEPT !.at = "read"]
                                                           EXCEPT !.number = n]]
      BY <2>2 DEF CatalogueInv
    <3>3. [[r EXCEPT !.at = "read"] EXCEPT !.number = n] = y
      <4>1. PICK z : z = [r EXCEPT !.at = "read"]
        OBVIOUS
      <4>2. z = [at |-> "read", id |-> r.id, command |-> r.command, number |-> r.number,
                 fitting |-> r.fitting]
        BY <3>1, <4>1
      <4>3. [z EXCEPT !.number = n] = y
        BY <2>3, <4>2
      <4>4. QED
        BY <4>1, <4>3
    <3>4. QED
      BY <1>1, <3>2, <3>3
  <2>5. /\ request' = [d \in Clerk |-> request'[d]]
        /\ \A d \in Clerk : request'[d] = IF d = c THEN y ELSE request[d]
    BY <2>4 DEF CatalogueInv
  <2>6. y.at = "read" /\ y.id = r.id /\ y.command = r.command /\ y.number = n /\ y.fitting = r.fitting
    BY <2>3
  <2>7. ASSUME r.command.do \in Numbered
        PROVE  n \in 1..(Cardinality(OfKind(issue, r.command.do)) + 1)
    <3>1. n = Cardinality(OfKind(issue, r.command.do)) + 1
      BY <2>1, <2>7, NextNumber DEF CatalogueInv
    <3>2. Cardinality(OfKind(issue, r.command.do)) \in Nat
      BY KindFinite DEF CatalogueInv
    <3>3. QED
      BY <3>1, <3>2
  <2>8. RequestSound(y, issue', sent')
    BY <1>2, <2>3, <2>6, <2>7 DEF RequestSound
  <2>9. CommandsApart'
    BY <1>1, <1>2, <2>2, <2>5, <2>6 DEF CatalogueInv, CommandsApart, Accepted
  <2>10. QED
    BY <1>3, <1>4, <2>2, <2>5, <2>8, <2>9, CatalogueStep
<1>8. QED
  BY <1>5, <1>6, <1>7

LEMMA StoreKeeps == ASSUME CatalogueInv, NEW c \in Clerk, Store(c) PROVE CatalogueInv'
<1>1. PICK r : r = request[c]
  OBVIOUS
<1>2. PICK x : x = [r EXCEPT !.at = "accepted"]
  OBVIOUS
<1>3. /\ r.at = "read" /\ sent' = sent /\ sent \in Nat
      /\ request' = [request EXCEPT ![c] = NoRequest]
      /\ RequestSound(r, issue, sent)
  BY <1>1 DEF Store, Ended, CatalogueInv
<1>4. /\ request' = [d \in Clerk |-> request'[d]]
      /\ \A d \in Clerk : request'[d] = IF d = c THEN NoRequest ELSE request[d]
  BY <1>3 DEF CatalogueInv
<1>5. \A d \in Clerk : request'[d] = request[d] \/ RequestSound(request'[d], issue', sent')
  BY <1>4, IdleSound
<1>6. /\ x.at = "accepted" /\ x.id = r.id /\ x.command = r.command /\ x.number = r.number
      /\ x.fitting = r.fitting
  BY <1>2, <1>3 DEF RequestSound
<1>7. Issued(x) = Issued(r)
  BY <1>6 DEF Issued
<1>8. CASE ~Duplicate(r)
  <2>1. ~Taken(r.command)
    BY <1>8 DEF Duplicate
  <2>2. /\ listing' = Written(r.command)
        /\ issue' = IF r.command.do \in Numbered THEN issue \cup {Issued(r)} ELSE issue
        /\ told' = told \cup {x}
    BY <1>1, <1>2, <1>8 DEF Store
  <2>3. /\ ListingSound(listing') /\ Keeps(listing, listing')
        /\ r.command.do \in Keyed =>
             \E q \in RowsAt(listing', r.command.do, r.command.key) :
                 r.command.do = "account" => q.formats = NewestFormat(r.command.says)
    BY <2>1, <2>2, WrittenSound DEF CatalogueInv
  <2>4. IssuesSound(issue')
    <3>1. CASE r.command.do \in Numbered
      <4>1. PICK i : i = Issued(r)
        OBVIOUS
      <4>2. i.kind = r.command.do /\ i.number = r.number
        BY <4>1 DEF Issued
      <4>3. r.number \in 1..(Cardinality(OfKind(issue, r.command.do)) + 1)
        BY <1>3, <3>1 DEF RequestSound
      <4>4. \A j \in OfKind(issue, i.kind) : j.number # i.number
        BY <1>8, <4>2 DEF Duplicate, OfKind
      <4>5. IssuesSound(issue \cup {i})
        BY <3>1, <4>2, <4>3, <4>4, IssueAdded DEF CatalogueInv
      <4>6. QED
        BY <2>2, <3>1, <4>1, <4>5
    <3>2. CASE r.command.do \notin Numbered
      BY <2>2, <3>2 DEF CatalogueInv
    <3>3. QED
      BY <3>1, <3>2
  <2>5. issue \subseteq issue' /\ sent' \in Nat /\ sent <= sent'
    BY <1>3, <2>2
  <2>6. ToldSound(x, issue', listing', sent')
    <3>1. x.id \in 1..sent'
      BY <1>3, <1>6 DEF RequestSound
    <3>2. x.command.do \in Keyed => RowsAt(listing', x.command.do, x.command.key) # {}
      BY <1>6, <2>3
    <3>3. x.command.do \in Numbered => Issued(x) \in issue'
      BY <1>6, <1>7, <2>2
    <3>4. ASSUME x.command.do = "account", x.fitting
          PROVE  \E q \in RowsAt(listing', "account", x.command.key) : q.formats # {}
      <4>1. PICK i \in issue : Suits(i, r.command.says)
        BY <1>3, <1>6, <3>4 DEF RequestSound
      <4>2. NewestFormat(r.command.says) # {}
        <5>1. {j.number : j \in {k \in issue : Suits(k, r.command.says)}} # {}
          BY <4>1
        <5>2. QED
          BY <5>1 DEF NewestFormat
      <4>3. PICK q \in RowsAt(listing', "account", r.command.key) :
                q.formats = NewestFormat(r.command.says)
        BY <1>6, <2>3, <3>4, Kinds
      <4>4. QED
        BY <1>6, <4>2, <4>3
    <3>5. QED
      BY <3>1, <3>2, <3>3, <3>4 DEF ToldSound
  <2>7. CommandsApart'
    <3>1. x.command.do \in Keyed => RowsAt(listing, x.command.do, x.command.key) = {}
      BY <1>6, <2>1, FoundRows DEF Taken
    <3>2. QED
      BY <1>1, <1>2, <1>3, <2>2, <3>1, TellsApart
  <2>8. IssuesSound(issue)' /\ ListingSound(listing)'
    BY <2>3, <2>4 DEF IssuesSound, ListingSound, OfKind, RowsAt
  <2>9. QED
    BY <1>4, <1>5, <2>2, <2>3, <2>5, <2>6, <2>7, <2>8, CatalogueStep
<1>9. CASE Duplicate(r)
  <2>1. UNCHANGED <<listing, issue>>
    BY <1>1, <1>9 DEF Store
  <2>2. /\ sent' \in Nat /\ sent <= sent' /\ issue \subseteq issue'
        /\ IssuesSound(issue)' /\ ListingSound(listing)'
    BY <1>3, <2>1 DEF CatalogueInv
  <2>3. Keeps(listing, listing')
    BY <2>1, KeepsSelf
  <2>4. CASE SameDuplicate(r)
    <3>1. told' = told \cup {x}
      BY <1>1, <1>2, <2>4 DEF Store
    <3>2. r.command.do = "prompt" /\ Issued(r) \in issue
      BY <2>4 DEF SameDuplicate
    <3>3. r.command.do \notin Keyed /\ r.command.do # "account"
      BY <3>2, Kinds
    <3>4. ToldSound(x, issue', listing', sent')
      BY <1>3, <1>6, <1>7, <2>1, <3>2, <3>3 DEF ToldSound, RequestSound
    <3>5. CommandsApart'
      BY <1>1, <1>2, <1>3, <1>6, <3>1, <3>3, TellsApart
    <3>6. QED
      BY <1>4, <1>5, <2>2, <2>3, <3>1, <3>4, <3>5, CatalogueStep
  <2>5. CASE ~SameDuplicate(r)
    <3>1. told' = told /\ UNCHANGED shown
      BY <1>1, <1>9, <2>5 DEF Store
    <3>2. Ends(c)
      BY <1>1, <1>3, <2>1, <3>1 DEF Ends, Ended
    <3>3. QED
      BY <3>2, EndsKeeps
  <2>6. QED
    BY <2>4, <2>5
<1>10. QED
  BY <1>8, <1>9

LEMMA CatalogueInitInv == CatalogueInit => CatalogueInv
<1> SUFFICES ASSUME CatalogueInit PROVE CatalogueInv
  OBVIOUS
<1>1. PICK x : /\ listing = {x}
               /\ \E l \in Language : x = Row("account", "platform",
                     Command("account", Home, l, "active", TRUE), {})
  BY DEF CatalogueInit
<1>2. /\ x.kind = "account" /\ x.of = "platform" /\ x.key = Home
      /\ x = [kind |-> x.kind, of |-> x.of, key |-> x.key, says |-> x.says,
              status |-> x.status, whole |-> x.whole, formats |-> x.formats]
  BY <1>1 DEF Row, Command
<1>3. ListingSound(listing)
  <2>1. x \in RowsAt(listing, "account", Home)
    BY <1>1, <1>2 DEF RowsAt, Owner
  <2>2. \A q, r \in listing : q = r
    BY <1>1
  <2>3. QED
    BY <1>1, <1>2, <2>1, <2>2 DEF ListingSound
<1>4. IssuesSound(issue)
  <2>1. issue = {} /\ IsFiniteSet({}) /\ Cardinality({}) = 0
    BY FS_EmptySet DEF CatalogueInit
  <2>2. \A kind : OfKind(issue, kind) = {}
    BY <2>1 DEF OfKind
  <2>3. 1..0 = {}
    OBVIOUS
  <2>4. QED
    BY <2>1, <2>2, <2>3 DEF IssuesSound
<1>5. /\ sent = 0 /\ told = {} /\ request = [c \in Clerk |-> NoRequest]
  BY DEF CatalogueInit
<1>6. CommandsApart
  BY <1>5, IdleSound DEF CommandsApart, Accepted
<1>7. QED
  BY <1>3, <1>4, <1>5, <1>6, IdleSound DEF CatalogueInv

LEMMA CatalogueNextInv == CatalogueInv /\ [CatalogueNext]_catalogueVars => CatalogueInv'
<1> SUFFICES ASSUME CatalogueInv, [CatalogueNext]_catalogueVars PROVE CatalogueInv'
  OBVIOUS
<1>1. CASE UNCHANGED catalogueVars \/ \E c \in Clerk : LoadPage(c)
  <2>1. UNCHANGED <<listing, issue, request, sent, told>>
    BY <1>1 DEF catalogueVars, LoadPage
  <2>2. QED
    BY <2>1 DEF CatalogueInv, CommandsApart, Accepted, IssuesSound, ListingSound, OfKind,
                RowsAt, RequestSound, ToldSound, Issued, Suits
<1>2. QED
  BY <1>1, SendKeeps, LookKeeps, StoreKeeps, EndsKeeps DEF CatalogueNext

\* Whatever operators are told of their commands is so and stays so (console-store.ts,
\* console-service.ts), however many there are and however often they repeat them.
THEOREM AnswersTheorem == CatalogueSpec => []AnswersStayTrue
<1>1. ASSUME CatalogueInv PROVE AnswersStayTrue
  <2>1. \A t \in Accepted : t.command.do \in Numbered => Issued(t) \in issue
    BY <1>1 DEF CatalogueInv, ToldSound, Accepted
  <2>2. \A kind \in Numbered : {i.number : i \in {j \in issue : j.kind = kind}} =
            1..Cardinality({j \in issue : j.kind = kind})
    BY <1>1 DEF CatalogueInv, IssuesSound, OfKind
  <2>3. ASSUME NEW t \in told, t.command.do \in Keyed
        PROVE  Cardinality({r \in listing : /\ r.kind = t.command.do /\ r.key = t.command.key
                                            /\ r.of = Owner(t.command.do)}) = 1
    <3>1. PICK A : A = RowsAt(listing, t.command.do, t.command.key)
      OBVIOUS
    <3>2. PICK q \in A : TRUE
      BY <1>1, <2>3, <3>1 DEF CatalogueInv, ToldSound
    <3>3. A = {q}
      BY <1>1, <2>3, <3>1, <3>2 DEF CatalogueInv, ListingSound, RowsAt
    <3>4. {r \in listing : /\ r.kind = t.command.do /\ r.key = t.command.key
                           /\ r.of = Owner(t.command.do)} = A
      BY <3>1 DEF RowsAt
    <3>5. QED
      BY <3>3, <3>4, FS_Singleton
  <2>4. \A t \in Accepted : t.command.do = "account" /\ t.fitting =>
            \E r \in listing : r.kind = "account" /\ r.key = t.command.key /\ r.formats # {}
    BY <1>1 DEF CatalogueInv, ToldSound, Accepted, RowsAt
  <2>5. QED
    BY <1>1, <2>1, <2>2, <2>3, <2>4 DEF AnswersStayTrue, CatalogueInv, CommandsApart
<1>2. QED
  BY <1>1, CatalogueInitInv, CatalogueNextInv, PTL DEF CatalogueSpec
=============================================================================
