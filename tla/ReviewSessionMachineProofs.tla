---------------------- MODULE ReviewSessionMachineProofs ----------------------
(***************************************************************************)
(* What a browser shows and saves, which browser may, what is kept as a    *)
(* draft, and which settings govern it, for every set of idempotency keys, *)
(* facts, formats, pages, texts, browsers, tabs, visits, locations and     *)
(* option keys.                                                            *)
(*                                                                         *)
(* A key that is asked for keeps the facts and the format it was asked with;*)
(* the invariant of the screen says of each of its states which keys it knows*)
(* and that they were asked with what it shows.  The invariants of progress*)
(* and of drafts say what each party that kept a version knows of it; the  *)
(* one of what is kept, that an answer's claims cite the assertions; the   *)
(* one of visits, whose capability a cookie, a request, a challenge and a  *)
(* review each name; the one of settings, what a snapshot was made of and  *)
(* which rows the changes of a draft name.                                 *)
(***************************************************************************)
EXTENDS ReviewSessionMachine, ReviewProgress, DraftRevisions, DraftAcceptance,
        ReviewerVisit, EffectiveSettings, FiniteSetTheorems, WellFoundedInduction, TLAPS

\* A generation that was asked for, with the facts of the screen.
Knows(k) == /\ k \in GenerationKey
            /\ ~Fresh(k)
            /\ serverRun[k].facts = screen.facts

\* ... and with its format.
Matches(k) == Knows(k) /\ serverRun[k].format = screen.format

\* What the screen knows in each of its states.
Consistent ==
    /\ screen.at = "facts" => screen.source = NoKey
    /\ screen.source # NoKey => Knows(screen.source)
    /\ screen.at = "generating" => Matches(screen.key)
    /\ screen.at = "results" => Matches(screen.draft)
    /\ screen.at = "generation-failed" /\ screen.resume # NoKey => Matches(screen.resume)
    /\ screen.at = "generating" => listening = {screen.key}
    /\ screen.at # "generating" => listening = {}

MachineInv == MachineTypeOK /\ Consistent

-----------------------------------------------------------------------------
\* Initially nothing was asked for.
LEMMA MachineInvInit == MachineInit => MachineInv
<1> SUFFICES ASSUME MachineInit PROVE MachineInv
  OBVIOUS
<1>1. MachineTypeOK
  BY MachineAssumption DEF MachineInit, MachineTypeOK, Screen, ServerRun, MaybeKey, MaybeFormat
<1>2. Consistent
  BY DEF MachineInit, Consistent
<1> QED  BY <1>1, <1>2 DEF MachineInv

\* A state without a run keeps what was asked for.
LEMMA ShowKeeps ==
    ASSUME MachineInv, NEW next \in Screen, Show(next), next.at # "generating",
           next.at = "facts" => next.source = NoKey,
           next.source # NoKey => Knows(next.source),
           next.facts = screen.facts \/ next.at = "facts",
           next.at = "results" => Matches(next.draft),
           next.format = screen.format \/ next.at # "results",
           next.at = "generation-failed" /\ next.resume # NoKey =>
               next.format = screen.format /\ Matches(next.resume)
    PROVE  MachineInv'
<1>1. MachineTypeOK'
  BY DEF MachineInv, MachineTypeOK, Show, Aborted
<1>2. Consistent'
  BY DEF MachineInv, Consistent, Show, Aborted, Knows, Matches, Fresh
<1> QED  BY <1>1, <1>2 DEF MachineInv

\* A request is fresh and takes its facts from the screen or from its source,
\* or it resumes a key that was asked with what the screen shows.
LEMMA StartKeeps ==
    ASSUME MachineInv, NEW k \in GenerationKey, NEW source \in MaybeKey,
           Start(k, source),
           source # NoKey => Knows(source),
           Fresh(k) \/ Matches(k)
    PROVE  MachineInv'
<1> USE DEF MachineInv, MachineTypeOK
<1>1. screen' \in Screen /\ screen'.at = "generating" /\ screen'.key = k
      /\ screen'.source = source /\ screen'.facts = screen.facts
      /\ screen'.format = screen.format /\ screen'.resume = NoKey
  BY DEF Start, Screen, MaybeKey
<1>2. serverRun' \in [GenerationKey -> ServerRun]
  <2>1. source = NoKey \/ source \in GenerationKey
    BY DEF MaybeKey
  <2>2. (IF source = NoKey THEN screen.facts ELSE serverRun[source].facts) \in Facts
    BY <2>1 DEF Screen, ServerRun
  <2>3. screen.format \in MaybeFormat
    BY DEF Screen
  <2> QED  BY <2>2, <2>3 DEF Start, ServerRun
<1>3. MachineTypeOK'
  BY <1>1, <1>2 DEF Start, Aborted
<1>4. Matches(k)'
  BY <1>1, MachineAssumption DEF Start, Knows, Matches, Fresh, Screen, ServerRun, MaybeKey
<1>5. source # NoKey => Knows(source)'
  BY <1>1 DEF Start, Knows, Fresh
<1>6. Consistent'
  BY <1>1, <1>4, <1>5 DEF Consistent, Start, Aborted
<1> QED  BY <1>3, <1>6

\* Every step keeps the invariant.
LEMMA MachineInvStep == MachineInv /\ [MachineNext]_machineVars => MachineInv'
<1> SUFFICES ASSUME MachineInv, [MachineNext]_machineVars PROVE MachineInv'
  OBVIOUS
<1> USE DEF MachineInv, MachineTypeOK
<1>1. CASE ChangeFacts
  <2>1. PICK facts \in Facts \ {screen.facts} : Show([screen EXCEPT !.facts = facts])
    BY <1>1 DEF ChangeFacts
  <2> DEFINE next == [screen EXCEPT !.facts = facts]
  <2>2. next \in Screen /\ next.at = "facts" /\ next.source = NoKey
    BY <1>1 DEF ChangeFacts, Screen, Consistent
  <2> QED  BY <2>1, <2>2, ShowKeeps
<1>2. CASE Continue
  <2> DEFINE next == [screen EXCEPT !.at = "format", !.format = NoFormat]
  <2>1. next \in Screen /\ next.at = "format" /\ next.source = screen.source
        /\ next.facts = screen.facts
    BY DEF Screen, MaybeFormat
  <2>2. Show(next)
    BY <1>2 DEF Continue
  <2> QED  BY <2>1, <2>2, ShowKeeps DEF Consistent
<1>3. CASE SelectFormat
  <2>1. PICK format \in Format \ {screen.format} : Show([screen EXCEPT !.format = format])
    BY <1>3 DEF SelectFormat
  <2> DEFINE next == [screen EXCEPT !.format = format]
  <2>2. next \in Screen /\ next.at = "format" /\ next.source = screen.source
        /\ next.facts = screen.facts
    BY <1>3 DEF SelectFormat, Screen, MaybeFormat
  <2> QED  BY <2>1, <2>2, ShowKeeps DEF Consistent
<1>4. CASE ReturnToFacts
  <2> DEFINE next == [screen EXCEPT !.at = "facts", !.format = NoFormat, !.source = NoKey,
                           !.key = NoKey, !.draft = NoKey, !.resume = NoKey,
                           !.retryable = FALSE]
  <2>1. next \in Screen /\ next.at = "facts" /\ next.source = NoKey
    BY DEF Screen, MaybeFormat, MaybeKey
  <2>2. Show(next)
    BY <1>4 DEF ReturnToFacts
  <2> QED  BY <2>1, <2>2, ShowKeeps
<1>5. CASE ReturnToFormat
  <2> DEFINE source == IF screen.at = "results" THEN screen.draft ELSE screen.source
             next == [screen EXCEPT !.at = "format", !.key = NoKey, !.draft = NoKey,
                           !.resume = NoKey, !.retryable = FALSE, !.source = source]
  <2>1. source \in MaybeKey /\ (source # NoKey => Knows(source))
    BY DEF Screen, Consistent, Matches
  <2>2. next \in Screen /\ next.at = "format" /\ next.source = source
        /\ next.facts = screen.facts
    BY <2>1 DEF Screen, MaybeKey
  <2>3. Show(next)
    BY <1>5 DEF ReturnToFormat
  <2> HIDE DEF next, source
  <2> QED  BY <2>1, <2>2, <2>3, ShowKeeps
<1>6. CASE RequestGeneration
  <2>1. PICK k \in GenerationKey : Fresh(k) /\ Start(k, screen.source)
    BY <1>6 DEF RequestGeneration
  <2> QED  BY <2>1, StartKeeps DEF Consistent, Screen
<1>7. CASE Resample
  <2>1. PICK k \in GenerationKey : Fresh(k) /\ Start(k, screen.draft)
    BY <1>7 DEF Resample
  <2>2. screen.draft \in MaybeKey /\ Knows(screen.draft)
    BY <1>7 DEF Resample, Consistent, Matches, Screen
  <2> QED  BY <2>1, <2>2, StartKeeps
<1>8. CASE Retry
  <2>1. PICK k \in GenerationKey :
          /\ IF screen.resume = NoKey THEN Fresh(k) ELSE k = screen.resume
          /\ Start(k, screen.source)
    BY <1>8 DEF Retry
  <2>2. Fresh(k) \/ Matches(k)
    BY <1>8, <2>1 DEF Retry, Consistent
  <2> QED  BY <2>1, <2>2, StartKeeps DEF Consistent, Screen
<1>9. ASSUME NEW retryable \in BOOLEAN, NEW resume \in {NoKey, screen.key},
             screen.at = "generating", Failed(retryable, resume)
      PROVE  MachineInv'
  <2> DEFINE next == [screen EXCEPT !.at = "generation-failed", !.retryable = retryable,
                           !.resume = resume, !.key = NoKey]
  <2>1. resume \in MaybeKey
    BY <1>9 DEF Screen, MaybeKey
  <2>2. next \in Screen /\ next.at = "generation-failed" /\ next.source = screen.source
        /\ next.facts = screen.facts /\ next.format = screen.format
        /\ next.resume = resume
    BY <2>1 DEF Screen, MaybeKey
  <2>3. Show(next)
    BY <1>9 DEF Failed
  <2>4. Matches(screen.key)
    BY <1>9 DEF Consistent
  <2>5. next.source # NoKey => Knows(next.source)
    BY <2>2 DEF Consistent
  <2> HIDE DEF next
  <2> QED  BY <1>9, <2>2, <2>3, <2>4, <2>5, ShowKeeps
<1>10. CASE Stop
  BY <1>9, <1>10 DEF Stop
<1>11. ASSUME NEW k \in GenerationKey, Succeeded(k) PROVE MachineInv'
  <2> DEFINE next == [screen EXCEPT !.at = "results", !.draft = k, !.key = NoKey]
  <2>1. next \in Screen /\ next.at = "results" /\ next.source = screen.source
        /\ next.facts = screen.facts /\ next.format = screen.format /\ next.draft = k
    BY DEF Screen, MaybeKey
  <2>2. Show(next)
    BY <1>11 DEF Succeeded
  <2>3. Matches(k)
    BY <1>11 DEF Succeeded, Consistent
  <2>4. next.source # NoKey => Knows(next.source)
    BY <2>1 DEF Consistent
  <2> HIDE DEF next
  <2> QED  BY <2>1, <2>2, <2>3, <2>4, ShowKeeps
<1>12. ASSUME NEW k \in GenerationKey, Rejected(k) PROVE MachineInv'
  BY <1>9, <1>12 DEF Rejected
<1>13. ASSUME NEW k \in GenerationKey, Serve(k) PROVE MachineInv'
  <2>1. serverRun' \in [GenerationKey -> ServerRun]
    BY <1>13 DEF Serve, ServerRun
  <2>2. Consistent'
    BY <1>13 DEF Serve, Consistent, Knows, Matches, Fresh, ServerRun
  <2> QED  BY <1>13, <2>1, <2>2 DEF Serve
<1>14. CASE UNCHANGED machineVars
  BY <1>14 DEF machineVars, Consistent, Knows, Matches, Fresh
<1> QED
  BY <1>1, <1>2, <1>3, <1>4, <1>5, <1>6, <1>7, <1>8, <1>10, <1>11, <1>12, <1>13, <1>14
  DEF MachineNext

-----------------------------------------------------------------------------
(* In every state of the screen, the keys it knows were asked with what it   *)
(* shows, and only the run of the key it waits for is listened to.           *)
THEOREM MachineSafety == MachineSpec => []MachineInv
  BY MachineInvInit, MachineInvStep, PTL DEF MachineSpec

(* The draft on the screen was generated from the facts and in the format    *)
(* the screen shows beside it.                                               *)
THEOREM ShownTheorem == MachineSpec => []ShownAnswersRequest
<1>1. MachineInv => ShownAnswersRequest
  BY DEF MachineInv, Consistent, Matches, Knows, ShownAnswersRequest
<1> QED  BY <1>1, MachineSafety, PTL

-----------------------------------------------------------------------------
(* Progress and its versions *)

\* What is known as version v of the session: the stored progress, if it is the
\* stored version.
VersionOf(v, progress) ==
    /\ v \in Nat /\ v <= row.version
    /\ v = row.version => progress = row.progress

PageOK(n) == /\ n.at = "open" => n.shown \in Progress
             /\ ~n.conflict => VersionOf(n.epoch, n.persisted)

SaveOK(s) == /\ s.at \in {"sent", "bound"} => s.progress \in Progress /\ VersionOf(s.epoch, s.over)
             /\ s.at = "answered" => s.reply # "none"
             /\ s.at = "answered" /\ s.reply = "saved" => VersionOf(s.version, s.progress)

QueryOK(q) == VersionOf(q.version, q.progress)

ProgressInv ==
    /\ ProgressTypeOK
    /\ \A p \in Page : PageOK(page[p]) /\ SaveOK(save[p]) /\ QueryOK(query[p])

LEMMA ProgressInit1 == ProgressInit => ProgressInv
<1> SUFFICES ASSUME ProgressInit PROVE ProgressInv
  OBVIOUS
<1>1. row \in [open : BOOLEAN, version : 1..MaxVersion, progress : Progress] /\ row.version = 1
  <2>1. 1 \in 1..MaxVersion
    BY ProgressAssumption
  <2>2. row \in [open : {TRUE}, version : {1}, progress : Progress]
    BY DEF ProgressInit
  <2>3. QED
    BY <2>1, <2>2
<1>2. NoPage \in PageState /\ NoSave \in SaveState /\ Unknown \in Known
  BY ProgressAssumption DEF NoPage, PageState, NoSave, SaveState, Unknown, Known
<1>3. ProgressTypeOK
  BY <1>1, <1>2 DEF ProgressInit, ProgressTypeOK
<1>4. PageOK(NoPage) /\ SaveOK(NoSave) /\ QueryOK(Unknown)
  BY <1>1 DEF NoPage, NoSave, Unknown, PageOK, SaveOK, QueryOK, VersionOf
<1>5. QED
  BY <1>3, <1>4 DEF ProgressInit, ProgressInv

\* What the row holds is its version.
LEMMA StoredLemma ==
    ASSUME ProgressInv
    PROVE  /\ Stored \in Known /\ QueryOK(Stored) /\ row.progress \in Progress
           /\ row.version \in 1..MaxVersion /\ row.version \in Nat
<1>1. row \in [open : BOOLEAN, version : 1..MaxVersion, progress : Progress] /\ MaxVersion \in Nat
  BY ProgressAssumption DEF ProgressInv, ProgressTypeOK
<1>2. row.version \in 1..MaxVersion /\ row.version \in Nat /\ row.progress \in Progress
  BY <1>1
<1>3. QED
  BY <1>1, <1>2 DEF Stored, Known, QueryOK, VersionOf

\* An operation of one page that leaves the row as it is.
LEMMA PageLemma ==
    ASSUME ProgressInv, NEW p \in Page,
           row' = row, binding' = binding,
           page' = page \/ \E n \in PageState : PageOK(n) /\ page' = [page EXCEPT ![p] = n],
           save' = save \/ \E s \in SaveState : SaveOK(s) /\ save' = [save EXCEPT ![p] = s],
           query' = query \/ \E q \in Known : QueryOK(q) /\ query' = [query EXCEPT ![p] = q]
    PROVE  ProgressInv'
<1>1. page' \in [Page -> PageState] /\ \A x \in Page : PageOK(page'[x])
  BY DEF ProgressInv, ProgressTypeOK
<1>2. save' \in [Page -> SaveState] /\ \A x \in Page : SaveOK(save'[x])
  BY DEF ProgressInv, ProgressTypeOK
<1>3. query' \in [Page -> Known] /\ \A x \in Page : QueryOK(query'[x])
  BY DEF ProgressInv, ProgressTypeOK
<1>4. ProgressTypeOK'
  BY <1>1, <1>2, <1>3 DEF ProgressInv, ProgressTypeOK
<1>5. \A x \in Page : PageOK(page[x])' /\ SaveOK(save[x])' /\ QueryOK(query[x])'
  BY <1>1, <1>2, <1>3 DEF PageOK, SaveOK, QueryOK, VersionOf
<1>6. QED
  BY <1>4, <1>5 DEF ProgressInv

\* The row is written, as its next version, or closed; a save is answered.
LEMMA RowLemma ==
    ASSUME ProgressInv, NEW row2 \in [open : BOOLEAN, version : 1..MaxVersion, progress : Progress],
           row' = row2,
           \/ row2.version = row.version /\ row2.progress = row.progress
           \/ row2.version = row.version + 1,
           NEW p \in Page,
           binding' = binding, page' = page, query' = query,
           save' = save \/ \E s \in SaveState : SaveOK(s)' /\ save' = [save EXCEPT ![p] = s]
    PROVE  ProgressInv'
<1>1. row.version \in Nat /\ row2.version \in Nat
  BY StoredLemma, ProgressAssumption
<1>2. ASSUME NEW v, NEW q, VersionOf(v, q) PROVE VersionOf(v, q)'
  BY <1>1, <1>2 DEF VersionOf
<1>3. /\ \A n : PageOK(n) => PageOK(n)'
      /\ \A s : SaveOK(s) => SaveOK(s)'
      /\ \A q : QueryOK(q) => QueryOK(q)'
  BY <1>2 DEF PageOK, SaveOK, QueryOK
<1>4. save' \in [Page -> SaveState]
  BY DEF ProgressInv, ProgressTypeOK
<1>5. ProgressTypeOK'
  BY <1>4 DEF ProgressInv, ProgressTypeOK
<1>6. QED
  BY <1>3, <1>5 DEF ProgressInv, ProgressTypeOK

LEMMA PageFacts ==
    ASSUME ProgressInv, NEW p \in Page
    PROVE  /\ page[p] \in PageState /\ PageOK(page[p])
           /\ save[p] \in SaveState /\ SaveOK(save[p])
           /\ query[p] \in Known /\ QueryOK(query[p])
  BY DEF ProgressInv, ProgressTypeOK

LEMMA NoSaveLemma == NoSave \in SaveState /\ SaveOK(NoSave)
  BY ProgressAssumption DEF NoSave, SaveState, SaveOK

LEMMA OpenLemma ==
    ASSUME ProgressInv, NEW p \in Page, OpenPage(p)
    PROVE  ProgressInv'
<1>1. PICK s \in PageState : s = page[p]
  BY PageFacts
<1>2. PICK v, q : v = row.version /\ q = row.progress
  OBVIOUS
<1>3. v \in 0..MaxVersion /\ q \in Progress /\ VersionOf(v, q) /\ [version |-> v, progress |-> q] \in Known
  BY <1>2, StoredLemma, ProgressAssumption DEF VersionOf, Stored
<1>4. PICK n : n = [[s EXCEPT !.epoch = v, !.persisted = q, !.queued = q, !.conflict = FALSE,
                              !.data = [version |-> v, progress |-> q]] EXCEPT !.at = "open", !.shown = q]
  OBVIOUS
<1>5. n \in PageState
  BY <1>3, <1>4 DEF PageState
<1>6. n.shown = q /\ n.epoch = v /\ n.persisted = q
  BY <1>4 DEF PageState
<1>7. PageOK(n)
  BY <1>3, <1>6 DEF PageOK
<1>8. page' = [page EXCEPT ![p] = n]
  BY <1>1, <1>2, <1>4 DEF OpenPage, Loaded, Stored
<1>9. QED
  BY <1>5, <1>7, <1>8, PageLemma DEF OpenPage

LEMMA RefetchLemma ==
    ASSUME ProgressInv, NEW p \in Page, Refetch(p)
    PROVE  ProgressInv'
  BY StoredLemma, PageLemma DEF Refetch

LEMMA RefetchedLemma ==
    ASSUME ProgressInv, NEW p \in Page, Refetched(p)
    PROVE  ProgressInv'
<1>1. PICK s \in PageState : s = page[p] /\ PageOK(s)
  BY PageFacts
<1>2. PICK k \in Known : k = query[p] /\ QueryOK(k)
  BY PageFacts
<1>3. PICK n : n = [s EXCEPT !.epoch = k.version, !.persisted = k.progress,
                             !.queued = k.progress, !.conflict = FALSE, !.data = k]
  OBVIOUS
<1>4. k.version \in 0..MaxVersion /\ k.progress \in Progress \cup {NoProgress}
  BY DEF Known
<1>5. n \in PageState
  BY <1>3, <1>4 DEF PageState
<1>6. n.at = s.at /\ n.shown = s.shown /\ n.epoch = k.version /\ n.persisted = k.progress
  BY <1>3 DEF PageState
<1>7. PageOK(n)
  BY <1>1, <1>2, <1>6 DEF PageOK, QueryOK
<1>8. page' = page \/ page' = [page EXCEPT ![p] = n]
  BY <1>1, <1>2, <1>3 DEF Refetched, Loaded
<1>9. Unknown \in Known /\ QueryOK(Unknown)
  BY StoredLemma, ProgressAssumption DEF Unknown, Known, QueryOK, VersionOf
<1>10. query' = [query EXCEPT ![p] = Unknown] /\ row' = row /\ binding' = binding /\ save' = save
  BY DEF Refetched
<1>11. QED
  BY <1>5, <1>7, <1>8, <1>9, <1>10, PageLemma

LEMMA EditLemma ==
    ASSUME ProgressInv, NEW p \in Page, NEW progress \in Progress, Edit(p, progress)
    PROVE  ProgressInv'
<1>1. PICK s \in PageState : s = page[p] /\ PageOK(s)
  BY PageFacts
<1>2. PICK n : n = [[s EXCEPT !.shown = progress] EXCEPT !.timer = TRUE]
  OBVIOUS
<1>3. n \in PageState
  BY <1>2 DEF PageState
<1>4. n.shown = progress /\ n.conflict = s.conflict /\ n.epoch = s.epoch /\ n.persisted = s.persisted
  BY <1>2 DEF PageState
<1>5. PageOK(n)
  BY <1>1, <1>4 DEF PageOK
<1>6. page' = [page EXCEPT ![p] = n]
  BY <1>1, <1>2 DEF Edit
<1>7. QED
  BY <1>3, <1>5, <1>6, PageLemma DEF Edit

LEMMA PersistLemma ==
    ASSUME ProgressInv, NEW p \in Page, Persist(p)
    PROVE  ProgressInv'
<1>1. PICK s \in PageState : s = page[p] /\ PageOK(s) /\ s.at = "open"
  BY PageFacts DEF Persist, IsOpen
<1>2. PICK q \in Progress : q = s.shown
  BY <1>1 DEF PageOK
<1>3. PICK c \in Seq(Progress) : c = s.chain
  BY DEF PageState
<1>4. PICK d \in Seq(Progress) : d = Append(c, q)
  <2>1. Append(c, q) \in Seq(Progress)
    OBVIOUS
  <2>2. QED
    BY <2>1
<1>5. PICK n : n = [s EXCEPT !.timer = FALSE, !.queued = q, !.chain = d]
  OBVIOUS
<1>6. PICK m : m = [s EXCEPT !.timer = FALSE]
  OBVIOUS
<1>7. n \in PageState /\ m \in PageState
  BY <1>5, <1>6 DEF PageState
<1>8. /\ n.at = s.at /\ n.shown = s.shown /\ n.conflict = s.conflict /\ n.epoch = s.epoch
      /\ n.persisted = s.persisted
      /\ m.at = s.at /\ m.shown = s.shown /\ m.conflict = s.conflict /\ m.epoch = s.epoch
      /\ m.persisted = s.persisted
  BY <1>5, <1>6 DEF PageState
<1>9. PageOK(n) /\ PageOK(m)
  BY <1>1, <1>8 DEF PageOK
<1>10. page' = [page EXCEPT ![p] = n] \/ page' = [page EXCEPT ![p] = m]
  <2>1. page[p].shown = q /\ page[p].chain = c /\ page[p] = s
    BY <1>1, <1>2, <1>3
  <2>2. [s EXCEPT !.timer = FALSE, !.queued = page[p].shown, !.chain = Append(@, page[p].shown)] = n
    <3>1. Append(s.chain, page[p].shown) = d
      BY <1>3, <1>4, <2>1
    <3>2. QED
      BY <1>5, <2>1, <3>1
  <2>3. CASE Unsaved(p)
    <3>1. page' = [page EXCEPT ![p] = [page[p] EXCEPT !.timer = FALSE, !.queued = page[p].shown,
                                       !.chain = Append(page[p].chain, page[p].shown)]]
      BY <2>3 DEF Persist
    <3>2. n = [page[p] EXCEPT !.timer = FALSE, !.queued = page[p].shown,
                              !.chain = Append(page[p].chain, page[p].shown)]
      BY <1>4, <1>5, <2>1
    <3>3. QED
      BY <3>1, <3>2
  <2>4. CASE ~Unsaved(p)
    BY <1>1, <1>6, <2>4 DEF Persist
  <2>5. QED
    BY <2>3, <2>4
<1>11. QED
  BY <1>7, <1>9, <1>10, PageLemma DEF Persist

\* A save that is sent replaces what its page has stored or read.
LEMMA SentLemma ==
    ASSUME ProgressInv, NEW p \in Page, ~page[p].conflict, NEW q \in Progress
    PROVE  Sent(p, q) \in SaveState /\ SaveOK(Sent(p, q))
<1>1. PICK s \in PageState : s = page[p] /\ PageOK(s)
  BY PageFacts
<1>2. VersionOf(s.epoch, s.persisted) /\ s.epoch \in 0..MaxVersion /\ s.persisted \in Progress \cup {NoProgress}
  BY <1>1 DEF PageOK, PageState
<1>3. PICK n : n = [NoSave EXCEPT !.at = "sent", !.epoch = s.epoch, !.progress = q, !.over = s.persisted]
  OBVIOUS
<1>4. n = [at |-> "sent", epoch |-> s.epoch, progress |-> q, over |-> s.persisted,
           reply |-> "none", version |-> 0]
  BY <1>3 DEF NoSave
<1>5. n \in SaveState
  BY <1>2, <1>4, ProgressAssumption DEF SaveState
<1>6. n.at = "sent" /\ n.progress = q /\ n.epoch = s.epoch /\ n.over = s.persisted
  BY <1>4
<1>7. SaveOK(n)
  BY <1>2, <1>6 DEF SaveOK
<1>8. Sent(p, q) = n
  BY <1>1, <1>3 DEF Sent
<1>9. QED
  BY <1>5, <1>7, <1>8

LEMMA StartSaveLemma ==
    ASSUME ProgressInv, NEW p \in Page, StartSave(p)
    PROVE  ProgressInv'
<1>1. PICK s \in PageState : s = page[p] /\ PageOK(s)
  BY PageFacts
<1>2. PICK c \in Seq(Progress) : c = s.chain /\ c # << >>
  BY <1>1 DEF PageState, StartSave
<1>3. Head(c) \in Progress /\ Tail(c) \in Seq(Progress)
  BY <1>2
<1>4. PICK d \in Seq(Progress) : d = Tail(c)
  BY <1>3
<1>5. PICK n : n = [s EXCEPT !.chain = d]
  OBVIOUS
<1>6. n \in PageState
  BY <1>5 DEF PageState
<1>7. /\ n.at = s.at /\ n.shown = s.shown /\ n.conflict = s.conflict /\ n.epoch = s.epoch
      /\ n.persisted = s.persisted
  BY <1>5 DEF PageState
<1>8. PageOK(n)
  BY <1>1, <1>7 DEF PageOK
<1>9. page' = [page EXCEPT ![p] = n]
  BY <1>1, <1>2, <1>4, <1>5 DEF StartSave
<1>10. PICK h \in Progress : h = Head(c)
  BY <1>3
<1>11. save' = save \/ (~page[p].conflict /\ save' = [save EXCEPT ![p] = Sent(p, h)])
  BY <1>1, <1>2, <1>10 DEF StartSave
<1>12. save' = save \/ \E x \in SaveState : SaveOK(x) /\ save' = [save EXCEPT ![p] = x]
  BY <1>11, SentLemma
<1>13. QED
  BY <1>6, <1>8, <1>9, <1>12, PageLemma DEF StartSave

LEMMA CloseLemma ==
    ASSUME ProgressInv, NEW p \in Page, ClosePage(p)
    PROVE  ProgressInv'
<1>1. PICK n : n = [NoPage EXCEPT !.at = "closed"]
  OBVIOUS
<1>2. NoPage \in PageState /\ NoSave \in SaveState /\ Unknown \in Known
  BY ProgressAssumption DEF NoPage, PageState, NoSave, SaveState, Unknown, Known
<1>3. n \in PageState /\ n.at = "closed" /\ n.epoch = 0
  BY <1>1, <1>2 DEF PageState, NoPage
<1>4. row.version \in Nat /\ row.version # 0
  BY StoredLemma
<1>5. PageOK(n) /\ QueryOK(Unknown) /\ SaveOK(NoSave)
  BY <1>3, <1>4 DEF PageOK, VersionOf, Unknown, QueryOK, SaveOK, NoSave
<1>6. page[p].shown \in Progress /\ save[p] \in SaveState /\ SaveOK(save[p])
  BY PageFacts DEF PageOK, ClosePage, IsOpen
<1>7. save' = [save EXCEPT ![p] = save[p]] \/ save' = [save EXCEPT ![p] = NoSave]
      \/ (~page[p].conflict /\ save' = [save EXCEPT ![p] = Sent(p, page[p].shown)])
  BY DEF ClosePage, Unsaved
<1>8. \E x \in SaveState : SaveOK(x) /\ save' = [save EXCEPT ![p] = x]
  BY <1>2, <1>5, <1>6, <1>7, SentLemma
<1>9. /\ page' = [page EXCEPT ![p] = n] /\ query' = [query EXCEPT ![p] = Unknown]
      /\ row' = row /\ binding' = binding
  BY <1>1 DEF ClosePage
<1>10. QED
  BY <1>2, <1>3, <1>5, <1>8, <1>9, PageLemma

LEMMA AnsweredLemma ==
    ASSUME ProgressInv, NEW p \in Page, SaveAnswered(p)
    PROVE  ProgressInv'
<1>1. PICK s \in PageState : s = page[p] /\ PageOK(s)
  BY PageFacts
<1>2. PICK a \in SaveState : a = save[p] /\ SaveOK(a) /\ a.at = "answered"
  BY PageFacts DEF SaveAnswered
<1>3. PICK v, q : v = a.version /\ q = a.progress
  OBVIOUS
<1>4. v \in 0..MaxVersion /\ q \in Progress \cup {NoProgress}
  BY <1>3 DEF SaveState
<1>5. PICK n : n = [s EXCEPT !.epoch = v, !.persisted = q]
  OBVIOUS
<1>6. PICK m : m = [s EXCEPT !.epoch = v, !.conflict = TRUE]
  OBVIOUS
<1>7. n \in PageState /\ m \in PageState
  BY <1>4, <1>5, <1>6 DEF PageState
<1>8. /\ n.at = s.at /\ n.shown = s.shown /\ n.epoch = v /\ n.persisted = q
      /\ m.at = s.at /\ m.shown = s.shown /\ m.conflict = TRUE
  BY <1>5, <1>6 DEF PageState
<1>9. PageOK(m) /\ (a.reply = "saved" => PageOK(n))
  BY <1>1, <1>2, <1>3, <1>8 DEF PageOK, SaveOK
<1>10. page' = page \/ \E x \in PageState : PageOK(x) /\ page' = [page EXCEPT ![p] = x]
  <2>1. a.reply \in {"saved", "conflict", "unavailable"}
    BY <1>2 DEF SaveState, SaveOK
  <2>2. CASE a.reply = "saved"
    <3>1. page' = [page EXCEPT ![p] = n]
      BY <1>1, <1>2, <1>3, <1>5, <2>2 DEF SaveAnswered
    <3>2. QED
      BY <1>7, <1>9, <2>2, <3>1
  <2>3. CASE a.reply = "conflict"
    <3>1. page' = [page EXCEPT ![p] = m]
      BY <1>1, <1>2, <1>3, <1>6, <2>3 DEF SaveAnswered, OnConflict
    <3>2. QED
      BY <1>7, <1>9, <3>1
  <2>4. CASE a.reply = "unavailable"
    <3>1. page' = [page EXCEPT ![p] = s]
      BY <1>1, <1>2, <2>4 DEF SaveAnswered
    <3>2. QED
      BY <1>1, <3>1
  <2>5. QED
    BY <2>1, <2>2, <2>3, <2>4
<1>11. NoSave \in SaveState /\ SaveOK(NoSave)
  BY NoSaveLemma
<1>12. QED
  BY <1>10, <1>11, PageLemma DEF SaveAnswered

LEMMA LostLemma ==
    ASSUME ProgressInv, NEW p \in Page, SaveLost(p)
    PROVE  ProgressInv'
<1>1. PICK s \in PageState : s = page[p] /\ PageOK(s)
  BY PageFacts
<1>2. PICK q : q = s.persisted
  OBVIOUS
<1>3. PICK n : n = [s EXCEPT !.queued = q]
  OBVIOUS
<1>4. n \in PageState
  BY <1>2, <1>3 DEF PageState
<1>5. /\ n.at = s.at /\ n.shown = s.shown /\ n.conflict = s.conflict /\ n.epoch = s.epoch
      /\ n.persisted = s.persisted
  BY <1>3 DEF PageState
<1>6. PageOK(n)
  BY <1>1, <1>5 DEF PageOK
<1>7. page' = page \/ page' = [page EXCEPT ![p] = n]
  BY <1>1, <1>2, <1>3 DEF SaveLost
<1>8. QED
  BY <1>4, <1>6, <1>7, NoSaveLemma, PageLemma DEF SaveLost

-----------------------------------------------------------------------------
(* The store *)

\* What a save is told, but that it was saved.
LEMMA RepliedLemma ==
    ASSUME ProgressInv, NEW p \in Page, NEW reply \in {"conflict", "unavailable"},
           row' = row, SaveReplies(p, reply)
    PROVE  \E s \in SaveState : SaveOK(s) /\ save' = [save EXCEPT ![p] = s]
<1>1. PICK a \in SaveState : a = save[p]
  BY PageFacts
<1>2. PICK v \in 0..MaxVersion : v = row'.version
  BY StoredLemma
<1>3. PICK n : n = [a EXCEPT !.at = "answered", !.reply = reply, !.version = v]
  OBVIOUS
<1>4. n \in SaveState
  BY <1>3 DEF SaveState
<1>5. n.at = "answered" /\ n.reply = reply
  BY <1>3 DEF SaveState
<1>6. SaveOK(n)
  BY <1>5 DEF SaveOK
<1>7. save' = [save EXCEPT ![p] = n] \/ save' = [save EXCEPT ![p] = NoSave]
  BY <1>1, <1>2, <1>3 DEF SaveReplies
<1>8. QED
  BY <1>4, <1>6, <1>7, NoSaveLemma

LEMMA BindLemma ==
    ASSUME ProgressInv, NEW p \in Page, Bind(p)
    PROVE  ProgressInv'
<1>1. PICK a \in SaveState : a = save[p] /\ SaveOK(a) /\ a.at = "sent"
  BY PageFacts DEF Bind
<1>2. PICK n : n = [a EXCEPT !.at = "bound"]
  OBVIOUS
<1>3. n \in SaveState
  BY <1>2 DEF SaveState
<1>4. n.at = "bound" /\ n.progress = a.progress /\ n.epoch = a.epoch /\ n.over = a.over
  BY <1>2 DEF SaveState
<1>5. SaveOK(n)
  BY <1>1, <1>4 DEF SaveOK
<1>6. row' = row /\ binding' = binding /\ page' = page /\ query' = query
  BY DEF Bind
<1>7. save' = [save EXCEPT ![p] = n] \/ SaveReplies(p, "unavailable")
  BY <1>1, <1>2 DEF Bind
<1>8. \E s \in SaveState : SaveOK(s) /\ save' = [save EXCEPT ![p] = s]
  BY <1>3, <1>5, <1>6, <1>7, RepliedLemma
<1>9. QED
  BY <1>6, <1>8, PageLemma

\* The save's progress becomes the next version.
LEMMA SavedLemma ==
    ASSUME ProgressInv, NEW p \in Page, save[p].at = "bound", row.version < MaxVersion,
           row' = [row EXCEPT !.version = @ + 1, !.progress = save[p].progress],
           SaveReplies(p, "saved"), binding' = binding, page' = page, query' = query
    PROVE  ProgressInv'
<1>1. PICK a \in SaveState : a = save[p] /\ a.progress \in Progress
  BY PageFacts DEF SaveOK
<1>2. row \in [open : BOOLEAN, version : 1..MaxVersion, progress : Progress]
  BY DEF ProgressInv, ProgressTypeOK
<1>3. PICK v \in 1..MaxVersion : v = row.version + 1
  BY StoredLemma, ProgressAssumption
<1>4. PICK q \in Progress : q = a.progress
  BY <1>1
<1>5. PICK row2 : row2 = [row EXCEPT !.version = v, !.progress = q]
  OBVIOUS
<1>6. /\ row2 \in [open : BOOLEAN, version : 1..MaxVersion, progress : Progress]
      /\ row2.version = v /\ row2.progress = q
  BY <1>2, <1>5
<1>7. row' = row2
  BY <1>1, <1>3, <1>4, <1>5
<1>8. PICK n : n = [a EXCEPT !.at = "answered", !.reply = "saved", !.version = v]
  OBVIOUS
<1>9. v \in 0..MaxVersion /\ v \in Nat
  BY ProgressAssumption
<1>10. n \in SaveState
  BY <1>8, <1>9 DEF SaveState
<1>11. n.at = "answered" /\ n.reply = "saved" /\ n.version = v /\ n.progress = q
  BY <1>4, <1>8 DEF SaveState
<1>12. SaveOK(n)'
  <2>1. VersionOf(v, q)'
    <3>1. row'.version = v /\ row'.progress = q
      BY <1>6, <1>7
    <3>2. v <= v
      BY <1>9
    <3>3. QED
      BY <1>9, <3>1, <3>2 DEF VersionOf
  <2>2. QED
    BY <1>11, <2>1 DEF SaveOK
<1>13. SaveOK(NoSave)' /\ NoSave \in SaveState
  BY NoSaveLemma DEF NoSave, SaveOK
<1>14. row'.version = v
  BY <1>6, <1>7
<1>15. save' = [save EXCEPT ![p] = n] \/ save' = [save EXCEPT ![p] = NoSave]
  BY <1>1, <1>8, <1>14 DEF SaveReplies
<1>16. save' = save \/ \E s \in SaveState : SaveOK(s)' /\ save' = [save EXCEPT ![p] = s]
  BY <1>10, <1>12, <1>13, <1>15
<1>17. row2.version = row.version + 1
  BY <1>3, <1>6
<1>18. QED
  BY <1>6, <1>7, <1>16, <1>17, RowLemma

LEMMA CommitLemma ==
    ASSUME ProgressInv, NEW p \in Page, Commit(p)
    PROVE  ProgressInv'
<1>1. CASE row' = row /\ (SaveReplies(p, "conflict") \/ SaveReplies(p, "unavailable"))
  <2>1. \E s \in SaveState : SaveOK(s) /\ save' = [save EXCEPT ![p] = s]
    BY <1>1, RepliedLemma
  <2>2. QED
    BY <1>1, <2>1, PageLemma DEF Commit
<1>2. CASE /\ row.version < MaxVersion /\ SaveReplies(p, "saved")
           /\ row' = [row EXCEPT !.version = @ + 1, !.progress = save[p].progress]
  BY <1>2, SavedLemma DEF Commit
<1>3. QED
  BY <1>1, <1>2 DEF Commit

LEMMA CloseSessionLemma == ProgressInv /\ CloseSession => ProgressInv'
<1> SUFFICES ASSUME ProgressInv, CloseSession PROVE ProgressInv'
  OBVIOUS
<1>1. row \in [open : BOOLEAN, version : 1..MaxVersion, progress : Progress]
  BY DEF ProgressInv, ProgressTypeOK
<1>2. PICK row2 : row2 = [row EXCEPT !.open = FALSE]
  OBVIOUS
<1>3. /\ row2 \in [open : BOOLEAN, version : 1..MaxVersion, progress : Progress]
      /\ row2.version = row.version /\ row2.progress = row.progress
  BY <1>1, <1>2
<1>4. row' = row2 /\ binding' = binding /\ page' = page /\ save' = save /\ query' = query
  BY <1>2 DEF CloseSession
<1>5. ProgressTypeOK'
  BY <1>3, <1>4 DEF ProgressInv, ProgressTypeOK
<1>6. \A p \in Page : PageOK(page[p])' /\ SaveOK(save[p])' /\ QueryOK(query[p])'
  BY <1>3, <1>4 DEF ProgressInv, PageOK, SaveOK, QueryOK, VersionOf
<1>7. QED
  BY <1>5, <1>6 DEF ProgressInv

\* Nothing but the binding changes, or nothing at all.
LEMMA UnboundLemma ==
    ASSUME ProgressInv, binding' \in {"live", "ended"},
           row' = row, page' = page, save' = save, query' = query
    PROVE  ProgressInv'
<1>1. ProgressTypeOK'
  BY DEF ProgressInv, ProgressTypeOK
<1>2. QED
  BY <1>1 DEF ProgressInv, PageOK, SaveOK, QueryOK, VersionOf

LEMMA ProgressStep == ProgressInv /\ [ProgressNext]_progressVars => ProgressInv'
<1> SUFFICES ASSUME ProgressInv, [ProgressNext]_progressVars PROVE ProgressInv'
  OBVIOUS
<1>1. CASE UNCHANGED progressVars
  BY <1>1, UnboundLemma DEF progressVars, ProgressInv, ProgressTypeOK
<1>2. CASE ExpireBinding \/ \E p \in Page : Forget(p)
  BY <1>2, UnboundLemma DEF ExpireBinding, Forget
<1>3. CASE CloseSession
  BY <1>3, CloseSessionLemma
<1>4. CASE \E p \in Page : \/ OpenPage(p) \/ Refetch(p) \/ Refetched(p)
                            \/ \E progress \in Progress : Edit(p, progress)
  BY <1>4, OpenLemma, RefetchLemma, RefetchedLemma, EditLemma
<1>5. CASE \E p \in Page : \/ Persist(p) \/ StartSave(p) \/ ClosePage(p)
                            \/ SaveAnswered(p) \/ SaveLost(p)
  BY <1>5, PersistLemma, StartSaveLemma, CloseLemma, AnsweredLemma, LostLemma
<1>6. CASE \E p \in Page : Bind(p) \/ Commit(p)
  BY <1>6, BindLemma, CommitLemma
<1>7. QED
  BY <1>1, <1>2, <1>3, <1>4, <1>5, <1>6 DEF ProgressNext

\* US-02.3: of tabs that autosave the same session, a refresh under way and answers
\* that are lost, no save overwrites progress its page has not read or stored
\* (review-session/index.ts, frontend/app.tsx), however many tabs there are.
THEOREM OverwriteTheorem == ProgressSpec => []NoBlindOverwrite
<1>1. ProgressInv => NoBlindOverwrite
  BY DEF ProgressInv, SaveOK, VersionOf, NoBlindOverwrite
<1>2. QED
  BY <1>1, ProgressInit1, ProgressStep, PTL DEF ProgressSpec

-----------------------------------------------------------------------------
(* A draft and its revisions *)

RevisionRow == [text : Text, over : MaybeText]

Holds(k, text) == k \in 1..Latest /\ revision[k].text = text

EditorOK(e) ==
    e.at = "open" => /\ e.draftText \in Text
                     /\ ~e.conflict => Holds(e.base, e.saved)

RequestOK(c) ==
    /\ c.at # "none" => c.text \in Text
    /\ c.at \in {"sent", "read"} /\ c.kind = "save" => Holds(c.expected, c.over)
    /\ c.at = "read" => c.kind = "save" /\ c.latest \in 1..Latest
    /\ c.at = "recorded" /\ c.kind = "save" => Holds(c.latest, c.text)

DraftInv ==
    /\ DraftTypeOK
    /\ RevisionsFollow
    /\ \A p \in Editor : EditorOK(editor[p]) /\ RequestOK(request[p])

LEMMA IdleEditor ==
    /\ NoEditor \in EditorState /\ EditorOK(NoEditor)
    /\ NoCallYet \in PendingCall /\ RequestOK(NoCallYet)
<1>1. 0 \in 0..MaxRevision /\ NoText \in MaybeText
  BY DraftAssumption DEF MaybeText
<1>2. NoEditor \in EditorState /\ EditorOK(NoEditor)
  BY <1>1 DEF NoEditor, EditorState, EditorOK
<1>3. NoCallYet \in PendingCall /\ RequestOK(NoCallYet)
  BY <1>1 DEF NoCallYet, PendingCall, RequestOK
<1>4. QED
  BY <1>2, <1>3

LEMMA DraftFacts ==
    ASSUME DraftInv
    PROVE  /\ revision \in Seq(RevisionRow) /\ Latest \in 1..MaxRevision /\ Latest \in Nat
           /\ MaxRevision \in Nat /\ Latest \in 0..MaxRevision
           /\ LatestText \in Text /\ Holds(Latest, LatestText)
           /\ \A k \in 1..Latest : revision[k].text \in Text /\ k \in 0..MaxRevision
<1>1. revision \in Seq(RevisionRow) /\ Latest \in 1..MaxRevision /\ MaxRevision \in Nat
  BY DraftAssumption DEF DraftInv, DraftTypeOK, RevisionRow, Latest
<1>2. Latest \in Nat /\ Latest \in 0..MaxRevision /\ Latest \in 1..Latest
  BY <1>1
<1>3. \A k \in 1..Latest : revision[k] \in RevisionRow
  BY <1>1 DEF Latest
<1>4. \A k \in 1..Latest : revision[k].text \in Text /\ k \in 0..MaxRevision
  BY <1>1, <1>2, <1>3 DEF RevisionRow
<1>5. QED
  BY <1>1, <1>2, <1>4 DEF LatestText, Holds

LEMMA DraftInitLemma == DraftInit => DraftInv
<1> SUFFICES ASSUME DraftInit PROVE DraftInv
  OBVIOUS
<1>1. PICK r \in RevisionRow : r = [text |-> Generated, over |-> NoText]
  BY DraftAssumption DEF RevisionRow, MaybeText
<1>2. revision = <<r>>
  BY <1>1 DEF DraftInit
<1>3. revision \in Seq(RevisionRow) /\ Len(revision) = 1
  BY <1>2
<1>4. DraftTypeOK
  <2>1. Len(revision) \in 1..MaxRevision /\ 0 \in 0..MaxRevision
    BY <1>3, DraftAssumption
  <2>2. revision \in Seq([text : Text, over : MaybeText])
    BY <1>3 DEF RevisionRow
  <2>3. editor \in [Editor -> EditorState] /\ request \in [Editor -> PendingCall]
    BY IdleEditor DEF DraftInit
  <2>4. QED
    BY <2>1, <2>2, <2>3 DEF DraftInit, DraftTypeOK
<1>5. RevisionsFollow
  BY <1>3 DEF RevisionsFollow, Latest
<1>6. QED
  BY <1>4, <1>5, IdleEditor DEF DraftInit, DraftInv

\* A step of one page that appends no revision.
LEMMA EditorLemma ==
    ASSUME DraftInv, NEW p \in Editor, revision' = revision,
           disposition' \in 0..MaxRevision, journeyDone' \in BOOLEAN,
           editor' = editor \/ \E e \in EditorState : EditorOK(e) /\ editor' = [editor EXCEPT ![p] = e],
           request' = request \/ \E c \in PendingCall : RequestOK(c) /\ request' = [request EXCEPT ![p] = c]
    PROVE  DraftInv'
<1>1. editor' \in [Editor -> EditorState] /\ \A x \in Editor : EditorOK(editor'[x])
  BY DEF DraftInv, DraftTypeOK
<1>2. request' \in [Editor -> PendingCall] /\ \A x \in Editor : RequestOK(request'[x])
  BY DEF DraftInv, DraftTypeOK
<1>3. DraftTypeOK'
  BY <1>1, <1>2 DEF DraftInv, DraftTypeOK
<1>4. \A x \in Editor : EditorOK(editor[x])' /\ RequestOK(request[x])'
  BY <1>1, <1>2 DEF EditorOK, RequestOK, Holds, Latest
<1>5. RevisionsFollow'
  BY DEF DraftInv, RevisionsFollow, Latest
<1>6. QED
  BY <1>3, <1>4, <1>5 DEF DraftInv

\* A revision that follows the latest is appended.
LEMMA AppendLemma ==
    ASSUME DraftInv, NEW p \in Editor, NEW r \in RevisionRow, r.over = LatestText,
           Latest < MaxRevision, revision' = Append(revision, r),
           disposition' \in 0..MaxRevision, journeyDone' = journeyDone, editor' = editor,
           \E c \in PendingCall : RequestOK(c)' /\ request' = [request EXCEPT ![p] = c]
    PROVE  DraftInv'
<1>1. /\ revision' \in Seq(RevisionRow) /\ Latest' = Latest + 1
      /\ \A k \in 1..Latest : revision'[k] = revision[k]
      /\ revision'[Latest + 1] = r
  BY DraftFacts DEF Latest
<1>2. ASSUME NEW k, NEW t, Holds(k, t) PROVE Holds(k, t)'
  <2>1. k \in 1..Latest /\ revision[k].text = t
    BY <1>2 DEF Holds
  <2>2. k \in 1..(Latest + 1)
    BY <2>1, DraftFacts
  <2>3. QED
    BY <1>1, <2>1, <2>2 DEF Holds
<1>3. \A e : EditorOK(e) => EditorOK(e)'
  BY <1>2 DEF EditorOK
<1>4. \A c : RequestOK(c) => RequestOK(c)'
  BY <1>1, <1>2, DraftFacts DEF RequestOK
<1>5. request' \in [Editor -> PendingCall] /\ \A x \in Editor : RequestOK(request[x])'
  <2>1. PICK c \in PendingCall : RequestOK(c)' /\ request' = [request EXCEPT ![p] = c]
    OBVIOUS
  <2>2. request \in [Editor -> PendingCall] /\ \A x \in Editor : RequestOK(request[x])
    BY DEF DraftInv, DraftTypeOK
  <2>3. request' \in [Editor -> PendingCall]
    BY <2>1, <2>2
  <2>4. ASSUME NEW x \in Editor PROVE RequestOK(request[x])'
    <3>1. PICK d : d = request'[x]
      OBVIOUS
    <3>2. d = c \/ d = request[x]
      BY <2>1, <2>2, <3>1
    <3>3. RequestOK(d)'
      BY <1>4, <2>1, <2>2, <3>2
    <3>4. QED
      BY <3>1, <3>3
  <2>5. QED
    BY <2>3, <2>4
<1>6. Len(revision') \in 1..MaxRevision
  BY <1>1, DraftFacts DEF Latest
<1>7. DraftTypeOK'
  BY <1>1, <1>5, <1>6 DEF DraftInv, DraftTypeOK, RevisionRow
<1>8. RevisionsFollow'
  <2> SUFFICES ASSUME NEW k \in 2..(Latest + 1)
               PROVE  revision'[k].over = revision'[k - 1].text
    BY <1>1 DEF RevisionsFollow
  <2>1. CASE k = Latest + 1
    <3>1. k - 1 = Latest /\ Latest \in 1..Latest
      BY <2>1, DraftFacts
    <3>2. revision'[k - 1] = revision[Latest] /\ revision'[k] = r
      BY <1>1, <2>1, <3>1
    <3>3. QED
      BY <3>2 DEF LatestText
  <2>2. CASE k # Latest + 1
    <3>1. k \in 2..Latest /\ k \in 1..Latest /\ k - 1 \in 1..Latest
      BY <2>2, DraftFacts
    <3>2. revision[k].over = revision[k - 1].text
      BY <3>1 DEF DraftInv, RevisionsFollow
    <3>3. QED
      BY <1>1, <3>1, <3>2
  <2>3. QED
    BY <2>1, <2>2
<1>9. \A x \in Editor : EditorOK(editor[x])'
  BY <1>3 DEF DraftInv
<1>10. QED
  BY <1>5, <1>7, <1>8, <1>9 DEF DraftInv

LEMMA EditorFacts ==
    ASSUME DraftInv, NEW p \in Editor
    PROVE  /\ editor[p] \in EditorState /\ EditorOK(editor[p])
           /\ request[p] \in PendingCall /\ RequestOK(request[p])
           /\ disposition \in 0..MaxRevision /\ journeyDone \in BOOLEAN
  BY DEF DraftInv, DraftTypeOK

-----------------------------------------------------------------------------
(* The page *)

LEMMA OpenEditorLemma ==
    ASSUME DraftInv, NEW p \in Editor, OpenEditor(p)
    PROVE  DraftInv'
<1>1. PICK t \in Text, b \in 0..MaxRevision : t = LatestText /\ b = Latest /\ Holds(b, t)
  BY DraftFacts
<1>2. PICK d \in MaybeText : d = IF journeyDone THEN LatestText ELSE NoText
  BY <1>1 DEF MaybeText
<1>3. PICK e : e = [NoEditor EXCEPT !.at = "open", !.draftText = t, !.saved = t,
                                    !.queued = t, !.base = b, !.completed = d]
  OBVIOUS
<1>4. e = [at |-> "open", draftText |-> t, saved |-> t, queued |-> t, chained |-> NoText,
           base |-> b, timer |-> FALSE, conflict |-> FALSE, suspended |-> FALSE,
           copying |-> NoText, completed |-> d]
  BY <1>3 DEF NoEditor
<1>5. t \in MaybeText /\ NoText \in MaybeText
  BY DEF MaybeText
<1>6. e \in EditorState
  BY <1>4, <1>5 DEF EditorState
<1>7. EditorOK(e)
  BY <1>1, <1>4 DEF EditorOK
<1>8. editor' = [editor EXCEPT ![p] = e]
  BY <1>1, <1>2, <1>3 DEF OpenEditor
<1>9. QED
  BY <1>6, <1>7, <1>8, EditorLemma, EditorFacts DEF OpenEditor

LEMMA EditDraftLemma ==
    ASSUME DraftInv, NEW p \in Editor, NEW text \in Text, EditDraft(p, text)
    PROVE  DraftInv'
<1>1. PICK s \in EditorState : s = editor[p] /\ EditorOK(s)
  BY EditorFacts
<1>2. PICK b \in BOOLEAN : b = Autosaves(s, text)
  BY DEF Autosaves
<1>3. PICK e : e = [[s EXCEPT !.draftText = text] EXCEPT !.timer = b]
  OBVIOUS
<1>4. e \in EditorState
  BY <1>3 DEF EditorState, MaybeText
<1>5. /\ e.at = s.at /\ e.draftText = text /\ e.conflict = s.conflict
      /\ e.base = s.base /\ e.saved = s.saved
  BY <1>3 DEF EditorState
<1>6. EditorOK(e)
  BY <1>1, <1>5 DEF EditorOK
<1>7. editor' = [editor EXCEPT ![p] = e]
  BY <1>1, <1>2, <1>3 DEF EditDraft
<1>8. QED
  BY <1>4, <1>6, <1>7, EditorLemma, EditorFacts DEF EditDraft

LEMMA AutosaveLemma ==
    ASSUME DraftInv, NEW p \in Editor, Autosave(p)
    PROVE  DraftInv'
<1>1. PICK s \in EditorState : s = editor[p] /\ EditorOK(s)
  BY EditorFacts
<1>2. PICK t \in MaybeText : t = s.draftText
  BY DEF EditorState
<1>3. PICK e : e = [s EXCEPT !.timer = FALSE, !.queued = t, !.chained = t]
  OBVIOUS
<1>4. PICK f : f = [s EXCEPT !.timer = FALSE]
  OBVIOUS
<1>5. e \in EditorState /\ f \in EditorState
  BY <1>3, <1>4 DEF EditorState
<1>6. /\ e.at = s.at /\ e.draftText = s.draftText /\ e.conflict = s.conflict
      /\ e.base = s.base /\ e.saved = s.saved
      /\ f.at = s.at /\ f.draftText = s.draftText /\ f.conflict = s.conflict
      /\ f.base = s.base /\ f.saved = s.saved
  BY <1>3, <1>4 DEF EditorState
<1>7. EditorOK(e) /\ EditorOK(f)
  BY <1>1, <1>6 DEF EditorOK
<1>8. editor' = [editor EXCEPT ![p] = e] \/ editor' = [editor EXCEPT ![p] = f]
  BY <1>1, <1>2, <1>3, <1>4 DEF Autosave
<1>9. QED
  BY <1>5, <1>7, <1>8, EditorLemma, EditorFacts DEF Autosave

\* A save that is sent follows the revision its page has read or saved.
LEMMA SaveCallLemma ==
    ASSUME DraftInv, NEW p \in Editor, Editing(p), ~editor[p].conflict, NEW text \in Text
    PROVE  SaveCall(p, text) \in PendingCall /\ RequestOK(SaveCall(p, text))
<1>1. PICK s \in EditorState : s = editor[p] /\ s.at = "open" /\ Holds(s.base, s.saved)
  BY EditorFacts DEF EditorOK, Editing
<1>2. PICK b \in 0..MaxRevision, o \in MaybeText : b = s.base /\ o = s.saved
  BY DEF EditorState
<1>3. PICK c : c = [NoCallYet EXCEPT !.at = "sent", !.text = text, !.expected = b, !.over = o]
  OBVIOUS
<1>4. c = [at |-> "sent", kind |-> "save", text |-> text, over |-> o, expected |-> b, latest |-> 0]
  BY <1>3 DEF NoCallYet
<1>5. c \in PendingCall
  BY <1>4, DraftAssumption DEF PendingCall, MaybeText
<1>6. RequestOK(c)
  BY <1>1, <1>2, <1>4 DEF RequestOK
<1>7. SaveCall(p, text) = c
  BY <1>1, <1>2, <1>3 DEF SaveCall
<1>8. QED
  BY <1>5, <1>6, <1>7

LEMMA StartDraftSaveLemma ==
    ASSUME DraftInv, NEW p \in Editor, StartDraftSave(p)
    PROVE  DraftInv'
<1>1. PICK s \in EditorState : s = editor[p] /\ EditorOK(s) /\ s.chained # NoText
  BY EditorFacts DEF StartDraftSave
<1>2. PICK t \in Text : t = s.chained
  BY <1>1 DEF EditorState, MaybeText
<1>3. PICK e : e = [s EXCEPT !.chained = NoText]
  OBVIOUS
<1>4. e \in EditorState
  BY <1>3 DEF EditorState, MaybeText
<1>5. /\ e.at = s.at /\ e.draftText = s.draftText /\ e.conflict = s.conflict
      /\ e.base = s.base /\ e.saved = s.saved
  BY <1>3 DEF EditorState
<1>6. EditorOK(e)
  BY <1>1, <1>5 DEF EditorOK
<1>7. editor' = [editor EXCEPT ![p] = e]
  BY <1>1, <1>3 DEF StartDraftSave
<1>8. request' = request \/ (~editor[p].conflict /\ request' = [request EXCEPT ![p] = SaveCall(p, t)])
  BY <1>1, <1>2 DEF StartDraftSave
<1>9. request' = request \/ \E c \in PendingCall : RequestOK(c) /\ request' = [request EXCEPT ![p] = c]
  BY <1>8, SaveCallLemma DEF StartDraftSave
<1>10. QED
  BY <1>4, <1>6, <1>7, <1>9, EditorLemma, EditorFacts DEF StartDraftSave

LEMMA CloseEditorLemma ==
    ASSUME DraftInv, NEW p \in Editor, CloseEditor(p)
    PROVE  DraftInv'
<1>1. PICK e : e = [NoEditor EXCEPT !.at = "closed"]
  OBVIOUS
<1>2. e \in EditorState /\ e.at = "closed"
  BY <1>1, IdleEditor DEF EditorState, NoEditor
<1>3. EditorOK(e)
  BY <1>2 DEF EditorOK
<1>4. editor[p].draftText \in Text
  BY EditorFacts DEF EditorOK, CloseEditor, Editing
<1>5. \/ request' = [request EXCEPT ![p] = request[p]]
      \/ request' = [request EXCEPT ![p] = NoCallYet]
      \/ ~editor[p].conflict /\ request' = [request EXCEPT ![p] = SaveCall(p, editor[p].draftText)]
  BY DEF CloseEditor, Autosaves
<1>6. \E c \in PendingCall : RequestOK(c) /\ request' = [request EXCEPT ![p] = c]
  BY <1>4, <1>5, IdleEditor, EditorFacts, SaveCallLemma DEF CloseEditor
<1>7. editor' = [editor EXCEPT ![p] = e]
  BY <1>1 DEF CloseEditor
<1>8. QED
  BY <1>2, <1>3, <1>6, <1>7, EditorLemma, EditorFacts DEF CloseEditor

LEMMA CopyLemma ==
    ASSUME DraftInv, NEW p \in Editor, Copy(p)
    PROVE  DraftInv'
<1>1. PICK s \in EditorState : s = editor[p] /\ EditorOK(s)
  BY EditorFacts
<1>2. PICK t \in MaybeText : t = s.draftText
  BY DEF EditorState
<1>3. PICK e : e = [[s EXCEPT !.suspended = TRUE] EXCEPT !.copying = t]
  OBVIOUS
<1>4. e \in EditorState
  BY <1>3 DEF EditorState
<1>5. /\ e.at = s.at /\ e.draftText = s.draftText /\ e.conflict = s.conflict
      /\ e.base = s.base /\ e.saved = s.saved
  BY <1>3 DEF EditorState
<1>6. EditorOK(e)
  BY <1>1, <1>5 DEF EditorOK
<1>7. editor' = [editor EXCEPT ![p] = e]
  BY <1>1, <1>2, <1>3 DEF Copy
<1>8. QED
  BY <1>4, <1>6, <1>7, EditorLemma, EditorFacts DEF Copy

LEMMA RecordCopyLemma ==
    ASSUME DraftInv, NEW p \in Editor, RecordCopy(p)
    PROVE  DraftInv'
<1>1. PICK s \in EditorState : s = editor[p] /\ EditorOK(s) /\ s.copying # NoText
  BY EditorFacts DEF RecordCopy
<1>2. PICK t \in Text : t = s.copying
  BY <1>1 DEF EditorState, MaybeText
<1>3. PICK e : e = [s EXCEPT !.copying = NoText]
  OBVIOUS
<1>4. e \in EditorState
  BY <1>3 DEF EditorState, MaybeText
<1>5. /\ e.at = s.at /\ e.draftText = s.draftText /\ e.conflict = s.conflict
      /\ e.base = s.base /\ e.saved = s.saved
  BY <1>3 DEF EditorState
<1>6. EditorOK(e)
  BY <1>1, <1>5 DEF EditorOK
<1>7. PICK c : c = [NoCallYet EXCEPT !.at = "sent", !.kind = "record", !.text = t]
  OBVIOUS
<1>8. c = [at |-> "sent", kind |-> "record", text |-> t, over |-> NoText, expected |-> 0, latest |-> 0]
  BY <1>7 DEF NoCallYet
<1>9. c \in PendingCall
  BY <1>8, DraftAssumption DEF PendingCall, MaybeText
<1>10. RequestOK(c)
  BY <1>8 DEF RequestOK
<1>11. \/ editor' = [editor EXCEPT ![p] = e] /\ request' = request
       \/ editor' = editor /\ request' = [request EXCEPT ![p] = c]
  BY <1>1, <1>2, <1>3, <1>7 DEF RecordCopy
<1>12. QED
  BY <1>4, <1>6, <1>9, <1>10, <1>11, EditorLemma, EditorFacts DEF RecordCopy

LEMMA BackToEditLemma ==
    ASSUME DraftInv, NEW p \in Editor, BackToEdit(p)
    PROVE  DraftInv'
<1>1. PICK s \in EditorState : s = editor[p] /\ EditorOK(s)
  BY EditorFacts
<1>2. PICK e : e = [s EXCEPT !.completed = NoText]
  OBVIOUS
<1>3. e \in EditorState
  BY <1>2 DEF EditorState, MaybeText
<1>4. /\ e.at = s.at /\ e.draftText = s.draftText /\ e.conflict = s.conflict
      /\ e.base = s.base /\ e.saved = s.saved
  BY <1>2 DEF EditorState
<1>5. EditorOK(e)
  BY <1>1, <1>4 DEF EditorOK
<1>6. editor' = [editor EXCEPT ![p] = e]
  BY <1>1, <1>2 DEF BackToEdit
<1>7. QED
  BY <1>3, <1>5, <1>6, EditorLemma, EditorFacts DEF BackToEdit

\* The three ends of a call, as the page sees them.
LEMMA AnswerEditorLemma ==
    ASSUME DraftInv, NEW p \in Editor, AnswerEditor(p)
    PROVE  DraftInv'
<1>1. PICK s \in EditorState : s = editor[p] /\ EditorOK(s)
  BY EditorFacts
<1>2. PICK c \in PendingCall : c = request[p] /\ RequestOK(c) /\ c.at \in {"recorded", "conflict"}
  BY EditorFacts DEF AnswerEditor
<1>3. PICK v, t : v = c.latest /\ t = c.text
  OBVIOUS
<1>4. v \in 0..MaxRevision /\ t \in MaybeText /\ NoText \in MaybeText
  BY <1>3 DEF PendingCall, MaybeText
<1>5. PICK e : e = [s EXCEPT !.base = v, !.conflict = TRUE]
  OBVIOUS
<1>6. PICK f : f = [s EXCEPT !.base = v, !.saved = t]
  OBVIOUS
<1>7. PICK g : g = [s EXCEPT !.copying = NoText, !.completed = t]
  OBVIOUS
<1>8. e \in EditorState /\ f \in EditorState /\ g \in EditorState
  BY <1>4, <1>5, <1>6, <1>7 DEF EditorState
<1>9. /\ e.at = s.at /\ e.draftText = s.draftText /\ e.conflict = TRUE
      /\ f.at = s.at /\ f.draftText = s.draftText /\ f.base = v /\ f.saved = t
      /\ g.at = s.at /\ g.draftText = s.draftText /\ g.conflict = s.conflict
      /\ g.base = s.base /\ g.saved = s.saved
  BY <1>5, <1>6, <1>7 DEF EditorState
<1>10. EditorOK(e) /\ EditorOK(g)
  BY <1>1, <1>9 DEF EditorOK
<1>11. c.at = "recorded" /\ c.kind = "save" => EditorOK(f)
  BY <1>1, <1>2, <1>3, <1>9 DEF EditorOK, RequestOK
<1>12. \E n \in EditorState : EditorOK(n) /\ editor' = [editor EXCEPT ![p] = n]
  <2>1. CASE c.at = "conflict"
    <3>1. editor' = [editor EXCEPT ![p] = e]
      <4>1. ConflictFound(p) = e
        BY <1>1, <1>2, <1>3, <1>5 DEF ConflictFound
      <4>2. QED
        BY <1>2, <2>1, <4>1 DEF AnswerEditor
    <3>2. QED
      BY <1>8, <1>10, <3>1
  <2>2. CASE c.at = "recorded" /\ c.kind = "save"
    <3>1. editor' = [editor EXCEPT ![p] = f]
      BY <1>1, <1>2, <1>3, <1>6, <2>2 DEF AnswerEditor
    <3>2. QED
      BY <1>8, <1>11, <2>2, <3>1
  <2>3. CASE c.at = "recorded" /\ c.kind # "save"
    <3>1. editor' = [editor EXCEPT ![p] = g]
      BY <1>1, <1>2, <1>3, <1>7, <2>3 DEF AnswerEditor
    <3>2. QED
      BY <1>8, <1>10, <3>1
  <2>4. QED
    BY <1>2, <2>1, <2>2, <2>3
<1>13. journeyDone' \in BOOLEAN
  BY EditorFacts DEF AnswerEditor
<1>14. QED
  BY <1>12, <1>13, IdleEditor, EditorLemma, EditorFacts DEF AnswerEditor

LEMMA AnswerLostLemma ==
    ASSUME DraftInv, NEW p \in Editor, AnswerLost(p)
    PROVE  DraftInv'
<1>1. PICK s \in EditorState : s = editor[p] /\ EditorOK(s)
  BY EditorFacts
<1>2. PICK t \in MaybeText : t = s.saved
  BY DEF EditorState
<1>3. PICK e : e = [s EXCEPT !.copying = NoText]
  OBVIOUS
<1>4. PICK f : f = [s EXCEPT !.queued = t]
  OBVIOUS
<1>5. e \in EditorState /\ f \in EditorState
  BY <1>3, <1>4 DEF EditorState, MaybeText
<1>6. /\ e.at = s.at /\ e.draftText = s.draftText /\ e.conflict = s.conflict
      /\ e.base = s.base /\ e.saved = s.saved
      /\ f.at = s.at /\ f.draftText = s.draftText /\ f.conflict = s.conflict
      /\ f.base = s.base /\ f.saved = s.saved
  BY <1>3, <1>4 DEF EditorState
<1>7. EditorOK(e) /\ EditorOK(f)
  BY <1>1, <1>6 DEF EditorOK
<1>8. \E n \in {e, f, s} : editor' = [editor EXCEPT ![p] = n]
  BY <1>1, <1>2, <1>3, <1>4 DEF AnswerLost
<1>9. \E n \in EditorState : EditorOK(n) /\ editor' = [editor EXCEPT ![p] = n]
  BY <1>1, <1>5, <1>7, <1>8
<1>10. /\ revision' = revision /\ disposition' = disposition /\ journeyDone' = journeyDone
       /\ request' = [request EXCEPT ![p] = NoCallYet]
  BY DEF AnswerLost
<1>11. QED
  BY <1>9, <1>10, IdleEditor, EditorLemma, EditorFacts

-----------------------------------------------------------------------------
(* The store *)

\* Of some revisions there is a first.
LEMMA FirstLemma ==
    ASSUME NEW S \in SUBSET Nat, S # {}
    PROVE  \E k \in S : \A j \in S : k <= j
<1>1. IsWellFoundedOn(OpToRel(<, Nat), Nat)
  BY NatLessThanWellFounded
<1>2. PICK k \in S : \A j \in S : ~(<<j, k>> \in OpToRel(<, Nat))
  BY <1>1, WFMin
<1>3. \A j \in S : ~(j < k)
  BY <1>2 DEF OpToRel
<1>4. QED
  BY <1>3

\* The answer is the call's, with a status and a revision, or reaches nobody.
LEMMA AnswersLemma ==
    ASSUME DraftInv, NEW p \in Editor, NEW status \in {"recorded", "conflict"},
           NEW k \in 0..MaxRevision, Answers(p, status, k)
    PROVE  \E c \in PendingCall :
              /\ request' = [request EXCEPT ![p] = c]
              /\ c = NoCallYet \/ /\ c.at = status /\ c.latest = k
                                  /\ c.text = request[p].text /\ c.kind = request[p].kind
<1>1. PICK s \in PendingCall : s = request[p]
  BY EditorFacts
<1>2. PICK c : c = [s EXCEPT !.at = status, !.latest = k]
  OBVIOUS
<1>3. c \in PendingCall
  BY <1>2 DEF PendingCall
<1>4. c.at = status /\ c.latest = k /\ c.text = s.text /\ c.kind = s.kind
  BY <1>2 DEF PendingCall
<1>5. request' = [request EXCEPT ![p] = c] \/ request' = [request EXCEPT ![p] = NoCallYet]
  BY <1>1, <1>2 DEF Answers
<1>6. QED
  BY <1>1, <1>3, <1>4, <1>5, IdleEditor

LEMMA SnapshotRevisionLemma ==
    ASSUME DraftInv, NEW p \in Editor, SnapshotRevision(p)
    PROVE  DraftInv'
<1>1. PICK s \in PendingCall : s = request[p] /\ RequestOK(s) /\ s.at = "sent" /\ s.kind = "save"
  BY EditorFacts DEF SnapshotRevision
<1>2. PICK k \in 1..Latest : k = Latest /\ k \in 0..MaxRevision
  BY DraftFacts
<1>3. PICK c : c = [[s EXCEPT !.at = "read"] EXCEPT !.latest = k]
  OBVIOUS
<1>4. c \in PendingCall
  BY <1>2, <1>3 DEF PendingCall
<1>5. /\ c.at = "read" /\ c.kind = s.kind /\ c.text = s.text /\ c.over = s.over
      /\ c.expected = s.expected /\ c.latest = k
  BY <1>3 DEF PendingCall
<1>6. RequestOK(c)
  BY <1>1, <1>5 DEF RequestOK
<1>7. request' = [request EXCEPT ![p] = c]
  BY <1>1, <1>2, <1>3 DEF SnapshotRevision
<1>8. QED
  BY <1>4, <1>6, <1>7, EditorLemma, EditorFacts DEF SnapshotRevision

LEMMA SaveRevisionLemma ==
    ASSUME DraftInv, NEW p \in Editor, SaveRevision(p)
    PROVE  DraftInv'
<1>1. PICK s \in PendingCall : s = request[p] /\ RequestOK(s) /\ s.at = "read"
  BY EditorFacts DEF SaveRevision
<1>2. /\ s.kind = "save" /\ s.text \in Text /\ s.latest \in 1..Latest /\ s.latest \in 0..MaxRevision
      /\ Holds(s.expected, s.over) /\ s.over \in MaybeText
  BY <1>1, DraftFacts DEF RequestOK, PendingCall
<1>3. CASE revision' = revision /\ Answers(p, "conflict", s.latest)
  <2>1. \E c \in PendingCall : RequestOK(c) /\ request' = [request EXCEPT ![p] = c]
    BY <1>1, <1>2, <1>3, IdleEditor, AnswersLemma DEF RequestOK
  <2>2. QED
    BY <1>3, <2>1, EditorLemma, EditorFacts DEF SaveRevision
<1>4. CASE revision' = revision /\ Answers(p, "recorded", s.latest) /\ revision[s.latest].text = s.text
  <2>1. Holds(s.latest, s.text)
    BY <1>2, <1>4 DEF Holds
  <2>2. \E c \in PendingCall : RequestOK(c) /\ request' = [request EXCEPT ![p] = c]
    BY <1>1, <1>2, <1>4, <2>1, IdleEditor, AnswersLemma DEF RequestOK
  <2>3. QED
    BY <1>4, <2>2, EditorLemma, EditorFacts DEF SaveRevision
<1>5. CASE /\ s.latest = s.expected /\ s.latest + 1 = Latest + 1 /\ Latest < MaxRevision
           /\ revision' = Append(revision, [text |-> s.text, over |-> s.over])
           /\ Answers(p, "recorded", s.latest + 1)
  <2>1. PICK r \in RevisionRow : r = [text |-> s.text, over |-> s.over]
    BY <1>2 DEF RevisionRow
  <2>2. PICK k \in 0..MaxRevision : k = Latest + 1
    BY <1>5, DraftFacts
  <2>3. s.latest = Latest
    BY <1>2, <1>5, DraftFacts
  <2>4. r.over = LatestText /\ r.text = s.text
    BY <1>2, <1>5, <2>1, <2>3 DEF Holds, LatestText
  <2>5. revision' = Append(revision, r)
    BY <1>5, <2>1
  <2>6. Holds(k, s.text)'
    <3>1. Latest' = Latest + 1 /\ revision'[Latest + 1] = r
      BY <2>5, DraftFacts DEF Latest
    <3>2. k \in 1..(Latest + 1)
      BY <2>2, DraftFacts
    <3>3. QED
      BY <2>2, <2>4, <3>1, <3>2 DEF Holds
  <2>7. Answers(p, "recorded", k)
    BY <1>5, <2>2
  <2>8. PICK c \in PendingCall :
              /\ request' = [request EXCEPT ![p] = c]
              /\ c = NoCallYet \/ /\ c.at = "recorded" /\ c.latest = k
                                  /\ c.text = s.text /\ c.kind = "save"
    BY <1>1, <1>2, <2>7, AnswersLemma
  <2>9. RequestOK(c)'
    <3>1. CASE c = NoCallYet
      BY <3>1 DEF NoCallYet, RequestOK
    <3>2. CASE c.at = "recorded" /\ c.latest = k /\ c.text = s.text /\ c.kind = "save"
      BY <1>2, <2>6, <3>2 DEF RequestOK
    <3>3. QED
      BY <2>8, <3>1, <3>2
  <2>10. QED
    BY <1>5, <2>4, <2>5, <2>8, <2>9, AppendLemma, EditorFacts DEF SaveRevision
<1>6. QED
  BY <1>1, <1>3, <1>4, <1>5 DEF SaveRevision, NextRevision

LEMMA SaveFailsLemma ==
    ASSUME DraftInv, NEW p \in Editor, SaveFails(p)
    PROVE  DraftInv'
<1>1. PICK s \in EditorState : s = editor[p] /\ EditorOK(s)
  BY EditorFacts
<1>2. PICK t \in MaybeText : t = s.saved
  BY DEF EditorState
<1>3. PICK f : f = [s EXCEPT !.queued = t]
  OBVIOUS
<1>4. f \in EditorState
  BY <1>3 DEF EditorState
<1>5. /\ f.at = s.at /\ f.draftText = s.draftText /\ f.conflict = s.conflict
      /\ f.base = s.base /\ f.saved = s.saved
  BY <1>3 DEF EditorState
<1>6. EditorOK(f)
  BY <1>1, <1>5 DEF EditorOK
<1>7. editor' = editor \/ editor' = [editor EXCEPT ![p] = f]
  BY <1>1, <1>2, <1>3 DEF SaveFails
<1>8. QED
  BY <1>4, <1>6, <1>7, IdleEditor, EditorLemma, EditorFacts DEF SaveFails

\* A copy reads the latest revision under the row's lock, and so follows it.
LEMMA RecordLemma ==
    ASSUME DraftInv, NEW p \in Editor, Record(p)
    PROVE  DraftInv'
<1>1. PICK s \in PendingCall : s = request[p] /\ RequestOK(s) /\ s.at = "sent" /\ s.kind = "record"
  BY EditorFacts DEF Record
<1>2. s.text \in Text
  BY <1>1 DEF RequestOK
<1>3. disposition' \in 0..MaxRevision
  <2>1. CASE WithText(s.text) # {}
    <3>1. disposition' = CHOOSE k \in WithText(s.text) : \A j \in WithText(s.text) : k <= j
      BY <1>1, <2>1 DEF Record
    <3>2. \E k \in WithText(s.text) : \A j \in WithText(s.text) : k <= j
      <4>1. WithText(s.text) \in SUBSET Nat
        BY DraftFacts DEF WithText
      <4>2. QED
        BY <2>1, <4>1, FirstLemma
    <3>3. disposition' \in WithText(s.text)
      BY <3>1, <3>2
    <3>4. QED
      BY <3>3, DraftFacts DEF WithText
  <2>2. CASE WithText(s.text) = {}
    BY <1>1, <2>2, DraftFacts DEF Record
  <2>3. QED
    BY <2>1, <2>2
<1>4. PICK c \in PendingCall :
              /\ request' = [request EXCEPT ![p] = c]
              /\ c = NoCallYet \/ (c.at = "recorded" /\ c.text = s.text /\ c.kind = "record")
  <2>1. PICK k \in 0..MaxRevision : k = disposition'
    BY <1>3
  <2>2. Answers(p, "recorded", k)
    BY <2>1 DEF Record
  <2>3. QED
    BY <1>1, <2>2, AnswersLemma
<1>5. RequestOK(c) /\ RequestOK(c)'
  <2>1. CASE c = NoCallYet
    BY <2>1 DEF NoCallYet, RequestOK
  <2>2. CASE c.at = "recorded" /\ c.text = s.text /\ c.kind = "record"
    BY <1>2, <2>2 DEF RequestOK
  <2>3. QED
    BY <1>4, <2>1, <2>2
<1>6. journeyDone' = journeyDone /\ editor' = editor
  BY DEF Record
<1>7. CASE revision' = revision
  BY <1>3, <1>4, <1>5, <1>6, <1>7, EditorLemma, EditorFacts
<1>8. CASE Latest < MaxRevision /\ revision' = Append(revision, [text |-> s.text, over |-> LatestText])
  <2>1. PICK r \in RevisionRow : r = [text |-> s.text, over |-> LatestText]
    BY <1>2, DraftFacts DEF RevisionRow, MaybeText
  <2>2. r.over = LatestText /\ revision' = Append(revision, r)
    BY <1>8, <2>1
  <2>3. QED
    BY <1>3, <1>4, <1>5, <1>6, <1>8, <2>2, AppendLemma
<1>9. QED
  BY <1>1, <1>7, <1>8 DEF Record

LEMMA DraftStep == DraftInv /\ [DraftNext]_draftVars => DraftInv'
<1> SUFFICES ASSUME DraftInv, [DraftNext]_draftVars PROVE DraftInv'
  OBVIOUS
<1>1. CASE UNCHANGED draftVars
  BY <1>1 DEF draftVars, DraftInv, DraftTypeOK, RevisionsFollow, EditorOK, RequestOK, Holds, Latest
<1>2. CASE DraftNext
  <2>1. PICK p \in Editor :
          \/ OpenEditor(p) \/ (\E text \in Text : EditDraft(p, text))
          \/ Autosave(p) \/ StartDraftSave(p) \/ CloseEditor(p)
          \/ Copy(p) \/ RecordCopy(p) \/ BackToEdit(p) \/ AnswerEditor(p) \/ AnswerLost(p)
          \/ SnapshotRevision(p) \/ SaveRevision(p) \/ SaveFails(p) \/ Record(p)
    BY <1>2 DEF DraftNext
  <2>2. CASE \/ OpenEditor(p) \/ (\E text \in Text : EditDraft(p, text))
             \/ Autosave(p) \/ StartDraftSave(p) \/ CloseEditor(p)
    BY <2>2, OpenEditorLemma, EditDraftLemma, AutosaveLemma, StartDraftSaveLemma, CloseEditorLemma
  <2>3. CASE \/ Copy(p) \/ RecordCopy(p) \/ BackToEdit(p) \/ AnswerEditor(p) \/ AnswerLost(p)
    BY <2>3, CopyLemma, RecordCopyLemma, BackToEditLemma, AnswerEditorLemma, AnswerLostLemma
  <2>4. CASE \/ SnapshotRevision(p) \/ SaveRevision(p) \/ SaveFails(p) \/ Record(p)
    BY <2>4, SnapshotRevisionLemma, SaveRevisionLemma, SaveFailsLemma, RecordLemma
  <2>5. QED
    BY <2>1, <2>2, <2>3, <2>4
<1>3. QED
  BY <1>1, <1>2

\* An autosaved revision follows the one its author had read or saved, however
\* many pages edit and copy the draft (reviewer-disposition-store.ts): the
\* snapshot a save decides by may be late, and the unique revision makes it fail.
THEOREM RevisionsTheorem == DraftSpec => []RevisionsFollow
<1>1. DraftInv => RevisionsFollow
  BY DEF DraftInv
<1>2. QED
  BY <1>1, DraftInitLemma, DraftStep, PTL DEF DraftSpec

-----------------------------------------------------------------------------
(* What is kept: the inductive invariant *)

\* The claims of a candidate, in their order; each cites a sequence of assertions.
CandidateClaims(claims) ==
    \E n \in Nat :
        /\ claims = [i \in 1..n |-> claims[i]]
        /\ \A i \in 1..n : claims[i].grounding \in Seq(Nat)

AcceptanceInv ==
    /\ policy \in DraftSettings
    /\ workload = Nothing => returned = Nothing /\ kept = Nothing
    /\ returned = Nothing \/ returned.status \in {"completed", "rejected"}
    /\ returned.status = "completed" => CandidateClaims(returned.claims)
    /\ KeptIsConfirmed

LEMMA NothingIs == Nothing.status = "none"
  BY DEF Nothing

LEMMA CandidateOfClaims ==
    ASSUME NEW output \in Outputs
    PROVE  CandidateClaims(CandidateOf(output))
<1>1. PICK n \in Nat : output \in [1..n -> ProviderClaim]
  <2>1. PICK n \in 0..MaxClaims : output \in [1..n -> ProviderClaim]
    BY DEF Outputs
  <2>2. n \in Nat
    BY AcceptanceAssumption
  <2>3. QED
    BY <2>1, <2>2
<1>2. ASSUME NEW i \in 1..n PROVE output[i].cites \in Seq(Nat)
  <2>1. output[i] \in ProviderClaim
    BY <1>1
  <2>2. output[i].cites \in {<<>>} \cup {<<j>> : j \in 1..MaxClaims} \cup {<<1, 2>>}
    BY <2>1 DEF ProviderClaim
  <2>3. \A j \in 1..MaxClaims : j \in Nat
    BY AcceptanceAssumption
  <2>4. <<>> \in Seq(Nat) /\ <<1, 2>> \in Seq(Nat)
    OBVIOUS
  <2>5. ASSUME NEW j \in 1..MaxClaims PROVE <<j>> \in Seq(Nat)
    BY <2>3
  <2>6. QED
    BY <2>2, <2>4, <2>5
<1>3. CandidateOf(output) = [i \in 1..n |-> CandidateOf(output)[i]]
  BY <1>1 DEF CandidateOf
<1>4. ASSUME NEW i \in 1..n PROVE CandidateOf(output)[i].grounding \in Seq(Nat)
  BY <1>1, <1>2 DEF CandidateOf
<1>5. QED
  BY <1>3, <1>4 DEF CandidateClaims

LEMMA ResultOfIs ==
    ASSUME NEW output \in Outputs
    PROVE  /\ ResultOf(output).status \in {"completed", "rejected"}
           /\ ResultOf(output).status = "completed" =>
                  CandidateClaims(ResultOf(output).claims)
<1>1. PICK claims : claims = CandidateOf(output)
  OBVIOUS
<1>2. PICK artifact : artifact = [status |-> "completed", claims |-> claims,
                                  draft |-> DraftOf(BodyOf(claims))]
  OBVIOUS
<1>3. artifact.status = "completed" /\ artifact.claims = claims
  BY <1>2
<1>4. \A code : Refusal(code).status = "rejected"
  BY DEF Refusal
<1>5. \/ ResultOf(output) = artifact
      \/ \E code : ResultOf(output) = Refusal(code)
  BY <1>1, <1>2 DEF ResultOf
<1>6. CandidateClaims(claims)
  BY <1>1, CandidateOfClaims
<1>7. QED
  BY <1>3, <1>4, <1>5, <1>6

-----------------------------------------------------------------------------
(* What passes the validation of the terminal store *)

Validated(artifact) ==
    /\ StillBound(artifact.claims)
    /\ Covered(artifact.claims)
    /\ Postcondition(artifact.claims)
    /\ PolicyPassed(artifact.draft)
    /\ artifact.draft = DraftOf(BodyOf(artifact.claims))
    /\ FormatPassed(artifact.draft)

LEMMA PassIsValidated ==
    ASSUME NEW artifact, Validation(artifact) = "pass"
    PROVE  Validated(artifact)
  BY DEF Validation, Validated, Grounded

\* What such a draft says, claim by claim.
LEMMA BoundClaims ==
    ASSUME NEW claims, CandidateClaims(claims), StillBound(claims), Covered(claims)
    PROVE  /\ DOMAIN BodyOf(claims) = DOMAIN claims
           /\ DOMAIN claims # {}
           /\ \A i \in DOMAIN claims :
                /\ BodyOf(claims)[i] = claims[i].text
                /\ \E a \in DOMAIN workload.assertion :
                     /\ claims[i].grounding = <<a>>
                     /\ Range(claims[i].grounding) = {a}
                     /\ workload.assertion[a] = claims[i].text.says
<1>1. PICK n \in Nat : /\ claims = [i \in 1..n |-> claims[i]]
                       /\ \A i \in 1..n : claims[i].grounding \in Seq(Nat)
  BY DEF CandidateClaims
<1>2. DOMAIN BodyOf(claims) = DOMAIN claims /\ \A i \in DOMAIN claims : BodyOf(claims)[i] = claims[i].text
  BY DEF BodyOf
<1>3. ASSUME NEW i \in DOMAIN claims
      PROVE  \E a \in DOMAIN workload.assertion :
                     /\ claims[i].grounding = <<a>>
                     /\ Range(claims[i].grounding) = {a}
                     /\ workload.assertion[a] = claims[i].text.says
  <2>1. PICK g : g = claims[i].grounding
    OBVIOUS
  <2>2. /\ g \in Seq(Nat) /\ Len(g) = 1 /\ g[1] \in DOMAIN workload.assertion
        /\ claims[i].text.says = workload.assertion[g[1]]
    BY <1>1, <2>1 DEF StillBound, Range
  <2>3. g = <<g[1]>> /\ Range(g) = {g[1]}
    BY <2>2 DEF Range
  <2>4. QED
    BY <2>1, <2>2, <2>3
<1>4. DOMAIN claims # {}
  <2>1. ASSUME n = 0 PROVE claims = <<>>
    <3>1. 1..n = {}
      BY <2>1
    <3>2. claims = [i \in {} |-> claims[i]]
      BY <1>1, <3>1
    <3>3. claims \in Seq({}) /\ Len(claims) = 0
      BY <3>2
    <3>4. QED
      BY <3>3
  <2>2. claims # <<>>
    BY DEF Covered
  <2>3. 1 \in 1..n
    BY <2>1, <2>2
  <2>4. QED
    BY <1>1, <2>3
<1>5. QED
  BY <1>2, <1>3, <1>4

\* What KeptIsConfirmed says of a draft that is kept.
Confirmed(k) ==
    LET body == k.draft.body
        said == {t.says : t \in Range(body)}
    IN /\ said # {} /\ said \subseteq Range(workload.assertion) \ Banned
       /\ workload.kind = "paraphrase" => said = Range(workload.assertion)
       /\ DOMAIN k.claims = DOMAIN body
       /\ \A i \in DOMAIN body : /\ k.claims[i].says = body[i]
                                 /\ \E a \in DOMAIN workload.assertion :
                                      /\ k.claims[i].assertions = <<a>>
                                      /\ workload.assertion[a] = body[i].says
       /\ k.draft.notice = policy.disclosure
       /\ policy.minChars <= Length(k.draft) /\ Length(k.draft) <= policy.maxChars
       /\ policy.secondPerson \/ said \cap Addresses = {}

LEMMA ValidatedIsConfirmed ==
    ASSUME NEW artifact, Validated(artifact), CandidateClaims(artifact.claims),
           policy \in DraftSettings,
           NEW k, k.draft = artifact.draft,
           k.claims = [i \in DOMAIN artifact.claims |->
                         [says |-> artifact.claims[i].text,
                          assertions |-> artifact.claims[i].grounding]]
    PROVE  Confirmed(k)
<1>1. PICK claims, body : claims = artifact.claims /\ body = BodyOf(claims)
  OBVIOUS
<1>2. k.draft = DraftOf(body)
  BY <1>1 DEF Validated
<1>3. k.draft.body = body /\ k.draft.notice = Noticed
  BY <1>2 DEF DraftOf
<1>4. /\ DOMAIN body = DOMAIN claims
      /\ DOMAIN claims # {}
      /\ \A i \in DOMAIN claims :
           /\ body[i] = claims[i].text
           /\ \E a \in DOMAIN workload.assertion :
                /\ claims[i].grounding = <<a>>
                /\ Range(claims[i].grounding) = {a}
                /\ workload.assertion[a] = claims[i].text.says
  BY <1>1, BoundClaims DEF Validated
<1>5. PICK said : said = {t.says : t \in Range(body)}
  OBVIOUS
<1>6. said # {}
  <2>1. PICK i : i \in DOMAIN body
    BY <1>4
  <2>2. body[i] \in Range(body)
    BY <2>1 DEF Range
  <2>3. QED
    BY <1>5, <2>2
<1>7. ASSUME NEW w \in said
      PROVE  w \in Range(workload.assertion) /\ w \notin Banned
             /\ (policy.secondPerson \/ w \notin Addresses)
  <2>1. PICK i \in DOMAIN body : w = body[i].says
    BY <1>5, <1>7 DEF Range
  <2>2. w \in Range(workload.assertion)
    BY <1>4, <2>1 DEF Range
  <2>3. body[i] \in Range(body)
    BY DEF Range
  <2>4. w \notin Banned
    BY <1>3, <2>1, <2>3 DEF Validated, PolicyPassed
  <2>5. policy.secondPerson \/ w \notin Addresses
    BY <1>3, <2>1, <2>3 DEF Validated, FormatPassed
  <2>6. QED
    BY <2>2, <2>4, <2>5
<1>8. ASSUME workload.kind = "paraphrase", NEW w \in Range(workload.assertion)
      PROVE  w \in said
  <2>1. PICK a \in DOMAIN workload.assertion : w = workload.assertion[a]
    BY <1>8 DEF Range
  <2>2. PICK c \in Range(claims) : a \in Range(c.grounding)
    BY <1>1, <1>8 DEF Validated, Postcondition
  <2>3. PICK i \in DOMAIN claims : c = claims[i]
    BY DEF Range
  <2>4. w = body[i].says
    BY <1>4, <2>1, <2>2, <2>3
  <2>5. QED
    BY <1>4, <1>5, <2>4 DEF Range
<1>9. DOMAIN k.claims = DOMAIN body
  BY <1>1, <1>4
<1>10. ASSUME NEW i \in DOMAIN body
       PROVE  /\ k.claims[i].says = body[i]
              /\ \E a \in DOMAIN workload.assertion :
                   /\ k.claims[i].assertions = <<a>>
                   /\ workload.assertion[a] = body[i].says
  <2>1. PICK c : c = claims[i]
    OBVIOUS
  <2>2. i \in DOMAIN artifact.claims
    BY <1>1, <1>4
  <2>3. k.claims[i] = [says |-> c.text, assertions |-> c.grounding]
    BY <1>1, <2>1, <2>2
  <2>4. k.claims[i].says = c.text /\ k.claims[i].assertions = c.grounding
    BY <2>3
  <2>5. body[i] = c.text
    BY <1>4, <2>1, <1>10
  <2>6. PICK a \in DOMAIN workload.assertion :
             c.grounding = <<a>> /\ workload.assertion[a] = c.text.says
    BY <1>4, <2>1, <1>10
  <2>7. QED
    BY <2>4, <2>5, <2>6
<1>11. k.draft.notice = policy.disclosure
  <2>1. policy.disclosure \in BOOLEAN /\ policy.provenance \in BOOLEAN
    BY DEF DraftSettings
  <2>2. policy.disclosure => policy.provenance
    BY DEF Validated, PolicyPassed
  <2>3. QED
    BY <1>3, <2>1, <2>2 DEF Noticed
<1>12. policy.minChars <= Length(k.draft) /\ Length(k.draft) <= policy.maxChars
  BY DEF Validated, FormatPassed
<1>13. QED
  <2>1. /\ said \subseteq Range(workload.assertion) \ Banned
        /\ policy.secondPerson \/ said \cap Addresses = {}
    BY <1>7
  <2>2. workload.kind = "paraphrase" => said = Range(workload.assertion)
    BY <1>7, <1>8
  <2>3. QED
    BY <1>3, <1>5, <1>6, <1>9, <1>10, <1>11, <1>12, <2>1, <2>2 DEF Confirmed

-----------------------------------------------------------------------------
LEMMA AdmitWordsKeeps ==
    ASSUME AcceptanceInv, NEW kind, NEW options, NEW words, AdmitWords(kind, options, words)
    PROVE  AcceptanceInv'
<1>1. returned = Nothing /\ kept = Nothing /\ UNCHANGED <<policy, returned, kept>>
  BY DEF AcceptanceInv, AdmitWords
<1>2. workload'.status = "admitted"
  BY DEF AdmitWords
<1>3. returned.status = "none" /\ kept.status = "none"
  BY <1>1, NothingIs
<1>4. workload' # Nothing
  BY <1>2, NothingIs
<1>5. QED
  BY <1>1, <1>3, <1>4 DEF AcceptanceInv, KeptIsConfirmed

LEMMA AcceptKeeps ==
    ASSUME AcceptanceInv, NEW output \in Outputs, Accept(output)
    PROVE  AcceptanceInv'
<1>1. /\ UNCHANGED <<policy, workload, kept>> /\ workload # Nothing
      /\ returned' = ResultOf(output)
  BY DEF Accept
<1>2. /\ returned'.status \in {"completed", "rejected"}
      /\ returned'.status = "completed" => CandidateClaims(returned'.claims)
  BY <1>1, ResultOfIs
<1>3. CandidateClaims(returned'.claims) => CandidateClaims(returned.claims)'
  BY DEF CandidateClaims
<1>4. KeptIsConfirmed'
  BY <1>1 DEF AcceptanceInv, KeptIsConfirmed
<1>5. QED
  BY <1>1, <1>2, <1>3, <1>4 DEF AcceptanceInv

LEMMA KeepResultKeeps == ASSUME AcceptanceInv, KeepResult PROVE AcceptanceInv'
<1>1. /\ UNCHANGED <<policy, workload, returned>> /\ returned # Nothing
      /\ policy \in DraftSettings /\ workload # Nothing
  BY DEF AcceptanceInv, KeepResult
<1>2. /\ returned.status \in {"completed", "rejected"}
      /\ returned.status = "completed" => CandidateClaims(returned.claims)
  BY <1>1 DEF AcceptanceInv
<1>3. CandidateClaims(returned.claims) => CandidateClaims(returned.claims)'
  BY <1>1 DEF CandidateClaims
<1>4. CASE returned.status = "rejected"
  <2>1. kept'.status = "rejected"
    BY <1>4 DEF KeepResult
  <2>2. QED
    BY <1>1, <1>2, <1>3, <2>1 DEF AcceptanceInv, KeptIsConfirmed
<1>5. CASE returned.status = "completed" /\ Validation(returned) # "pass"
  <2>1. kept'.status = "rejected"
    BY <1>5 DEF KeepResult, Refusal
  <2>2. QED
    BY <1>1, <1>2, <1>3, <2>1 DEF AcceptanceInv, KeptIsConfirmed
<1>6. CASE returned.status = "completed" /\ Validation(returned) = "pass"
  <2>1. /\ kept'.draft = returned.draft
        /\ kept'.claims = [i \in DOMAIN returned.claims |->
                             [says |-> returned.claims[i].text,
                              assertions |-> returned.claims[i].grounding]]
    BY <1>6 DEF KeepResult
  <2>2. Validated(returned)
    BY <1>6, PassIsValidated
  <2>3. PICK k : k = kept'
    OBVIOUS
  <2>4. k.draft = returned.draft /\
        k.claims = [i \in DOMAIN returned.claims |->
                             [says |-> returned.claims[i].text,
                              assertions |-> returned.claims[i].grounding]]
    BY <2>1, <2>3
  <2>5. CandidateClaims(returned.claims)
    BY <1>2, <1>6
  <2>6. Confirmed(k)
    BY <1>1, <2>2, <2>4, <2>5, ValidatedIsConfirmed
  <2>7. KeptIsConfirmed'
    BY <1>1, <2>3, <2>6 DEF KeptIsConfirmed, Confirmed
  <2>8. QED
    BY <1>1, <1>2, <1>3, <2>7 DEF AcceptanceInv
<1>7. QED
  BY <1>2, <1>4, <1>5, <1>6

LEMMA AcceptanceInitInv == AcceptanceInit => AcceptanceInv
<1> SUFFICES ASSUME AcceptanceInit PROVE AcceptanceInv
  OBVIOUS
<1>1. /\ policy \in DraftSettings /\ workload = Nothing /\ returned = Nothing
      /\ kept = Nothing
  BY AcceptanceAssumption DEF AcceptanceInit
<1>2. returned.status = "none" /\ kept.status = "none"
  BY <1>1, NothingIs
<1>3. QED
  BY <1>1, <1>2 DEF AcceptanceInv, KeptIsConfirmed

LEMMA AcceptanceNextInv == AcceptanceInv /\ [AcceptanceNext]_acceptanceVars => AcceptanceInv'
<1> SUFFICES ASSUME AcceptanceInv, [AcceptanceNext]_acceptanceVars PROVE AcceptanceInv'
  OBVIOUS
<1>1. CASE UNCHANGED acceptanceVars
  <2>1. UNCHANGED <<policy, workload, returned, kept>>
    BY <1>1 DEF acceptanceVars
  <2>2. KeptIsConfirmed'
    BY <2>1 DEF AcceptanceInv, KeptIsConfirmed
  <2>3. CandidateClaims(returned.claims) => CandidateClaims(returned.claims)'
    BY <2>1 DEF CandidateClaims
  <2>4. QED
    BY <2>1, <2>2, <2>3 DEF AcceptanceInv
<1>2. QED
  BY <1>1, AdmitWordsKeeps, AcceptKeeps, KeepResultKeeps DEF AcceptanceNext

\* For any facts, words, policies and formats, and whatever a provider answers: what
\* is kept as a draft says only, and of a paraphrase all, that the reviewer confirmed.
THEOREM KeptTheorem == AcceptanceSpec => []KeptIsConfirmed
<1>1. AcceptanceInv => KeptIsConfirmed
  BY DEF AcceptanceInv
<1>2. QED
  BY <1>1, AcceptanceInitInv, AcceptanceNextInv, PTL DEF AcceptanceSpec
-----------------------------------------------------------------------------
(* A visit and its review: the inductive invariant *)

\* The operators below take the challenges (ops), pages (tabs), cookies and reviews that
\* they speak of, so that they can be said of the states before and after a step.
Opened(ops, v) == v \in Visit /\ ops[v].at # "none"
Pending(c) == c # NoCall /\ c.op = "visit" /\ c.answer = "prepared"
Arriving(tabs, v) == \E t \in Tab : Pending(tabs[t].call) /\ tabs[t].call.of = v

\* A capability that its browser has been given, by the visit of its name.
Given(ops, tabs, w, b) ==
    /\ Opened(ops, w) /\ ops[w].by = w /\ ops[w].browser = b
    /\ ~Arriving(tabs, w)

CallSound(ops, tabs, c, b) == c # NoCall =>
    /\ c = [op |-> c.op, of |-> c.of, link |-> c.link, by |-> c.by, csrf |-> c.csrf,
            browser |-> c.browser, answer |-> c.answer]
    /\ c.op \in {"visit", "start", "verify", "forget"}
    /\ c.answer \in {"sent", "prepared"}
    /\ c.browser = b
    /\ c.by # 0 => Given(ops, tabs, c.by, b)
    /\ c.op # "visit" => Opened(ops, c.of)
    /\ c.answer = "prepared" => /\ c.op = "visit" /\ Opened(ops, c.of)
                                /\ ops[c.of].by = Capability(c, c.of)
                                /\ ops[c.of].browser = b

\* While the cookie a visit set lives and was not replaced, it is its browser's.
OpeningSound(ops, tabs, cookies, h, v) == Opened(ops, v) =>
    /\ ops[v] = [at |-> ops[v].at, by |-> ops[v].by, ends |-> ops[v].ends,
                 invited |-> ops[v].invited, chosen |-> ops[v].chosen,
                 failed |-> ops[v].failed, browser |-> ops[v].browser,
                 lapse |-> ops[v].lapse, replaced |-> ops[v].replaced]
    /\ ops[v].lapse \in Nat /\ ops[v].lapse <= h + CookieTTL
    /\ ops[v].browser \in Browser
    /\ ops[v].by = v \/ Given(ops, tabs, ops[v].by, ops[v].browser)
    /\ h < ops[v].lapse /\ ~ops[v].replaced =>
         cookies[ops[v].browser] = [capability |-> v, ends |-> ops[v].lapse]

CookieSound(ops, tabs, cookies, b) ==
    cookies[b].capability = 0 \/ Given(ops, tabs, cookies[b].capability, b)

\* A review is bound to the capability of its challenge, and outlives the cookie.
ReviewSound(ops, tabs, reviews, v) == reviews[v].at # "none" =>
    /\ reviews[v] = [at |-> reviews[v].at, by |-> reviews[v].by, ends |-> reviews[v].ends,
                     asked |-> reviews[v].asked]
    /\ reviews[v].at \in {"open", "forgotten"}
    /\ reviews[v].at = "forgotten" => reviews[v].asked
    /\ Opened(ops, v) /\ reviews[v].by = ops[v].by
    /\ Given(ops, tabs, reviews[v].by, ops[v].browser)
    /\ reviews[v].ends \in Nat /\ ops[reviews[v].by].lapse <= reviews[v].ends

EntryPages == {"entry", "verification", "unaided"}

\* A page is one of a challenge that its browser opened, or an address.
PageSound(ops, reviews, n, b) ==
    /\ n = [page |-> n.page, of |-> n.of, csrf |-> n.csrf, call |-> n.call]
    /\ n.page # "away" => Opened(ops, n.of)
    /\ n.page \in EntryPages \cup {"review"} => ops[n.of].browser = b
    /\ n.page = "review" => reviews[n.of].at # "none"
    /\ n.call # NoCall => \/ n.call.op = "visit" /\ n.page = "away"
                          \/ n.call.op = "start" /\ n.page = "entry"
                          \/ n.call.op = "verify" /\ n.page = "verification"
                          \/ n.call.op = "forget" /\ n.page = "review"

\* No challenge is two tabs' to arrive at.
ArrivalsApart(tabs) == \A t, u \in Tab :
    Pending(tabs[t].call) /\ Pending(tabs[u].call) /\ tabs[t].call.of = tabs[u].call.of => t = u

VisitInv ==
    /\ hour \in Nat /\ home \in [Tab -> Browser]
    /\ cookie = [b \in Browser |-> cookie[b]] /\ tab = [t \in Tab |-> tab[t]]
    /\ opening = [v \in Visit |-> opening[v]] /\ review = [v \in Visit |-> review[v]]
    /\ \A v \in Visit : OpeningSound(opening, tab, cookie, hour, v)
    /\ \A b \in Browser : CookieSound(opening, tab, cookie, b)
    /\ \A v \in Visit : ReviewSound(opening, tab, review, v)
    /\ \A t \in Tab : /\ PageSound(opening, review, tab[t], home[t])
                      /\ CallSound(opening, tab, tab[t].call, home[t])
    /\ stray # NoCall => stray.browser \in Browser /\ stray.answer = "sent"
    /\ CallSound(opening, tab, stray, stray.browser)
    /\ ArrivalsApart(tab)

-----------------------------------------------------------------------------
(* What a step leaves as it was *)

\* What was opened stays so, by whom it was; only a challenge that is arrived at gets a
\* lapse; and only what was not opened gets a tab to arrive at it.
Grows(ops, tabs, ops2, tabs2) ==
    /\ \A v \in Visit : Opened(ops, v) =>
         /\ Opened(ops2, v) /\ ops2[v].by = ops[v].by /\ ops2[v].browser = ops[v].browser
         /\ ops2[v].lapse = ops[v].lapse \/ Arriving(tabs, v)
    /\ \A v \in Visit : Arriving(tabs2, v) => Arriving(tabs, v) \/ ~Opened(ops, v)

LEMMA GivenStays ==
    ASSUME NEW ops, NEW tabs, NEW ops2, NEW tabs2, Grows(ops, tabs, ops2, tabs2),
           NEW w, NEW b, Given(ops, tabs, w, b)
    PROVE  Given(ops2, tabs2, w, b) /\ ops2[w].lapse = ops[w].lapse
  BY DEF Given, Grows, Opened

LEMMA CallStays ==
    ASSUME NEW ops, NEW tabs, NEW ops2, NEW tabs2, Grows(ops, tabs, ops2, tabs2),
           NEW c, NEW b, CallSound(ops, tabs, c, b)
    PROVE  CallSound(ops2, tabs2, c, b)
<1>1. c # NoCall /\ c.by # 0 => Given(ops2, tabs2, c.by, b)
  BY GivenStays DEF CallSound
<1>2. \A v : Opened(ops, v) => Opened(ops2, v) /\ ops2[v].by = ops[v].by
                               /\ ops2[v].browser = ops[v].browser
  BY DEF Grows, Opened
<1>3. QED
  BY <1>1, <1>2 DEF CallSound

LEMMA OpeningStays ==
    ASSUME NEW ops, NEW tabs, NEW ops2, NEW tabs2, Grows(ops, tabs, ops2, tabs2),
           NEW cookies, NEW cookies2, NEW h \in Nat, NEW h2 \in Nat, h <= h2,
           NEW v \in Visit, ops2[v] = ops[v], Opened(ops, v),
           cookies2[ops[v].browser] = cookies[ops[v].browser],
           OpeningSound(ops, tabs, cookies, h, v)
    PROVE  OpeningSound(ops2, tabs2, cookies2, h2, v)
<1>1. ops[v].by = v \/ Given(ops2, tabs2, ops[v].by, ops[v].browser)
  BY GivenStays DEF OpeningSound
<1>2. /\ ops[v].lapse \in Nat /\ ops[v].lapse <= h + CookieTTL /\ CookieTTL \in Nat
      /\ h < ops[v].lapse /\ ~ops[v].replaced =>
           cookies[ops[v].browser] = [capability |-> v, ends |-> ops[v].lapse]
  BY VisitAssumption DEF OpeningSound
<1>3. /\ ops[v].lapse <= h2 + CookieTTL
      /\ h2 < ops[v].lapse => h < ops[v].lapse
  BY <1>2
<1>4. QED
  BY <1>1, <1>2, <1>3 DEF OpeningSound

LEMMA ReviewStays ==
    ASSUME NEW ops, NEW tabs, NEW ops2, NEW tabs2, Grows(ops, tabs, ops2, tabs2),
           NEW reviews, NEW reviews2, NEW v \in Visit, reviews2[v] = reviews[v],
           ReviewSound(ops, tabs, reviews, v)
    PROVE  ReviewSound(ops2, tabs2, reviews2, v)
<1>1. CASE reviews[v].at = "none"
  BY <1>1 DEF ReviewSound
<1>2. CASE reviews[v].at # "none"
  <2>1. PICK r : r = reviews[v]
    OBVIOUS
  <2>2. Given(ops, tabs, r.by, ops[v].browser) /\ Opened(ops, v)
    BY <1>2, <2>1 DEF ReviewSound
  <2>3. Given(ops2, tabs2, r.by, ops[v].browser) /\ ops2[r.by].lapse = ops[r.by].lapse
    BY <2>2, GivenStays
  <2>4. Opened(ops2, v) /\ ops2[v].by = ops[v].by /\ ops2[v].browser = ops[v].browser
    BY <2>2 DEF Grows
  <2>5. QED
    BY <1>2, <2>1, <2>3, <2>4 DEF ReviewSound
<1>3. QED
  BY <1>1, <1>2

LEMMA PageStays ==
    ASSUME NEW ops, NEW tabs, NEW ops2, NEW tabs2, Grows(ops, tabs, ops2, tabs2),
           NEW reviews, NEW reviews2, \A v \in Visit : reviews[v].at # "none" => reviews2[v].at # "none",
           NEW n, NEW b, PageSound(ops, reviews, n, b)
    PROVE  PageSound(ops2, reviews2, n, b)
<1>1. Opened(ops, n.of) => /\ Opened(ops2, n.of) /\ ops2[n.of].browser = ops[n.of].browser
                           /\ n.of \in Visit
  BY DEF Grows, Opened
<1>2. "away" \notin EntryPages \cup {"review"}
  BY DEF EntryPages
<1>3. QED
  BY <1>1, <1>2 DEF PageSound

LEMMA CookieStays ==
    ASSUME NEW ops, NEW tabs, NEW ops2, NEW tabs2, Grows(ops, tabs, ops2, tabs2),
           NEW cookies, NEW cookies2, NEW b, cookies2[b] = cookies[b],
           CookieSound(ops, tabs, cookies, b)
    PROVE  CookieSound(ops2, tabs2, cookies2, b)
  BY GivenStays DEF CookieSound

\* What is left to show of a step.
LEMMA VisitStep ==
    ASSUME VisitInv, Grows(opening, tab, opening', tab'),
           hour' \in Nat, hour <= hour', home' = home,
           cookie' = [b \in Browser |-> cookie'[b]], tab' = [t \in Tab |-> tab'[t]],
           opening' = [v \in Visit |-> opening'[v]], review' = [v \in Visit |-> review'[v]],
           \A v \in Visit : \/ /\ opening'[v] = opening[v]
                               /\ Opened(opening, v) => cookie'[opening[v].browser] = cookie[opening[v].browser]
                            \/ OpeningSound(opening', tab', cookie', hour', v),
           \A b \in Browser : cookie'[b] = cookie[b] \/ CookieSound(opening', tab', cookie', b),
           \A v \in Visit : /\ review'[v] = review[v] \/ ReviewSound(opening', tab', review', v)
                            /\ review[v].at # "none" => review'[v].at # "none",
           \A t \in Tab : \/ tab'[t] = tab[t]
                          \/ /\ PageSound(opening', review', tab'[t], home[t])
                             /\ CallSound(opening', tab', tab'[t].call, home[t]),
           stray' = stray \/ (/\ stray' # NoCall => stray'.browser \in Browser /\ stray'.answer = "sent"
                              /\ CallSound(opening', tab', stray', stray'.browser)),
           ArrivalsApart(tab')
    PROVE  VisitInv'
<1>1. hour \in Nat
  BY DEF VisitInv
<1>2. \A v \in Visit : OpeningSound(opening', tab', cookie', hour', v)
  <2>1. TAKE v \in Visit
  <2>2. CASE opening'[v] = opening[v] /\ ~Opened(opening, v)
    BY <2>2 DEF OpeningSound, Opened
  <2>3. CASE opening'[v] = opening[v] /\ Opened(opening, v)
              /\ cookie'[opening[v].browser] = cookie[opening[v].browser]
    BY <1>1, <2>3, OpeningStays DEF VisitInv
  <2>4. QED
    BY <2>2, <2>3
<1>3. \A b \in Browser : CookieSound(opening', tab', cookie', b)
  BY CookieStays DEF VisitInv
<1>4. \A v \in Visit : ReviewSound(opening', tab', review', v)
  BY ReviewStays DEF VisitInv
<1>5. ASSUME NEW t \in Tab
      PROVE  /\ PageSound(opening', review', tab'[t], home[t])
             /\ CallSound(opening', tab', tab'[t].call, home[t])
  <2>1. CASE tab'[t] = tab[t]
    <3>1. PageSound(opening, review, tab[t], home[t]) /\ CallSound(opening, tab, tab[t].call, home[t])
      BY DEF VisitInv
    <3>2. PageSound(opening', review', tab[t], home[t])
      BY <3>1, PageStays
    <3>3. CallSound(opening', tab', tab[t].call, home[t])
      BY <3>1, CallStays
    <3>4. QED
      BY <2>1, <3>2, <3>3
  <2>2. QED
    BY <2>1
<1>6. /\ stray' # NoCall => stray'.browser \in Browser /\ stray'.answer = "sent"
      /\ CallSound(opening', tab', stray', stray'.browser)
  <2>1. CASE stray' = stray
    <3>1. /\ stray # NoCall => stray.browser \in Browser /\ stray.answer = "sent"
          /\ CallSound(opening, tab, stray, stray.browser)
      BY DEF VisitInv
    <3>2. CallSound(opening', tab', stray, stray.browser)
      BY <3>1, CallStays
    <3>3. QED
      BY <2>1, <3>1, <3>2
  <2>2. QED
    BY <2>1
<1>7. QED
  BY <1>2, <1>3, <1>4, <1>5, <1>6 DEF VisitInv

\* A step that neither gives a cookie nor prepares a visit.
Amended(o, o2) == o2 = o \/ (o.at # "none" /\ o2 = [at |-> o2.at, by |-> o.by, ends |-> o.ends,
    invited |-> o.invited, chosen |-> o2.chosen, failed |-> o2.failed,
    browser |-> o.browser, lapse |-> o.lapse, replaced |-> o.replaced] /\ o2.at # "none")

LEMMA QuietStep ==
    ASSUME VisitInv, hour' \in Nat, hour <= hour', home' = home, cookie' = cookie,
           tab' = [t \in Tab |-> tab'[t]],
           opening' = [v \in Visit |-> opening'[v]], review' = [v \in Visit |-> review'[v]],
           \A v \in Visit : Amended(opening[v], opening'[v]),
           \A v \in Visit : /\ review'[v] = review[v] \/ ReviewSound(opening, tab, review', v)
                            /\ review[v].at # "none" => review'[v].at # "none",
           \A t \in Tab : \/ tab'[t] = tab[t]
                          \/ /\ PageSound(opening, review', tab'[t], home[t])
                             /\ CallSound(opening, tab, tab'[t].call, home[t])
                             /\ ~Pending(tab'[t].call),
           stray' = stray \/ (/\ stray' # NoCall => stray'.browser \in Browser /\ stray'.answer = "sent"
                              /\ CallSound(opening, tab, stray', stray'.browser))
    PROVE  VisitInv'
<1>1. \A v \in Visit : Arriving(tab', v) => Arriving(tab, v)
  BY DEF Arriving
<1>2. \A v \in Visit : Opened(opening, v) =>
         /\ Opened(opening', v) /\ opening'[v].by = opening[v].by
         /\ opening'[v].browser = opening[v].browser /\ opening'[v].lapse = opening[v].lapse
  <2>1. SUFFICES ASSUME NEW v \in Visit, Opened(opening, v)
                 PROVE  /\ Opened(opening', v) /\ opening'[v].by = opening[v].by
                        /\ opening'[v].browser = opening[v].browser
                        /\ opening'[v].lapse = opening[v].lapse
    OBVIOUS
  <2>2. Amended(opening[v], opening'[v])
    OBVIOUS
  <2>3. QED
    BY <2>1, <2>2 DEF Amended, Opened
<1>3. Grows(opening, tab, opening', tab')
  BY <1>1, <1>2 DEF Grows
<1>4. ASSUME NEW v \in Visit, opening'[v] # opening[v]
      PROVE  OpeningSound(opening', tab', cookie', hour', v)
  <2>1. PICK o : o = opening[v]
    OBVIOUS
  <2>2. PICK o2 : o2 = opening'[v]
    OBVIOUS
  <2>3. Opened(opening, v) /\ o2.at # "none"
        /\ o2 = [at |-> o2.at, by |-> o.by, ends |-> o.ends,
                 invited |-> o.invited, chosen |-> o2.chosen, failed |-> o2.failed,
                 browser |-> o.browser, lapse |-> o.lapse, replaced |-> o.replaced]
    BY <1>4, <2>1, <2>2 DEF Amended, Opened
  <2>4. OpeningSound(opening, tab, cookie, hour, v) /\ hour \in Nat
    BY DEF VisitInv
  <2>5. /\ o.lapse \in Nat /\ o.lapse <= hour + CookieTTL /\ o.browser \in Browser
        /\ o.by = v \/ Given(opening, tab, o.by, o.browser)
        /\ hour < o.lapse /\ ~o.replaced => cookie[o.browser] = [capability |-> v, ends |-> o.lapse]
    BY <2>1, <2>3, <2>4 DEF OpeningSound
  <2>6. o.by = v \/ Given(opening', tab', o.by, o.browser)
    BY <1>3, <2>5, GivenStays
  <2>7. o.lapse <= hour' + CookieTTL /\ (hour' < o.lapse => hour < o.lapse)
    BY <2>4, <2>5, VisitAssumption
  <2>8. /\ o2.by = o.by /\ o2.browser = o.browser /\ o2.lapse = o.lapse /\ o2.replaced = o.replaced
        /\ o2.ends = o.ends /\ o2.invited = o.invited
    BY <2>3
  <2>9. QED
    BY <2>2, <2>3, <2>5, <2>6, <2>7, <2>8 DEF OpeningSound
<1>5. ASSUME NEW v \in Visit
      PROVE  review'[v] = review[v] \/ ReviewSound(opening', tab', review', v)
  BY <1>3, ReviewStays
<1>6. ASSUME NEW t \in Tab, tab'[t] # tab[t]
      PROVE  /\ PageSound(opening', review', tab'[t], home[t])
             /\ CallSound(opening', tab', tab'[t].call, home[t])
  <2>1. /\ PageSound(opening, review', tab'[t], home[t])
        /\ CallSound(opening, tab, tab'[t].call, home[t])
    BY <1>6
  <2>2. PageSound(opening', review', tab'[t], home[t])
    BY <1>3, <2>1, PageStays
  <2>3. CallSound(opening', tab', tab'[t].call, home[t])
    BY <1>3, <2>1, CallStays
  <2>4. QED
    BY <2>2, <2>3
<1>7. stray' = stray \/ (/\ stray' # NoCall => stray'.browser \in Browser /\ stray'.answer = "sent"
                         /\ CallSound(opening', tab', stray', stray'.browser))
  BY <1>3, CallStays
<1>8. ArrivalsApart(tab')
  BY DEF VisitInv, ArrivalsApart
<1>9. cookie' = [b \in Browser |-> cookie'[b]]
  BY DEF VisitInv
<1>10. QED
  BY <1>3, <1>4, <1>5, <1>6, <1>7, <1>8, <1>9, VisitStep

-----------------------------------------------------------------------------
(* The requests of a page *)

\* A name of a visit is not 0, which is no capability.
LEMMA GivenSome ==
    ASSUME NEW ops, NEW tabs, NEW w, NEW b, Given(ops, tabs, w, b)
    PROVE  w # 0
  BY VisitAssumption DEF Given, Opened

LEMMA CarriedGiven ==
    ASSUME VisitInv, NEW b \in Browser, Carried(b) # 0
    PROVE  Given(opening, tab, Carried(b), b)
<1>1. CookieSound(opening, tab, cookie, b)
  BY DEF VisitInv
<1>2. Carried(b) = cookie[b].capability
  BY DEF Carried
<1>3. QED
  BY <1>1, <1>2 DEF CookieSound

\* Who holds the capability of a challenge is the browser it was opened in.
LEMMA HolderOpened ==
    ASSUME VisitInv, NEW v \in Visit, Opened(opening, v), NEW b,
           Given(opening, tab, opening[v].by, b) \/ opening[v].by = 0
    PROVE  /\ opening[v].by # 0 /\ opening[v].browser = b
<1>1. PICK w : w = opening[v].by
  OBVIOUS
<1>2. w = v \/ Given(opening, tab, w, opening[v].browser)
  BY <1>1 DEF VisitInv, OpeningSound
<1>3. w # 0
  BY <1>2, GivenSome, VisitAssumption
<1>4. Given(opening, tab, w, b)
  BY <1>1, <1>3
<1>5. QED
  BY <1>1, <1>2, <1>3, <1>4 DEF Given

LEMMA CallMade ==
    ASSUME VisitInv, NEW t \in Tab, NEW op \in {"visit", "start", "verify", "forget"}, NEW link,
           op # "visit" => tab[t].page # "away"
    PROVE  CallSound(opening, tab, Call(t, op, link), home[t]) /\ ~Pending(Call(t, op, link))
<1>1. home[t] \in Browser
  BY DEF VisitInv
<1>2. Carried(home[t]) # 0 => Given(opening, tab, Carried(home[t]), home[t])
  BY <1>1, CarriedGiven
<1>3. op # "visit" => Opened(opening, tab[t].of)
  BY DEF VisitInv, PageSound
<1>4. PICK c : c = Call(t, op, link)
  OBVIOUS
<1>5. /\ c = [op |-> op, of |-> tab[t].of, link |-> link, by |-> Carried(home[t]),
              csrf |-> tab[t].csrf, browser |-> home[t], answer |-> "sent"]
  BY <1>4 DEF Call
<1>6. QED
  BY <1>2, <1>3, <1>4, <1>5 DEF CallSound, Pending

LEMMA TabShape ==
    ASSUME VisitInv, NEW t \in Tab
    PROVE  /\ tab = [u \in Tab |-> tab[u]]
           /\ tab[t] = [page |-> tab[t].page, of |-> tab[t].of, csrf |-> tab[t].csrf,
                        call |-> tab[t].call]
  BY DEF VisitInv, PageSound

LEMMA SendsKeep ==
    ASSUME VisitInv, NEW t \in Tab, NEW shown, NEW op, NEW link, Sends(t, shown, op, link),
           shown = tab[t].page,
           \/ op = "visit" /\ shown = "away"
           \/ op = "start" /\ shown = "entry"
           \/ op = "verify" /\ shown = "verification"
           \/ op = "forget" /\ shown = "review"
    PROVE  VisitInv'
<1>1. CallSound(opening, tab, Call(t, op, link), home[t]) /\ ~Pending(Call(t, op, link))
  BY CallMade
<1>2. PICK c : c = Call(t, op, link)
  OBVIOUS
<1>3. PICK n : n = [page |-> shown, of |-> tab[t].of, csrf |-> tab[t].csrf, call |-> c]
  OBVIOUS
<1>4. tab' = [tab EXCEPT ![t] = n]
  <2>1. PICK m : m = tab[t]
    OBVIOUS
  <2>2. m = [page |-> m.page, of |-> m.of, csrf |-> m.csrf, call |-> m.call]
    BY <2>1, TabShape
  <2>3. m.page = shown /\ n = [m EXCEPT !.call = c] /\ m = [m EXCEPT !.page = shown]
    <3>1. m.page = shown /\ m = [m EXCEPT !.page = shown]
      BY <2>1, <2>2
    <3>2. n = [m EXCEPT !.call = c]
      BY <1>3, <2>1, <2>2, <3>1
    <3>3. QED
      BY <3>1, <3>2
  <2>4. PICK q : q = [tab EXCEPT ![t].page = shown]
    OBVIOUS
  <2>5. tab' = [q EXCEPT ![t].call = c]
    BY <1>2, <2>4 DEF Sends
  <2>6. tab = [u \in Tab |-> tab[u]]
    BY TabShape
  <2>7. q = [u \in Tab |-> IF u = t THEN [m EXCEPT !.page = shown] ELSE tab[u]]
    BY <2>1, <2>4, <2>6
  <2>8. tab' = [u \in Tab |-> IF u = t THEN [[m EXCEPT !.page = shown] EXCEPT !.call = c] ELSE tab[u]]
    BY <2>5, <2>7
  <2>9. QED
    BY <2>3, <2>6, <2>8
<1>5. c.op = op
  BY <1>2 DEF Call
<1>6. PageSound(opening, review, n, home[t])
  BY <1>3, <1>5 DEF VisitInv, PageSound
<1>7. CallSound(opening, tab, n.call, home[t]) /\ ~Pending(n.call)
  BY <1>1, <1>2, <1>3
<1>8. \A u \in Tab : u # t => tab'[u] = tab[u]
  BY <1>4, TabShape
<1>9. tab' = [u \in Tab |-> tab'[u]] /\ tab'[t] = n
  BY <1>4, TabShape
<1>10. UNCHANGED <<hour, home, cookie, opening, review, stray>>
  BY DEF Sends
<1>11. /\ opening' = [v \in Visit |-> opening'[v]] /\ review' = [v \in Visit |-> review'[v]]
       /\ hour' \in Nat /\ hour <= hour'
       /\ \A v \in Visit : Amended(opening[v], opening'[v])
  BY <1>10 DEF VisitInv, Amended
<1>12. QED
  BY <1>6, <1>7, <1>8, <1>9, <1>10, <1>11, QuietStep

TabAs(t, shown, of, csrf, call) ==
    [tab EXCEPT ![t].page = shown, ![t].of = of, ![t].csrf = csrf, ![t].call = call]

LEMMA TabBecomes ==
    ASSUME VisitInv, NEW t \in Tab, NEW shown, NEW of, NEW csrf, NEW call, NEW f,
           f = TabAs(t, shown, of, csrf, call)
    PROVE  /\ f = [u \in Tab |-> f[u]] /\ \A u \in Tab : u # t => f[u] = tab[u]
           /\ f[t] = [page |-> shown, of |-> of, csrf |-> csrf, call |-> call]
<1>1. PICK m : m = tab[t]
  OBVIOUS
<1>2. /\ m = [page |-> m.page, of |-> m.of, csrf |-> m.csrf, call |-> m.call]
      /\ tab = [u \in Tab |-> tab[u]]
  BY <1>1, TabShape
<1>3. PICK m1 : m1 = [page |-> shown, of |-> m.of, csrf |-> m.csrf, call |-> m.call]
  OBVIOUS
<1>4. PICK m2 : m2 = [page |-> shown, of |-> of, csrf |-> m.csrf, call |-> m.call]
  OBVIOUS
<1>5. PICK m3 : m3 = [page |-> shown, of |-> of, csrf |-> csrf, call |-> m.call]
  OBVIOUS
<1>6. PICK f1 : f1 = [tab EXCEPT ![t].page = shown]
  OBVIOUS
<1>7. PICK f2 : f2 = [f1 EXCEPT ![t].of = of]
  OBVIOUS
<1>8. PICK f3 : f3 = [f2 EXCEPT ![t].csrf = csrf]
  OBVIOUS
<1>9. f = [f3 EXCEPT ![t].call = call]
  BY <1>6, <1>7, <1>8 DEF TabAs
<1>10. m1 = [m EXCEPT !.page = shown]
  BY <1>2, <1>3
<1>11. f1 = [u \in Tab |-> IF u = t THEN m1 ELSE tab[u]]
  BY <1>1, <1>2, <1>6, <1>10
<1>12. m2 = [m1 EXCEPT !.of = of]
  BY <1>3, <1>4
<1>13. f2 = [u \in Tab |-> IF u = t THEN m2 ELSE tab[u]]
  BY <1>7, <1>11, <1>12
<1>14. m3 = [m2 EXCEPT !.csrf = csrf]
  BY <1>4, <1>5
<1>15. f3 = [u \in Tab |-> IF u = t THEN m3 ELSE tab[u]]
  BY <1>8, <1>13, <1>14
<1>16. PICK m4 : m4 = [page |-> shown, of |-> of, csrf |-> csrf, call |-> call]
  OBVIOUS
<1>17. m4 = [m3 EXCEPT !.call = call]
  BY <1>5, <1>16
<1>18. f = [u \in Tab |-> IF u = t THEN m4 ELSE tab[u]]
  BY <1>9, <1>15, <1>17
<1>19. QED
  BY <1>2, <1>16, <1>18

\* The page that hears an answer is one its browser may show.
LEMMA HeardPage ==
    ASSUME VisitInv, NEW t \in Tab, tab[t].call # NoCall, NEW word, Hears(t, word),
           word = "forgotten" => tab[t].call.op = "forget",
           word = "admitted" => tab[t].call.op \in {"start", "verify"}
    PROVE  /\ tab' = [u \in Tab |-> tab'[u]] /\ \A u \in Tab : u # t => tab'[u] = tab[u]
           /\ tab'[t].call = NoCall
           /\ PageSound(opening, review, tab'[t], home[t])
<1>1. PICK shown : shown = Turned(tab[t].page, tab[t].call.op, word)
  OBVIOUS
<1>2. PICK of : of = IF word = "forgotten" THEN 0 ELSE tab[t].of
  OBVIOUS
<1>3. PICK csrf : csrf = IF word = "admitted" THEN 0 ELSE tab[t].csrf
  OBVIOUS
<1>4. tab' = TabAs(t, shown, of, csrf, NoCall)
  BY <1>1, <1>2, <1>3 DEF Hears, TabAs
<1>5. PICK n : n = [page |-> shown, of |-> of, csrf |-> csrf, call |-> NoCall]
  OBVIOUS
<1>6. /\ tab' = [u \in Tab |-> tab'[u]] /\ \A u \in Tab : u # t => tab'[u] = tab[u]
      /\ tab'[t] = n
  BY <1>4, <1>5, TabBecomes
<1>7. PageSound(opening, review, tab[t], home[t])
  BY DEF VisitInv
<1>8. \/ shown = "away"
      \/ /\ of = tab[t].of /\ tab[t].page # "away"
         /\ shown = "resuming" \/ shown = tab[t].page
            \/ (shown \in EntryPages /\ tab[t].page \in EntryPages)
  <2>1. PICK op : op = tab[t].call.op
    OBVIOUS
  <2>2. PICK was : was = tab[t].page
    OBVIOUS
  <2>3. \/ op = "visit" /\ was = "away"
        \/ op = "start" /\ was = "entry"
        \/ op = "verify" /\ was = "verification"
        \/ op = "forget" /\ was = "review"
    BY <1>7, <2>1, <2>2 DEF PageSound
  <2>4. CASE op = "visit" /\ was = "away"
    BY <1>1, <2>1, <2>2, <2>4 DEF Turned
  <2>5. CASE op = "start" /\ was = "entry"
    <3>1. word # "forgotten"
      BY <2>1, <2>5
    <3>2. shown \in {"resuming", "entry", "verification"}
      BY <1>1, <2>1, <2>2, <2>5 DEF Turned
    <3>3. QED
      BY <1>2, <2>2, <2>5, <3>1, <3>2 DEF EntryPages
  <2>6. CASE op = "verify" /\ was = "verification"
    <3>1. word # "forgotten"
      BY <2>1, <2>6
    <3>2. shown \in {"resuming", "unaided", "verification"}
      BY <1>1, <2>1, <2>2, <2>6 DEF Turned
    <3>3. QED
      BY <1>2, <2>2, <2>6, <3>1, <3>2 DEF EntryPages
  <2>7. CASE op = "forget" /\ was = "review"
    <3>1. word # "admitted"
      BY <2>1, <2>7
    <3>2. IF word = "forgotten" THEN shown = "away" ELSE shown = "review"
      BY <1>1, <2>1, <2>2, <2>7, <3>1 DEF Turned
    <3>3. QED
      BY <1>2, <2>2, <2>7, <3>2
  <2>8. QED
    BY <2>3, <2>4, <2>5, <2>6, <2>7
<1>9. PageSound(opening, review, n, home[t])
  <2>1. n.page = shown /\ n.of = of /\ n.call = NoCall
    BY <1>5
  <2>2. "away" \notin EntryPages /\ "resuming" \notin EntryPages
    BY DEF EntryPages
  <2>3. shown # "away" => Opened(opening, of)
    BY <1>7, <1>8 DEF PageSound
  <2>4. shown \in EntryPages \cup {"review"} => opening[of].browser = home[t]
    BY <1>7, <1>8, <2>2 DEF PageSound
  <2>5. "review" \notin EntryPages
    BY DEF EntryPages
  <2>6. shown = "review" => review[of].at # "none"
    BY <1>7, <1>8, <2>5 DEF PageSound
  <2>7. QED
    BY <1>5, <2>1, <2>3, <2>4, <2>6 DEF PageSound
<1>10. QED
  BY <1>5, <1>6, <1>9

\* Who waits for an answer is a page, or nobody.
LEMMA CallHeld ==
    ASSUME VisitInv, NEW c \in Calls
    PROVE  /\ CallSound(opening, tab, c, c.browser) /\ c.browser \in Browser
           /\ c # NoCall /\ c.answer = "sent"
<1>1. c # NoCall /\ c.answer = "sent" /\ (c = stray \/ \E t \in Tab : c = tab[t].call)
  BY DEF Calls
<1>2. CASE c = stray
  BY <1>1, <1>2 DEF VisitInv
<1>3. ASSUME NEW t \in Tab, c = tab[t].call
      PROVE  CallSound(opening, tab, c, c.browser) /\ c.browser \in Browser
  <2>1. CallSound(opening, tab, c, home[t]) /\ home[t] \in Browser
    BY <1>3 DEF VisitInv
  <2>2. c.browser = home[t]
    BY <1>1, <2>1 DEF CallSound
  <2>3. QED
    BY <2>1, <2>2
<1>4. QED
  BY <1>1, <1>2, <1>3

LEMMA NoCallSound ==
    ASSUME NEW ops, NEW tabs, NEW b
    PROVE  CallSound(ops, tabs, NoCall, b) /\ ~Pending(NoCall)
  BY DEF CallSound, Pending

\* An answer, whatever it does to its own challenge and review.
LEMMA SaysKeep ==
    ASSUME VisitInv, NEW c \in Calls, NEW word, Says(c, word),
           word = "forgotten" => c.op = "forget",
           word = "admitted" => c.op \in {"start", "verify"},
           UNCHANGED <<hour, home, cookie>>,
           opening' = [v \in Visit |-> opening'[v]], review' = [v \in Visit |-> review'[v]],
           \A v \in Visit : Amended(opening[v], opening'[v]),
           \A v \in Visit : /\ review'[v] = review[v] \/ ReviewSound(opening, tab, review', v)
                            /\ review[v].at # "none" => review'[v].at # "none"
    PROVE  VisitInv'
<1>1. hour' \in Nat /\ hour <= hour'
  BY DEF VisitInv
<1>2. c # NoCall
  BY CallHeld
<1>3. CASE stray = c /\ stray' = NoCall /\ UNCHANGED tab
  <2>1. tab' = [t \in Tab |-> tab'[t]]
    BY <1>3 DEF VisitInv
  <2>2. /\ stray' # NoCall => stray'.browser \in Browser /\ stray'.answer = "sent"
        /\ CallSound(opening, tab, stray', stray'.browser)
    <3>1. stray' = NoCall
      BY <1>3
    <3>2. QED
      BY <3>1, NoCallSound
  <2>3. QED
    BY <1>1, <1>3, <2>1, <2>2, QuietStep
<1>4. ASSUME NEW t \in Tab, tab[t].call = c, Hears(t, word), UNCHANGED stray
      PROVE  VisitInv'
  <2>1. /\ tab' = [u \in Tab |-> tab'[u]] /\ \A u \in Tab : u # t => tab'[u] = tab[u]
        /\ tab'[t].call = NoCall
        /\ PageSound(opening, review, tab'[t], home[t])
    BY <1>2, <1>4, HeardPage
  <2>2. Grows(opening, tab, opening, tab)
    BY DEF Grows
  <2>3. PageSound(opening, review', tab'[t], home[t])
    BY <2>1, <2>2, PageStays
  <2>4. CallSound(opening, tab, tab'[t].call, home[t]) /\ ~Pending(tab'[t].call)
    BY <2>1, NoCallSound
  <2>5. QED
    BY <1>1, <1>4, <2>1, <2>3, <2>4, QuietStep
<1>5. QED
  BY <1>3, <1>4 DEF Says

\* A step of the pages only.
LEMMA PagesKeep ==
    ASSUME VisitInv, UNCHANGED <<hour, home, cookie, opening, review>>,
           tab' = [t \in Tab |-> tab'[t]],
           \A t \in Tab : \/ tab'[t] = tab[t]
                          \/ /\ PageSound(opening, review, tab'[t], home[t])
                             /\ CallSound(opening, tab, tab'[t].call, home[t])
                             /\ ~Pending(tab'[t].call),
           stray' = stray \/ (/\ stray' # NoCall => stray'.browser \in Browser /\ stray'.answer = "sent"
                              /\ CallSound(opening, tab, stray', stray'.browser))
    PROVE  VisitInv'
<1>1. /\ opening' = [v \in Visit |-> opening'[v]] /\ review' = [v \in Visit |-> review'[v]]
      /\ hour' \in Nat /\ hour <= hour'
      /\ \A v \in Visit : Amended(opening[v], opening'[v])
  BY DEF VisitInv, Amended
<1>2. QED
  BY <1>1, QuietStep

LEMMA HourKeeps ==
    ASSUME VisitInv, HourPasses
    PROVE  VisitInv'
<1>1. /\ hour' \in Nat /\ hour <= hour'
      /\ UNCHANGED <<home, cookie, opening, review, tab, stray>>
  BY DEF HourPasses, VisitInv
<1>2. /\ opening' = [v \in Visit |-> opening'[v]] /\ review' = [v \in Visit |-> review'[v]]
      /\ tab' = [t \in Tab |-> tab'[t]]
      /\ \A v \in Visit : Amended(opening[v], opening'[v])
  BY <1>1 DEF VisitInv, Amended
<1>3. QED
  BY <1>1, <1>2, QuietStep

LEMMA DeclinesKeep ==
    ASSUME VisitInv, NEW c \in Calls, Declines(c)
    PROVE  VisitInv'
<1>1. PICK word \in {"refused", "error"} : Says(c, word)
  BY DEF Declines
<1>2. /\ opening' = [v \in Visit |-> opening'[v]] /\ review' = [v \in Visit |-> review'[v]]
      /\ UNCHANGED <<hour, home, cookie, opening, review>>
      /\ \A v \in Visit : Amended(opening[v], opening'[v])
  BY DEF VisitInv, Amended, Declines
<1>3. word # "forgotten" /\ word # "admitted"
  OBVIOUS
<1>4. QED
  BY <1>1, <1>2, <1>3, SaysKeep

LEMMA LeftBehind ==
    ASSUME VisitInv, NEW t \in Tab, Lingers(tab[t].call)
    PROVE  /\ tab[t].call # NoCall /\ tab[t].call.browser \in Browser
           /\ tab[t].call.answer = "sent"
           /\ CallSound(opening, tab, tab[t].call, tab[t].call.browser)
  BY CallHeld DEF Lingers

LEMMA LoseKeeps ==
    ASSUME VisitInv, NEW t \in Tab, LoseAnswer(t)
    PROVE  VisitInv'
<1>1. /\ tab[t].call # NoCall /\ tab[t].call.browser \in Browser
      /\ tab[t].call.answer = "sent"
      /\ CallSound(opening, tab, tab[t].call, tab[t].call.browser)
  BY LeftBehind DEF LoseAnswer
<1>2. /\ tab' = [u \in Tab |-> tab'[u]] /\ \A u \in Tab : u # t => tab'[u] = tab[u]
      /\ tab'[t].call = NoCall
      /\ PageSound(opening, review, tab'[t], home[t])
  BY <1>1, HeardPage DEF LoseAnswer
<1>3. CallSound(opening, tab, tab'[t].call, home[t]) /\ ~Pending(tab'[t].call)
  BY <1>2, NoCallSound
<1>4. UNCHANGED <<hour, home, cookie, opening, review>> /\ stray' = tab[t].call
  BY DEF LoseAnswer
<1>5. QED
  BY <1>1, <1>2, <1>3, <1>4, PagesKeep

LEMMA ReloadKeeps ==
    ASSUME VisitInv, NEW t \in Tab, Reload(t)
    PROVE  VisitInv'
<1>1. PICK shown \in {"loading", "resuming"}, u \in Tab :
        Leaves(t, shown, tab[u].of) /\ (OnEntry(u) \/ OnReview(u))
  BY DEF Reload
<1>2. Opened(opening, tab[u].of)
  <2>1. tab[u].page # "away"
    BY <1>1 DEF OnEntry, OnReview
  <2>2. QED
    BY <2>1 DEF VisitInv, PageSound
<1>3. PICK n : n = [page |-> shown, of |-> tab[u].of, csrf |-> 0, call |-> NoCall]
  OBVIOUS
<1>4. n = [Blank EXCEPT !.page = shown, !.of = tab[u].of]
  <2>1. PICK m : m = [page |-> shown, of |-> 0, csrf |-> 0, call |-> NoCall]
    OBVIOUS
  <2>2. m = [Blank EXCEPT !.page = shown]
    BY <2>1 DEF Blank
  <2>3. n = [m EXCEPT !.of = tab[u].of]
    BY <1>3, <2>1
  <2>4. QED
    BY <2>2, <2>3
<1>5. tab' = [tab EXCEPT ![t] = n]
  BY <1>1, <1>4 DEF Leaves
<1>6. /\ tab' = [w \in Tab |-> tab'[w]] /\ \A w \in Tab : w # t => tab'[w] = tab[w]
      /\ tab'[t] = n
  BY <1>5, TabShape
<1>7. PageSound(opening, review, n, home[t])
  BY <1>2, <1>3 DEF PageSound, EntryPages
<1>8. CallSound(opening, tab, n.call, home[t]) /\ ~Pending(n.call)
  BY <1>3, NoCallSound
<1>9. UNCHANGED <<hour, home, cookie, opening, review>>
  BY <1>1 DEF Leaves
<1>10. stray' = stray \/ (/\ stray' # NoCall => stray'.browser \in Browser /\ stray'.answer = "sent"
                          /\ CallSound(opening, tab, stray', stray'.browser))
  <2>1. CASE Lingers(tab[t].call)
    <3>1. stray' = tab[t].call
      BY <1>1, <2>1 DEF Leaves
    <3>2. QED
      BY <2>1, <3>1, LeftBehind
  <2>2. CASE ~Lingers(tab[t].call)
    BY <1>1, <2>2 DEF Leaves
  <2>3. QED
    BY <2>1, <2>2
<1>11. QED
  BY <1>6, <1>7, <1>8, <1>9, <1>10, PagesKeep

LEMMA ReadKeeps ==
    ASSUME VisitInv, NEW t \in Tab, ReadEntry(t)
    PROVE  VisitInv'
<1>1. PICK v : v = tab[t].of
  OBVIOUS
<1>2. PICK by : by = Carried(home[t])
  OBVIOUS
<1>3. Call(t, "read", "none").of = v /\ Call(t, "read", "none").by = by
  BY <1>1, <1>2 DEF Call
<1>4. PICK word : /\ word \in {"refused", "error"} \/ (Resolvable(v, by) /\ word = Stage(v))
                  /\ tab' = [tab EXCEPT ![t].page = Turned(tab[t].page, "read", word),
                                        ![t].csrf = by]
  BY <1>3 DEF ReadEntry
<1>5. tab[t].page = "loading" /\ UNCHANGED <<hour, home, cookie, opening, review, stray>>
  BY DEF ReadEntry
<1>6. PICK shown : shown = Turned(tab[t].page, "read", word)
  OBVIOUS
<1>7. PageSound(opening, review, tab[t], home[t]) /\ tab[t].call = NoCall /\ Opened(opening, v)
  <2>1. PageSound(opening, review, tab[t], home[t])
    BY DEF VisitInv
  <2>2. QED
    BY <1>1, <1>5, <2>1 DEF PageSound
<1>8. PICK n : n = [page |-> shown, of |-> v, csrf |-> by, call |-> NoCall]
  OBVIOUS
<1>9. /\ tab' = [u \in Tab |-> tab'[u]] /\ \A u \in Tab : u # t => tab'[u] = tab[u]
      /\ tab'[t] = n
  <2>1. PICK m : m = tab[t]
    OBVIOUS
  <2>2. m = [page |-> m.page, of |-> v, csrf |-> m.csrf, call |-> NoCall]
    BY <1>1, <1>7, <2>1, TabShape
  <2>3. PICK f : f = [tab EXCEPT ![t].page = shown]
    OBVIOUS
  <2>4. tab' = [f EXCEPT ![t].csrf = by]
    BY <1>4, <1>6, <2>3
  <2>5. PICK m1 : m1 = [page |-> shown, of |-> v, csrf |-> m.csrf, call |-> NoCall]
    OBVIOUS
  <2>6. m1 = [m EXCEPT !.page = shown] /\ n = [m1 EXCEPT !.csrf = by]
    BY <1>8, <2>2, <2>5
  <2>7. f = [u \in Tab |-> IF u = t THEN m1 ELSE tab[u]]
    BY <2>1, <2>3, <2>6, TabShape
  <2>8. tab' = [u \in Tab |-> IF u = t THEN n ELSE tab[u]]
    BY <2>4, <2>6, <2>7
  <2>9. QED
    BY <2>8
<1>10. shown = "loading" \/ (shown \in EntryPages /\ Resolvable(v, by))
  <2>1. CASE word \in {"refused", "error"}
    BY <1>5, <1>6, <2>1 DEF Turned
  <2>2. CASE Resolvable(v, by) /\ word = Stage(v)
    <3>1. word \in EntryPages /\ word \notin {"refused", "error"}
      BY <2>2 DEF Stage, EntryPages
    <3>2. shown = word
      BY <1>6, <3>1 DEF Turned
    <3>3. QED
      BY <2>2, <3>1, <3>2
  <2>3. QED
    BY <1>4, <2>1, <2>2
<1>11. Resolvable(v, by) => opening[v].browser = home[t]
  <2>1. SUFFICES ASSUME Resolvable(v, by) PROVE opening[v].browser = home[t]
    OBVIOUS
  <2>2. opening[v].by = by /\ v \in Visit
    BY <1>7, <2>1 DEF Resolvable, Opened
  <2>3. home[t] \in Browser
    BY DEF VisitInv
  <2>4. by # 0 => Given(opening, tab, by, home[t])
    BY <1>2, <2>3, CarriedGiven
  <2>5. QED
    BY <1>7, <2>2, <2>4, HolderOpened
<1>12. PageSound(opening, review, n, home[t])
  <2>1. shown # "review"
    BY <1>10 DEF EntryPages
  <2>2. "loading" \notin EntryPages
    BY DEF EntryPages
  <2>3. n.page = shown /\ n.of = v /\ n.call = NoCall
    BY <1>8
  <2>4. QED
    BY <1>7, <1>8, <1>10, <1>11, <2>1, <2>2, <2>3 DEF PageSound
<1>13. CallSound(opening, tab, n.call, home[t]) /\ ~Pending(n.call)
  BY <1>8, NoCallSound
<1>14. QED
  BY <1>5, <1>9, <1>12, <1>13, PagesKeep

LEMMA NoCodeKeeps ==
    ASSUME VisitInv, NEW t \in Tab, NoCode(t)
    PROVE  VisitInv'
<1>1. UNCHANGED <<hour, home, cookie, opening, review, stray>>
  BY DEF NoCode
<1>2. PICK shown \in EntryPages : tab' = [tab EXCEPT ![t].page = shown]
  BY DEF NoCode, EntryPages
<1>3. tab[t].page \in EntryPages
  BY DEF NoCode, CanVerify, EntryPages
<1>4. PICK m : m = tab[t]
  OBVIOUS
<1>5. PageSound(opening, review, m, home[t]) /\ m.call = NoCall
  <2>1. PageSound(opening, review, m, home[t])
    BY <1>4 DEF VisitInv
  <2>2. CASE CanVerify(t)
    BY <1>4, <2>1, <2>2 DEF CanVerify
  <2>3. CASE tab[t].page = "unaided"
    BY <1>4, <2>1, <2>3 DEF PageSound
  <2>4. QED
    BY <2>1, <2>2, <2>3 DEF NoCode
<1>6. m = [page |-> m.page, of |-> m.of, csrf |-> m.csrf, call |-> NoCall]
  BY <1>4, <1>5, TabShape
<1>7. PICK n : n = [page |-> shown, of |-> m.of, csrf |-> m.csrf, call |-> NoCall]
  OBVIOUS
<1>8. n = [m EXCEPT !.page = shown]
  BY <1>6, <1>7
<1>9. /\ tab' = [u \in Tab |-> tab'[u]] /\ \A u \in Tab : u # t => tab'[u] = tab[u]
      /\ tab'[t] = n
  BY <1>2, <1>4, <1>8, TabShape
<1>10. PageSound(opening, review, n, home[t])
  <2>1. "away" \notin EntryPages /\ "review" \notin EntryPages
    BY DEF EntryPages
  <2>2. n.page = shown /\ n.of = m.of /\ n.call = NoCall
    BY <1>7
  <2>3. Opened(opening, m.of) /\ opening[m.of].browser = home[t]
    BY <1>3, <1>4, <1>5, <2>1 DEF PageSound
  <2>4. QED
    BY <1>7, <2>1, <2>2, <2>3 DEF PageSound
<1>11. CallSound(opening, tab, n.call, home[t]) /\ ~Pending(n.call)
  BY <1>7, NoCallSound
<1>12. QED
  BY <1>1, <1>9, <1>10, <1>11, PagesKeep

-----------------------------------------------------------------------------
(* Reviews *)

\* A binding that is made or used now ends after any cookie that is set already.
LEMMA LapseSoon ==
    ASSUME VisitInv, NEW w \in Visit, Opened(opening, w)
    PROVE  hour + BindingTTL \in Nat /\ opening[w].lapse <= hour + BindingTTL
<1>1. OpeningSound(opening, tab, cookie, hour, w) /\ hour \in Nat
  BY DEF VisitInv
<1>2. opening[w].lapse \in Nat /\ opening[w].lapse <= hour + CookieTTL
  BY <1>1 DEF OpeningSound
<1>3. CookieTTL \in Nat /\ BindingTTL \in Nat /\ CookieTTL <= BindingTTL
  BY VisitAssumption
<1>4. QED
  BY <1>1, <1>2, <1>3

LEMMA TouchedSound ==
    ASSUME VisitInv, NEW c, Bound(c), c.of \in Visit, Touched(c)
    PROVE  /\ review' = [v \in Visit |-> review'[v]]
           /\ \A v \in Visit : v # c.of => review'[v] = review[v]
           /\ ReviewSound(opening, tab, review', c.of)
           /\ review'[c.of].at # "none"
<1>1. PICK v : v = c.of
  OBVIOUS
<1>2. PICK r : r = review[v]
  OBVIOUS
<1>3. v \in Visit /\ ReviewSound(opening, tab, review, v)
  BY <1>1 DEF VisitInv
<1>4. r.at = "open"
  BY <1>1, <1>2 DEF Bound
<1>5. /\ r = [at |-> r.at, by |-> r.by, ends |-> r.ends, asked |-> r.asked]
      /\ Opened(opening, v) /\ r.by = opening[v].by
      /\ Given(opening, tab, r.by, opening[v].browser)
  BY <1>2, <1>3, <1>4 DEF ReviewSound
<1>6. hour + BindingTTL \in Nat /\ opening[r.by].lapse <= hour + BindingTTL
  BY <1>5, LapseSoon DEF Given, Opened
<1>7. PICK h : h = hour + BindingTTL
  OBVIOUS
<1>8. PICK r2 : r2 = [at |-> r.at, by |-> r.by, ends |-> h, asked |-> r.asked]
  OBVIOUS
<1>9. r2 = [r EXCEPT !.ends = h]
  BY <1>5, <1>8
<1>10. review' = [review EXCEPT ![v] = r2]
  BY <1>1, <1>2, <1>7, <1>9 DEF Touched
<1>11. review = [u \in Visit |-> review[u]]
  BY DEF VisitInv
<1>12. /\ review' = [u \in Visit |-> review'[u]] /\ \A u \in Visit : u # v => review'[u] = review[u]
       /\ review'[v] = r2
  BY <1>3, <1>10, <1>11
<1>13. ReviewSound(opening, tab, review', v)
  <2>1. PICK rs : rs = review'
    OBVIOUS
  <2>2. /\ rs[v] = r2 /\ r2.at = "open" /\ r2.by = r.by /\ r2.ends = h /\ r2.asked = r.asked
        /\ r2 = [at |-> r2.at, by |-> r2.by, ends |-> r2.ends, asked |-> r2.asked]
    BY <1>4, <1>8, <1>12, <2>1
  <2>3. ReviewSound(opening, tab, rs, v)
    BY <1>5, <1>6, <1>7, <2>2 DEF ReviewSound
  <2>4. QED
    BY <2>1, <2>3
<1>14. QED
  BY <1>1, <1>4, <1>8, <1>12, <1>13

LEMMA ServesKeep ==
    ASSUME VisitInv, NEW t \in Tab, NEW op, Serves(t, op),
           \/ op = "resume" /\ tab[t].page = "resuming"
           \/ op \in {"progress", "draft", "generate", "dispose"} /\ tab[t].page = "review"
    PROVE  VisitInv'
<1>1. PICK c : c = Call(t, op, "none")
  OBVIOUS
<1>2. PICK v : v = tab[t].of
  OBVIOUS
<1>3. c.of = v /\ c.by = Carried(home[t])
  BY <1>1, <1>2 DEF Call
<1>4. PICK word \in {"review", "refused", "error"} :
        /\ tab' = [tab EXCEPT ![t].page = Turned(tab[t].page, op, word)]
        /\ \/ Bound(c) /\ word # "refused" /\ Touched(c)
           \/ word # "review" /\ UNCHANGED review
  BY <1>1 DEF Serves
<1>5. tab[t].call = NoCall /\ UNCHANGED <<hour, home, cookie, opening, stray>>
  BY DEF Serves
<1>6. PageSound(opening, review, tab[t], home[t]) /\ Opened(opening, v) /\ v \in Visit
  <2>1. PageSound(opening, review, tab[t], home[t])
    BY DEF VisitInv
  <2>2. tab[t].page # "away"
    OBVIOUS
  <2>3. QED
    BY <1>2, <2>1, <2>2 DEF PageSound, Opened
<1>7. PICK shown : shown = Turned(tab[t].page, op, word)
  OBVIOUS
<1>8. \/ shown = "resuming"
      \/ shown = "review" /\ (tab[t].page = "review" \/ word = "review")
  <2>1. CASE op = "resume" /\ tab[t].page = "resuming"
    <3>1. CASE word = "review"
      BY <1>7, <2>1, <3>1 DEF Turned
    <3>2. CASE word \in {"refused", "error"}
      BY <1>7, <2>1, <3>2 DEF Turned
    <3>3. QED
      BY <3>1, <3>2
  <2>2. CASE op \in {"progress", "draft", "generate", "dispose"} /\ tab[t].page = "review"
    <3>1. /\ op # "read" /\ op # "resume" /\ op # "start" /\ op # "verify" /\ op # "forget"
          /\ word # "admitted"
      BY <2>2
    <3>2. shown = "review"
      BY <1>7, <2>2, <3>1 DEF Turned
    <3>3. QED
      BY <2>2, <3>2
  <2>3. QED
    BY <2>1, <2>2
<1>9. Bound(c) => opening[v].browser = home[t] /\ review[v].at # "none"
  <2>1. SUFFICES ASSUME Bound(c) PROVE opening[v].browser = home[t] /\ review[v].at # "none"
    OBVIOUS
  <2>2. review[v].at = "open" /\ review[v].by = c.by
    BY <1>3, <2>1 DEF Bound
  <2>3. ReviewSound(opening, tab, review, v)
    BY <1>6 DEF VisitInv
  <2>4. opening[v].by = c.by
    BY <2>2, <2>3 DEF ReviewSound
  <2>5. home[t] \in Browser
    BY DEF VisitInv
  <2>6. c.by # 0 => Given(opening, tab, c.by, home[t])
    BY <1>3, <2>5, CarriedGiven
  <2>7. opening[v].browser = home[t]
    BY <1>6, <2>4, <2>6, HolderOpened
  <2>8. QED
    BY <2>2, <2>7
<1>10. PICK n : n = [page |-> shown, of |-> v, csrf |-> tab[t].csrf, call |-> NoCall]
  OBVIOUS
<1>11. /\ tab' = [u \in Tab |-> tab'[u]] /\ \A u \in Tab : u # t => tab'[u] = tab[u]
       /\ tab'[t] = n
  <2>1. PICK m : m = tab[t]
    OBVIOUS
  <2>2. m = [page |-> m.page, of |-> v, csrf |-> m.csrf, call |-> NoCall]
    BY <1>2, <1>5, <2>1, TabShape
  <2>3. n = [m EXCEPT !.page = shown]
    BY <1>10, <2>1, <2>2
  <2>4. tab' = [tab EXCEPT ![t] = n]
    BY <1>4, <1>7, <2>1, <2>3
  <2>5. QED
    BY <2>4, TabShape
<1>12. PageSound(opening, review, n, home[t])
  <2>1. "review" \notin EntryPages /\ "resuming" \notin EntryPages
    BY DEF EntryPages
  <2>2. n.page = shown /\ n.of = v /\ n.call = NoCall
    BY <1>10
  <2>3. shown = "review" => opening[v].browser = home[t] /\ review[v].at # "none"
    BY <1>2, <1>4, <1>6, <1>8, <1>9 DEF PageSound
  <2>4. QED
    BY <1>6, <1>8, <1>10, <2>1, <2>2, <2>3 DEF PageSound
<1>13. CallSound(opening, tab, n.call, home[t]) /\ ~Pending(n.call)
  BY <1>10, NoCallSound
<1>14. /\ opening' = [u \in Visit |-> opening'[u]]
       /\ hour' \in Nat /\ hour <= hour'
       /\ \A u \in Visit : Amended(opening[u], opening'[u])
  BY <1>5 DEF VisitInv, Amended
<1>15. /\ review' = [u \in Visit |-> review'[u]]
       /\ \A u \in Visit : /\ review'[u] = review[u] \/ ReviewSound(opening, tab, review', u)
                           /\ review[u].at # "none" => review'[u].at # "none"
  <2>1. CASE Bound(c) /\ Touched(c)
    <3>1. /\ review' = [u \in Visit |-> review'[u]]
          /\ \A u \in Visit : u # v => review'[u] = review[u]
          /\ ReviewSound(opening, tab, review', v)
          /\ review'[v].at # "none"
      BY <1>3, <1>6, <2>1, TouchedSound
    <3>2. QED
      BY <3>1
  <2>2. CASE UNCHANGED review
    BY <2>2 DEF VisitInv
  <2>3. QED
    BY <1>4, <2>1, <2>2
<1>16. PageSound(opening, review', n, home[t])
  <2>1. Grows(opening, tab, opening, tab)
    BY DEF Grows
  <2>2. QED
    BY <1>12, <1>15, <2>1, PageStays
<1>17. QED
  BY <1>5, <1>11, <1>13, <1>14, <1>15, <1>16, QuietStep

LEMMA AdmitsKeep ==
    ASSUME VisitInv, NEW c \in Calls, c.op \in {"start", "verify"},
           Protected(c), Resolvable(c.of, c.by), Admits(c), UNCHANGED <<hour, home, cookie>>
    PROVE  VisitInv'
<1>1. PICK v : v = c.of
  OBVIOUS
<1>2. CallSound(opening, tab, c, c.browser) /\ c # NoCall
  BY CallHeld
<1>3. Opened(opening, v) /\ v \in Visit /\ Given(opening, tab, c.by, c.browser)
  <2>1. Opened(opening, v) /\ (c.by # 0 => Given(opening, tab, c.by, c.browser))
    BY <1>1, <1>2 DEF CallSound
  <2>2. c.by # 0
    BY DEF Protected
  <2>3. QED
    BY <2>1, <2>2 DEF Opened
<1>4. opening[v].by = c.by
  BY <1>1 DEF Resolvable
<1>5. opening[v].browser = c.browser
  BY <1>3, <1>4, HolderOpened
<1>6. PICK o : o = opening[v]
  OBVIOUS
<1>7. o = [at |-> o.at, by |-> o.by, ends |-> o.ends, invited |-> o.invited,
           chosen |-> o.chosen, failed |-> o.failed, browser |-> o.browser,
           lapse |-> o.lapse, replaced |-> o.replaced] /\ o.at # "none"
  BY <1>3, <1>6 DEF VisitInv, OpeningSound, Opened
<1>8. PICK o2 : o2 = [at |-> "consumed", by |-> o.by, ends |-> o.ends, invited |-> o.invited,
                      chosen |-> o.chosen, failed |-> o.failed, browser |-> o.browser,
                      lapse |-> o.lapse, replaced |-> o.replaced]
  OBVIOUS
<1>9. o2 = [o EXCEPT !.at = "consumed"]
  BY <1>7, <1>8
<1>10. opening' = [opening EXCEPT ![v] = o2]
  BY <1>1, <1>6, <1>9 DEF Admits
<1>11. /\ opening' = [u \in Visit |-> opening'[u]] /\ opening'[v] = o2
       /\ \A u \in Visit : u # v => opening'[u] = opening[u]
  BY <1>3, <1>10 DEF VisitInv
<1>12. Amended(o, o2)
  BY <1>7, <1>8 DEF Amended
<1>13. \A u \in Visit : Amended(opening[u], opening'[u])
  BY <1>6, <1>11, <1>12 DEF Amended
<1>14. PICK r : r = [at |-> "open", by |-> c.by, ends |-> hour + BindingTTL, asked |-> FALSE]
  OBVIOUS
<1>15. review' = [review EXCEPT ![v] = r]
  BY <1>1, <1>14 DEF Admits
<1>16. /\ review' = [u \in Visit |-> review'[u]] /\ review'[v] = r
       /\ \A u \in Visit : u # v => review'[u] = review[u]
  BY <1>3, <1>15 DEF VisitInv
<1>17. ReviewSound(opening, tab, review', v)
  <2>1. PICK rs : rs = review'
    OBVIOUS
  <2>2. hour + BindingTTL \in Nat /\ opening[c.by].lapse <= hour + BindingTTL
    BY <1>3, LapseSoon DEF Given, Opened
  <2>3. rs[v] = r /\ r.at = "open" /\ r.by = c.by /\ r.ends = hour + BindingTTL /\ r.asked = FALSE
    BY <1>14, <1>16, <2>1
  <2>4. r = [at |-> r.at, by |-> r.by, ends |-> r.ends, asked |-> r.asked]
    BY <1>14
  <2>5. ReviewSound(opening, tab, rs, v)
    BY <1>3, <1>4, <1>5, <2>2, <2>3, <2>4 DEF ReviewSound
  <2>6. QED
    BY <2>1, <2>5
<1>18. r.at # "none"
  BY <1>14
<1>19. Says(c, "admitted")
  BY DEF Admits
<1>20. QED
  BY <1>11, <1>13, <1>16, <1>17, <1>18, <1>19, SaysKeep

\* What the answer to a path, or to evidence, writes of a challenge it does not consume.
LEMMA MarksKeep ==
    ASSUME VisitInv, NEW c \in Calls, NEW word, Says(c, word),
           word # "forgotten", word # "admitted",
           UNCHANGED <<hour, home, cookie, review>>,
           opening' = [v \in Visit |-> opening'[v]],
           \A v \in Visit : Amended(opening[v], opening'[v])
    PROVE  VisitInv'
<1>1. review' = [v \in Visit |-> review'[v]]
  BY DEF VisitInv
<1>2. QED
  BY <1>1, SaysKeep

LEMMA RefusedKeeps ==
    ASSUME VisitInv, NEW c \in Calls, Says(c, "refused"),
           UNCHANGED <<hour, home, cookie, opening, review>>
    PROVE  VisitInv'
<1>1. /\ opening' = [v \in Visit |-> opening'[v]]
      /\ \A v \in Visit : Amended(opening[v], opening'[v])
  BY DEF VisitInv, Amended
<1>2. QED
  BY <1>1, MarksKeep

LEMMA LiveOpening ==
    ASSUME VisitInv, NEW c \in Calls, c.op # "visit"
    PROVE  /\ c.of \in Visit /\ opening[c.of].at # "none"
           /\ opening = [v \in Visit |-> opening[v]]
           /\ opening[c.of] =
                [at |-> opening[c.of].at, by |-> opening[c.of].by, ends |-> opening[c.of].ends,
                 invited |-> opening[c.of].invited, chosen |-> opening[c.of].chosen,
                 failed |-> opening[c.of].failed, browser |-> opening[c.of].browser,
                 lapse |-> opening[c.of].lapse, replaced |-> opening[c.of].replaced]
<1>1. Opened(opening, c.of)
  BY CallHeld DEF CallSound
<1>2. OpeningSound(opening, tab, cookie, hour, c.of) /\ opening = [v \in Visit |-> opening[v]]
  BY <1>1 DEF VisitInv, Opened
<1>3. QED
  BY <1>1, <1>2 DEF OpeningSound, Opened

LEMMA AnswerStartKeeps ==
    ASSUME VisitInv, NEW c \in Calls, AnswerStart(c)
    PROVE  VisitInv'
<1>1. c.op = "start" /\ UNCHANGED <<hour, home, cookie>>
  BY DEF AnswerStart
<1>2. CASE ~Protected(c) \/ ~Resolvable(c.of, c.by)
  BY <1>1, <1>2, RefusedKeeps DEF AnswerStart
<1>3. CASE Protected(c) /\ Resolvable(c.of, c.by) /\ opening[c.of].invited
  <2>1. /\ opening' = [opening EXCEPT ![c.of].chosen = TRUE, ![c.of].failed = FALSE]
        /\ Says(c, "verification") /\ UNCHANGED review
    BY <1>3 DEF AnswerStart
  <2>2. PICK v : v = c.of
    OBVIOUS
  <2>3. PICK o : o = opening[v]
    OBVIOUS
  <2>4. /\ v \in Visit /\ o.at # "none" /\ opening = [u \in Visit |-> opening[u]]
        /\ o = [at |-> o.at, by |-> o.by, ends |-> o.ends, invited |-> o.invited,
                chosen |-> o.chosen, failed |-> o.failed, browser |-> o.browser,
                lapse |-> o.lapse, replaced |-> o.replaced]
    BY <1>1, <2>2, <2>3, LiveOpening
  <2>4a. PICK yes : yes = TRUE
    OBVIOUS
  <2>4b. PICK no : no = FALSE
    OBVIOUS
  <2>5. PICK o1 : o1 = [at |-> o.at, by |-> o.by, ends |-> o.ends, invited |-> o.invited,
                        chosen |-> yes, failed |-> o.failed, browser |-> o.browser,
                        lapse |-> o.lapse, replaced |-> o.replaced]
    OBVIOUS
  <2>6. PICK o2 : o2 = [at |-> o.at, by |-> o.by, ends |-> o.ends, invited |-> o.invited,
                        chosen |-> yes, failed |-> no, browser |-> o.browser,
                        lapse |-> o.lapse, replaced |-> o.replaced]
    OBVIOUS
  <2>7. o1 = [o EXCEPT !.chosen = yes]
    BY <2>4, <2>5
  <2>8. o2 = [o1 EXCEPT !.failed = no]
    BY <2>5, <2>6
  <2>9. PICK f : f = [opening EXCEPT ![v].chosen = yes]
    OBVIOUS
  <2>10. f = [u \in Visit |-> IF u = v THEN o1 ELSE opening[u]]
    BY <2>3, <2>4, <2>7, <2>9
  <2>11. opening' = [f EXCEPT ![v].failed = no]
    BY <2>1, <2>2, <2>9, <2>4a, <2>4b
  <2>12. opening' = [u \in Visit |-> IF u = v THEN o2 ELSE opening[u]]
    BY <2>8, <2>10, <2>11
  <2>13. Amended(o, o2)
    BY <2>4, <2>6 DEF Amended
  <2>14. \A u \in Visit : Amended(opening[u], opening'[u])
    BY <2>3, <2>12, <2>13 DEF Amended
  <2>15. opening' = [u \in Visit |-> opening'[u]]
    BY <2>12
  <2>16. QED
    BY <1>1, <2>1, <2>14, <2>15, MarksKeep
<1>4. CASE Protected(c) /\ Resolvable(c.of, c.by) /\ ~opening[c.of].invited
  <2>1. Admits(c)
    BY <1>4 DEF AnswerStart
  <2>2. QED
    BY <1>1, <1>4, <2>1, AdmitsKeep
<1>5. QED
  BY <1>2, <1>3, <1>4

LEMMA VerifyKeeps ==
    ASSUME VisitInv, NEW c \in Calls, AnswerVerify(c)
    PROVE  VisitInv'
<1>1. c.op = "verify" /\ UNCHANGED <<hour, home, cookie>>
  BY DEF AnswerVerify
<1>2. CASE ~Protected(c) \/ ~Resolvable(c.of, c.by) \/ ~opening[c.of].chosen
  BY <1>1, <1>2, RefusedKeeps DEF AnswerVerify
<1>3. CASE Protected(c) /\ Resolvable(c.of, c.by) /\ Admits(c)
  BY <1>1, <1>3, AdmitsKeep
<1>4. CASE /\ opening' = [opening EXCEPT ![c.of].failed = TRUE]
           /\ Says(c, "unaided") /\ UNCHANGED review
  <2>1. PICK v : v = c.of
    OBVIOUS
  <2>2. PICK o : o = opening[v]
    OBVIOUS
  <2>3. /\ v \in Visit /\ o.at # "none" /\ opening = [u \in Visit |-> opening[u]]
        /\ o = [at |-> o.at, by |-> o.by, ends |-> o.ends, invited |-> o.invited,
                chosen |-> o.chosen, failed |-> o.failed, browser |-> o.browser,
                lapse |-> o.lapse, replaced |-> o.replaced]
    BY <1>1, <2>1, <2>2, LiveOpening
  <2>3a. PICK yes : yes = TRUE
    OBVIOUS
  <2>4. PICK o2 : o2 = [at |-> o.at, by |-> o.by, ends |-> o.ends, invited |-> o.invited,
                        chosen |-> o.chosen, failed |-> yes, browser |-> o.browser,
                        lapse |-> o.lapse, replaced |-> o.replaced]
    OBVIOUS
  <2>5. o2 = [o EXCEPT !.failed = yes]
    BY <2>3, <2>4
  <2>6. opening' = [u \in Visit |-> IF u = v THEN o2 ELSE opening[u]]
    BY <1>4, <2>1, <2>2, <2>3, <2>5, <2>3a
  <2>7. Amended(o, o2)
    BY <2>3, <2>4 DEF Amended
  <2>8. \A u \in Visit : Amended(opening[u], opening'[u])
    BY <2>2, <2>6, <2>7 DEF Amended
  <2>9. opening' = [u \in Visit |-> opening'[u]]
    BY <2>6
  <2>10. QED
    BY <1>1, <1>4, <2>8, <2>9, MarksKeep
<1>5. QED
  BY <1>2, <1>3, <1>4 DEF AnswerVerify

LEMMA ForgetKeeps ==
    ASSUME VisitInv, NEW c \in Calls, AnswerForget(c)
    PROVE  VisitInv'
<1>1. c.op = "forget" /\ UNCHANGED <<hour, home, cookie, opening>>
  BY DEF AnswerForget
<1>2. CASE ~Bound(c)
  BY <1>1, <1>2, RefusedKeeps DEF AnswerForget
<1>3. CASE Bound(c)
  <2>1. PICK v : v = c.of
    OBVIOUS
  <2>2. PICK r : r = review[v]
    OBVIOUS
  <2>3. v \in Visit
    BY <1>1, <2>1, LiveOpening
  <2>4. ReviewSound(opening, tab, review, v) /\ r.at = "open"
    BY <1>3, <2>1, <2>2, <2>3 DEF VisitInv, Bound
  <2>5. /\ r = [at |-> r.at, by |-> r.by, ends |-> r.ends, asked |-> r.asked]
        /\ Opened(opening, v) /\ r.by = opening[v].by
        /\ Given(opening, tab, r.by, opening[v].browser)
        /\ r.ends \in Nat /\ opening[r.by].lapse <= r.ends
    BY <2>2, <2>4 DEF ReviewSound
  <2>6. PICK r2 : r2 = [at |-> "forgotten", by |-> r.by, ends |-> r.ends, asked |-> TRUE]
    OBVIOUS
  <2>7. review' = [u \in Visit |-> IF u \in Forgotten(c)
                                   THEN [review[u] EXCEPT !.at = "forgotten", !.asked = u = c.of]
                                   ELSE review[u]] /\ Says(c, "forgotten")
    BY <1>3 DEF AnswerForget
  <2>8. review'[v] = r2
    <3>1. review'[v] = [r EXCEPT !.at = "forgotten", !.asked = (v = c.of)]
      BY <2>1, <2>2, <2>3, <2>7 DEF Forgotten
    <3>2. PICK r1 : r1 = [at |-> "forgotten", by |-> r.by, ends |-> r.ends, asked |-> r.asked]
      OBVIOUS
    <3>3. r1 = [r EXCEPT !.at = "forgotten"]
      BY <2>5, <3>2
    <3>4. PICK yes : yes = (v = c.of)
      OBVIOUS
    <3>5. yes = TRUE
      BY <2>1, <3>4
    <3>6. review'[v] = [r1 EXCEPT !.asked = yes]
      BY <3>1, <3>3, <3>4
    <3>7. QED
      BY <2>6, <3>2, <3>5, <3>6
  <2>9. /\ review' = [u \in Visit |-> review'[u]]
        /\ \A u \in Visit : u # v => review'[u] = review[u]
    BY <2>1, <2>7 DEF Forgotten
  <2>10. ReviewSound(opening, tab, review', v)
    <3>1. PICK rs : rs = review'
      OBVIOUS
    <3>2. /\ rs[v] = r2 /\ r2.at = "forgotten" /\ r2.by = r.by /\ r2.ends = r.ends /\ r2.asked
          /\ r2 = [at |-> r2.at, by |-> r2.by, ends |-> r2.ends, asked |-> r2.asked]
      BY <2>6, <2>8, <3>1
    <3>3. ReviewSound(opening, tab, rs, v)
      BY <2>5, <3>2 DEF ReviewSound
    <3>4. QED
      BY <3>1, <3>3
  <2>11. r2.at # "none"
    BY <2>6
  <2>12. /\ opening' = [u \in Visit |-> opening'[u]]
         /\ \A u \in Visit : Amended(opening[u], opening'[u])
    BY <1>1 DEF VisitInv, Amended
  <2>13. \A u \in Visit : /\ review'[u] = review[u] \/ ReviewSound(opening, tab, review', u)
                          /\ review[u].at # "none" => review'[u].at # "none"
    BY <2>8, <2>9, <2>10, <2>11
  <2>14. QED
    BY <1>1, <2>7, <2>9, <2>12, <2>13, SaysKeep
<1>4. QED
  BY <1>2, <1>3

-----------------------------------------------------------------------------
(* Visits *)

LEMMA VisitKeeps ==
    ASSUME VisitInv, NEW c \in Calls, AnswerVisit(c)
    PROVE  VisitInv'
<1>1. c.op = "visit" /\ UNCHANGED <<hour, home, cookie, review, stray>>
  BY DEF AnswerVisit
<1>2. PICK v \in Visit, t \in Tab :
        /\ opening[v] = NotOpened /\ opening' = [opening EXCEPT ![v] = Prepared(c, v)]
        /\ tab[t].call = c
        /\ tab' = [tab EXCEPT ![t].call.answer = "prepared", ![t].call.of = v]
  BY DEF AnswerVisit
<1>3. CallSound(opening, tab, c, home[t]) /\ c # NoCall /\ home[t] \in Browser
  BY <1>2, CallHeld DEF VisitInv
<1>4. PICK d : d = [op |-> c.op, of |-> v, link |-> c.link, by |-> c.by, csrf |-> c.csrf,
                    browser |-> c.browser, answer |-> "prepared"]
  OBVIOUS
<1>5. PICK n : n = [page |-> tab[t].page, of |-> tab[t].of, csrf |-> tab[t].csrf, call |-> d]
  OBVIOUS
<1>6. /\ tab' = [u \in Tab |-> tab'[u]] /\ \A u \in Tab : u # t => tab'[u] = tab[u]
      /\ tab'[t] = n
  <2>1. PICK m : m = tab[t]
    OBVIOUS
  <2>2. m = [page |-> m.page, of |-> m.of, csrf |-> m.csrf, call |-> c]
    BY <1>2, <2>1, TabShape
  <2>3. c = [op |-> c.op, of |-> c.of, link |-> c.link, by |-> c.by, csrf |-> c.csrf,
             browser |-> c.browser, answer |-> c.answer]
    BY <1>3 DEF CallSound
  <2>4. PICK c1 : c1 = [op |-> c.op, of |-> c.of, link |-> c.link, by |-> c.by, csrf |-> c.csrf,
                        browser |-> c.browser, answer |-> "prepared"]
    OBVIOUS
  <2>5. c1 = [c EXCEPT !.answer = "prepared"]
    BY <2>3, <2>4
  <2>6. d = [c1 EXCEPT !.of = v]
    BY <1>4, <2>4
  <2>7. PICK m1 : m1 = [page |-> m.page, of |-> m.of, csrf |-> m.csrf, call |-> c1]
    OBVIOUS
  <2>8. m.call = c
    BY <1>2, <2>1
  <2>9. m1 = [m EXCEPT !.call = c1]
    BY <2>2, <2>7
  <2>10. m1 = [m EXCEPT !.call.answer = "prepared"]
    BY <2>5, <2>8, <2>9
  <2>11. PICK f : f = [tab EXCEPT ![t].call.answer = "prepared"]
    OBVIOUS
  <2>12. f = [u \in Tab |-> IF u = t THEN m1 ELSE tab[u]]
    BY <2>1, <2>10, <2>11, TabShape
  <2>13. tab' = [f EXCEPT ![t].call.of = v]
    BY <1>2, <2>11
  <2>14. m1.call = c1
    BY <2>7
  <2>15. n = [m1 EXCEPT !.call = d]
    BY <1>5, <2>1, <2>7
  <2>16. n = [m1 EXCEPT !.call.of = v]
    BY <2>6, <2>14, <2>15
  <2>17. tab' = [u \in Tab |-> IF u = t THEN n ELSE tab[u]]
    BY <2>12, <2>13, <2>16
  <2>18. QED
    BY <2>17
<1>7. ~Opened(opening, v)
  BY <1>2 DEF NotOpened, Opened
<1>8. PICK o : o = Prepared(c, v)
  OBVIOUS
<1>9. PICK fresh : fresh = Capability(c, v)
  OBVIOUS
<1>10. PICK invited : invited = (c.link = "invite")
  OBVIOUS
<1>11. o = [at |-> "live", by |-> fresh, ends |-> hour + ChallengeTTL,
            invited |-> invited, chosen |-> FALSE, failed |-> FALSE,
            browser |-> c.browser, lapse |-> 0, replaced |-> FALSE]
  BY <1>8, <1>9, <1>10 DEF Prepared
<1>12. /\ o.at = "live" /\ o.by = fresh /\ o.browser = c.browser /\ o.lapse = 0
       /\ o = [at |-> o.at, by |-> o.by, ends |-> o.ends,
               invited |-> o.invited, chosen |-> o.chosen, failed |-> o.failed,
               browser |-> o.browser, lapse |-> o.lapse, replaced |-> o.replaced]
  BY <1>11
<1>13. /\ opening' = [u \in Visit |-> opening'[u]] /\ opening'[v] = o
       /\ \A u \in Visit : u # v => opening'[u] = opening[u]
  BY <1>2, <1>8 DEF VisitInv
<1>14. c.browser = home[t] /\ (c.by # 0 => Given(opening, tab, c.by, home[t]))
  BY <1>3 DEF CallSound
<1>15. Grows(opening, tab, opening', tab')
  <2>1. ASSUME NEW u \in Visit, Opened(opening, u)
        PROVE  /\ Opened(opening', u) /\ opening'[u].by = opening[u].by
               /\ opening'[u].browser = opening[u].browser
               /\ opening'[u].lapse = opening[u].lapse
    <3>1. u # v
      BY <1>7, <2>1
    <3>2. opening'[u] = opening[u]
      BY <1>13, <3>1
    <3>3. QED
      BY <2>1, <3>2 DEF Opened
  <2>2. ASSUME NEW u \in Visit, Arriving(tab', u)
        PROVE  Arriving(tab, u) \/ ~Opened(opening, u)
    <3>1. PICK w \in Tab : Pending(tab'[w].call) /\ tab'[w].call.of = u
      BY <2>2 DEF Arriving
    <3>2. CASE w = t
      <4>1. tab'[w].call.of = v
        BY <1>4, <1>5, <1>6, <3>2
      <4>2. QED
        BY <1>7, <3>1, <4>1
    <3>3. CASE w # t
      BY <1>6, <3>1, <3>3 DEF Arriving
    <3>4. QED
      BY <3>2, <3>3
  <2>3. QED
    BY <2>1, <2>2 DEF Grows
<1>16. c.by # 0 => Given(opening', tab', c.by, home[t])
  BY <1>14, <1>15, GivenStays
<1>17. Opened(opening', v)
  BY <1>12, <1>13 DEF Opened
<1>18. OpeningSound(opening', tab', cookie', hour', v)
  <2>1. fresh = v \/ Given(opening', tab', fresh, c.browser)
    BY <1>9, <1>14, <1>16 DEF Capability
  <2>2. hour' \in Nat /\ CookieTTL \in Nat
    BY <1>1, VisitAssumption DEF VisitInv
  <2>3. o.lapse \in Nat /\ o.lapse <= hour' + CookieTTL /\ ~(hour' < o.lapse)
    BY <1>12, <2>2
  <2>4. o.browser \in Browser
    BY <1>3, <1>12, <1>14
  <2>5. QED
    BY <1>12, <1>13, <2>1, <2>3, <2>4 DEF OpeningSound
<1>19. PageSound(opening', review', n, home[t])
  <2>1. PageSound(opening, review, tab[t], home[t])
    BY DEF VisitInv
  <2>2. PageSound(opening', review', tab[t], home[t])
    BY <1>1, <1>15, <2>1, PageStays
  <2>3. tab[t].page = "away"
    BY <1>1, <1>2, <1>3, <2>1 DEF PageSound
  <2>4. n.page = "away" /\ n.call = d /\ d.op = "visit"
    BY <1>1, <1>4, <1>5, <2>3
  <2>5. QED
    BY <1>5, <2>4 DEF PageSound, EntryPages
<1>20. d # NoCall => CallSound(opening', tab', d, home[t])
  <2>1. /\ d.op = "visit" /\ d.of = v /\ d.by = c.by /\ d.browser = home[t] /\ d.answer = "prepared"
        /\ d = [op |-> d.op, of |-> d.of, link |-> d.link, by |-> d.by, csrf |-> d.csrf,
                browser |-> d.browser, answer |-> d.answer]
    BY <1>1, <1>4, <1>14
  <2>2. opening'[v].by = Capability(d, v) /\ opening'[v].browser = home[t]
    BY <1>9, <1>12, <1>13, <1>14, <2>1 DEF Capability
  <2>3. QED
    BY <1>16, <1>17, <2>1, <2>2 DEF CallSound
<1>21. CallSound(opening', tab', n.call, home[t])
  <2>1. n.call = d
    BY <1>5
  <2>2. QED
    BY <1>20, <2>1 DEF CallSound
<1>22. ArrivalsApart(tab')
  <2>1. SUFFICES ASSUME NEW w \in Tab, NEW u \in Tab, Pending(tab'[w].call), Pending(tab'[u].call),
                        tab'[w].call.of = tab'[u].call.of, w # u
                 PROVE  FALSE
    BY DEF ArrivalsApart
  <2>2. tab'[t].call.of = v
    BY <1>4, <1>5, <1>6
  <2>3. ASSUME NEW x \in Tab, x # t, Pending(tab'[x].call)
        PROVE  Opened(opening, tab[x].call.of) /\ tab'[x] = tab[x]
    <3>1. tab'[x] = tab[x]
      BY <1>6, <2>3
    <3>2. CallSound(opening, tab, tab[x].call, home[x])
      BY DEF VisitInv
    <3>3. QED
      BY <2>3, <3>1, <3>2 DEF CallSound, Pending
  <2>4. w # t /\ u # t
    BY <1>7, <2>1, <2>2, <2>3
  <2>5. tab'[w] = tab[w] /\ tab'[u] = tab[u]
    BY <2>1, <2>3, <2>4
  <2>6. QED
    BY <2>1, <2>5 DEF VisitInv, ArrivalsApart
<1>23. /\ hour' \in Nat /\ hour <= hour' /\ home' = home
       /\ cookie' = [b \in Browser |-> cookie'[b]] /\ review' = [u \in Visit |-> review'[u]]
  BY <1>1 DEF VisitInv
<1>24. \A u \in Visit : \/ /\ opening'[u] = opening[u]
                           /\ Opened(opening, u) => cookie'[opening[u].browser] = cookie[opening[u].browser]
                        \/ OpeningSound(opening', tab', cookie', hour', u)
  BY <1>1, <1>13, <1>18
<1>25. QED
  BY <1>1, <1>6, <1>13, <1>15, <1>19, <1>21, <1>22, <1>23, <1>24, VisitStep

LEMMA ArrivedPage ==
    ASSUME VisitInv, NEW t \in Tab, Arrive(t)
    PROVE  /\ Pending(tab[t].call) /\ Opened(opening, tab[t].call.of)
           /\ tab' = [u \in Tab |-> tab'[u]] /\ \A u \in Tab : u # t => tab'[u] = tab[u]
           /\ tab'[t] = [page |-> "loading", of |-> tab[t].call.of, csrf |-> 0, call |-> NoCall]
           /\ tab'[t].call = NoCall
           /\ PageSound(opening, review, tab'[t], home[t])
<1>1. PICK v : v = tab[t].call.of
  OBVIOUS
<1>2. Pending(tab[t].call)
  BY DEF Arrive, Pending
<1>3. Opened(opening, v)
  BY <1>1, <1>2 DEF VisitInv, CallSound, Pending
<1>4. PICK n : n = [page |-> "loading", of |-> v, csrf |-> 0, call |-> NoCall]
  OBVIOUS
<1>5. n = [Blank EXCEPT !.page = "loading", !.of = v]
  <2>1. PICK m : m = [page |-> "loading", of |-> 0, csrf |-> 0, call |-> NoCall]
    OBVIOUS
  <2>2. m = [Blank EXCEPT !.page = "loading"]
    BY <2>1 DEF Blank
  <2>3. n = [m EXCEPT !.of = v]
    BY <1>4, <2>1
  <2>4. QED
    BY <2>2, <2>3
<1>6. tab' = [tab EXCEPT ![t] = n]
  BY <1>1, <1>5 DEF Arrive
<1>7. tab' = [u \in Tab |-> tab'[u]] /\ (\A u \in Tab : u # t => tab'[u] = tab[u]) /\ tab'[t] = n
  BY <1>6, TabShape
<1>8. PageSound(opening, review, n, home[t])
  BY <1>3, <1>4 DEF PageSound, EntryPages
<1>9. n.call = NoCall
  BY <1>4
<1>10. QED
  BY <1>1, <1>2, <1>3, <1>4, <1>7, <1>8, <1>9

LEMMA ArriveKeeps ==
    ASSUME VisitInv, NEW t \in Tab, Arrive(t)
    PROVE  VisitInv'
<1>1. PICK c : c = tab[t].call
  OBVIOUS
<1>2. PICK v : v = c.of
  OBVIOUS
<1>3. PICK b : b = home[t]
  OBVIOUS
<1>4. /\ Pending(c) /\ Opened(opening, v)
      /\ tab' = [u \in Tab |-> tab'[u]] /\ \A u \in Tab : u # t => tab'[u] = tab[u]
      /\ tab'[t].call = NoCall
      /\ PageSound(opening, review, tab'[t], b)
  BY <1>1, <1>2, <1>3, ArrivedPage
<1>5. v \in Visit /\ b \in Browser /\ UNCHANGED <<hour, home, review, stray>>
  BY <1>3, <1>4 DEF Opened, VisitInv, Arrive
<1>6. CASE opening[v].by # v
  <2>1. UNCHANGED <<cookie, opening>>
    BY <1>1, <1>2, <1>6 DEF Arrive
  <2>2. CallSound(opening, tab, tab'[t].call, home[t]) /\ ~Pending(tab'[t].call)
    BY <1>4, NoCallSound
  <2>3. QED
    BY <1>3, <1>4, <1>5, <2>1, <2>2, PagesKeep
<1>7. CASE opening[v].by = v
  <2>1. /\ cookie' = [cookie EXCEPT ![b] = [capability |-> v, ends |-> hour + CookieTTL]]
        /\ opening' = [u \in Visit |->
             IF u = v THEN [opening[u] EXCEPT !.lapse = hour + CookieTTL]
             ELSE IF c.by = 0 /\ u = cookie[b].capability
                  THEN [opening[u] EXCEPT !.replaced = TRUE]
                  ELSE opening[u]]
    BY <1>1, <1>2, <1>3, <1>7 DEF Arrive
  <2>2. CallSound(opening, tab, c, b) /\ c.answer = "prepared" /\ c # NoCall
    BY <1>1, <1>3, <1>4 DEF VisitInv, Pending
  <2>3. opening[v].by = Capability(c, v) /\ opening[v].browser = b
        /\ (c.by # 0 => Given(opening, tab, c.by, b))
    BY <1>2, <2>2 DEF CallSound
  <2>4. Arriving(tab, v)
    BY <1>1, <1>2, <1>4 DEF Arriving
  <2>5. c.by = 0
    BY <1>7, <2>3, <2>4 DEF Capability, Given
  <2>6. ~Arriving(tab', v)
    <3>1. SUFFICES ASSUME NEW u \in Tab, Pending(tab'[u].call), tab'[u].call.of = v
                   PROVE  FALSE
      BY DEF Arriving
    <3>2. u # t
      BY <1>4, <3>1, NoCallSound
    <3>3. tab'[u] = tab[u]
      BY <1>4, <3>2
    <3>4. QED
      BY <1>1, <1>2, <1>4, <3>1, <3>2, <3>3 DEF VisitInv, ArrivalsApart
  <2>7. PICK h : h = hour + CookieTTL
    OBVIOUS
  <2>8. hour \in Nat /\ h \in Nat
    BY <2>7, VisitAssumption DEF VisitInv
  <2>9. PICK first : first = opening'[v]
    OBVIOUS
  <2>10. PICK o : o = opening[v]
    OBVIOUS
  <2>11. /\ o.at # "none" /\ o.by = v /\ o.browser = b
         /\ o = [at |-> o.at, by |-> o.by, ends |-> o.ends, invited |-> o.invited,
                 chosen |-> o.chosen, failed |-> o.failed, browser |-> o.browser,
                 lapse |-> o.lapse, replaced |-> o.replaced]
    <3>1. OpeningSound(opening, tab, cookie, hour, v)
      BY <1>5 DEF VisitInv
    <3>2. QED
      BY <1>4, <1>7, <2>3, <2>10, <3>1 DEF OpeningSound, Opened
  <2>12. first = [o EXCEPT !.lapse = h]
    BY <1>5, <2>1, <2>7, <2>9, <2>10
  <2>13. first = [at |-> o.at, by |-> v, ends |-> o.ends, invited |-> o.invited,
                  chosen |-> o.chosen, failed |-> o.failed, browser |-> b,
                  lapse |-> h, replaced |-> o.replaced]
    BY <2>11, <2>12
  <2>14. /\ first.at # "none" /\ first.by = v /\ first.browser = b /\ first.lapse = h
         /\ first = [at |-> first.at, by |-> first.by, ends |-> first.ends,
                     invited |-> first.invited, chosen |-> first.chosen, failed |-> first.failed,
                     browser |-> first.browser, lapse |-> first.lapse, replaced |-> first.replaced]
    BY <2>11, <2>13
  <2>15. Given(opening', tab', v, b)
    BY <1>5, <2>6, <2>9, <2>14 DEF Given, Opened
  <2>16. ASSUME NEW u \in Visit, u # v, Opened(opening, u), opening'[u] # opening[u]
         PROVE  /\ u = cookie[b].capability
                /\ opening'[u].at = opening[u].at /\ opening'[u].by = opening[u].by
                /\ opening'[u].browser = opening[u].browser
                /\ opening'[u].lapse = opening[u].lapse /\ opening'[u].replaced
                /\ opening'[u] = [at |-> opening'[u].at, by |-> opening'[u].by, ends |-> opening'[u].ends,
                     invited |-> opening'[u].invited, chosen |-> opening'[u].chosen,
                     failed |-> opening'[u].failed, browser |-> opening'[u].browser,
                     lapse |-> opening'[u].lapse, replaced |-> opening'[u].replaced]
    <3>1. PICK p : p = opening[u]
      OBVIOUS
    <3>2. OpeningSound(opening, tab, cookie, hour, u)
      BY DEF VisitInv
    <3>3. p = [at |-> p.at, by |-> p.by, ends |-> p.ends, invited |-> p.invited,
               chosen |-> p.chosen, failed |-> p.failed, browser |-> p.browser,
               lapse |-> p.lapse, replaced |-> p.replaced]
      BY <2>16, <3>1, <3>2 DEF OpeningSound
    <3>4. PICK yes : yes = TRUE
      OBVIOUS
    <3>5. u = cookie[b].capability /\ opening'[u] = [p EXCEPT !.replaced = yes]
      BY <2>1, <2>16, <3>1, <3>4
    <3>6. opening'[u] = [at |-> p.at, by |-> p.by, ends |-> p.ends, invited |-> p.invited,
                         chosen |-> p.chosen, failed |-> p.failed, browser |-> p.browser,
                         lapse |-> p.lapse, replaced |-> yes]
      BY <3>3, <3>5
    <3>7. PICK p2 : p2 = opening'[u]
      OBVIOUS
    <3>8. /\ p2.at = p.at /\ p2.by = p.by /\ p2.browser = p.browser /\ p2.lapse = p.lapse
          /\ p2.replaced = yes
          /\ p2 = [at |-> p2.at, by |-> p2.by, ends |-> p2.ends, invited |-> p2.invited,
                   chosen |-> p2.chosen, failed |-> p2.failed, browser |-> p2.browser,
                   lapse |-> p2.lapse, replaced |-> p2.replaced]
      BY <3>6, <3>7
    <3>9. QED
      BY <3>1, <3>4, <3>5, <3>7, <3>8
  <2>17. Grows(opening, tab, opening', tab')
    <3>1. ASSUME NEW u \in Visit, Opened(opening, u)
          PROVE  /\ Opened(opening', u) /\ opening'[u].by = opening[u].by
                 /\ opening'[u].browser = opening[u].browser
                 /\ opening'[u].lapse = opening[u].lapse \/ Arriving(tab, u)
      <4>1. CASE u = v
        BY <2>4, <2>9, <2>10, <2>11, <2>14, <3>1, <4>1 DEF Opened
      <4>2. CASE u # v
        BY <2>16, <3>1, <4>2 DEF Opened
      <4>3. QED
        BY <4>1, <4>2
    <3>2. ASSUME NEW u \in Visit, Arriving(tab', u)
          PROVE  Arriving(tab, u)
      <4>1. PICK w \in Tab : Pending(tab'[w].call) /\ tab'[w].call.of = u
        BY <3>2 DEF Arriving
      <4>2. w # t
        BY <1>4, <4>1, NoCallSound
      <4>3. QED
        BY <1>4, <4>1, <4>2 DEF Arriving
    <3>3. QED
      BY <3>1, <3>2 DEF Grows
  <2>18. cookie' = [x \in Browser |-> cookie'[x]]
         /\ cookie'[b] = [capability |-> v, ends |-> h]
         /\ \A x \in Browser : x # b => cookie'[x] = cookie[x]
    BY <1>5, <2>1, <2>7 DEF VisitInv
  <2>19. OpeningSound(opening', tab', cookie', hour', v)
    <3>1. first.lapse <= hour' + CookieTTL /\ first.lapse \in Nat
      BY <1>5, <2>7, <2>8, <2>14
    <3>2. cookie'[first.browser] = [capability |-> v, ends |-> first.lapse]
      BY <2>14, <2>18
    <3>3. QED
      BY <1>5, <2>9, <2>14, <3>1, <3>2 DEF OpeningSound
  <2>20. ASSUME NEW u \in Visit, u # v, Opened(opening, u)
         PROVE  OpeningSound(opening', tab', cookie', hour', u)
    <3>1. OpeningSound(opening, tab, cookie, hour, u)
      BY DEF VisitInv
    <3>2. opening[u].by = u \/ Given(opening', tab', opening[u].by, opening[u].browser)
      BY <2>17, <2>20, <3>1, GivenStays DEF OpeningSound
    <3>3. /\ opening[u].lapse \in Nat /\ opening[u].lapse <= hour' + CookieTTL
          /\ opening[u].browser \in Browser
      BY <1>5, <2>20, <3>1 DEF OpeningSound
    <3>4. CASE opening'[u] # opening[u]
      BY <2>16, <2>20, <3>2, <3>3, <3>4 DEF OpeningSound
    <3>5. CASE opening'[u] = opening[u]
      <4>1. hour < opening[u].lapse /\ ~opening[u].replaced =>
              cookie'[opening[u].browser] = [capability |-> u, ends |-> opening[u].lapse]
        <5>1. SUFFICES ASSUME hour < opening[u].lapse, ~opening[u].replaced
                       PROVE  cookie'[opening[u].browser] =
                                [capability |-> u, ends |-> opening[u].lapse]
          OBVIOUS
        <5>2. cookie[opening[u].browser] = [capability |-> u, ends |-> opening[u].lapse]
          BY <2>20, <3>1, <5>1 DEF OpeningSound
        <5>3. opening[u].browser # b
          <6>1. SUFFICES ASSUME opening[u].browser = b PROVE FALSE
            OBVIOUS
          <6>2. u = cookie[b].capability
            BY <5>2, <6>1
          <6>3. opening'[u] = [opening[u] EXCEPT !.replaced = TRUE]
            BY <2>1, <2>5, <2>20, <6>2
          <6>4. PICK p : p = opening[u]
            OBVIOUS
          <6>5. p = [at |-> p.at, by |-> p.by, ends |-> p.ends, invited |-> p.invited,
                     chosen |-> p.chosen, failed |-> p.failed, browser |-> p.browser,
                     lapse |-> p.lapse, replaced |-> p.replaced]
            BY <2>20, <3>1, <6>4 DEF OpeningSound
          <6>6. PICK yes : yes = TRUE
            OBVIOUS
          <6>7. p = [p EXCEPT !.replaced = yes]
            BY <3>5, <6>3, <6>4, <6>6
          <6>8. p.replaced = yes
            BY <6>5, <6>7
          <6>9. QED
            BY <5>1, <6>4, <6>6, <6>8
        <5>4. QED
          BY <2>18, <3>3, <5>2, <5>3
      <4>2. QED
        BY <1>5, <2>20, <3>1, <3>2, <3>3, <3>5, <4>1 DEF OpeningSound
    <3>6. QED
      BY <3>4, <3>5
  <2>21. ASSUME NEW u \in Visit, ~Opened(opening, u)
         PROVE  OpeningSound(opening', tab', cookie', hour', u)
    <3>1. u # v
      BY <1>4, <2>21
    <3>2. u # cookie[b].capability
      <4>1. CookieSound(opening, tab, cookie, b)
        BY <1>5 DEF VisitInv
      <4>2. u # 0
        BY VisitAssumption
      <4>3. QED
        BY <2>21, <4>1, <4>2 DEF CookieSound, Given
    <3>3. opening'[u] = opening[u]
      BY <2>1, <3>1, <3>2
    <3>4. QED
      BY <2>21, <3>3 DEF OpeningSound, Opened
  <2>22. \A u \in Visit : OpeningSound(opening', tab', cookie', hour', u)
    BY <2>19, <2>20, <2>21
  <2>23. CookieSound(opening', tab', cookie', b)
    BY <2>15, <2>18 DEF CookieSound
  <2>24. PageSound(opening', review', tab'[t], home[t])
    BY <1>3, <1>4, <1>5, <2>17, PageStays
  <2>25. CallSound(opening', tab', tab'[t].call, home[t])
    BY <1>4, NoCallSound
  <2>26. ArrivalsApart(tab')
    <3>1. ASSUME NEW u \in Tab, Pending(tab'[u].call)
          PROVE  u # t /\ tab'[u] = tab[u]
      BY <1>4, <3>1, NoCallSound
    <3>2. QED
      BY <3>1 DEF VisitInv, ArrivalsApart
  <2>27. /\ opening' = [u \in Visit |-> opening'[u]] /\ review' = [u \in Visit |-> review'[u]]
         /\ hour' \in Nat /\ hour <= hour'
    BY <1>5, <2>1, <2>8 DEF VisitInv
  <2>28. \A u \in Tab : \/ tab'[u] = tab[u]
                        \/ /\ PageSound(opening', review', tab'[u], home[u])
                           /\ CallSound(opening', tab', tab'[u].call, home[u])
    BY <1>4, <2>24, <2>25
  <2>29. \A x \in Browser : cookie'[x] = cookie[x] \/ CookieSound(opening', tab', cookie', x)
    BY <2>18, <2>23
  <2>30. QED
    BY <1>4, <1>5, <2>17, <2>18, <2>22, <2>26, <2>27, <2>28, <2>29, VisitStep
<1>8. QED
  BY <1>6, <1>7

-----------------------------------------------------------------------------
(* The specification *)

LEMMA VisitStarts == VisitInit => VisitInv
<1>1. SUFFICES ASSUME VisitInit PROVE VisitInv
  OBVIOUS
<1>2. /\ hour \in Nat /\ home \in [Tab -> Browser]
      /\ cookie = [b \in Browser |-> cookie[b]] /\ tab = [t \in Tab |-> tab[t]]
      /\ opening = [v \in Visit |-> opening[v]] /\ review = [v \in Visit |-> review[v]]
  BY <1>1 DEF VisitInit
<1>3. \A v \in Visit : opening[v].at = "none" /\ review[v].at = "none"
  BY <1>1 DEF VisitInit, NotOpened, NoReview
<1>4. \A v \in Visit : /\ OpeningSound(opening, tab, cookie, hour, v)
                       /\ ReviewSound(opening, tab, review, v)
  BY <1>3 DEF OpeningSound, ReviewSound, Opened
<1>5. \A b \in Browser : CookieSound(opening, tab, cookie, b)
  BY <1>1 DEF VisitInit, NoCookie, CookieSound
<1>6. \A t \in Tab : tab[t].page = "away" /\ tab[t].call = NoCall
                     /\ tab[t] = [page |-> tab[t].page, of |-> tab[t].of, csrf |-> tab[t].csrf,
                                  call |-> tab[t].call]
  BY <1>1 DEF VisitInit, Blank
<1>7. \A t \in Tab : /\ PageSound(opening, review, tab[t], home[t])
                     /\ CallSound(opening, tab, tab[t].call, home[t])
  BY <1>6 DEF PageSound, CallSound, EntryPages
<1>8. /\ stray = NoCall /\ CallSound(opening, tab, stray, stray.browser)
      /\ ArrivalsApart(tab)
  BY <1>1, <1>6, NoCallSound DEF VisitInit, ArrivalsApart
<1>9. QED
  BY <1>2, <1>4, <1>5, <1>7, <1>8 DEF VisitInv

LEMMA VisitAdvances == VisitInv /\ [VisitNext]_visitVars => VisitInv'
<1>1. SUFFICES ASSUME VisitInv, [VisitNext]_visitVars PROVE VisitInv'
  OBVIOUS
<1>2. CASE HourPasses
  BY <1>1, <1>2, HourKeeps
<1>3. ASSUME NEW t \in Tab,
             \/ OpenLink(t, "open") \/ OpenLink(t, "invite") \/ ChoosePath(t)
             \/ SubmitEvidence(t) \/ ForgetReview(t)
      PROVE  VisitInv'
  <2>1. CASE OpenLink(t, "open")
    BY <1>1, <2>1, SendsKeep DEF OpenLink
  <2>2. CASE OpenLink(t, "invite")
    BY <1>1, <2>2, SendsKeep DEF OpenLink
  <2>3. CASE ChoosePath(t)
    BY <1>1, <2>3, SendsKeep DEF ChoosePath, CanStart
  <2>4. CASE SubmitEvidence(t)
    BY <1>1, <2>4, SendsKeep DEF SubmitEvidence, CanVerify
  <2>5. CASE ForgetReview(t)
    BY <1>1, <2>5, SendsKeep DEF ForgetReview, OnReview
  <2>6. QED
    BY <1>3, <2>1, <2>2, <2>3, <2>4, <2>5
<1>4. ASSUME NEW t \in Tab,
             \/ Resume(t) \/ SaveProgress(t) \/ SaveDraft(t) \/ Generate(t) \/ Dispose(t)
      PROVE  VisitInv'
  <2>1. CASE Resume(t)
    BY <1>1, <2>1, ServesKeep DEF Resume
  <2>2. CASE SaveProgress(t)
    BY <1>1, <2>2, ServesKeep DEF SaveProgress, OnReview
  <2>3. CASE SaveDraft(t)
    BY <1>1, <2>3, ServesKeep DEF SaveDraft, OnReview
  <2>4. CASE Generate(t)
    BY <1>1, <2>4, ServesKeep DEF Generate, OnReview
  <2>5. CASE Dispose(t)
    BY <1>1, <2>5, ServesKeep DEF Dispose, OnReview
  <2>6. QED
    BY <1>4, <2>1, <2>2, <2>3, <2>4, <2>5
<1>5. ASSUME NEW t \in Tab,
             \/ Arrive(t) \/ ReadEntry(t) \/ NoCode(t) \/ LoseAnswer(t) \/ Reload(t)
      PROVE  VisitInv'
  BY <1>1, <1>5, ArriveKeeps, ReadKeeps, NoCodeKeeps, LoseKeeps, ReloadKeeps
<1>6. ASSUME NEW c \in Calls,
             \/ Declines(c) \/ AnswerVisit(c) \/ AnswerStart(c) \/ AnswerVerify(c) \/ AnswerForget(c)
      PROVE  VisitInv'
  BY <1>1, <1>6, DeclinesKeep, VisitKeeps, AnswerStartKeeps, VerifyKeeps, ForgetKeeps
<1>7. CASE UNCHANGED visitVars
  BY <1>1, <1>7 DEF visitVars, VisitInv
<1>8. QED
  BY <1>1, <1>2, <1>3, <1>4, <1>5, <1>6, <1>7 DEF VisitNext

LEMMA VisitKept == VisitInv => ReviewsStayWithTheirBrowser
<1>1. SUFFICES ASSUME VisitInv, NEW t \in Tab, Shows(t)
               PROVE  /\ home[t] = opening[tab[t].of].browser
                      /\ tab[t].page = "review" /\ ~review[tab[t].of].asked
                         /\ hour < opening[opening[tab[t].of].by].lapse
                         /\ ~opening[opening[tab[t].of].by].replaced => Reopens(t)
  BY DEF ReviewsStayWithTheirBrowser
<1>2. PICK v : v = tab[t].of
  OBVIOUS
<1>3. PageSound(opening, review, tab[t], home[t])
  BY <1>1 DEF VisitInv
<1>4. tab[t].page \in EntryPages \cup {"review"} /\ tab[t].page # "away"
  BY <1>1 DEF Shows, OnEntry, OnReview, EntryPages
<1>5. home[t] = opening[v].browser /\ Opened(opening, v) /\ v \in Visit
  BY <1>2, <1>3, <1>4 DEF PageSound, Opened
<1>6. ASSUME tab[t].page = "review", ~review[v].asked,
             hour < opening[opening[v].by].lapse, ~opening[opening[v].by].replaced
      PROVE  Reopens(t)
  <2>1. PICK r : r = review[v]
    OBVIOUS
  <2>2. r.at # "none" /\ ReviewSound(opening, tab, review, v)
    BY <1>1, <1>2, <1>3, <1>5, <1>6, <2>1 DEF PageSound, VisitInv
  <2>3. PICK w : w = r.by
    OBVIOUS
  <2>4. /\ r.at = "open" /\ w = opening[v].by /\ Given(opening, tab, w, opening[v].browser)
        /\ r.ends \in Nat /\ opening[w].lapse <= r.ends
    BY <1>6, <2>1, <2>2, <2>3 DEF ReviewSound
  <2>5. Opened(opening, w) /\ w \in Visit /\ opening[w].browser = home[t]
    BY <1>5, <2>4 DEF Given, Opened
  <2>6. OpeningSound(opening, tab, cookie, hour, w) /\ hour \in Nat
    BY <1>1, <2>5 DEF VisitInv
  <2>7. /\ opening[w].lapse \in Nat /\ hour < opening[w].lapse
        /\ cookie[home[t]] = [capability |-> w, ends |-> opening[w].lapse]
    BY <1>6, <2>4, <2>5, <2>6 DEF OpeningSound
  <2>8. Carried(home[t]) = w
    BY <2>7 DEF Carried
  <2>9. hour < r.ends
    BY <2>4, <2>6, <2>7
  <2>10. QED
    BY <1>2, <2>1, <2>3, <2>4, <2>8, <2>9 DEF Reopens
<1>7. QED
  BY <1>2, <1>5, <1>6

(* ReviewsStayWithTheirBrowser is an invariant of a reviewer's browsers.     *)
THEOREM VisitTheorem == VisitSpec => []ReviewsStayWithTheirBrowser
<1>1. VisitInit => VisitInv
  BY VisitStarts
<1>2. VisitInv /\ [VisitNext]_visitVars => VisitInv'
  BY VisitAdvances
<1>3. VisitInv => ReviewsStayWithTheirBrowser
  BY VisitKept
<1>4. QED
  BY <1>1, <1>2, <1>3, PTL DEF VisitSpec
-----------------------------------------------------------------------------
(* Sums over a sequence *)

LEMMA MaxIs ==
    ASSUME NEW S \in SUBSET Nat, NEW k \in S, \A j \in S : j <= k
    PROVE  Max(S) = k
<1>1. /\ k \in S /\ \A j \in S : k >= j
  OBVIOUS
<1>2. \A x \in S : (\A j \in S : x >= j) => x = k
  <2>1. TAKE x \in S
  <2>2. HAVE \A j \in S : x >= j
  <2>3. x >= k /\ x <= k /\ x \in Nat /\ k \in Nat
    BY <2>2
  <2>4. QED
    BY <2>3
<1>3. QED
  BY <1>1, <1>2 DEF Max

\* What FoldLeft makes of the addends a, from b on.
Sums(b, a, g) == g = [s \in SUBSET DOMAIN a |-> IF s = {} THEN b ELSE g[s \ {Max(s)}] + a[Max(s)]]

LEMMA SumsExist ==
    ASSUME NEW b \in Nat, NEW n \in Nat, NEW a \in [1..n -> Nat]
    PROVE  \E g : Sums(b, a, g)
<1> DEFINE Upto(k, g) == g = [s \in SUBSET (1..k) |-> IF s = {} THEN b ELSE g[s \ {Max(s)}] + a[Max(s)]]
           Bad == {k \in 0..n : ~\E g : Upto(k, g)}
<1>1. Bad = {}
  <2>1. SUFFICES ASSUME Bad # {} PROVE FALSE
    OBVIOUS
  <2>2. PICK k \in Bad : \A j \in Bad : k <= j
    <3>1. Bad \in SUBSET Nat
      OBVIOUS
    <3>2. QED
      BY <2>1, <3>1, FirstLemma
  <2>3. k \in 0..n /\ ~\E g : Upto(k, g)
    OBVIOUS
  <2>4. CASE k = 0
    <3>1. PICK g : g = [s \in SUBSET (1..k) |-> b]
      OBVIOUS
    <3>2. \A s \in SUBSET (1..k) : s = {}
      BY <2>4
    <3>2a. \A s \in SUBSET (1..k) : (IF s = {} THEN b ELSE g[s \ {Max(s)}] + a[Max(s)]) = b
      BY <3>2
    <3>3. Upto(k, g)
      BY <3>1, <3>2a
    <3>4. QED
      BY <2>3, <3>3
  <2>5. CASE k # 0
    <3>1. k - 1 \in 0..n /\ k - 1 < k /\ k \in Nat
      BY <2>3, <2>5
    <3>2. k - 1 \notin Bad
      <4>1. SUFFICES ASSUME k - 1 \in Bad PROVE FALSE
        OBVIOUS
      <4>2. k <= k - 1
        BY <2>2, <4>1, Zenon
      <4>3. QED
        BY <3>1, <4>2
    <3>3. PICK g : Upto(k - 1, g)
      BY <3>1, <3>2
    <3>4. PICK h : h = [s \in SUBSET (1..k) |-> IF k \in s THEN g[s \ {k}] + a[k] ELSE g[s]]
      OBVIOUS
    <3>5. ASSUME NEW s \in SUBSET (1..k)
          PROVE  h[s] = IF s = {} THEN b ELSE h[s \ {Max(s)}] + a[Max(s)]
      <4>1. CASE k \in s
        <5>1. Max(s) = k
          BY <3>1, <4>1, MaxIs
        <5>2. s \ {k} \in SUBSET (1..k) /\ k \notin s \ {k}
          OBVIOUS
        <5>3. h[s] = g[s \ {k}] + a[k] /\ h[s \ {k}] = g[s \ {k}]
          BY <3>4, <4>1, <5>2
        <5>4. QED
          BY <4>1, <5>1, <5>3
      <4>2. CASE k \notin s
        <5>1. s \in SUBSET (1..(k-1))
          BY <3>1, <4>2
        <5>2. g[s] = IF s = {} THEN b ELSE g[s \ {Max(s)}] + a[Max(s)]
          BY <3>3, <5>1
        <5>3. h[s] = g[s] /\ h[s \ {Max(s)}] = g[s \ {Max(s)}]
          BY <3>4, <4>2
        <5>4. QED
          BY <5>2, <5>3
      <4>3. QED
        BY <4>1, <4>2
    <3>6. h = [s \in SUBSET (1..k) |-> h[s]]
      BY <3>4
    <3>7. Upto(k, h)
      BY <3>5, <3>6
    <3>8. QED
      BY <2>3, <3>7
  <2>6. QED
    BY <2>4, <2>5
<1>2. n \in 0..n
  OBVIOUS
<1>3. PICK g : Upto(n, g)
  BY <1>1, <1>2
<1>4. DOMAIN a = 1..n
  OBVIOUS
<1>5. Sums(b, a, g)
  BY <1>3, <1>4 DEF Sums
<1>6. QED
  BY <1>5

\* A sum from b on is b more than the one from nothing.
LEMMA SumsShift ==
    ASSUME NEW b \in Nat, NEW n \in Nat, NEW a \in [1..n -> Nat],
           NEW g, NEW h, Sums(b, a, g), Sums(0, a, h)
    PROVE  g[1..n] = b + h[1..n] /\ h[1..n] \in Nat
<1> DEFINE Bad == {k \in 0..n : ~(g[1..k] = b + h[1..k] /\ h[1..k] \in Nat)}
<1>1. DOMAIN a = 1..n
  OBVIOUS
<1>2. ASSUME NEW k \in 0..n
      PROVE  /\ k = 0 => g[1..k] = b /\ h[1..k] = 0
             /\ k # 0 => g[1..k] = g[1..(k-1)] + a[k] /\ h[1..k] = h[1..(k-1)] + a[k]
  <2>1. 1..k \in SUBSET DOMAIN a
    BY <1>1
  <2>2. CASE k = 0
    <3>1. 1..k = {}
      BY <2>2
    <3>2. QED
      BY <2>1, <2>2, <3>1 DEF Sums
  <2>3. CASE k # 0
    <3>1. k \in 1..k /\ (1..k) \ {k} = 1..(k-1) /\ 1..k # {}
      <4>1. k \in Nat /\ k >= 1
        BY <2>3
      <4>2. \A i \in Nat : i <= k - 1 <=> i <= k /\ i # k
        BY <4>1
      <4>3. (1..k) \ {k} = 1..(k-1)
        BY <4>1, <4>2
      <4>4. k \in 1..k
        BY <4>1
      <4>5. QED
        BY <4>3, <4>4
    <3>2. Max(1..k) = k
      BY <3>1, MaxIs
    <3>3. g[1..k] = g[(1..k) \ {k}] + a[k]
      BY <2>1, <3>1, <3>2 DEF Sums
    <3>4. h[1..k] = h[(1..k) \ {k}] + a[k]
      BY <2>1, <3>1, <3>2 DEF Sums
    <3>5. QED
      BY <2>3, <3>1, <3>3, <3>4
  <2>4. QED
    BY <2>2, <2>3
<1>3. Bad = {}
  <2>1. SUFFICES ASSUME Bad # {} PROVE FALSE
    OBVIOUS
  <2>2. PICK k \in Bad : \A j \in Bad : k <= j
    <3>1. Bad \in SUBSET Nat
      OBVIOUS
    <3>2. QED
      BY <2>1, <3>1, FirstLemma
  <2>3. k \in 0..n /\ ~(g[1..k] = b + h[1..k] /\ h[1..k] \in Nat)
    OBVIOUS
  <2>4. k # 0
    BY <1>2, <2>3
  <2>5. k - 1 \in 0..n /\ k - 1 < k /\ k \in 1..n
    BY <2>3, <2>4
  <2>6. g[1..(k-1)] = b + h[1..(k-1)] /\ h[1..(k-1)] \in Nat
    BY <2>2, <2>5
  <2>7. a[k] \in Nat
    BY <2>5
  <2>8. g[1..k] = g[1..(k-1)] + a[k] /\ h[1..k] = h[1..(k-1)] + a[k]
    BY <1>2, <2>3, <2>4
  <2>9. QED
    BY <2>3, <2>6, <2>7, <2>8
<1>4. QED
  BY <1>3

LEMMA MaxIn ==
    ASSUME NEW n \in Nat, NEW s \in SUBSET (1..n), s # {}
    PROVE  Max(s) \in s
<1> DEFINE S == {n - i : i \in s}
<1>1. S \in SUBSET Nat /\ S # {}
  <2>1. \A i \in s : i \in 1..n
    OBVIOUS
  <2>2. \A i \in 1..n : n - i \in Nat
    OBVIOUS
  <2>3. QED
    BY <2>1, <2>2
<1>2. PICK k \in S : \A j \in S : k <= j
  BY <1>1, FirstLemma
<1>3. PICK i \in s : k = n - i
  OBVIOUS
<1>4. \A j \in s : j <= i
  <2>1. TAKE j \in s
  <2>2. n - j \in S
    OBVIOUS
  <2>3. n - i <= n - j /\ i \in Nat /\ j \in Nat
    BY <1>2, <1>3, <2>2
  <2>4. QED
    BY <2>3
<1>5. QED
  BY <1>4, MaxIs

\* a holds the sizes of n texts; what each text of a draft adds to its length, b before them.
Sizes(texts, n, a) == DOMAIN texts = 1..n /\ a = [i \in 1..n |-> WordSize[texts[i]]]
Lengths(draft, n, a, b) ==
    /\ DOMAIN draft.body = 1..n
    /\ a = [i \in 1..n |-> WordSize[draft.body[i].says] + Cardinality(draft.body[i].marks)]
    /\ b = IF draft.notice THEN NoticeSize ELSE 0

LEMMA TotalSums ==
    ASSUME NEW n \in Nat, NEW texts, NEW a, Sizes(texts, n, a), \E g : Sums(0, a, g)
    PROVE  \E g : Sums(0, a, g) /\ TotalSize(texts) = g[1..n]
<1>0. DOMAIN texts = 1..n /\ a = [i \in 1..n |-> WordSize[texts[i]]]
  BY DEF Sizes
<1> DEFINE Folds(g) == g = [s \in SUBSET DOMAIN texts |-> IF s = {} THEN 0
                              ELSE g[s \ {Max(s)}] + WordSize[texts[Max(s)]]]
<1>1. TotalSize(texts) = (CHOOSE g : Folds(g))[DOMAIN texts]
  BY DEF TotalSize, FoldLeft, MapThenFoldSet
<1>2. \A g : Folds(g) <=> Sums(0, a, g)
  <2>1. TAKE g
  <2>2. \A s \in SUBSET (1..n) : s # {} => WordSize[texts[Max(s)]] = a[Max(s)]
    BY <1>0, MaxIn
  <2>3. DOMAIN a = DOMAIN texts
    BY <1>0
  <2>4. QED
    BY <1>0, <2>2, <2>3 DEF Sums
<1>3. \E g : Folds(g)
  BY <1>2
<1>4. PICK f : f = CHOOSE g : Folds(g)
  OBVIOUS
<1>5. Folds(f)
  BY <1>3, <1>4, Zenon
<1>6. QED
  BY <1>0, <1>1, <1>2, <1>4, <1>5

LEMMA LengthSums ==
    ASSUME NEW n \in Nat, NEW draft, NEW a, NEW b, Lengths(draft, n, a, b), \E g : Sums(b, a, g)
    PROVE  \E g : Sums(b, a, g) /\ Length(draft) = g[1..n]
<1> DEFINE texts == draft.body
           Folds(g) == g = [s \in SUBSET DOMAIN texts |-> IF s = {} THEN b
                              ELSE g[s \ {Max(s)}] + (WordSize[texts[Max(s)].says]
                                                      + Cardinality(texts[Max(s)].marks))]
<1>0. /\ DOMAIN draft.body = 1..n
      /\ a = [i \in 1..n |-> WordSize[draft.body[i].says] + Cardinality(draft.body[i].marks)]
      /\ b = IF draft.notice THEN NoticeSize ELSE 0
  BY DEF Lengths
<1>1. Length(draft) = (CHOOSE g : Folds(g))[DOMAIN texts]
  BY <1>0 DEF Length, FoldLeft, MapThenFoldSet
<1>2. \A g : Folds(g) <=> Sums(b, a, g)
  <2>1. TAKE g
  <2>2. \A s \in SUBSET (1..n) : s # {} =>
          WordSize[texts[Max(s)].says] + Cardinality(texts[Max(s)].marks) = a[Max(s)]
    BY <1>0, MaxIn
  <2>3. DOMAIN a = DOMAIN texts
    BY <1>0
  <2>4. QED
    BY <1>0, <2>2, <2>3 DEF Sums
<1>3. \E g : Folds(g)
  BY <1>2
<1>4. PICK f : f = CHOOSE g : Folds(g)
  OBVIOUS
<1>5. Folds(f)
  BY <1>3, <1>4, Zenon
<1>6. QED
  BY <1>0, <1>1, <1>2, <1>4, <1>5

LEMMA LengthIs ==
    ASSUME NEW n \in Nat, NEW a \in [1..n -> Nat], NEW b \in Nat, NEW texts, NEW draft,
           Sizes(texts, n, a), Lengths(draft, n, a, b)
    PROVE  Length(draft) = TotalSize(texts) + b
<1>1. \E g : Sums(b, a, g)
  BY SumsExist
<1>2. \E h : Sums(0, a, h)
  BY SumsExist
<1>3. PICK g : Sums(b, a, g) /\ Length(draft) = g[1..n]
  BY <1>1, LengthSums
<1>4. PICK h : Sums(0, a, h) /\ TotalSize(texts) = h[1..n]
  BY <1>2, TotalSums
<1>5. g[1..n] = b + h[1..n] /\ h[1..n] \in Nat
  BY <1>3, <1>4, SumsShift
<1>6. QED
  BY <1>3, <1>4, <1>5

\* Texts without a break are one paragraph.
LEMMA NoBreaks ==
    ASSUME NEW draft, \A i \in DOMAIN draft.body : draft.body[i].marks = {}
    PROVE  Paragraphs(draft) = 1 + (IF draft.notice THEN 1 ELSE 0)
<1>1. {i \in DOMAIN draft.body : "break" \in draft.body[i].marks} = {}
  OBVIOUS
<1>2. Cardinality({i \in DOMAIN draft.body : "break" \in draft.body[i].marks}) = 0
  BY <1>1, FS_EmptySet
<1>3. QED
  BY <1>2 DEF Paragraphs

-----------------------------------------------------------------------------
(* A faithful answer *)

\* What was asked for is a sequence of texts, and not an empty one.
AskedInv ==
    /\ policy \in DraftSettings
    /\ workload # Nothing => workload.assertion \in Seq(Words) /\ workload.assertion # <<>>

LEMMA AssertionsAre ==
    ASSUME NEW kind, NEW options, NEW words \in Words \cup {NoWords},
           options \in {<<>>} \cup {<<o>> : o \in Option} \cup (Option \X Option),
           WellFormed(kind, options, words)
    PROVE  AssertionsOf(kind, options, words) \in Seq(Words)
           /\ AssertionsOf(kind, options, words) # <<>>
<1>1. options \in Seq(Option)
  <2>1. <<>> \in Seq(Option)
    OBVIOUS
  <2>2. \A o \in Option : <<o>> \in Seq(Option)
    OBVIOUS
  <2>3. \A o, p \in Option : <<o, p>> \in Seq(Option)
    OBVIOUS
  <2>4. CASE options \in {<<o>> : o \in Option}
    <3>1. PICK o \in Option : options = <<o>>
      BY <2>4
    <3>2. QED
      BY <2>2, <3>1
  <2>5. CASE options \in Option \X Option
    <3>1. PICK o \in Option, p \in Option : options = <<o, p>>
      BY <2>5
    <3>2. QED
      BY <2>3, <3>1
  <2>6. QED
    BY <2>1, <2>4, <2>5
<1>2. PICK said : said = IF kind = "generate" THEN [i \in DOMAIN options |-> Proposition[options[i]]]
                                              ELSE <<>>
  OBVIOUS
<1>3. PICK own : own = IF words = NoWords THEN <<>> ELSE <<words>>
  OBVIOUS
<1>4. said \in Seq(Words) /\ (kind = "generate" => Len(said) = Len(options))
  <2>1. CASE kind = "generate"
    <3>1. said = [i \in 1..Len(options) |-> Proposition[options[i]]]
      BY <1>1, <1>2, <2>1
    <3>2. \A i \in 1..Len(options) : Proposition[options[i]] \in Words
      BY <1>1, AcceptanceAssumption
    <3>3. said \in [1..Len(options) -> Words] /\ Len(options) \in Nat
      BY <1>1, <3>1, <3>2
    <3>4. QED
      BY <3>3
  <2>2. CASE kind # "generate"
    BY <1>2, <2>2
  <2>3. QED
    BY <2>1, <2>2
<1>5. own \in Seq(Words) /\ (words # NoWords => Len(own) = 1) /\ Len(own) \in Nat
  BY <1>3
<1>6. AssertionsOf(kind, options, words) = said \o own
  BY <1>2, <1>3 DEF AssertionsOf
<1>7. said \o own \in Seq(Words) /\ Len(said \o own) = Len(said) + Len(own)
  BY <1>4, <1>5
<1>8. words # NoWords \/ (kind = "generate" /\ options # <<>>)
  <2>1. CASE kind = "generate"
    BY <2>1 DEF WellFormed
  <2>2. CASE kind = "paraphrase"
    BY <2>2 DEF WellFormed
  <2>3. CASE kind # "generate" /\ kind # "paraphrase"
    BY <2>3 DEF WellFormed
  <2>4. QED
    BY <2>1, <2>2, <2>3
<1>9. options # <<>> => Len(options) # 0
  BY <1>1
<1>10. Len(said) + Len(own) # 0
  <2>1. Len(said) \in Nat /\ Len(own) \in Nat
    BY <1>4, <1>5
  <2>2. CASE words # NoWords
    <3>1. Len(own) = 1
      BY <1>5, <2>2
    <3>2. QED
      BY <2>1, <3>1
  <2>3. CASE kind = "generate" /\ options # <<>>
    BY <1>4, <1>9, <2>1, <2>3
  <2>4. QED
    BY <1>8, <2>2, <2>3
<1>11. said \o own # <<>>
  BY <1>7, <1>10
<1>12. QED
  BY <1>6, <1>7, <1>11

LEMMA AskedKept == AskedInv /\ [AcceptanceNext]_acceptanceVars => AskedInv'
<1>1. SUFFICES ASSUME AskedInv, [AcceptanceNext]_acceptanceVars PROVE AskedInv'
  OBVIOUS
<1>2. ASSUME NEW kind \in {"generate", "paraphrase", "condense"}, NEW words \in Words \cup {NoWords},
             NEW options \in {<<>>} \cup {<<o>> : o \in Option} \cup (Option \X Option),
             AdmitWords(kind, options, words)
      PROVE  AskedInv'
  <2>1. workload'.assertion = AssertionsOf(kind, options, words) /\ UNCHANGED policy
    BY <1>2 DEF AdmitWords
  <2>2. WellFormed(kind, options, words)
    BY <1>2 DEF AdmitWords
  <2>3. workload'.assertion \in Seq(Words) /\ workload'.assertion # <<>>
    BY <2>1, <2>2, AssertionsAre
  <2>4. QED
    BY <1>1, <2>1, <2>3 DEF AskedInv
<1>3. CASE UNCHANGED <<policy, workload>>
  BY <1>1, <1>3 DEF AskedInv
<1>4. QED
  BY <1>1, <1>2, <1>3 DEF AcceptanceNext, Accept, KeepResult, acceptanceVars

\* A faithful answer's claims, and their draft.
LEMMA VerbatimClaims ==
    ASSUME NEW n \in Nat, DOMAIN workload.assertion = 1..n
    PROVE  CandidateOf(Verbatim) =
             [i \in 1..n |-> [id |-> <<"provider-claim", i>>,
                              text |-> [says |-> workload.assertion[i], marks |-> {}],
                              grounding |-> <<i>>]]
<1>1. PICK v : v = Verbatim
  OBVIOUS
<1>2. v = [i \in 1..n |-> [name |-> "none", text |-> [says |-> workload.assertion[i], marks |-> {}],
                           cites |-> <<i>>]]
  BY <1>1 DEF Verbatim
<1>3. /\ DOMAIN v = 1..n
      /\ \A i \in 1..n : /\ v[i].name = "none" /\ v[i].cites = <<i>>
                         /\ v[i].text = [says |-> workload.assertion[i], marks |-> {}]
  BY <1>2
<1>4. CandidateOf(v) = [i \in 1..n |->
    [id |-> IF v[i].name = "none" THEN <<"provider-claim", i>> ELSE <<v[i].name>>,
     text |-> v[i].text, grounding |-> v[i].cites]]
  BY <1>3 DEF CandidateOf
<1>5. QED
  BY <1>1, <1>3, <1>4

\* A draft without marks is as long as what it says, with its notice.
Plain(draft, texts, n) == n = Len(texts) /\ draft.body = [i \in 1..n |-> [says |-> texts[i], marks |-> {}]]

LEMMA PlainLength ==
    ASSUME NEW n \in Nat, NEW texts \in Seq(Words), NEW draft, Plain(draft, texts, n)
    PROVE  Length(draft) = TotalSize(texts) + (IF draft.notice THEN NoticeSize ELSE 0)
<1>0. n = Len(texts) /\ draft.body = [i \in 1..n |-> [says |-> texts[i], marks |-> {}]]
  BY DEF Plain
<1>1. PICK b : b = IF draft.notice THEN NoticeSize ELSE 0
  OBVIOUS
<1>2. b \in Nat
  BY <1>1, AcceptanceAssumption
<1>3. PICK a : a = [i \in 1..n |-> WordSize[texts[i]]]
  OBVIOUS
<1>4. \A i \in 1..n : WordSize[texts[i]] \in Nat
  BY <1>0, AcceptanceAssumption
<1>5. a \in [1..n -> Nat]
  BY <1>3, <1>4
<1>6. DOMAIN texts = 1..n /\ DOMAIN draft.body = 1..n
  BY <1>0
<1>7. a = [i \in 1..n |-> WordSize[draft.body[i].says] + Cardinality(draft.body[i].marks)]
  <2>1. Cardinality({}) = 0
    BY FS_EmptySet
  <2>2. ASSUME NEW i \in 1..n
        PROVE  WordSize[draft.body[i].says] + Cardinality(draft.body[i].marks) = WordSize[texts[i]]
    <3>1. draft.body[i].says = texts[i] /\ draft.body[i].marks = {}
      BY <1>0
    <3>2. PICK w \in Nat : w = WordSize[texts[i]]
      BY <1>4
    <3>3. WordSize[draft.body[i].says] = w
      BY <3>1, <3>2
    <3>4. Cardinality(draft.body[i].marks) = 0
      BY <2>1, <3>1
    <3>5. w + 0 = w
      OBVIOUS
    <3>6. QED
      BY <3>2, <3>3, <3>4, <3>5
  <2>3. QED
    BY <1>3, <2>2
<1>8. Sizes(texts, n, a)
  BY <1>3, <1>6 DEF Sizes
<1>9. Lengths(draft, n, a, b)
  BY <1>1, <1>6, <1>7 DEF Lengths
<1>10. Length(draft) = TotalSize(texts) + b
  <2>1. n \in Nat
    OBVIOUS
  <2>2. QED
    BY <1>2, <1>5, <1>8, <1>9, <2>1, LengthIs
<1>11. QED
  BY <1>1, <1>10

LEMMA AskedIsKept == AskedInv => FaithfulIsKept
<1> DEFINE A == workload.assertion
<1>1. SUFFICES ASSUME AskedInv, workload # Nothing,
                      Range(A) \cap Banned = {},
                      policy.secondPerson \/ Range(A) \cap Addresses = {},
                      policy.disclosure => policy.provenance,
                      TotalSize(A) + (IF policy.disclosure THEN NoticeSize ELSE 0)
                        \in policy.minChars..policy.maxChars,
                      policy.paragraphs = IF policy.disclosure THEN 2 ELSE 1
               PROVE  ResultOf(Verbatim).status = "completed"
  BY DEF FaithfulIsKept
<1>2. A \in Seq(Words) /\ A # <<>> /\ policy \in DraftSettings
  BY <1>1 DEF AskedInv
<1>3. PICK n \in Nat : n = Len(A)
  BY <1>2
<1>4. DOMAIN A = 1..n /\ 1 \in 1..n
  BY <1>2, <1>3
<1>5. PICK claims : claims = CandidateOf(Verbatim)
  OBVIOUS
<1>6. claims = [i \in 1..n |-> [id |-> <<"provider-claim", i>>,
                                text |-> [says |-> A[i], marks |-> {}],
                                grounding |-> <<i>>]]
  BY <1>4, <1>5, VerbatimClaims
<1>7. DOMAIN claims = 1..n
      /\ \A i \in 1..n : /\ claims[i].id = <<"provider-claim", i>>
                         /\ claims[i].text = [says |-> A[i], marks |-> {}]
                         /\ claims[i].grounding = <<i>>
  BY <1>6
<1>8. \A i \in 1..n : claims[i].text.says = A[i] /\ claims[i].text.marks = {}
  <2>1. TAKE i \in 1..n
  <2>2. PICK text : text = [says |-> A[i], marks |-> {}]
    OBVIOUS
  <2>3. claims[i].text = text
    BY <1>7, <2>2
  <2>4. text.says = A[i] /\ text.marks = {}
    BY <2>2
  <2>5. QED
    BY <2>3, <2>4
<1>9. \A i \in 1..n : Len(<<i>>) = 1 /\ <<i>>[1] = i /\ Range(<<i>>) = {i} /\ <<i>> # <<>>
  BY DEF Range
<1>10. ClaimsRepeat(Verbatim)
  <2>1. PICK v : v = Verbatim
    OBVIOUS
  <2>2. v = [i \in 1..n |-> [name |-> "none", text |-> [says |-> A[i], marks |-> {}], cites |-> <<i>>]]
    BY <1>4, <2>1 DEF Verbatim
  <2>3. DOMAIN v = 1..n /\ \A i \in 1..n : v[i].cites = <<i>> /\ v[i].text.says = A[i]
    BY <2>2
  <2>4. ASSUME NEW c \in Range(v)
        PROVE  /\ Len(c.cites) = 1 /\ c.cites[1] \in DOMAIN A
               /\ c.text.says = A[c.cites[1]]
    <3>1. PICK i \in 1..n : c = v[i]
      BY <2>3 DEF Range
    <3>2. c.cites = <<i>> /\ c.text.says = A[i]
      BY <2>3, <3>1
    <3>3. i \in DOMAIN A /\ Len(<<i>>) = 1 /\ <<i>>[1] = i
      BY <1>4
    <3>4. QED
      BY <3>2, <3>3
  <2>5. QED
    BY <2>1, <2>4 DEF ClaimsRepeat
<1>11. Covered(claims)
  <2>1. claims # <<>>
    <3>1. DOMAIN <<>> = {}
      OBVIOUS
    <3>2. QED
      BY <1>4, <1>7, <3>1
  <2>2. PICK ids : ids = [i \in DOMAIN claims |-> claims[i].id]
    OBVIOUS
  <2>3. DOMAIN ids = 1..n /\ \A i \in 1..n : ids[i] = <<"provider-claim", i>>
    BY <1>7, <2>2
  <2>4. \A i, j \in 1..n : ids[i] = ids[j] => i = j
    BY <2>3
  <2>5. IsInjective(ids)
    BY <2>3, <2>4 DEF IsInjective
  <2>6. QED
    BY <2>1, <2>2, <2>5 DEF Covered
<1>12. Evident(claims)
  <2>1. ASSUME NEW c \in Range(claims)
        PROVE  c.grounding # <<>> /\ Range(c.grounding) \subseteq DOMAIN A
    <3>1. PICK i \in 1..n : c = claims[i]
      BY <1>7 DEF Range
    <3>2. c.grounding = <<i>>
      BY <1>7, <3>1
    <3>3. QED
      BY <1>4, <1>9, <3>2
  <2>2. QED
    BY <2>1 DEF Evident
<1>13. Postcondition(claims)
  <2>1. ASSUME NEW k \in DOMAIN A PROVE \E c \in Range(claims) : k \in Range(c.grounding)
    <3>1. claims[k] \in Range(claims) /\ claims[k].grounding = <<k>>
      BY <1>4, <1>7 DEF Range
    <3>2. QED
      BY <1>4, <1>9, <3>1
  <2>2. QED
    BY <2>1 DEF Postcondition
<1>14. Grounded(claims)
  BY <1>11, <1>12, <1>13 DEF Grounded
<1>15. StillBound(claims)
  <2>1. ASSUME NEW c \in Range(claims)
        PROVE  /\ Len(c.grounding) = 1 /\ c.grounding[1] \in DOMAIN A
               /\ c.text.says = A[c.grounding[1]]
    <3>1. PICK i \in 1..n : c = claims[i]
      BY <1>7 DEF Range
    <3>2. c.grounding = <<i>> /\ c.text.says = A[i]
      BY <1>7, <1>8, <3>1
    <3>3. QED
      BY <1>4, <1>9, <3>2
  <2>2. QED
    BY <2>1 DEF StillBound
<1>16. PICK body : body = BodyOf(claims)
  OBVIOUS
<1>17. body = [i \in 1..n |-> [says |-> A[i], marks |-> {}]]
  BY <1>7, <1>16 DEF BodyOf
<1>18. PICK draft : draft = DraftOf(body)
  OBVIOUS
<1>19. draft.body = body /\ draft.notice = policy.disclosure /\ draft.notice \in BOOLEAN
  <2>1. policy.disclosure \in BOOLEAN /\ policy.provenance \in BOOLEAN
    BY <1>2 DEF DraftSettings
  <2>2. draft.body = body /\ draft.notice = (policy.disclosure /\ policy.provenance)
    BY <1>18 DEF DraftOf, Noticed
  <2>3. QED
    BY <1>1, <2>1, <2>2
<1>20. \A t \in Range(body) : t.says \in Range(A) /\ t.marks = {}
  <2>1. \A i \in 1..n : body[i].says = A[i] /\ body[i].marks = {} /\ A[i] \in Range(A)
    BY <1>4, <1>17 DEF Range
  <2>2. DOMAIN body = 1..n
    BY <1>17
  <2>3. QED
    BY <2>1, <2>2 DEF Range
<1>21. PolicyPassed(draft)
  BY <1>1, <1>19, <1>20 DEF PolicyPassed
<1>22. Length(draft) = TotalSize(A) + (IF policy.disclosure THEN NoticeSize ELSE 0)
  <2>1. Length(draft) = TotalSize(A) + (IF draft.notice THEN NoticeSize ELSE 0)
    <3>1. PICK texts \in Seq(Words) : texts = A
      BY <1>2
    <3>2. Plain(draft, texts, n)
      BY <1>3, <1>17, <1>19, <3>1 DEF Plain
    <3>3. Length(draft) = TotalSize(texts) + (IF draft.notice THEN NoticeSize ELSE 0)
      BY <3>2, PlainLength
    <3>4. QED
      BY <3>1, <3>3, Zenon
  <2>2. QED
    BY <1>19, <2>1
<1>23. Paragraphs(draft) = IF policy.disclosure THEN 2 ELSE 1
  <2>1. \A i \in DOMAIN draft.body : draft.body[i].marks = {}
    BY <1>17, <1>19
  <2>2. Paragraphs(draft) = 1 + (IF draft.notice THEN 1 ELSE 0)
    BY <2>1, NoBreaks
  <2>3. QED
    BY <1>19, <2>2
<1>24. FormatPassed(draft)
  <2>1. policy.minChars <= Length(draft) /\ Length(draft) <= policy.maxChars
    BY <1>1, <1>22
  <2>2. Paragraphs(draft) = policy.paragraphs
    BY <1>1, <1>23
  <2>3. \A t \in Range(draft.body) : "emoji" \notin t.marks
    BY <1>19, <1>20
  <2>4. policy.secondPerson \/ \A t \in Range(draft.body) : t.says \notin Addresses
    BY <1>1, <1>19, <1>20
  <2>5. QED
    BY <2>1, <2>2, <2>3, <2>4 DEF FormatPassed
<1>25. PICK artifact : artifact = [status |-> "completed", claims |-> claims, draft |-> draft]
  OBVIOUS
<1>26. artifact.status = "completed" /\ artifact.claims = claims /\ artifact.draft = draft
  BY <1>25
<1>27. Validation(artifact) = "pass"
  BY <1>14, <1>15, <1>16, <1>18, <1>19, <1>21, <1>24, <1>26 DEF Validation
<1>28. ResultOf(Verbatim) = artifact
  BY <1>5, <1>10, <1>14, <1>16, <1>18, <1>25, <1>27 DEF ResultOf
<1>29. QED
  BY <1>26, <1>28

(* FaithfulIsKept is an invariant of the acceptance of answers.              *)
THEOREM FaithfulTheorem == AcceptanceSpec => []FaithfulIsKept
<1>1. AcceptanceInit => AskedInv
  BY AcceptanceAssumption DEF AcceptanceInit, AskedInv
<1>2. QED
  BY <1>1, AskedKept, AskedIsKept, PTL DEF AcceptanceSpec
-----------------------------------------------------------------------------
(* What a publication makes of the options *)

\* A publication folds a draft twice, over its scope's settings and over the catalogue.
Before(fold, s) == IF fold = "settings" THEN layer[s] ELSE catalogue
OneApplied(cat, s, c) == IF cat # Refused /\ Applies(cat, s, c) THEN AfterChange(cat, s, c)
                         ELSE Refused
OneStep(fold, x, s, c) == IF fold = "settings" THEN AfterSetting(x, c) ELSE OneApplied(x, s, c)

\* What FoldLeft makes of the first n changes of a draft.
Applying(fold, s, n, g) == g = [t \in SUBSET (1..n) |->
    IF t = {} THEN Before(fold, s) ELSE OneStep(fold, g[t \ {Max(t)}], s, staged[s][Max(t)])]

LEMMA ApplyingExists ==
    ASSUME NEW fold, NEW s, NEW n \in Nat
    PROVE  \E g : Applying(fold, s, n, g)
<1> DEFINE Bad == {k \in 0..n : ~\E g : Applying(fold, s, k, g)}
<1>1. Bad = {}
  <2>1. SUFFICES ASSUME Bad # {} PROVE FALSE
    OBVIOUS
  <2>2. PICK k \in Bad : \A j \in Bad : k <= j
    <3>1. Bad \in SUBSET Nat
      OBVIOUS
    <3>2. QED
      BY <2>1, <3>1, FirstLemma
  <2>3. k \in 0..n /\ ~\E g : Applying(fold, s, k, g)
    OBVIOUS
  <2>4. CASE k = 0
    <3>1. PICK g : g = [t \in SUBSET (1..k) |-> Before(fold, s)]
      OBVIOUS
    <3>2. \A t \in SUBSET (1..k) : t = {}
      BY <2>4
    <3>3. \A t \in SUBSET (1..k) :
            (IF t = {} THEN Before(fold, s) ELSE OneStep(fold, g[t \ {Max(t)}], s, staged[s][Max(t)])) = Before(fold, s)
      BY <3>2
    <3>4. Applying(fold, s, k, g)
      BY <3>1, <3>3 DEF Applying
    <3>5. QED
      BY <2>3, <3>4
  <2>5. CASE k # 0
    <3>1. k - 1 \in 0..n /\ k - 1 < k /\ k \in Nat
      BY <2>3, <2>5
    <3>2. k - 1 \notin Bad
      <4>1. SUFFICES ASSUME k - 1 \in Bad PROVE FALSE
        OBVIOUS
      <4>2. k <= k - 1
        BY <2>2, <4>1, Zenon
      <4>3. QED
        BY <3>1, <4>2
    <3>3. PICK g : Applying(fold, s, k - 1, g)
      BY <3>1, <3>2
    <3>4. PICK h : h = [t \in SUBSET (1..k) |->
                          IF k \in t THEN OneStep(fold, g[t \ {k}], s, staged[s][k]) ELSE g[t]]
      OBVIOUS
    <3>5. ASSUME NEW t \in SUBSET (1..k)
          PROVE  h[t] = IF t = {} THEN Before(fold, s)
                        ELSE OneStep(fold, h[t \ {Max(t)}], s, staged[s][Max(t)])
      <4>1. CASE k \in t
        <5>1. Max(t) = k
          BY <3>1, <4>1, MaxIs
        <5>2. t \ {k} \in SUBSET (1..k) /\ k \notin t \ {k}
          OBVIOUS
        <5>3. h[t] = OneStep(fold, g[t \ {k}], s, staged[s][k]) /\ h[t \ {k}] = g[t \ {k}]
          BY <3>4, <4>1, <5>2
        <5>4. QED
          BY <4>1, <5>1, <5>3
      <4>2. CASE k \notin t
        <5>1. t \in SUBSET (1..(k-1))
          BY <3>1, <4>2
        <5>2. g[t] = IF t = {} THEN Before(fold, s) ELSE OneStep(fold, g[t \ {Max(t)}], s, staged[s][Max(t)])
          BY <3>3, <5>1 DEF Applying
        <5>3. h[t] = g[t] /\ h[t \ {Max(t)}] = g[t \ {Max(t)}]
          BY <3>4, <4>2
        <5>4. QED
          BY <5>2, <5>3
      <4>3. QED
        BY <4>1, <4>2
    <3>6. h = [t \in SUBSET (1..k) |-> h[t]]
      BY <3>4
    <3>7. Applying(fold, s, k, h)
      BY <3>5, <3>6 DEF Applying
    <3>8. QED
      BY <2>3, <3>7
  <2>6. QED
    BY <2>4, <2>5
<1>2. n \in 0..n
  OBVIOUS
<1>3. QED
  BY <1>1, <1>2

LEMMA AppliedIs ==
    ASSUME NEW s, NEW n \in Nat, DOMAIN staged[s] = 1..n
    PROVE  \E g : Applying("options", s, n, g) /\ Applied(s) = g[1..n]
<1> DEFINE Folds(g) == g = [t \in SUBSET DOMAIN staged[s] |->
               IF t = {} THEN catalogue
               ELSE IF g[t \ {Max(t)}] # Refused /\ Applies(g[t \ {Max(t)}], s, staged[s][Max(t)])
                    THEN AfterChange(g[t \ {Max(t)}], s, staged[s][Max(t)]) ELSE Refused]
<1>1. Applied(s) = (CHOOSE g : Folds(g))[DOMAIN staged[s]]
  BY DEF Applied, FoldLeft, MapThenFoldSet
<1>2. \A g : Folds(g) <=> Applying("options", s, n, g)
  BY DEF Applying, OneStep, OneApplied, Before
<1>3. \E g : Folds(g)
  BY <1>2, ApplyingExists
<1>4. PICK f : f = CHOOSE g : Folds(g)
  OBVIOUS
<1>5. Folds(f)
  BY <1>3, <1>4, Zenon
<1>6. Applying("options", s, n, f)
  BY <1>2, <1>5, Zenon
<1>7. Applied(s) = f[1..n]
  BY <1>1, <1>4, Zenon
<1>8. QED
  BY <1>6, <1>7, Zenon

LEMMA HeldIs ==
    ASSUME NEW s, NEW n \in Nat, DOMAIN staged[s] = 1..n
    PROVE  \E g : /\ Applying("settings", s, n, g)
                  /\ FoldLeft(AfterSetting, layer[s], staged[s]) = g[1..n]
<1> DEFINE Folds(g) == g = [t \in SUBSET DOMAIN staged[s] |->
               IF t = {} THEN layer[s] ELSE AfterSetting(g[t \ {Max(t)}], staged[s][Max(t)])]
<1>1. FoldLeft(AfterSetting, layer[s], staged[s]) = (CHOOSE g : Folds(g))[DOMAIN staged[s]]
  BY DEF FoldLeft, MapThenFoldSet
<1>2. \A g : Folds(g) <=> Applying("settings", s, n, g)
  BY DEF Applying, OneStep, Before
<1>3. \E g : Folds(g)
  BY <1>2, ApplyingExists
<1>4. PICK f : f = CHOOSE g : Folds(g)
  OBVIOUS
<1>5. Folds(f)
  BY <1>3, <1>4, Zenon
<1>6. Applying("settings", s, n, f)
  BY <1>2, <1>5, Zenon
<1>7. FoldLeft(AfterSetting, layer[s], staged[s]) = f[1..n]
  BY <1>1, <1>4, Zenon
<1>8. QED
  BY <1>6, <1>7, Zenon

LEMMA ApplyingStep ==
    ASSUME NEW fold, NEW s, NEW n \in Nat, NEW g, Applying(fold, s, n, g), NEW k \in 0..n
    PROVE  /\ k = 0 => g[1..k] = Before(fold, s)
           /\ k # 0 => g[1..k] = OneStep(fold, g[1..(k-1)], s, staged[s][k])
<1>1. 1..k \in SUBSET (1..n)
  OBVIOUS
<1>2. CASE k = 0
  <2>1. 1..k = {}
    BY <1>2
  <2>2. QED
    BY <1>1, <1>2, <2>1 DEF Applying
<1>3. CASE k # 0
  <2>1. k \in Nat /\ k >= 1
    BY <1>3
  <2>2. \A i \in Nat : i <= k - 1 <=> i <= k /\ i # k
    BY <2>1
  <2>3. (1..k) \ {k} = 1..(k-1)
    BY <2>1, <2>2
  <2>4. k \in 1..k /\ 1..k # {}
    BY <2>1
  <2>5. Max(1..k) = k
    BY <2>4, MaxIs
  <2>6. g[1..k] = OneStep(fold, g[(1..k) \ {k}], s, staged[s][k])
    BY <1>1, <2>4, <2>5 DEF Applying
  <2>7. QED
    BY <1>3, <2>3, <2>6
<1>4. QED
  BY <1>2, <1>3

-----------------------------------------------------------------------------
(* What a change makes of the options *)

\* The rows of a key have one owner, and one of them at most is live.
RowFields == {"key", "version", "owner", "active", "order", "live"}
RowsGood(rows) ==
    /\ \A o \in rows : DOMAIN o = RowFields /\ o.version \in Nat /\ o.live \in BOOLEAN
    /\ \A o, p \in rows : o.key = p.key => o.owner = p.owner
    /\ \A o, p \in rows : o.key = p.key /\ o.live = TRUE /\ p.live = TRUE => o = p
CatalogueGood(cat) == /\ DOMAIN cat = {"options", "format", "action"}
                      /\ DOMAIN cat.format = Formats
                      /\ RowsGood(cat.options)

Others(rows, s) == {o \in rows : o.owner # s}
StayLive(rows, after) == \A o \in rows : \E q \in after : q.key = o.key /\ q.owner = o.owner
Alike(q, o) == /\ q.key = o.key /\ q.owner = o.owner /\ q.live = o.live
               /\ q.version = o.version /\ q.active = o.active
\* Rows of keys that are not touched keep all but their order; other rows have new keys.
KeepsBut(rows, after, touched) ==
    /\ \A o \in rows : o.key \notin touched => \E q \in after : Alike(q, o)
    /\ \A q \in after : q.key \notin touched =>
          (\E o \in rows : Alike(q, o)) \/ \A o \in rows : o.key # q.key

MayTouch(c) == IF c.op \in {"update", "delete"} THEN {c.id[1]} ELSE {}
Done(cat, s, c) ==
    /\ c.op = "update" => \E o \in cat.options :
          /\ o.live = TRUE /\ o.owner = s /\ o.key = c.id[1]
          /\ o.version = c.id[2] + 1 /\ o.active = c.active
    /\ c.op = "delete" => /\ \E o \in cat.options : o.key = c.id[1] /\ o.owner = s
                          /\ \A o \in cat.options : o.live = TRUE => o.key # c.id[1]
    /\ c.op = "format" => cat.format[c.style] = c.to
    /\ c.op = "action" => cat.action = c.enabled

\* The rows a change of s leaves.
RowsGranted(rows, after, s, c) ==
    /\ RowsGood(after)
    /\ Others(after, s) = Others(rows, s)
    /\ StayLive(rows, after)
    /\ KeepsBut(rows, after, MayTouch(c))
Granted(cat, after, s, c) ==
    /\ DOMAIN after = {"options", "format", "action"} /\ DOMAIN after.format = Formats
    /\ RowsGranted(cat.options, after.options, s, c)
    /\ \A x \in Formats : c.op # "format" \/ x # c.style => after.format[x] = cat.format[x]
    /\ c.op # "action" => after.action = cat.action
    /\ Done(after, s, c)

LEMMA ExceptRow ==
    ASSUME NEW o, DOMAIN o = RowFields, NEW f \in {"version", "active", "order", "live"}, NEW v,
           NEW q, q = [o EXCEPT ![f] = v]
    PROVE  /\ DOMAIN q = RowFields /\ q.key = o.key /\ q.owner = o.owner
           /\ q.version = IF f = "version" THEN v ELSE o.version
           /\ q.active = IF f = "active" THEN v ELSE o.active
           /\ q.live = IF f = "live" THEN v ELSE o.live
<1>1. q = [x \in RowFields |-> IF x = f THEN v ELSE o[x]]
  BY DEF RowFields
<1>2. \A x \in {"key", "owner", "version", "active", "live"} : q[x] = IF x = f THEN v ELSE o[x]
  BY <1>1 DEF RowFields
<1>3. DOMAIN q = RowFields
  BY <1>1
<1>4. QED
  BY <1>2, <1>3

\* Each row is itself or, if it is of s, another of its key and version, live only if it was.
Rewrites(image, rows, s) ==
    /\ DOMAIN image = rows
    /\ \A o \in rows : /\ DOMAIN image[o] = RowFields /\ image[o].live \in BOOLEAN
                       /\ image[o].key = o.key /\ image[o].owner = o.owner
                       /\ image[o].version = o.version
                       /\ image[o].live = TRUE => o.live = TRUE
                       /\ o.owner # s => image[o] = o

LEMMA RewrittenRows ==
    ASSUME NEW rows, RowsGood(rows), NEW s, NEW image, Rewrites(image, rows, s),
           NEW after, after = {image[o] : o \in rows}
    PROVE  /\ RowsGood(after) /\ Others(after, s) = Others(rows, s) /\ StayLive(rows, after)
           /\ \A q \in after : \E o \in rows : q = image[o]
<1>1. \A q \in after : \E o \in rows : q = image[o]
  OBVIOUS
<1>2. \A o \in rows : image[o] \in after
  OBVIOUS
<1>3. RowsGood(after)
  <2>1. ASSUME NEW q \in after PROVE DOMAIN q = RowFields /\ q.version \in Nat /\ q.live \in BOOLEAN
    BY <1>1 DEF Rewrites, RowsGood
  <2>2. ASSUME NEW q \in after, NEW r \in after, q.key = r.key
        PROVE  q.owner = r.owner /\ (q.live = TRUE /\ r.live = TRUE => q = r)
    <3>1. PICK o \in rows : q = image[o]
      BY <1>1
    <3>2. PICK p \in rows : r = image[p]
      BY <1>1
    <3>3. o.key = p.key /\ q.owner = o.owner /\ r.owner = p.owner
      BY <2>2, <3>1, <3>2 DEF Rewrites
    <3>4. o.owner = p.owner
      BY <3>3 DEF RowsGood
    <3>5. ASSUME q.live = TRUE, r.live = TRUE PROVE q = r
      <4>1. o.live = TRUE /\ p.live = TRUE
        BY <3>1, <3>2, <3>5 DEF Rewrites
      <4>2. o = p
        BY <3>3, <4>1 DEF RowsGood
      <4>3. QED
        BY <3>1, <3>2, <4>2
    <3>6. QED
      BY <3>3, <3>4, <3>5
  <2>3. QED
    BY <2>1, <2>2 DEF RowsGood
<1>4. Others(after, s) = Others(rows, s)
  <2>1. \A q \in after : q.owner # s => q \in rows
    BY <1>1 DEF Rewrites
  <2>2. \A o \in rows : o.owner # s => o \in after
    BY <1>2 DEF Rewrites
  <2>3. QED
    BY <2>1, <2>2 DEF Others
<1>5. StayLive(rows, after)
  BY <1>2 DEF StayLive, Rewrites
<1>6. QED
  BY <1>1, <1>3, <1>4, <1>5

\* A row that may join the others of its key: none of them is live.
New(rows, q, s) ==
    /\ DOMAIN q = RowFields /\ q.owner = s /\ q.version \in Nat /\ q.live \in BOOLEAN
    /\ \A o \in rows : o.key = q.key => o.owner = s /\ o.live # TRUE

LEMMA AddedRow ==
    ASSUME NEW rows, RowsGood(rows), NEW q, NEW s, NEW after, after = rows \cup {q}, New(rows, q, s)
    PROVE  RowsGood(after) /\ Others(after, s) = Others(rows, s) /\ StayLive(rows, after)
<1>0. /\ DOMAIN q = RowFields /\ q.owner = s /\ q.version \in Nat /\ q.live \in BOOLEAN
      /\ \A o \in rows : o.key = q.key => o.owner = s /\ o.live # TRUE
  BY DEF New
<1>1. RowsGood(after)
  <2>1. \A o \in after : DOMAIN o = RowFields /\ o.version \in Nat /\ o.live \in BOOLEAN
    BY <1>0 DEF RowsGood
  <2>2. \A o, p \in after : o.key = p.key => o.owner = p.owner
    BY <1>0 DEF RowsGood
  <2>3. \A o, p \in after : o.key = p.key /\ o.live = TRUE /\ p.live = TRUE => o = p
    BY <1>0 DEF RowsGood
  <2>4. QED
    BY <2>1, <2>2, <2>3 DEF RowsGood
<1>2. Others(after, s) = Others(rows, s)
  BY <1>0 DEF Others
<1>3. StayLive(rows, after)
  BY DEF StayLive
<1>4. QED
  BY <1>1, <1>2, <1>3

LEMMA OptionsAre ==
    ASSUME NEW cat, CatalogueGood(cat), NEW rows, NEW s, NEW c, c.op \notin {"format", "action"},
           NEW after, after = [cat EXCEPT !.options = rows],
           RowsGranted(cat.options, rows, s, c), Done(after, s, c)
    PROVE  Granted(cat, after, s, c)
<1>1. DOMAIN cat = {"options", "format", "action"} /\ DOMAIN cat.format = Formats
  BY DEF CatalogueGood
<1>2. DOMAIN after = {"options", "format", "action"} /\ after.options = rows
      /\ after.format = cat.format /\ after.action = cat.action
  BY <1>1
<1>3. QED
  BY <1>1, <1>2 DEF Granted

LEMMA UpdateGives ==
    ASSUME NEW cat, CatalogueGood(cat), NEW s, NEW c, c.op = "update", Applies(cat, s, c)
    PROVE  Granted(cat, AfterChange(cat, s, c), s, c)
<1> DEFINE rows == cat.options
<1>1. RowsGood(rows)
  BY DEF CatalogueGood
<1>2. PICK o : o = CHOOSE r \in Owned(cat, s, {c.id}) : TRUE
  OBVIOUS
<1>3. Owned(cat, s, {c.id}) # {}
  BY DEF Applies
<1>4. o \in rows /\ o.owner = s /\ o.live = TRUE /\ IdOf(o) = c.id
  <2>1. o \in Owned(cat, s, {c.id})
    BY <1>2, <1>3
  <2>2. o \in rows /\ o.live /\ o.owner = s /\ IdOf(o) = c.id
    BY <2>1 DEF Owned
  <2>3. o.live \in BOOLEAN
    BY <1>1, <2>2 DEF RowsGood
  <2>4. QED
    BY <2>2, <2>3
<1>5. DOMAIN o = RowFields /\ o.version \in Nat /\ c.id[1] = o.key /\ c.id[2] = o.version
  BY <1>1, <1>4 DEF RowsGood, IdOf
<1>6. PICK v : v = o.version + 1
  OBVIOUS
<1>7. PICK p : p = [o EXCEPT !.live = FALSE]
  OBVIOUS
<1>8. PICK half : half = [o EXCEPT !.version = v]
  OBVIOUS
<1>9. PICK q : q = [half EXCEPT !.active = c.active]
  OBVIOUS
<1>10. q = [o EXCEPT !.version = @ + 1, !.active = c.active]
  BY <1>6, <1>8, <1>9
<1>11. /\ DOMAIN p = RowFields /\ p.key = o.key /\ p.owner = o.owner
       /\ p.version = o.version /\ p.live = FALSE
  BY <1>5, <1>7, ExceptRow
<1>12. /\ DOMAIN half = RowFields /\ half.key = o.key /\ half.owner = o.owner
       /\ half.version = v /\ half.live = o.live
  BY <1>5, <1>8, ExceptRow
<1>13. /\ DOMAIN q = RowFields /\ q.key = o.key /\ q.owner = s
       /\ q.version = o.version + 1 /\ q.live = TRUE /\ q.active = c.active
  <2>1. /\ DOMAIN q = RowFields /\ q.key = half.key /\ q.owner = half.owner
        /\ q.version = half.version /\ q.live = half.live /\ q.active = c.active
    BY <1>9, <1>12, ExceptRow
  <2>2. QED
    BY <1>4, <1>6, <1>12, <2>1
<1>14. PICK image : image = [x \in rows |-> IF x = o THEN p ELSE x]
  OBVIOUS
<1>15. Rewrites(image, rows, s)
  BY <1>1, <1>4, <1>11, <1>14 DEF Rewrites, RowsGood
<1>16. PICK dead : dead = {image[x] : x \in rows}
  OBVIOUS
<1>17. RowsGood(dead) /\ Others(dead, s) = Others(rows, s) /\ StayLive(rows, dead)
       /\ \A r \in dead : \E x \in rows : r = image[x]
  BY <1>1, <1>15, <1>16, RewrittenRows
<1>18. dead = (rows \ {o}) \cup {p}
  BY <1>4, <1>14, <1>16
<1>19. \A r \in dead : r.key = q.key => r.owner = q.owner /\ r.live # TRUE
  <2>1. ASSUME NEW r \in dead, r.key = q.key PROVE r.owner = q.owner /\ r.live # TRUE
    <3>1. CASE r = p
      BY <1>4, <1>11, <1>13, <3>1
    <3>2. CASE r \in rows \ {o}
      <4>1. r.key = o.key /\ r \in rows /\ r # o
        BY <1>13, <2>1, <3>2
      <4>2. r.owner = o.owner /\ ~(r.live = TRUE /\ o.live = TRUE)
        BY <1>1, <1>4, <4>1 DEF RowsGood
      <4>3. QED
        BY <1>4, <1>13, <4>2
    <3>3. QED
      BY <1>18, <3>1, <3>2
  <2>2. QED
    BY <2>1
<1>20. PICK after : after = dead \cup {q}
  OBVIOUS
<1>21. New(dead, q, s)
  <2>1. PICK w \in Nat : w = o.version
    BY <1>5
  <2>2. q.version \in Nat
    BY <1>13, <2>1
  <2>3. q.live \in BOOLEAN
    BY <1>13
  <2>4. QED
    BY <1>13, <1>19, <2>2, <2>3 DEF New
<1>22. RowsGood(after) /\ Others(after, s) = Others(dead, s) /\ StayLive(dead, after)
  BY <1>17, <1>20, <1>21, AddedRow
<1>23. StayLive(rows, after)
  BY <1>17, <1>20 DEF StayLive
<1>24. KeepsBut(rows, after, {o.key})
  <2>1. \A x : x.key # o.key => (x \in rows <=> x \in after)
    BY <1>11, <1>13, <1>18, <1>20
  <2>2. QED
    BY <2>1 DEF KeepsBut, Alike
<1>25. RowsGranted(rows, after, s, c)
  BY <1>5, <1>17, <1>22, <1>23, <1>24 DEF RowsGranted, MayTouch
<1>26. PICK result : result = [cat EXCEPT !.options = after]
  OBVIOUS
<1>27. result.options = after
  BY <1>26 DEF CatalogueGood
<1>28. AfterChange(cat, s, c) = result
  <2>1. AfterChange(cat, s, c) = UpdateOption(cat, c, CHOOSE r \in Owned(cat, s, {c.id}) : TRUE)
    BY DEF AfterChange
  <2>2. AfterChange(cat, s, c) = UpdateOption(cat, c, o)
    BY <1>2, <2>1
  <2>3. after = (rows \ {o}) \cup {p, q}
    BY <1>18, <1>20
  <2>4. QED
    BY <1>7, <1>10, <1>26, <2>2, <2>3 DEF UpdateOption
<1>29. Done(result, s, c)
  <2>1. q \in result.options /\ q.live = TRUE /\ q.owner = s /\ q.key = c.id[1]
        /\ q.version = c.id[2] + 1 /\ q.active = c.active
    BY <1>5, <1>13, <1>20, <1>27
  <2>2. QED
    BY <2>1 DEF Done
<1>30. QED
  BY <1>25, <1>26, <1>28, <1>29, OptionsAre

LEMMA DeleteGives ==
    ASSUME NEW cat, CatalogueGood(cat), NEW s, NEW c, c.op = "delete", Applies(cat, s, c)
    PROVE  Granted(cat, AfterChange(cat, s, c), s, c)
<1> DEFINE rows == cat.options
<1>1. RowsGood(rows)
  BY DEF CatalogueGood
<1>2. PICK gone \in rows : gone.owner = s /\ gone.live = TRUE /\ IdOf(gone) = c.id
  <2>1. Owned(cat, s, {c.id}) # {}
    BY DEF Applies
  <2>2. PICK o : o \in Owned(cat, s, {c.id})
    BY <2>1
  <2>3. o \in rows /\ o.live /\ o.owner = s /\ IdOf(o) = c.id
    BY <2>2 DEF Owned
  <2>4. o.live \in BOOLEAN
    BY <1>1, <2>3 DEF RowsGood
  <2>5. QED
    BY <2>3, <2>4
<1>3. c.id[1] = gone.key
  BY <1>2 DEF IdOf
<1>4. \A o \in rows : IdOf(o) = c.id => o.key = gone.key /\ o.owner = s
  <2>1. TAKE o \in rows
  <2>2. HAVE IdOf(o) = c.id
  <2>3. o.key = gone.key
    BY <1>2, <2>2 DEF IdOf
  <2>4. QED
    BY <1>1, <1>2, <2>3 DEF RowsGood
<1>5. PICK Gone : Gone = [o \in rows |-> [o EXCEPT !.live = FALSE, !.active = FALSE]]
  OBVIOUS
<1>6. ASSUME NEW o \in rows
      PROVE  /\ DOMAIN Gone[o] = RowFields /\ Gone[o].key = o.key /\ Gone[o].owner = o.owner
             /\ Gone[o].version = o.version /\ Gone[o].live = FALSE
  <2>1. PICK half : half = [o EXCEPT !.live = FALSE]
    OBVIOUS
  <2>2. DOMAIN o = RowFields
    BY <1>1 DEF RowsGood
  <2>3. /\ DOMAIN half = RowFields /\ half.key = o.key /\ half.owner = o.owner
        /\ half.version = o.version /\ half.live = FALSE
    BY <2>1, <2>2, ExceptRow
  <2>4. PICK q : q = [half EXCEPT !.active = FALSE]
    OBVIOUS
  <2>5. /\ DOMAIN q = RowFields /\ q.key = half.key /\ q.owner = half.owner
        /\ q.version = half.version /\ q.live = half.live
    BY <2>3, <2>4, ExceptRow
  <2>6. Gone[o] = q
    BY <1>5, <2>1, <2>4
  <2>7. QED
    BY <2>3, <2>5, <2>6
<1>7. PICK image : image = [o \in rows |-> IF IdOf(o) = c.id THEN Gone[o] ELSE o]
  OBVIOUS
<1>8. Rewrites(image, rows, s)
  <2>1. ASSUME NEW o \in rows
        PROVE  /\ DOMAIN image[o] = RowFields /\ image[o].live \in BOOLEAN
               /\ image[o].key = o.key /\ image[o].owner = o.owner
               /\ image[o].version = o.version
               /\ image[o].live = TRUE => o.live = TRUE
               /\ o.owner # s => image[o] = o
    <3>1. CASE IdOf(o) = c.id
      <4>1. image[o] = Gone[o] /\ o.owner = s
        BY <1>4, <1>7, <3>1
      <4>2. QED
        BY <1>6, <4>1
    <3>2. CASE IdOf(o) # c.id
      <4>1. image[o] = o
        BY <1>7, <3>2
      <4>2. QED
        BY <1>1, <4>1 DEF RowsGood
    <3>3. QED
      BY <3>1, <3>2
  <2>2. DOMAIN image = rows
    BY <1>7
  <2>3. QED
    BY <2>1, <2>2 DEF Rewrites
<1>9. PICK after : after = {image[o] : o \in rows}
  OBVIOUS
<1>10. RowsGood(after) /\ Others(after, s) = Others(rows, s) /\ StayLive(rows, after)
       /\ \A q \in after : \E o \in rows : q = image[o]
  BY <1>1, <1>8, <1>9, RewrittenRows
<1>11. KeepsBut(rows, after, {gone.key})
  <2>1. \A o \in rows : o.key # gone.key => image[o] = o
    BY <1>4, <1>7
  <2>2. \A o \in rows : o.key # gone.key => o \in after
    BY <1>9, <2>1
  <2>3. \A q \in after : q.key # gone.key => q \in rows
    <3>1. TAKE q \in after
    <3>2. HAVE q.key # gone.key
    <3>3. PICK o \in rows : q = image[o]
      BY <1>10
    <3>4. o.key = q.key
      BY <1>8, <3>3 DEF Rewrites
    <3>5. QED
      BY <2>1, <3>2, <3>3, <3>4
  <2>4. QED
    BY <2>2, <2>3 DEF KeepsBut, Alike
<1>12. RowsGranted(rows, after, s, c)
  BY <1>3, <1>10, <1>11 DEF RowsGranted, MayTouch
<1>13. PICK result : result = [cat EXCEPT !.options = after]
  OBVIOUS
<1>14. result.options = after
  BY <1>13 DEF CatalogueGood
<1>15. AfterChange(cat, s, c) = result
  <2>1. AfterChange(cat, s, c) = [cat EXCEPT !.options =
          {IF IdOf(o) = c.id THEN [o EXCEPT !.live = FALSE, !.active = FALSE] ELSE o : o \in @}]
    BY DEF AfterChange
  <2>2. after = {IF IdOf(o) = c.id THEN [o EXCEPT !.live = FALSE, !.active = FALSE] ELSE o : o \in rows}
    BY <1>5, <1>7, <1>9
  <2>3. QED
    BY <1>13, <2>1, <2>2
<1>16. Done(result, s, c)
  <2>1. \E q \in after : q.key = c.id[1] /\ q.owner = s
    BY <1>2, <1>3, <1>10 DEF StayLive
  <2>2. ASSUME NEW q \in after, q.live = TRUE PROVE q.key # c.id[1]
    <3>1. SUFFICES ASSUME q.key = gone.key PROVE FALSE
      BY <1>3
    <3>2. PICK o \in rows : q = image[o]
      BY <1>10
    <3>3. o.key = gone.key /\ o.live = TRUE
      BY <1>8, <2>2, <3>1, <3>2 DEF Rewrites
    <3>4. o = gone
      BY <1>1, <1>2, <3>3 DEF RowsGood
    <3>5. q = Gone[o]
      BY <1>2, <1>7, <3>2, <3>4
    <3>6. QED
      BY <1>6, <2>2, <3>5
  <2>3. QED
    BY <1>14, <2>1, <2>2 DEF Done
<1>17. QED
  BY <1>12, <1>13, <1>15, <1>16, OptionsAre

LEMMA ReorderGives ==
    ASSUME NEW cat, CatalogueGood(cat), NEW s, NEW c, c.op = "reorder"
    PROVE  Granted(cat, AfterChange(cat, s, c), s, c)
<1> DEFINE rows == cat.options
<1>1. RowsGood(rows)
  BY DEF CatalogueGood
<1>2. PICK moved : moved = Owned(cat, s, ToSet(c.ids))
  OBVIOUS
<1>3. \A o \in moved : o \in rows /\ o.owner = s
  BY <1>2 DEF Owned
<1>4. PICK Moved : Moved = [o \in moved |->
        [o EXCEPT !.order = (CHOOSE i \in DOMAIN c.ids : c.ids[i] = IdOf(o)) - 1]]
  OBVIOUS
<1>5. ASSUME NEW o \in moved
      PROVE  DOMAIN Moved[o] = RowFields /\ Alike(Moved[o], o)
  <2>1. PICK v : v = (CHOOSE i \in DOMAIN c.ids : c.ids[i] = IdOf(o)) - 1
    OBVIOUS
  <2>2. Moved[o] = [o EXCEPT !.order = v]
    BY <1>4, <2>1
  <2>3. DOMAIN o = RowFields
    BY <1>1, <1>3 DEF RowsGood
  <2>4. QED
    BY <2>2, <2>3, ExceptRow DEF Alike
<1>6. PICK image : image = [o \in rows |-> IF o \in moved THEN Moved[o] ELSE o]
  OBVIOUS
<1>7. \A o \in rows : Alike(image[o], o)
  BY <1>5, <1>6 DEF Alike
<1>8. Rewrites(image, rows, s)
  <2>1. \A o \in rows : DOMAIN image[o] = RowFields
    BY <1>1, <1>5, <1>6 DEF RowsGood
  <2>2. \A o \in rows : o.owner # s => image[o] = o
    BY <1>3, <1>6
  <2>3. \A o \in rows : o.live \in BOOLEAN
    BY <1>1 DEF RowsGood
  <2>4. DOMAIN image = rows
    BY <1>6
  <2>5. QED
    BY <1>7, <2>1, <2>2, <2>3, <2>4 DEF Rewrites, Alike
<1>9. PICK after : after = {image[o] : o \in rows}
  OBVIOUS
<1>10. RowsGood(after) /\ Others(after, s) = Others(rows, s) /\ StayLive(rows, after)
       /\ \A q \in after : \E o \in rows : q = image[o]
  BY <1>1, <1>8, <1>9, RewrittenRows
<1>11. KeepsBut(rows, after, {})
  <2>1. \A o \in rows : image[o] \in after
    BY <1>9
  <2>2. QED
    BY <1>7, <1>10, <2>1 DEF KeepsBut
<1>12. RowsGranted(rows, after, s, c)
  BY <1>10, <1>11 DEF RowsGranted, MayTouch
<1>13. PICK result : result = [cat EXCEPT !.options = after]
  OBVIOUS
<1>14. AfterChange(cat, s, c) = result
  <2>1. AfterChange(cat, s, c) = Reorder(cat, c, moved)
    BY <1>2 DEF AfterChange
  <2>2. after = (rows \ moved) \cup
          {[o EXCEPT !.order = (CHOOSE i \in DOMAIN c.ids : c.ids[i] = IdOf(o)) - 1] : o \in moved}
    <3>1. after = (rows \ moved) \cup {Moved[o] : o \in moved}
      BY <1>3, <1>6, <1>9
    <3>2. QED
      BY <1>4, <3>1
  <2>3. QED
    BY <1>13, <2>1, <2>2 DEF Reorder
<1>15. Done(result, s, c)
  BY DEF Done
<1>16. QED
  BY <1>12, <1>13, <1>14, <1>15, OptionsAre

LEMMA CreateGives ==
    ASSUME NEW cat, CatalogueGood(cat), NEW s, NEW c, c.op = "create", Applies(cat, s, c)
    PROVE  Granted(cat, AfterChange(cat, s, c), s, c)
<1> DEFINE rows == cat.options
<1>1. RowsGood(rows)
  BY DEF CatalogueGood
<1>2. PICK k : k = CHOOSE x \in OptionKey : x \notin UsedKeys(cat)
  OBVIOUS
<1>3. OptionKey \ UsedKeys(cat) # {}
  BY DEF Applies
<1>4. k \notin UsedKeys(cat)
  BY <1>2, <1>3
<1>5. \A o \in rows : o.key # k
  BY <1>4 DEF UsedKeys
<1>6. PICK first : first = FirstOption(k, s)
  OBVIOUS
<1>7. DOMAIN first = RowFields /\ first.key = k /\ first.owner = s /\ first.version = 1
      /\ first.live = TRUE
  BY <1>6 DEF FirstOption, RowFields
<1>8. PICK v : v = NextOrder(cat, s)
  OBVIOUS
<1>9. PICK q : q = [first EXCEPT !.order = v]
  OBVIOUS
<1>10. DOMAIN q = RowFields /\ q.key = k /\ q.owner = s /\ q.version = 1 /\ q.live = TRUE
  BY <1>7, <1>9, ExceptRow
<1>11. PICK after : after = rows \cup {q}
  OBVIOUS
<1>12. RowsGood(after) /\ Others(after, s) = Others(rows, s) /\ StayLive(rows, after)
  <2>1. q.version \in Nat
    BY <1>10
  <2>2. q.live \in BOOLEAN
    BY <1>10
  <2>3. New(rows, q, s)
    BY <1>5, <1>10, <2>1, <2>2 DEF New
  <2>4. QED
    BY <1>1, <1>11, <2>3, AddedRow
<1>13. KeepsBut(rows, after, {})
  BY <1>5, <1>10, <1>11 DEF KeepsBut, Alike
<1>14. RowsGranted(rows, after, s, c)
  BY <1>12, <1>13 DEF RowsGranted, MayTouch
<1>15. PICK result : result = [cat EXCEPT !.options = after]
  OBVIOUS
<1>16. AfterChange(cat, s, c) = result
  <2>1. AfterChange(cat, s, c) = CreateOption(cat, s, c)
    BY DEF AfterChange
  <2>2. q = [FirstOption(CHOOSE x \in OptionKey : x \notin UsedKeys(cat), s)
               EXCEPT !.order = NextOrder(cat, s)]
    BY <1>2, <1>6, <1>8, <1>9
  <2>3. QED
    BY <1>11, <1>15, <2>1, <2>2 DEF CreateOption
<1>17. Done(result, s, c)
  BY DEF Done
<1>18. QED
  BY <1>14, <1>15, <1>16, <1>17, OptionsAre

LEMMA SameRows ==
    ASSUME NEW rows, RowsGood(rows), NEW s, NEW c, c.op \notin {"update", "delete"}
    PROVE  RowsGranted(rows, rows, s, c)
BY DEF RowsGranted, MayTouch, StayLive, KeepsBut, Alike

LEMMA OtherGives ==
    ASSUME NEW cat, CatalogueGood(cat), NEW s, NEW c,
           c.op \notin {"update", "delete", "reorder", "create"},
           c.op = "format" => c.style \in Formats
    PROVE  Granted(cat, AfterChange(cat, s, c), s, c)
<1>1. /\ DOMAIN cat = {"options", "format", "action"} /\ DOMAIN cat.format = Formats
      /\ RowsGood(cat.options)
  BY DEF CatalogueGood
<1>2. RowsGranted(cat.options, cat.options, s, c)
  BY <1>1, SameRows
<1>3. CASE c.op = "format"
  <2>1. PICK f : f = [cat.format EXCEPT ![c.style] = c.to]
    OBVIOUS
  <2>2. PICK after : after = [cat EXCEPT !.format = f]
    OBVIOUS
  <2>3. AfterChange(cat, s, c) = after
    BY <1>3, <2>1, <2>2 DEF AfterChange
  <2>4. DOMAIN after = {"options", "format", "action"} /\ after.format = f
        /\ after.options = cat.options /\ after.action = cat.action
    BY <1>1, <2>2
  <2>5. DOMAIN f = Formats /\ f[c.style] = c.to /\ \A x \in Formats : x # c.style => f[x] = cat.format[x]
    BY <1>1, <1>3, <2>1
  <2>6. Done(after, s, c)
    BY <1>3, <2>4, <2>5 DEF Done
  <2>7. QED
    BY <1>2, <1>3, <2>3, <2>4, <2>5, <2>6 DEF Granted
<1>4. CASE c.op = "action"
  <2>1. PICK after : after = [cat EXCEPT !.action = c.enabled]
    OBVIOUS
  <2>2. AfterChange(cat, s, c) = after
    BY <1>4, <2>1 DEF AfterChange
  <2>3. DOMAIN after = {"options", "format", "action"} /\ after.format = cat.format
        /\ after.options = cat.options /\ after.action = c.enabled
    BY <1>1, <2>1
  <2>4. Done(after, s, c)
    BY <1>4, <2>3 DEF Done
  <2>5. QED
    BY <1>1, <1>2, <1>4, <2>2, <2>3, <2>4 DEF Granted
<1>5. CASE c.op \notin {"format", "action"}
  <2>1. AfterChange(cat, s, c) = cat
    BY <1>5 DEF AfterChange
  <2>2. Done(cat, s, c)
    BY <1>5 DEF Done
  <2>3. QED
    BY <1>1, <1>2, <1>5, <2>1, <2>2 DEF Granted
<1>6. QED
  BY <1>3, <1>4, <1>5

LEMMA ChangeGives ==
    ASSUME NEW cat, CatalogueGood(cat), NEW s, NEW c, Applies(cat, s, c),
           c.op = "format" => c.style \in Formats
    PROVE  CatalogueGood(AfterChange(cat, s, c)) /\ Granted(cat, AfterChange(cat, s, c), s, c)
<1>1. Granted(cat, AfterChange(cat, s, c), s, c)
  BY UpdateGives, DeleteGives, ReorderGives, CreateGives, OtherGives
<1>2. QED
  BY <1>1 DEF Granted, RowsGranted, CatalogueGood

\* Two changes of a draft that touch nothing in common.
Disjoint(c, d) ==
    /\ c.op \in {"update", "delete"} /\ d.op \in {"update", "delete"} => c.id[1] # d.id[1]
    /\ c.op = "format" /\ d.op = "format" => c.style # d.style
    /\ ~(c.op = "action" /\ d.op = "action")

LEMMA DoneStays ==
    ASSUME NEW cat, NEW after, NEW s, NEW c, NEW d, Granted(cat, after, s, d), Done(cat, s, c),
           c.op = "format" => c.style \in Formats, Disjoint(c, d)
    PROVE  Done(after, s, c)
<1>1. RowsGranted(cat.options, after.options, s, d)
  BY DEF Granted
<1>2. StayLive(cat.options, after.options) /\ KeepsBut(cat.options, after.options, MayTouch(d))
  BY <1>1 DEF RowsGranted
<1>3. c.op \in {"update", "delete"} => c.id[1] \notin MayTouch(d)
  BY DEF Disjoint, MayTouch
<1>4. ASSUME c.op = "update"
      PROVE  \E o \in after.options : /\ o.live = TRUE /\ o.owner = s /\ o.key = c.id[1]
                                      /\ o.version = c.id[2] + 1 /\ o.active = c.active
  <2>1. PICK o \in cat.options : /\ o.live = TRUE /\ o.owner = s /\ o.key = c.id[1]
                                 /\ o.version = c.id[2] + 1 /\ o.active = c.active
    BY <1>4 DEF Done
  <2>2. PICK q \in after.options : Alike(q, o)
    BY <1>2, <1>3, <1>4, <2>1 DEF KeepsBut
  <2>3. QED
    BY <2>1, <2>2 DEF Alike
<1>5. ASSUME c.op = "delete"
      PROVE  /\ \E o \in after.options : o.key = c.id[1] /\ o.owner = s
             /\ \A o \in after.options : o.live = TRUE => o.key # c.id[1]
  <2>1. PICK o \in cat.options : o.key = c.id[1] /\ o.owner = s
    BY <1>5 DEF Done
  <2>2. \E q \in after.options : q.key = c.id[1] /\ q.owner = s
    BY <1>2, <2>1 DEF StayLive
  <2>3. ASSUME NEW q \in after.options, q.live = TRUE, q.key = c.id[1] PROVE FALSE
    <3>1. PICK p \in cat.options : Alike(q, p)
      BY <1>2, <1>3, <1>5, <2>1, <2>3 DEF KeepsBut
    <3>2. p.live = TRUE /\ p.key = c.id[1]
      BY <2>3, <3>1 DEF Alike
    <3>3. QED
      BY <1>5, <3>2 DEF Done
  <2>4. QED
    BY <2>2, <2>3
<1>6. c.op = "format" => after.format[c.style] = c.to
  BY DEF Granted, Done, Disjoint
<1>7. c.op = "action" => after.action = c.enabled
  BY DEF Granted, Done, Disjoint
<1>8. QED
  BY <1>4, <1>5, <1>6, <1>7 DEF Done
-----------------------------------------------------------------------------
(* What a draft makes of the options and the settings *)

\* A change names a row that was live and, if the option is of its scope, is live still.
Fits(rows, s, c) ==
    /\ c.op \in {"update", "delete"} =>
          /\ c.id = <<c.id[1], c.id[2]>>
          /\ \E o \in rows : /\ o.key = c.id[1]
                             /\ o.owner = s => o.live = TRUE /\ o.version = c.id[2]
    /\ c.op = "format" => c.style \in Formats
    /\ s = "tenant" => c.op \notin {"override", "reset"}
    /\ s # "tenant" => c.op # "setting"
IsSequence(q) == \E X : q \in Seq(X)
WellStaged(rows, s, q) ==
    /\ IsSequence(q)
    /\ \A i \in DOMAIN q : Fits(rows, s, q[i])
    /\ \A i, j \in DOMAIN q : IdentityOf(q[i]) = IdentityOf(q[j]) => i = j

LEMMA EmptyStaged == \A rows, s : WellStaged(rows, s, <<>>)
<1>1. <<>> \in Seq({}) /\ DOMAIN <<>> = {}
  OBVIOUS
<1>2. QED
  BY <1>1 DEF WellStaged, IsSequence

LEMMA IdentitiesAre ==
    ASSUME NEW c
    PROVE  /\ c.op \in {"override", "reset"} => IdentityOf(c) = [override |-> c.field]
           /\ c.op = "setting" => IdentityOf(c) = [setting |-> c.field]
           /\ c.op \in {"update", "delete"} => IdentityOf(c) = [option |-> c.id]
           /\ c.op = "format" => IdentityOf(c) = [format |-> c.style]
           /\ c.op = "action" => IdentityOf(c) = [only |-> c.op]
BY DEF IdentityOf

LEMMA StagedDisjoint ==
    ASSUME NEW rows, RowsGood(rows), NEW s, NEW q, WellStaged(rows, s, q),
           NEW i \in DOMAIN q, NEW j \in DOMAIN q, i # j,
           q[i].op \in {"update", "delete"} =>
             \E o \in rows : o.key = q[i].id[1] /\ o.owner = s
    PROVE  Disjoint(q[i], q[j])
<1>1. PICK c, d : c = q[i] /\ d = q[j]
  OBVIOUS
<1>2. Fits(rows, s, c) /\ Fits(rows, s, d) /\ IdentityOf(c) # IdentityOf(d)
  BY <1>1 DEF WellStaged
<1>3. ASSUME c.op \in {"update", "delete"}, d.op \in {"update", "delete"}, c.id[1] = d.id[1]
      PROVE  FALSE
  <2>1. PICK o \in rows : o.key = c.id[1] /\ o.owner = s
    BY <1>1, <1>3
  <2>2. PICK x \in rows : x.key = c.id[1] /\ (x.owner = s => x.live = TRUE /\ x.version = c.id[2])
    BY <1>2, <1>3 DEF Fits
  <2>3. PICK y \in rows : y.key = d.id[1] /\ (y.owner = s => y.live = TRUE /\ y.version = d.id[2])
    BY <1>2, <1>3 DEF Fits
  <2>4. x.owner = s /\ y.owner = s
    BY <1>3, <2>1, <2>2, <2>3 DEF RowsGood
  <2>5. x = y
    BY <1>3, <2>2, <2>3, <2>4 DEF RowsGood
  <2>6. c.id[2] = d.id[2]
    BY <2>2, <2>3, <2>4, <2>5
  <2>7. c.id = d.id
    BY <1>2, <1>3, <2>6 DEF Fits
  <2>8. QED
    BY <1>2, <1>3, <2>7, IdentitiesAre
<1>4. ~(c.op = "format" /\ d.op = "format" /\ c.style = d.style)
  BY <1>2, IdentitiesAre
<1>5. ~(c.op = "action" /\ d.op = "action")
  BY <1>2, IdentitiesAre
<1>6. QED
  BY <1>1, <1>3, <1>4, <1>5 DEF Disjoint

LEMMA OptionsStep ==
    ASSUME NEW s, NEW n \in Nat, NEW g, Applying("options", s, n, g), NEW k \in 0..n
    PROVE  /\ k = 0 => g[1..k] = Before("options", s)
           /\ k # 0 => g[1..k] = OneStep("options", g[1..(k-1)], s, staged[s][k])
<1>1. PICK fold : fold = "options"
  OBVIOUS
<1>2. Applying(fold, s, n, g)
  BY <1>1
<1>3. (k = 0 => g[1..k] = Before(fold, s)) /\ (k # 0 => g[1..k] = OneStep(fold, g[1..(k-1)], s, staged[s][k]))
  BY <1>2, ApplyingStep
<1>4. QED
  BY <1>1, <1>3, Zenon

LEMMA AppliedKeeps ==
    ASSUME NEW s, NEW n \in Nat, DOMAIN staged[s] = 1..n,
           CatalogueGood(catalogue), WellStaged(catalogue.options, s, staged[s]),
           Applied(s) # Refused
    PROVE  /\ CatalogueGood(Applied(s))
           /\ Others(Applied(s).options, s) = Others(catalogue.options, s)
           /\ StayLive(catalogue.options, Applied(s).options)
           /\ \A i \in 1..n : Done(Applied(s), s, staged[s][i])
<1>1. PICK g : Applying("options", s, n, g) /\ Applied(s) = g[1..n]
  BY AppliedIs
<1>0. \A k \in 0..n : /\ k = 0 => g[1..k] = Before("options", s)
                      /\ k # 0 => g[1..k] = OneStep("options", g[1..(k-1)], s, staged[s][k])
  <2>1. TAKE k \in 0..n
  <2>2. Applying("options", s, n, g)
    BY <1>1, Zenon
  <2>3. QED
    BY <2>2, <2>1, OptionsStep, Zenon
<1> DEFINE Kept(k, cat) ==
             cat # Refused => /\ CatalogueGood(cat)
                              /\ Others(cat.options, s) = Others(catalogue.options, s)
                              /\ StayLive(catalogue.options, cat.options)
                              /\ \A i \in 1..k : Done(cat, s, staged[s][i])
           Bad == {k \in 0..n : ~Kept(k, g[1..k])}
<1>2. Bad = {}
  <2>1. SUFFICES ASSUME Bad # {} PROVE FALSE
    OBVIOUS
  <2>2. PICK k \in Bad : \A j \in Bad : k <= j
    <3>1. Bad \in SUBSET Nat
      OBVIOUS
    <3>2. QED
      BY <2>1, <3>1, FirstLemma
  <2>3. k \in 0..n /\ ~Kept(k, g[1..k])
    OBVIOUS
  <2>4. Applying("options", s, n, g) /\ k \in 0..n
    BY <1>1, <2>3, Zenon
  <2>5. k # 0
    <3>1. SUFFICES ASSUME k = 0 PROVE FALSE
      OBVIOUS
    <3>2. g[1..k] = catalogue
      <4>1. g[1..k] = Before("options", s)
        BY <1>0, <2>4, <3>1, Zenon
      <4>2. QED
        BY <4>1 DEF Before
    <3>3. StayLive(catalogue.options, catalogue.options)
      BY DEF StayLive
    <3>4. \A i \in 1..k : FALSE
      BY <3>1
    <3>5. Kept(k, catalogue)
      BY <3>3, <3>4
    <3>6. QED
      BY <2>3, <3>2, <3>5, Zenon
  <2>6. PICK before, c : before = g[1..(k-1)] /\ c = staged[s][k]
    OBVIOUS
  <2>7. g[1..k] = OneApplied(before, s, c)
    <3>1. g[1..k] = OneStep("options", g[1..(k-1)], s, staged[s][k])
      BY <1>0, <2>4, <2>5, Zenon
    <3>2. QED
      BY <2>6, <3>1 DEF OneStep
  <2>8. k - 1 \in 0..n /\ k - 1 < k /\ k \in 1..n
    BY <2>3, <2>5
  <2>9. Kept(k - 1, before)
    <3>1. k - 1 \notin Bad
      <4>1. SUFFICES ASSUME k - 1 \in Bad PROVE FALSE
        OBVIOUS
      <4>2. k <= k - 1
        BY <2>2, <4>1, Zenon
      <4>3. QED
        BY <2>8, <4>2
    <3>2. Kept(k - 1, g[1..(k-1)])
      BY <2>8, <3>1
    <3>3. QED
      BY <2>6, <3>2, Zenon
  <2>10. g[1..k] # Refused
    BY <2>3
  <2>11. before # Refused /\ Applies(before, s, c) /\ g[1..k] = AfterChange(before, s, c)
    BY <2>7, <2>10 DEF OneApplied
  <2>12. PICK after : after = AfterChange(before, s, c)
    OBVIOUS
  <2>13. /\ CatalogueGood(before) /\ Others(before.options, s) = Others(catalogue.options, s)
         /\ StayLive(catalogue.options, before.options)
         /\ \A i \in 1..(k-1) : Done(before, s, staged[s][i])
    BY <2>9, <2>11
  <2>14. \A i \in 1..n : Fits(catalogue.options, s, staged[s][i])
    BY DEF WellStaged
  <2>15. CatalogueGood(after) /\ Granted(before, after, s, c)
    <3>1. c.op = "format" => c.style \in Formats
      BY <2>6, <2>8, <2>14 DEF Fits
    <3>2. QED
      BY <2>11, <2>12, <2>13, <3>1, ChangeGives
  <2>16. RowsGranted(before.options, after.options, s, c) /\ Done(after, s, c)
    BY <2>15 DEF Granted
  <2>17. Others(after.options, s) = Others(catalogue.options, s)
    BY <2>13, <2>16 DEF RowsGranted
  <2>18. StayLive(catalogue.options, after.options)
    BY <2>13, <2>16 DEF RowsGranted, StayLive
  <2>19. ASSUME NEW i \in 1..(k-1) PROVE Done(after, s, staged[s][i])
    <3>1. PICK d : d = staged[s][i]
      OBVIOUS
    <3>2. i \in 1..n /\ i # k
      BY <2>8
    <3>3. Done(before, s, d) /\ Fits(catalogue.options, s, d)
      BY <2>13, <2>14, <3>1, <3>2
    <3>4. ASSUME d.op \in {"update", "delete"}
          PROVE  \E o \in catalogue.options : o.key = d.id[1] /\ o.owner = s
      <4>1. PICK o \in before.options : o.key = d.id[1] /\ o.owner = s
        BY <3>3, <3>4 DEF Done
      <4>2. PICK x \in catalogue.options : x.key = d.id[1]
        BY <3>3, <3>4 DEF Fits
      <4>3. PICK y \in before.options : y.key = x.key /\ y.owner = x.owner
        BY <2>13 DEF StayLive
      <4>4. y.owner = o.owner
        BY <2>13, <4>1, <4>2, <4>3 DEF CatalogueGood, RowsGood
      <4>5. QED
        BY <4>1, <4>2, <4>3, <4>4
    <3>5. RowsGood(catalogue.options)
      BY DEF CatalogueGood
    <3>6. i \in DOMAIN staged[s] /\ k \in DOMAIN staged[s]
      BY <2>8, <3>2
    <3>7. Disjoint(d, c)
      BY <2>6, <3>1, <3>2, <3>4, <3>5, <3>6, StagedDisjoint
    <3>8. d.op = "format" => d.style \in Formats
      BY <3>3 DEF Fits
    <3>9. Done(after, s, d)
      BY <2>15, <3>3, <3>7, <3>8, DoneStays
    <3>10. QED
      BY <3>1, <3>9
  <2>20. \A i \in 1..k : Done(after, s, staged[s][i])
    <3>1. TAKE i \in 1..k
    <3>2. i = k \/ i \in 1..(k-1)
      BY <2>8
    <3>3. CASE i = k
      BY <2>6, <2>16, <3>3
    <3>4. QED
      BY <2>19, <3>2, <3>3
  <2>21. Kept(k, after)
    BY <2>15, <2>17, <2>18, <2>20
  <2>22. g[1..k] = after
    BY <2>11, <2>12
  <2>23. QED
    BY <2>3, <2>21, <2>22, Zenon
<1>3. n \in 0..n
  OBVIOUS
<1>4. Kept(n, g[1..n])
  BY <1>2, <1>3
<1>5. Kept(n, Applied(s))
  BY <1>1, <1>4, Zenon
<1>6. QED
  BY <1>5

HeldDone(held, c) ==
    /\ c.op \in {"setting", "override"} => c.field \in DOMAIN held /\ held[c.field] = c.value
    /\ c.op = "reset" => c.field \notin DOMAIN held

LEMMA SettingDone == ASSUME NEW held, NEW c PROVE HeldDone(AfterSetting(held, c), c)
BY DEF HeldDone, AfterSetting

OnFields == {"setting", "override", "reset"}
LEMMA SettingStays ==
    ASSUME NEW held, NEW c, NEW d, HeldDone(held, c),
           ~(c.op \in OnFields /\ d.op \in OnFields /\ c.field = d.field)
    PROVE  HeldDone(AfterSetting(held, d), c)
<1>1. CASE c.op \notin OnFields
  BY <1>1 DEF HeldDone, OnFields
<1>2. CASE d.op \notin OnFields
  <2>1. AfterSetting(held, d) = held
    BY <1>2 DEF AfterSetting, OnFields
  <2>2. QED
    BY <2>1
<1>3. CASE c.field # d.field /\ d.op \in {"setting", "override"}
  <2>1. PICK after : after = [f \in DOMAIN held \cup {d.field} |-> IF f = d.field THEN d.value ELSE held[f]]
    OBVIOUS
  <2>2. AfterSetting(held, d) = after
    BY <1>3, <2>1 DEF AfterSetting
  <2>3. HeldDone(after, c)
    BY <1>3, <2>1 DEF HeldDone
  <2>4. QED
    BY <2>2, <2>3
<1>4. CASE c.field # d.field /\ d.op = "reset"
  <2>1. PICK after : after = [f \in DOMAIN held \ {d.field} |-> held[f]]
    OBVIOUS
  <2>2. AfterSetting(held, d) = after
    BY <1>4, <2>1 DEF AfterSetting
  <2>3. HeldDone(after, c)
    BY <1>4, <2>1 DEF HeldDone
  <2>4. QED
    BY <2>2, <2>3
<1>5. QED
  BY <1>1, <1>2, <1>3, <1>4 DEF OnFields

LEMMA HeldKeeps ==
    ASSUME NEW s, NEW rows, WellStaged(rows, s, staged[s]), NEW n \in Nat, DOMAIN staged[s] = 1..n
    PROVE  \A i \in 1..n : HeldDone(FoldLeft(AfterSetting, layer[s], staged[s]), staged[s][i])
<1>1. PICK g : /\ Applying("settings", s, n, g)
               /\ FoldLeft(AfterSetting, layer[s], staged[s]) = g[1..n]
  BY HeldIs
<1> DEFINE Kept(k) == \A i \in 1..k : HeldDone(g[1..k], staged[s][i])
           Bad == {k \in 0..n : ~Kept(k)}
<1>2. Bad = {}
  <2>1. SUFFICES ASSUME Bad # {} PROVE FALSE
    OBVIOUS
  <2>2. PICK k \in Bad : \A j \in Bad : k <= j
    <3>1. Bad \in SUBSET Nat
      OBVIOUS
    <3>2. QED
      BY <2>1, <3>1, FirstLemma
  <2>3. k \in 0..n /\ ~Kept(k)
    OBVIOUS
  <2>4. Applying("settings", s, n, g) /\ k \in 0..n
    BY <1>1, <2>3, Zenon
  <2>5. k # 0
    BY <2>3
  <2>6. k - 1 \in 0..n /\ k - 1 < k /\ k \in 1..n
    BY <2>3, <2>5
  <2>7. PICK before, c : before = g[1..(k-1)] /\ c = staged[s][k]
    OBVIOUS
  <2>8. g[1..k] = AfterSetting(before, c)
    BY <2>4, <2>5, <2>7, ApplyingStep DEF OneStep
  <2>9. \A i \in 1..(k-1) : HeldDone(before, staged[s][i])
    <3>1. k - 1 \notin Bad
      <4>1. SUFFICES ASSUME k - 1 \in Bad PROVE FALSE
        OBVIOUS
      <4>2. k <= k - 1
        BY <2>2, <4>1, Zenon
      <4>3. QED
        BY <2>6, <4>2
    <3>2. Kept(k - 1)
      BY <2>6, <3>1
    <3>3. QED
      BY <2>7, <3>2, Zenon
  <2>10. ASSUME NEW i \in 1..k PROVE HeldDone(AfterSetting(before, c), staged[s][i])
    <3>1. i = k \/ i \in 1..(k-1)
      BY <2>6
    <3>2. CASE i = k
      BY <2>7, <3>2, SettingDone
    <3>3. CASE i \in 1..(k-1)
      <4>1. PICK d : d = staged[s][i]
        OBVIOUS
      <4>2. i \in 1..n /\ i # k
        BY <2>6, <3>3
      <4>3. Fits(rows, s, d) /\ Fits(rows, s, c) /\ IdentityOf(d) # IdentityOf(c)
        BY <2>6, <2>7, <4>1, <4>2 DEF WellStaged
      <4>4. ~(d.op \in OnFields /\ c.op \in OnFields /\ d.field = c.field)
        <5>1. s = "tenant" => d.op \notin {"override", "reset"} /\ c.op \notin {"override", "reset"}
          BY <4>3 DEF Fits
        <5>2. s # "tenant" => d.op # "setting" /\ c.op # "setting"
          BY <4>3 DEF Fits
        <5>3. ~(d.op = "setting" /\ c.op = "setting" /\ d.field = c.field)
          BY <4>3, IdentitiesAre
        <5>4. ~(d.op \in {"override", "reset"} /\ c.op \in {"override", "reset"} /\ d.field = c.field)
          BY <4>3, IdentitiesAre
        <5>5. QED
          BY <5>1, <5>2, <5>3, <5>4 DEF OnFields
      <4>5. HeldDone(before, d)
        BY <2>9, <3>3, <4>1
      <4>6. QED
        BY <4>1, <4>4, <4>5, SettingStays
    <3>4. QED
      BY <3>1, <3>2, <3>3
  <2>11. QED
    BY <2>3, <2>8, <2>10
<1>3. n \in 0..n
  OBVIOUS
<1>4. Kept(n)
  BY <1>2, <1>3
<1>5. QED
  BY <1>1, <1>4

-----------------------------------------------------------------------------
(* What a location is shown *)

OfferedBy(cat, l) == {[id |-> IdOf(o), owner |-> o.owner, active |-> o.active, order |-> o.order]
                      : o \in LiveOptions(cat.options, l)}
Triple(editions, l) == <<editions["platform"], editions["tenant"], editions[l]>>
AsShown(l) == /\ DOMAIN layer[l] \subseteq OverrideField
              /\ effective[l].setting = [f \in Field |-> Resolved(layer, l, f)]
              /\ effective[l].option = OfferedBy(catalogue, l)
\* A snapshot has editions that were in force, and shows them if they still are.
NotAhead(l) == \E p, t, b \in Nat : /\ effective[l].edition = <<p, t, b>>
                                    /\ p <= edition["platform"] /\ t <= edition["tenant"]
                                    /\ b <= edition[l]
LocationInv(l) == /\ standing[l] = "absent" => effective[l] = NoSnapshotYet
                  /\ effective[l] = NoSnapshotYet \/ NotAhead(l)
                  /\ effective[l].edition = Triple(edition, l) => AsShown(l)
SettingsInv ==
    /\ DOMAIN layer = Layers
    /\ edition \in [Layers -> Nat]
    /\ DOMAIN standing = Branch
    /\ CatalogueGood(catalogue)
    /\ DOMAIN staged = DraftScope
    /\ \A s \in DraftScope : WellStaged(catalogue.options, s, staged[s])
    /\ \A l \in Branch : LocationInv(l)

LEMMA Apart ==
    /\ "platform" \in Layers /\ "tenant" \in Layers /\ Branch \subseteq Layers
    /\ DraftScope = Branch \cup {"tenant"} /\ DraftScope \subseteq Layers
    /\ "platform" \notin Branch /\ "tenant" \notin Branch /\ "platform" # "tenant"
BY SettingsAssumption DEF Layers, DraftScope

LEMMA ShownKept == SettingsInv => ShownIsPublished
<1>1. SUFFICES ASSUME SettingsInv, NEW l \in Branch,
                      effective[l].edition = <<edition["platform"], edition["tenant"], edition[l]>>
               PROVE  /\ effective[l].setting = Shown(l)
                      /\ effective[l].setting["entryMode"].value = DistributedEntry(l)
                      /\ {o.id : o \in effective[l].option}
                           = {IdOf(o) : o \in LiveOptions(catalogue.options, l)}
                      /\ \A o \in effective[l].option : o.owner = "tenant" \/ o.owner = l
  BY DEF ShownIsPublished
<1>2. AsShown(l)
  BY <1>1 DEF SettingsInv, LocationInv, Triple
<1>3. \A f \in Field : Resolved(layer, l, f) =
        IF f \in OverrideField \cap DOMAIN layer[l]
        THEN [value |-> layer[l][f], source |-> "location"]
        ELSE [value |-> TenantSettings[f],
              source |-> IF f \in DOMAIN layer["tenant"] THEN "tenant" ELSE "platform"]
  <2>1. TAKE f \in Field
  <2>2. DOMAIN layer[l] \subseteq OverrideField
    BY <1>2 DEF AsShown
  <2>3. TenantSettings[f] = IF f \in DOMAIN layer["tenant"] THEN layer["tenant"][f]
                            ELSE layer["platform"][f]
    BY DEF TenantSettings
  <2>4. CASE f \in DOMAIN layer[l]
    BY <2>2, <2>4 DEF Resolved
  <2>5. CASE f \notin DOMAIN layer[l] /\ f \in DOMAIN layer["tenant"]
    BY <2>3, <2>5 DEF Resolved
  <2>6. CASE f \notin DOMAIN layer[l] /\ f \notin DOMAIN layer["tenant"]
    BY <2>3, <2>6 DEF Resolved
  <2>7. QED
    BY <2>4, <2>5, <2>6
<1>4. effective[l].setting = Shown(l)
  BY <1>2, <1>3 DEF AsShown, Shown
<1>5. "entryMode" \in Field /\ "entryMode" \in OverrideField
  BY DEF Field, Values, OverrideField
<1>6. effective[l].setting["entryMode"].value = DistributedEntry(l)
  <2>1. Shown(l)["entryMode"] =
          IF "entryMode" \in OverrideField \cap DOMAIN layer[l]
          THEN [value |-> layer[l]["entryMode"], source |-> "location"]
          ELSE [value |-> TenantSettings["entryMode"],
                source |-> IF "entryMode" \in DOMAIN layer["tenant"] THEN "tenant" ELSE "platform"]
    BY <1>5 DEF Shown
  <2>2. CASE "entryMode" \in DOMAIN layer[l]
    BY <1>4, <1>5, <2>1, <2>2 DEF DistributedEntry
  <2>3. CASE "entryMode" \notin DOMAIN layer[l]
    BY <1>4, <2>1, <2>3 DEF DistributedEntry
  <2>4. QED
    BY <2>2, <2>3
<1>7. \A o \in effective[l].option : \E p \in LiveOptions(catalogue.options, l) :
        o.id = IdOf(p) /\ o.owner = p.owner
  BY <1>2 DEF AsShown, OfferedBy
<1>8. \A p \in LiveOptions(catalogue.options, l) : \E o \in effective[l].option : o.id = IdOf(p)
  <2>1. TAKE p \in LiveOptions(catalogue.options, l)
  <2>2. PICK o : o = [id |-> IdOf(p), owner |-> p.owner, active |-> p.active, order |-> p.order]
    OBVIOUS
  <2>3. o \in effective[l].option
    BY <1>2, <2>2 DEF AsShown, OfferedBy
  <2>4. o.id = IdOf(p)
    BY <2>2
  <2>5. QED
    BY <2>3, <2>4
<1>9. {o.id : o \in effective[l].option} = {IdOf(o) : o \in LiveOptions(catalogue.options, l)}
  BY <1>7, <1>8
<1>10. \A p \in LiveOptions(catalogue.options, l) : p.owner = "tenant" \/ p.owner = l
  BY DEF LiveOptions
<1>11. QED
  BY <1>4, <1>6, <1>7, <1>9, <1>10

LEMMA SettingsStart == SettingsInit => SettingsInv
<1>1. SUFFICES ASSUME SettingsInit PROVE SettingsInv
  OBVIOUS
<1>2. DOMAIN layer = Layers
  BY <1>1, SettingsAssumption DEF SettingsInit
<1>3. edition \in [Layers -> Nat] /\ DOMAIN standing = Branch /\ DOMAIN staged = DraftScope
  BY <1>1 DEF SettingsInit
<1>4. CatalogueGood(catalogue)
  <2>1. PICK rows : rows = {FirstOption(k, FirstOwner[k]) : k \in DOMAIN FirstOwner}
    OBVIOUS
  <2>2. catalogue = [options |-> rows, format |-> [f \in Formats |-> "generate"], action |-> TRUE]
    BY <1>1, <2>1 DEF SettingsInit
  <2>3. \A k, s : /\ DOMAIN FirstOption(k, s) = RowFields /\ FirstOption(k, s).key = k
                  /\ FirstOption(k, s).owner = s /\ FirstOption(k, s).version = 1
                  /\ FirstOption(k, s).live = TRUE
    BY DEF FirstOption, RowFields
  <2>4. \A o \in rows : /\ DOMAIN o = RowFields /\ o.owner = FirstOwner[o.key]
                        /\ o.version = 1 /\ o.live = TRUE
                        /\ o = FirstOption(o.key, FirstOwner[o.key])
    BY <2>1, <2>3
  <2>5. RowsGood(rows)
    <3>1. \A o \in rows : o.live \in BOOLEAN
      BY <2>4
    <3>2. \A o \in rows : DOMAIN o = RowFields /\ o.version \in Nat
      BY <2>4
    <3>3. \A o, p \in rows : o.key = p.key => o.owner = p.owner /\ o = p
      BY <2>4
    <3>4. QED
      BY <3>1, <3>2, <3>3 DEF RowsGood
  <2>6. /\ DOMAIN catalogue = {"options", "format", "action"} /\ catalogue.options = rows
        /\ DOMAIN catalogue.format = Formats
    BY <2>2
  <2>7. QED
    BY <2>5, <2>6 DEF CatalogueGood
<1>5. \A s \in DraftScope : WellStaged(catalogue.options, s, staged[s])
  <2>1. TAKE s \in DraftScope
  <2>2. staged[s] = <<>>
    BY <1>1 DEF SettingsInit
  <2>3. QED
    BY <2>2, EmptyStaged
<1>6. ASSUME NEW l \in Branch PROVE LocationInv(l)
  <2>1. effective[l] = NoSnapshotYet
    BY <1>1, <1>6 DEF SettingsInit
  <2>2. effective[l].edition # Triple(edition, l)
    BY <2>1 DEF NoSnapshotYet, Triple
  <2>3. QED
    BY <2>1, <2>2 DEF LocationInv
<1>7. QED
  BY <1>2, <1>3, <1>4, <1>5, <1>6 DEF SettingsInv

\* What a location is shown rests on its own layer, the two above it and their options.
LEMMA SameShown ==
    ASSUME NEW l \in Branch, NEW held, held[l] = layer[l],
           held["tenant"] = layer["tenant"], held["platform"] = layer["platform"]
    PROVE  \A f : Resolved(held, l, f) = Resolved(layer, l, f)
BY DEF Resolved

LEMMA SameOffered ==
    ASSUME NEW l, NEW cat, NEW s, s # "tenant", s # l,
           Others(cat.options, s) = Others(catalogue.options, s)
    PROVE  OfferedBy(cat, l) = OfferedBy(catalogue, l)
<1>1. \A o : o.owner \in {"tenant", l} => (o \in cat.options <=> o \in catalogue.options)
  BY DEF Others
<1>2. {o \in cat.options : o.live /\ o.owner \in {"tenant", l}}
        = {o \in catalogue.options : o.live /\ o.owner \in {"tenant", l}}
  BY <1>1
<1>3. LiveOptions(cat.options, l) = LiveOptions(catalogue.options, l)
  BY <1>2 DEF LiveOptions
<1>4. QED
  BY <1>3 DEF OfferedBy

\* A publication: what it renews shows what it published, and the rest is behind it or as it was.
LEMMA MaterializeKeeps ==
    ASSUME SettingsInv, NEW s \in Layers, NEW held, NEW cat, Materialize(s, held, cat),
           CatalogueGood(cat), DOMAIN held = Layers,
           \A x \in Layers \ {s} : held[x] = layer[x],
           s \in DraftScope => Others(cat.options, s) = Others(catalogue.options, s)
    PROVE  /\ DOMAIN layer' = Layers /\ edition' \in [Layers -> Nat] /\ DOMAIN standing' = Branch
           /\ CatalogueGood(catalogue') /\ \A l \in Branch : LocationInv(l)'
<1> DEFINE active == {l \in Branch : standing[l] = "active"}
           renewed == IF s \in Branch THEN {s} ELSE active
<1>1. PICK editions : editions = [edition EXCEPT ![s] = @ + 1]
  OBVIOUS
<1>2. /\ renewed \subseteq active
      /\ \A l \in renewed : Complete(held, cat, l)
      /\ layer' = held
      /\ catalogue' = cat
      /\ edition' = editions
      /\ effective' = [l \in Branch |-> IF l \in renewed THEN Snapshot(held, cat, editions, l)
                                         ELSE effective[l]]
      /\ standing' = standing
  BY <1>1 DEF Materialize
<1>3. edition \in [Layers -> Nat] /\ \A l \in Branch : LocationInv(l)
  BY DEF SettingsInv
<1>4. /\ editions \in [Layers -> Nat] /\ editions[s] = edition[s] + 1
      /\ \A x \in Layers \ {s} : editions[x] = edition[x]
      /\ \A x \in Layers : edition[x] \in Nat /\ edition[x] <= editions[x]
  BY <1>1, <1>3
<1>5. ASSUME NEW l \in renewed PROVE LocationInv(l)'
  <2>1. l \in Branch /\ standing'[l] # "absent"
    BY <1>2
  <2>2. effective'[l] = Snapshot(held, cat, editions, l)
    BY <1>2, <2>1
  <2>3. /\ effective'[l].edition = Triple(editions, l)
        /\ effective'[l].setting = [f \in Field |-> Resolved(held, l, f)]
        /\ effective'[l].option = OfferedBy(cat, l)
    BY <2>2 DEF Snapshot, Triple, OfferedBy
  <2>4. DOMAIN held[l] \subseteq OverrideField
    BY <1>2 DEF Complete
  <2>5. AsShown(l)'
    BY <1>2, <2>3, <2>4 DEF AsShown, OfferedBy
  <2>6. NotAhead(l)'
    <3>1. PICK p, t, b : p = editions["platform"] /\ t = editions["tenant"] /\ b = editions[l]
      OBVIOUS
    <3>2. p \in Nat /\ t \in Nat /\ b \in Nat
      BY <1>4, <2>1, <3>1, Apart
    <3>3. effective'[l].edition = <<p, t, b>>
      BY <2>3, <3>1 DEF Triple
    <3>4. p <= edition'["platform"] /\ t <= edition'["tenant"] /\ b <= edition'[l]
      BY <1>2, <3>1, <3>2
    <3>5. QED
      BY <3>2, <3>3, <3>4 DEF NotAhead
  <2>7. QED
    BY <2>1, <2>5, <2>6 DEF LocationInv
<1>6. ASSUME NEW l \in Branch \ renewed PROVE LocationInv(l)'
  <2>1. effective'[l] = effective[l] /\ standing'[l] = standing[l] /\ LocationInv(l)
    BY <1>2, <1>3
  <2>2. /\ edition["platform"] \in Nat /\ edition["tenant"] \in Nat /\ edition[l] \in Nat
        /\ edition["platform"] <= edition'["platform"] /\ edition["tenant"] <= edition'["tenant"]
        /\ edition[l] <= edition'[l]
        /\ edition'["platform"] \in Nat /\ edition'["tenant"] \in Nat /\ edition'[l] \in Nat
    BY <1>2, <1>4, Apart
  <2>3. effective'[l] = NoSnapshotYet \/ NotAhead(l)'
    <3>1. SUFFICES ASSUME NotAhead(l) PROVE NotAhead(l)'
      BY <2>1 DEF LocationInv
    <3>2. PICK p \in Nat, t \in Nat, b \in Nat :
            /\ effective[l].edition = <<p, t, b>>
            /\ p <= edition["platform"] /\ t <= edition["tenant"] /\ b <= edition[l]
      BY <3>1 DEF NotAhead
    <3>3. p <= edition'["platform"] /\ t <= edition'["tenant"] /\ b <= edition'[l]
      BY <2>2, <3>2
    <3>4. QED
      BY <2>1, <3>2, <3>3 DEF NotAhead
  <2>4. ASSUME effective'[l].edition = Triple(edition', l) PROVE AsShown(l)'
    <3>1. effective[l].edition = <<edition'["platform"], edition'["tenant"], edition'[l]>>
      BY <2>1, <2>4 DEF Triple
    <3>2. effective[l] # NoSnapshotYet
      BY <3>1 DEF NoSnapshotYet
    <3>3. PICK p \in Nat, t \in Nat, b \in Nat :
            /\ effective[l].edition = <<p, t, b>>
            /\ p <= edition["platform"] /\ t <= edition["tenant"] /\ b <= edition[l]
      BY <2>1, <3>2 DEF LocationInv, NotAhead
    <3>4. p = edition'["platform"] /\ t = edition'["tenant"] /\ b = edition'[l]
      BY <3>1, <3>3
    <3>5. p = edition["platform"] /\ t = edition["tenant"] /\ b = edition[l]
      BY <2>2, <3>3, <3>4
    <3>6. \A x \in {"platform", "tenant", l} : edition'[x] = edition[x]
      BY <3>4, <3>5
    <3>7. s \notin {"platform", "tenant", l}
      <4>1. edition'[s] = edition[s] + 1 /\ edition[s] \in Nat
        BY <1>2, <1>4
      <4>2. edition'[s] # edition[s]
        BY <4>1
      <4>3. QED
        BY <3>6, <4>2
    <3>8. held[l] = layer[l] /\ held["tenant"] = layer["tenant"] /\ held["platform"] = layer["platform"]
      BY <3>7, Apart
    <3>9. s \in DraftScope
      BY <3>7 DEF Layers, DraftScope
    <3>10. OfferedBy(cat, l) = OfferedBy(catalogue, l)
      BY <3>7, <3>9, SameOffered
    <3>11. \A f : Resolved(held, l, f) = Resolved(layer, l, f)
      BY <3>8, SameShown
    <3>12. AsShown(l)
      BY <2>1, <3>3, <3>5 DEF LocationInv, Triple
    <3>13. /\ DOMAIN held[l] \subseteq OverrideField
           /\ effective'[l].setting = [f \in Field |-> Resolved(held, l, f)]
           /\ effective'[l].option = OfferedBy(cat, l)
      BY <2>1, <3>8, <3>10, <3>11, <3>12 DEF AsShown
    <3>14. QED
      BY <1>2, <3>13 DEF AsShown, OfferedBy
  <2>5. standing'[l] = "absent" => effective'[l] = NoSnapshotYet
    BY <2>1 DEF LocationInv
  <2>6. QED
    BY <2>3, <2>4, <2>5 DEF LocationInv
<1>7. DOMAIN standing' = Branch
  BY <1>2 DEF SettingsInv
<1>8. \A l \in Branch : LocationInv(l)'
  BY <1>5, <1>6
<1>9. QED
  BY <1>2, <1>4, <1>7, <1>8

\* The drafts of the others fit what a publication leaves.
LEMMA OthersFit ==
    ASSUME NEW rows, NEW after, NEW s, NEW x, x # s,
           Others(after, s) = Others(rows, s), StayLive(rows, after),
           NEW q, WellStaged(rows, x, q)
    PROVE  WellStaged(after, x, q)
<1>1. ASSUME NEW i \in DOMAIN q PROVE Fits(after, x, q[i])
  <2>1. PICK c : c = q[i]
    OBVIOUS
  <2>2. Fits(rows, x, c)
    BY <2>1 DEF WellStaged
  <2>3. ASSUME c.op \in {"update", "delete"}
        PROVE  \E o \in after : /\ o.key = c.id[1]
                                /\ o.owner = x => o.live = TRUE /\ o.version = c.id[2]
    <3>1. PICK o \in rows : /\ o.key = c.id[1]
                            /\ o.owner = x => o.live = TRUE /\ o.version = c.id[2]
      BY <2>2, <2>3 DEF Fits
    <3>2. CASE o.owner = s
      <4>1. PICK p \in after : p.key = o.key /\ p.owner = o.owner
        BY DEF StayLive
      <4>2. p.owner # x /\ p.key = c.id[1]
        BY <3>1, <3>2, <4>1
      <4>3. QED
        BY <4>1, <4>2
    <3>3. CASE o.owner # s
      <4>1. o \in after
        BY <3>3 DEF Others
      <4>2. QED
        BY <3>1, <4>1
    <3>4. QED
      BY <3>2, <3>3
  <2>4. Fits(after, x, c)
    BY <2>2, <2>3 DEF Fits
  <2>5. QED
    BY <2>1, <2>4
<1>2. QED
  BY <1>1 DEF WellStaged

LEMMA PublishGives ==
    ASSUME SettingsInv, NEW s \in DraftScope, Publish(s)
    PROVE  /\ SettingsInv'
           /\ Others(catalogue'.options, s) = Others(catalogue.options, s)
           /\ edition' = [edition EXCEPT ![s] = @ + 1]
           /\ \A i \in DOMAIN staged[s] : /\ Done(catalogue', s, staged[s][i])
                                          /\ HeldDone(layer'[s], staged[s][i])
<1>1. /\ Applied(s) # Refused
      /\ Materialize(s, Published(s), Applied(s))
      /\ staged' = [staged EXCEPT ![s] = <<>>]
  BY DEF Publish
<1>2. PICK held : held = Published(s)
  OBVIOUS
<1>3. PICK mine : mine = FoldLeft(AfterSetting, layer[s], staged[s])
  OBVIOUS
<1>4. DOMAIN held = Layers /\ held[s] = mine /\ \A x \in Layers \ {s} : held[x] = layer[x]
  <2>1. held = [layer EXCEPT ![s] = mine]
    BY <1>2, <1>3 DEF Published
  <2>2. s \in Layers
    BY Apart
  <2>3. QED
    BY <2>1, <2>2 DEF SettingsInv
<1>5. CatalogueGood(catalogue) /\ WellStaged(catalogue.options, s, staged[s])
  BY DEF SettingsInv
<1>6. PICK n \in Nat : DOMAIN staged[s] = 1..n
  <2>1. PICK X : staged[s] \in Seq(X)
    BY <1>5 DEF WellStaged, IsSequence
  <2>2. QED
    BY <2>1
<1>7. PICK cat : cat = Applied(s)
  OBVIOUS
<1>8. /\ CatalogueGood(cat) /\ Others(cat.options, s) = Others(catalogue.options, s)
      /\ StayLive(catalogue.options, cat.options)
      /\ \A i \in 1..n : Done(cat, s, staged[s][i])
  BY <1>1, <1>5, <1>6, <1>7, AppliedKeeps
<1>9. \A i \in 1..n : HeldDone(mine, staged[s][i])
  BY <1>3, <1>5, <1>6, HeldKeeps
<1>10. s \in Layers /\ Materialize(s, held, cat)
  BY <1>1, <1>2, <1>7, Apart
<1>11. /\ DOMAIN layer' = Layers /\ edition' \in [Layers -> Nat] /\ DOMAIN standing' = Branch
       /\ CatalogueGood(catalogue') /\ \A l \in Branch : LocationInv(l)'
  BY <1>4, <1>8, <1>10, MaterializeKeeps
<1>12. catalogue' = cat /\ layer' = held /\ edition' = [edition EXCEPT ![s] = @ + 1]
  BY <1>10 DEF Materialize
<1>13. DOMAIN staged' = DraftScope
       /\ \A x \in DraftScope : WellStaged(catalogue'.options, x, staged'[x])
  <2>1. DOMAIN staged' = DraftScope /\ \A x \in DraftScope :
          staged'[x] = IF x = s THEN <<>> ELSE staged[x]
    BY <1>1 DEF SettingsInv
  <2>2. ASSUME NEW x \in DraftScope PROVE WellStaged(cat.options, x, staged'[x])
    <3>1. CASE x = s
      BY <2>1, <3>1, EmptyStaged
    <3>2. CASE x # s
      <4>1. staged'[x] = staged[x] /\ WellStaged(catalogue.options, x, staged[x])
        BY <2>1, <3>2 DEF SettingsInv
      <4>2. QED
        BY <1>8, <3>2, <4>1, OthersFit
    <3>3. QED
      BY <3>1, <3>2
  <2>3. QED
    BY <1>12, <2>1, <2>2
<1>14. SettingsInv'
  BY <1>11, <1>13 DEF SettingsInv
<1>15. \A i \in DOMAIN staged[s] : Done(catalogue', s, staged[s][i]) /\ HeldDone(layer'[s], staged[s][i])
  BY <1>4, <1>6, <1>8, <1>9, <1>12
<1>16. QED
  BY <1>8, <1>12, <1>14, <1>15

LEMMA DefaultKeeps == SettingsInv /\ PublishDefault => SettingsInv'
<1>1. SUFFICES ASSUME SettingsInv, PublishDefault PROVE SettingsInv'
  OBVIOUS
<1>2. PICK f \in Field : \E v \in Values[f] :
        Materialize("platform", [layer EXCEPT !["platform"][f] = v], catalogue)
  BY <1>1 DEF PublishDefault
<1>3. PICK v \in Values[f] : Materialize("platform", [layer EXCEPT !["platform"][f] = v], catalogue)
  BY <1>2
<1>4. PICK held : held = [layer EXCEPT !["platform"][f] = v]
  OBVIOUS
<1>5. DOMAIN held = Layers /\ \A x \in Layers \ {"platform"} : held[x] = layer[x]
  <2>1. PICK mine : mine = [layer["platform"] EXCEPT ![f] = v]
    OBVIOUS
  <2>2. held = [layer EXCEPT !["platform"] = mine]
    BY <1>4, <2>1
  <2>3. QED
    BY <1>1, <2>2 DEF SettingsInv
<1>6. "platform" \in Layers /\ "platform" \notin DraftScope
  BY Apart
<1>7. CatalogueGood(catalogue)
  BY <1>1 DEF SettingsInv
<1>8. Materialize("platform", held, catalogue)
  BY <1>3, <1>4
<1>9. /\ DOMAIN layer' = Layers /\ edition' \in [Layers -> Nat] /\ DOMAIN standing' = Branch
      /\ CatalogueGood(catalogue') /\ \A l \in Branch : LocationInv(l)'
  BY <1>1, <1>5, <1>6, <1>7, <1>8, MaterializeKeeps
<1>10. staged' = staged /\ catalogue' = catalogue
  BY <1>1, <1>8 DEF PublishDefault, Materialize
<1>11. QED
  BY <1>1, <1>9, <1>10 DEF SettingsInv

\* Staging leaves a draft whose changes fit and differ in what they change.
LEMMA MergedIs ==
    ASSUME NEW rows, NEW s, NEW q, WellStaged(rows, s, q), NEW c, Fits(rows, s, c)
    PROVE  WellStaged(rows, s, Merged(q, c))
<1>1. PICK X : q \in Seq(X)
  BY DEF WellStaged, IsSequence
<1>2. PICK Y : Y = X \cup {c}
  OBVIOUS
<1>3. q \in Seq(Y) /\ c \in Y
  BY <1>1, <1>2
<1>4. PICK n \in Nat : n = Len(q) /\ DOMAIN q = 1..n
  BY <1>1
<1>5. /\ \A i \in 1..n : Fits(rows, s, q[i])
      /\ \A i, j \in 1..n : IdentityOf(q[i]) = IdentityOf(q[j]) => i = j
  BY <1>4 DEF WellStaged
<1> DEFINE same == {i \in DOMAIN q : IdentityOf(q[i]) = IdentityOf(c)}
<1>6. CASE same = {}
  <2>1. PICK m : m = Append(q, c)
    OBVIOUS
  <2>2. /\ m \in Seq(Y) /\ DOMAIN m = 1..(n+1) /\ m[n+1] = c
        /\ \A i \in 1..n : m[i] = q[i]
    BY <1>3, <1>4, <2>1
  <2>3. \A i \in 1..(n+1) : i = n + 1 \/ i \in 1..n
    OBVIOUS
  <2>4. \A i \in 1..(n+1) : Fits(rows, s, m[i])
    BY <1>5, <2>2, <2>3
  <2>5. \A i \in 1..n : IdentityOf(m[i]) # IdentityOf(m[n+1])
    BY <1>4, <1>6, <2>2
  <2>6. \A i, j \in 1..(n+1) : IdentityOf(m[i]) = IdentityOf(m[j]) => i = j
    <3>1. TAKE i \in 1..(n+1), j \in 1..(n+1)
    <3>2. HAVE IdentityOf(m[i]) = IdentityOf(m[j])
    <3>3. CASE i \in 1..n /\ j \in 1..n
      BY <1>5, <2>2, <3>2, <3>3
    <3>4. CASE i = n + 1 /\ j \in 1..n
      BY <2>5, <3>2, <3>4
    <3>5. CASE i \in 1..n /\ j = n + 1
      BY <2>5, <3>2, <3>5
    <3>6. QED
      BY <2>3, <3>3, <3>4, <3>5
  <2>7. Merged(q, c) = m
    BY <1>6, <2>1 DEF Merged
  <2>8. QED
    BY <2>2, <2>4, <2>6, <2>7 DEF WellStaged, IsSequence
<1>7. CASE same # {}
  <2>1. PICK m : m = [i \in DOMAIN q |-> IF i \in same THEN c ELSE q[i]]
    OBVIOUS
  <2>2. \A i \in 1..n : q[i] \in Y
    BY <1>3, <1>4
  <2>3. m \in [1..n -> Y]
    BY <1>3, <1>4, <2>1, <2>2
  <2>4. m \in Seq(Y)
    BY <2>3
  <2>5. \A i \in 1..n : Fits(rows, s, m[i]) /\ IdentityOf(m[i]) = IdentityOf(q[i])
    BY <1>4, <1>5, <2>1
  <2>6. DOMAIN m = 1..n
    BY <1>4, <2>1
  <2>7. \A i, j \in 1..n : IdentityOf(m[i]) = IdentityOf(m[j]) => i = j
    BY <1>5, <2>5
  <2>8. Merged(q, c) = m
    BY <1>7, <2>1 DEF Merged
  <2>9. QED
    BY <2>4, <2>5, <2>6, <2>7, <2>8 DEF WellStaged, IsSequence
<1>8. QED
  BY <1>6, <1>7

LEMMA OfValue ==
    ASSUME NEW op, NEW fields, NEW c \in ValueChanges(op, fields)
    PROVE  c.op = op
<1>1. PICK V : V = UNION {Values[f] : f \in fields}
  OBVIOUS
<1>2. c \in [op : {op}, field : fields, value : V]
  BY <1>1, Zenon DEF ValueChanges
<1>3. QED
  BY <1>2

LEMMA OffersFit ==
    ASSUME CatalogueGood(catalogue), NEW s \in DraftScope, NEW c \in Offers(s)
    PROVE  Fits(catalogue.options, s, c)
<1>1. PICK ids : ids = {IdOf(o) : o \in Listed(s)}
  OBVIOUS
<1>2. PICK orders : orders = SetToSeqs(ids)
  OBVIOUS
<1>3. \/ c \in [op : {"update"}, id : ids, active : BOOLEAN]
      \/ c \in [op : {"delete"}, id : ids]
      \/ c \in [op : {"reorder"}, ids : orders]
      \/ c \in [op : {"create"}, mutation : OptionKey \ UsedKeys(catalogue)]
      \/ s = "tenant" /\ \/ c \in ValueChanges("setting", Field)
                         \/ c \in [op : {"format"}, style : Formats, to : Enablements]
                         \/ c \in [op : {"action"}, enabled : BOOLEAN]
      \/ s # "tenant" /\ \/ c \in ValueChanges("override", OverrideField)
                         \/ c \in [op : {"reset"}, field : OverrideField]
  BY <1>1, <1>2, Zenon DEF Offers, OptionChanges, NewOptions, SettingChanges, FormatChanges,
                           ActionChanges, OverrideChanges
<1>4. CASE c \in [op : {"update"}, id : ids, active : BOOLEAN] \/ c \in [op : {"delete"}, id : ids]
  <2>1. c.op \in {"update", "delete"} /\ c.id \in ids
    BY <1>4
  <2>2. PICK o \in Listed(s) : c.id = IdOf(o)
    BY <1>1, <2>1
  <2>3. o \in catalogue.options /\ o.live
    BY DEF Listed
  <2>4. o.live \in BOOLEAN
    BY <2>3 DEF CatalogueGood, RowsGood
  <2>5. o.live = TRUE
    BY <2>3, <2>4
  <2>6. c.id = <<c.id[1], c.id[2]>> /\ o.key = c.id[1] /\ o.version = c.id[2]
    BY <2>2 DEF IdOf
  <2>7. QED
    BY <2>1, <2>3, <2>5, <2>6 DEF Fits
<1>5. CASE c \in [op : {"reorder"}, ids : orders]
           \/ c \in [op : {"create"}, mutation : OptionKey \ UsedKeys(catalogue)]
  BY <1>5 DEF Fits
<1>6. CASE s = "tenant" /\ \/ c \in ValueChanges("setting", Field)
                           \/ c \in [op : {"format"}, style : Formats, to : Enablements]
                           \/ c \in [op : {"action"}, enabled : BOOLEAN]
  <2>1. c.op \in {"setting", "format", "action"} /\ (c.op = "format" => c.style \in Formats)
    <3>1. CASE c \in ValueChanges("setting", Field)
      BY <3>1, OfValue
    <3>2. CASE c \in [op : {"format"}, style : Formats, to : Enablements]
      BY <3>2
    <3>3. CASE c \in [op : {"action"}, enabled : BOOLEAN]
      BY <3>3
    <3>4. QED
      BY <1>6, <3>1, <3>2, <3>3
  <2>2. QED
    BY <1>6, <2>1 DEF Fits
<1>7. CASE s # "tenant" /\ \/ c \in ValueChanges("override", OverrideField)
                           \/ c \in [op : {"reset"}, field : OverrideField]
  <2>1. c.op \in {"override", "reset"}
    BY <1>7, OfValue
  <2>2. QED
    BY <1>7, <2>1 DEF Fits
<1>8. QED
  BY <1>3, <1>4, <1>5, <1>6, <1>7

LEMMA QuietKeeps ==
    ASSUME SettingsInv, UNCHANGED <<layer, catalogue, standing, edition, effective>>,
           DOMAIN staged' = DraftScope,
           \A s \in DraftScope : WellStaged(catalogue.options, s, staged'[s])
    PROVE  SettingsInv'
BY DEF SettingsInv, LocationInv, NotAhead, AsShown, Resolved, Triple, OfferedBy

LEMMA StageKeeps ==
    ASSUME SettingsInv, NEW s \in DraftScope, StageChange(s) \/ Cancel(s)
    PROVE  SettingsInv'
<1>1. DOMAIN staged = DraftScope /\ CatalogueGood(catalogue)
      /\ \A x \in DraftScope : WellStaged(catalogue.options, x, staged[x])
  BY DEF SettingsInv
<1>2. PICK changes : staged' = [staged EXCEPT ![s] = changes]
                     /\ WellStaged(catalogue.options, s, changes)
  <2>1. CASE StageChange(s)
    <3>1. PICK c \in Offers(s) : staged' = [staged EXCEPT ![s] = Merged(@, c)]
      BY <2>1 DEF StageChange
    <3>2. Fits(catalogue.options, s, c)
      BY <1>1, OffersFit
    <3>3. WellStaged(catalogue.options, s, Merged(staged[s], c))
      BY <1>1, <3>2, MergedIs
    <3>4. QED
      BY <3>1, <3>3
  <2>2. CASE Cancel(s)
    <3>1. WellStaged(catalogue.options, s, <<>>)
      BY EmptyStaged
    <3>2. staged' = [staged EXCEPT ![s] = <<>>]
      BY <2>2 DEF Cancel
    <3>3. QED
      BY <3>1, <3>2
  <2>3. QED
    BY <2>1, <2>2
<1>3. DOMAIN staged' = DraftScope
  BY <1>1, <1>2
<1>4. ASSUME NEW x \in DraftScope PROVE WellStaged(catalogue.options, x, staged'[x])
  <2>1. CASE x = s
    <3>1. staged'[x] = changes
      BY <1>1, <1>2, <2>1
    <3>2. QED
      BY <1>2, <2>1, <3>1
  <2>2. CASE x # s
    <3>1. staged'[x] = staged[x]
      BY <1>1, <1>2, <2>2
    <3>2. QED
      BY <1>1, <3>1
  <2>3. QED
    BY <2>1, <2>2
<1>5. UNCHANGED <<layer, catalogue, standing, edition, effective>>
  BY DEF StageChange, Cancel
<1>6. QED
  BY <1>3, <1>4, <1>5, QuietKeeps

LEMMA CreateKeeps ==
    ASSUME SettingsInv, NEW l \in Branch, NEW mine, CreateLocation(l, mine)
    PROVE  SettingsInv'
<1>1. /\ standing[l] = "absent"
      /\ standing' = [standing EXCEPT ![l] = "active"]
      /\ layer' = [layer EXCEPT ![l] = mine]
      /\ UNCHANGED <<catalogue, edition, staged, effective>>
  BY DEF CreateLocation
<1>2. DOMAIN layer = Layers /\ DOMAIN standing = Branch /\ \A x \in Branch : LocationInv(x)
  BY DEF SettingsInv
<1>3. DOMAIN layer' = Layers /\ \A x \in Layers \ {l} : layer'[x] = layer[x]
  BY <1>1, <1>2
<1>4. DOMAIN standing' = Branch /\ standing'[l] = "active"
      /\ \A x \in Branch \ {l} : standing'[x] = standing[x]
  BY <1>1, <1>2
<1>5. ASSUME NEW x \in Branch PROVE LocationInv(x)'
  <2>1. LocationInv(x)
    BY <1>2
  <2>2. NotAhead(x)' <=> NotAhead(x)
    BY <1>1 DEF NotAhead
  <2>3. CASE x = l
    <3>1. effective'[x] = NoSnapshotYet
      BY <1>1, <2>1, <2>3 DEF LocationInv
    <3>2. effective'[x].edition # Triple(edition', x)
      BY <3>1 DEF NoSnapshotYet, Triple
    <3>3. QED
      BY <1>4, <2>3, <3>1, <3>2 DEF LocationInv
  <2>4. CASE x # l
    <3>1. layer'[x] = layer[x] /\ layer'["tenant"] = layer["tenant"]
          /\ layer'["platform"] = layer["platform"]
      BY <1>3, <2>4, Apart
    <3>2. \A f : Resolved(layer', x, f) = Resolved(layer, x, f)
      BY <3>1, SameShown
    <3>3. AsShown(x) => AsShown(x)'
      BY <1>1, <3>1, <3>2 DEF AsShown, OfferedBy
    <3>4. QED
      BY <1>1, <1>4, <2>1, <2>2, <2>4, <3>3 DEF LocationInv, Triple
  <2>5. QED
    BY <2>3, <2>4
<1>6. QED
  BY <1>1, <1>3, <1>4, <1>5 DEF SettingsInv

LEMMA UpdateKeeps ==
    ASSUME SettingsInv, NEW l \in Branch, NEW to \in {"active", "inactive"}, UpdateLocation(l, to)
    PROVE  SettingsInv'
<1>1. /\ standing[l] # "absent"
      /\ standing' = [standing EXCEPT ![l] = to]
      /\ UNCHANGED <<layer, catalogue, edition, staged, effective>>
  BY DEF UpdateLocation
<1>2. DOMAIN standing = Branch /\ \A x \in Branch : LocationInv(x)
  BY DEF SettingsInv
<1>3. DOMAIN standing' = Branch /\ \A x \in Branch : standing'[x] = "absent" => standing[x] = "absent"
  BY <1>1, <1>2
<1>4. ASSUME NEW x \in Branch PROVE LocationInv(x)'
  <2>1. LocationInv(x)
    BY <1>2
  <2>2. NotAhead(x)' <=> NotAhead(x)
    BY <1>1 DEF NotAhead
  <2>3. AsShown(x)' <=> AsShown(x)
    BY <1>1 DEF AsShown, OfferedBy, Resolved
  <2>4. QED
    BY <1>1, <1>3, <2>1, <2>2, <2>3 DEF LocationInv, Triple
<1>5. QED
  BY <1>1, <1>3, <1>4 DEF SettingsInv

LEMMA SettingsKept == SettingsInv /\ [SettingsNext]_settingsVars => SettingsInv'
<1>1. SUFFICES ASSUME SettingsInv, [SettingsNext]_settingsVars PROVE SettingsInv'
  OBVIOUS
<1>2. ASSUME NEW s \in DraftScope, StageChange(s) \/ Cancel(s) PROVE SettingsInv'
  BY <1>1, <1>2, StageKeeps
<1>3. ASSUME NEW s \in DraftScope, Publish(s) PROVE SettingsInv'
  BY <1>1, <1>3, PublishGives
<1>4. CASE PublishDefault
  BY <1>1, <1>4, DefaultKeeps
<1>5. ASSUME NEW l \in Branch, NEW mine \in Founding, CreateLocation(l, mine) PROVE SettingsInv'
  BY <1>1, <1>5, CreateKeeps
<1>6. ASSUME NEW l \in Branch, NEW to \in {"active", "inactive"}, UpdateLocation(l, to) PROVE SettingsInv'
  BY <1>1, <1>6, UpdateKeeps
<1>7. CASE UNCHANGED settingsVars
  <2>1. UNCHANGED <<layer, catalogue, standing, edition, effective>> /\ UNCHANGED staged
    BY <1>7 DEF settingsVars
  <2>2. QED
    BY <1>1, <2>1, QuietKeeps DEF SettingsInv
<1>8. QED
  BY <1>1, <1>2, <1>3, <1>4, <1>5, <1>6, <1>7 DEF SettingsNext

\* What was done to the options and the settings is in force.
LEMMA DoneInForce ==
    ASSUME NEW s, NEW c, CatalogueGood(catalogue'), Done(catalogue', s, c), HeldDone(layer'[s], c)
    PROVE  InForce(s, c)'
<1>1. CASE c.op = "update"
  <2>1. PICK o \in catalogue'.options : /\ o.live = TRUE /\ o.owner = s /\ o.key = c.id[1]
                                        /\ o.version = c.id[2] + 1 /\ o.active = c.active
    BY <1>1 DEF Done
  <2>2. ASSUME NEW p \in catalogue'.options, p.live, p.key = o.key PROVE p.version <= o.version
    <3>1. p.live \in BOOLEAN
      BY DEF CatalogueGood, RowsGood
    <3>2. p.live = TRUE
      BY <2>2, <3>1
    <3>3. p = o
      BY <2>1, <2>2, <3>2 DEF CatalogueGood, RowsGood
    <3>4. o.version \in Nat
      BY <2>1 DEF CatalogueGood, RowsGood
    <3>5. QED
      BY <3>3, <3>4
  <2>3. o \in LiveOptions(catalogue'.options, s)
    BY <2>1, <2>2 DEF LiveOptions
  <2>4. QED
    BY <1>1, <2>1, <2>3 DEF InForce
<1>2. CASE c.op = "delete"
  <2>1. ASSUME NEW o \in LiveOptions(catalogue'.options, s) PROVE o.key # c.id[1]
    <3>1. o \in catalogue'.options /\ o.live
      BY DEF LiveOptions
    <3>2. o.live \in BOOLEAN
      BY <3>1 DEF CatalogueGood, RowsGood
    <3>3. o.live = TRUE
      BY <3>1, <3>2
    <3>4. QED
      BY <1>2, <3>1, <3>3 DEF Done
  <2>2. QED
    BY <1>2, <2>1 DEF InForce
<1>3. CASE c.op \in {"setting", "override"}
  BY <1>3 DEF InForce, HeldDone
<1>4. CASE c.op = "reset"
  BY <1>4 DEF InForce, HeldDone
<1>5. CASE c.op = "format"
  BY <1>5 DEF InForce, Done
<1>6. CASE c.op = "action"
  BY <1>6 DEF InForce, Done
<1>7. CASE c.op \notin {"update", "delete", "setting", "override", "reset", "format", "action"}
  BY <1>7 DEF InForce
<1>8. QED
  BY <1>1, <1>2, <1>3, <1>4, <1>5, <1>6, <1>7

LEMMA StagedStep ==
    SettingsInv /\ [SettingsNext]_settingsVars =>
      [\A s \in DraftScope : edition'[s] # edition[s] =>
          /\ \A c \in ToSet(staged[s]) : InForce(s, c)'
          /\ {o \in catalogue.options : o.owner # s} = {o \in catalogue'.options : o.owner # s}
      ]_settingsVars
<1>1. SUFFICES ASSUME SettingsInv, [SettingsNext]_settingsVars,
                      NEW s \in DraftScope, edition'[s] # edition[s]
               PROVE  /\ \A c \in ToSet(staged[s]) : InForce(s, c)'
                      /\ {o \in catalogue.options : o.owner # s}
                           = {o \in catalogue'.options : o.owner # s}
  OBVIOUS
<1>2. edition \in [Layers -> Nat] /\ s \in Layers /\ s # "platform"
  BY <1>1, Apart DEF SettingsInv
<1>3. Publish(s)
  <2>1. ASSUME NEW x \in DraftScope, Publish(x) PROVE x = s
    <3>1. edition' = [edition EXCEPT ![x] = @ + 1]
      BY <1>1, <2>1, PublishGives
    <3>2. QED
      BY <1>1, <1>2, <3>1
  <2>2. ASSUME PublishDefault PROVE FALSE
    <3>1. edition' = [edition EXCEPT !["platform"] = @ + 1]
      BY <2>2 DEF PublishDefault, Materialize
    <3>2. QED
      BY <1>1, <1>2, <3>1
  <2>3. ASSUME UNCHANGED edition PROVE FALSE
    BY <1>1, <2>3
  <2>4. QED
    BY <1>1, <2>1, <2>2, <2>3 DEF SettingsNext, StageChange, Cancel, CreateLocation, UpdateLocation, settingsVars
<1>4. /\ SettingsInv'
      /\ Others(catalogue'.options, s) = Others(catalogue.options, s)
      /\ \A i \in DOMAIN staged[s] : Done(catalogue', s, staged[s][i]) /\ HeldDone(layer'[s], staged[s][i])
  BY <1>1, <1>3, PublishGives
<1>5. CatalogueGood(catalogue')
  BY <1>4 DEF SettingsInv
<1>6. ASSUME NEW c \in ToSet(staged[s]) PROVE InForce(s, c)'
  <2>1. PICK i \in DOMAIN staged[s] : c = staged[s][i]
    BY DEF ToSet
  <2>2. Done(catalogue', s, c) /\ HeldDone(layer'[s], c)
    BY <1>4, <2>1
  <2>3. QED
    BY <1>5, <2>2, DoneInForce
<1>7. QED
  BY <1>4, <1>6 DEF Others

(* A snapshot that carries the revisions in force says what the Console shows, *)
(* whatever was staged, published, reset or set at the platform before, and    *)
(* whichever locations came and went (inheritance.ts, effective-config.ts).    *)
THEOREM SettingsTheorem == SettingsSpec => []ShownIsPublished
<1>1. QED
  BY SettingsStart, SettingsKept, ShownKept, PTL DEF SettingsSpec

(* A publication that commits puts every change of the draft in force, however  *)
(* they were staged and whatever the other scopes published meanwhile, and       *)
(* leaves the options of the others as they were (applyStagedCatalogueChanges).  *)
THEOREM StagedTheorem == SettingsSpec => PublishedAsStaged
<1>1. QED
  BY SettingsStart, SettingsKept, StagedStep, PTL DEF SettingsSpec, PublishedAsStaged
=============================================================================
