--------------------------- MODULE ReviewProgress ---------------------------
(***************************************************************************)
(* The progress of one review session: its row and browser binding          *)
(* (packages/db/src/review-session) and the pages that autosave it          *)
(* (frontend/app.tsx).  A page is one load of the session in one tab; it    *)
(* ends when it is hidden for good, and its last save may outlive it.       *)
(* Every statement on the row locks it until its transaction commits, so a  *)
(* save is two steps: the binding is touched, then the row is compared and  *)
(* written.                                                                 *)
(***************************************************************************)
EXTENDS Naturals, Sequences

CONSTANTS Page, Progress, NoProgress,
          MaxVersion,  \* bound on session_version
          MaxChain     \* bound on the saves a page has queued

ASSUME ProgressAssumption == NoProgress \notin Progress /\ MaxVersion \in Nat \ {0}

VARIABLES row,      \* the review session: open, its version and progress
          binding,  \* review_session_browser_bindings
          page,     \* the refs and state of each page
          save,     \* the save each page has sent, with what it knew
          query     \* the session read of each page, on its way

progressVars == <<row, binding, page, save, query>>

Known == [version : 0..MaxVersion, progress : Progress \cup {NoProgress}]
Unknown == [version |-> 0, progress |-> NoProgress]
PageState ==
    [at : {"absent", "open", "closed"}, epoch : 0..MaxVersion, data : Known,
     shown : Progress \cup {NoProgress}, persisted : Progress \cup {NoProgress},
     queued : Progress \cup {NoProgress}, timer : BOOLEAN, conflict : BOOLEAN,
     chain : Seq(Progress)]
NoPage == [at |-> "absent", epoch |-> 0, data |-> Unknown, shown |-> NoProgress,
           persisted |-> NoProgress, queued |-> NoProgress, timer |-> FALSE,
           conflict |-> FALSE, chain |-> << >>]
SaveState ==
    [at : {"none", "sent", "bound", "answered"}, epoch : 0..MaxVersion,
     progress : Progress \cup {NoProgress}, over : Progress \cup {NoProgress},
     reply : {"none", "saved", "conflict", "unavailable"}, version : 0..MaxVersion]
NoSave == [at |-> "none", epoch |-> 0, progress |-> NoProgress, over |-> NoProgress,
           reply |-> "none", version |-> 0]

ProgressTypeOK ==
    /\ row \in [open : BOOLEAN, version : 1..MaxVersion, progress : Progress]
    /\ binding \in {"live", "ended"}
    /\ page \in [Page -> PageState]
    /\ save \in [Page -> SaveState]
    /\ query \in [Page -> Known]

ProgressInit ==
    /\ row \in [open : {TRUE}, version : {1}, progress : Progress]
    /\ binding = "live"
    /\ page = [p \in Page |-> NoPage]
    /\ save = [p \in Page |-> NoSave]
    /\ query = [p \in Page |-> Unknown]

Stored == [version |-> row.version, progress |-> row.progress]
Reachable == binding = "live" /\ row.open
IsOpen(p) == page[p].at = "open"

-----------------------------------------------------------------------------
(* The page reads the session *)

\* The refs of a page that has loaded `known'; its state is set at first only.
Loaded(p, known) ==
    [page[p] EXCEPT !.epoch = known.version, !.persisted = known.progress,
                    !.queued = known.progress, !.conflict = FALSE, !.data = known]

OpenPage(p) ==
    /\ page[p].at = "absent"
    /\ Reachable
    /\ page' = [page EXCEPT ![p] = [Loaded(p, Stored) EXCEPT !.at = "open",
                                                             !.shown = row.progress]]
    /\ UNCHANGED <<row, binding, save, query>>

\* The query is read again when the browser is back online, and may be late.
Refetch(p) ==
    /\ IsOpen(p) /\ query[p] = Unknown /\ Reachable
    /\ query' = [query EXCEPT ![p] = Stored]
    /\ UNCHANGED <<row, binding, page, save>>

\* Data equal to the last keeps its identity, and no effect runs.
Refetched(p) ==
    /\ IsOpen(p) /\ query[p] # Unknown
    /\ query' = [query EXCEPT ![p] = Unknown]
    /\ page' = IF query[p] = page[p].data THEN page
               ELSE [page EXCEPT ![p] = Loaded(p, query[p])]
    /\ UNCHANGED <<row, binding, save>>

-----------------------------------------------------------------------------
(* The page saves *)

\* Every change of the state starts the timer anew.
Edit(p, progress) ==
    /\ IsOpen(p) /\ page[p].shown # progress
    /\ page' = [page EXCEPT ![p].shown = progress, ![p].timer = TRUE]
    /\ UNCHANGED <<row, binding, save, query>>

\* persistProgress returns early for what is stored or queued already, and
\* for good after a conflict.
Unsaved(p) == /\ ~page[p].conflict
              /\ page[p].shown \notin {page[p].persisted, page[p].queued}

\* The timer fires: what is shown is chained behind the save under way.
Persist(p) ==
    /\ IsOpen(p) /\ page[p].timer /\ Len(page[p].chain) < MaxChain
    /\ page' = [page EXCEPT ![p] =
         IF Unsaved(p)
         THEN [page[p] EXCEPT !.timer = FALSE, !.queued = page[p].shown,
                              !.chain = Append(page[p].chain, page[p].shown)]
         ELSE [page[p] EXCEPT !.timer = FALSE]]
    /\ UNCHANGED <<row, binding, save, query>>

Sent(p, progress) == [NoSave EXCEPT !.at = "sent", !.epoch = page[p].epoch,
                                    !.progress = progress, !.over = page[p].persisted]

\* The next queued save runs, or gives up on a conflict.
StartSave(p) ==
    /\ IsOpen(p) /\ save[p].at = "none" /\ page[p].chain # << >>
    /\ page' = [page EXCEPT ![p].chain = Tail(@)]
    /\ save' = IF page[p].conflict THEN save
               ELSE [save EXCEPT ![p] = Sent(p, Head(page[p].chain))]
    /\ UNCHANGED <<row, binding, query>>

\* pagehide flushes what is shown; a save behind another one is lost.
ClosePage(p) ==
    /\ IsOpen(p)
    /\ page' = [page EXCEPT ![p] = [NoPage EXCEPT !.at = "closed"]]
    /\ save' = [save EXCEPT ![p] =
         CASE save[p].at \in {"sent", "bound"} -> save[p]
           [] save[p].at = "none" /\ Unsaved(p) /\ page[p].chain = << >> ->
                Sent(p, page[p].shown)
           [] OTHER -> NoSave]
    /\ query' = [query EXCEPT ![p] = Unknown]
    /\ UNCHANGED <<row, binding>>

\* Fault: the conflict's epoch is taken and the save is tried again, as after a
\* failure.
ConflictRetried(p) == [page[p] EXCEPT !.epoch = save[p].version, !.timer = TRUE,
                                      !.queued = page[p].persisted]

OnConflict(p) == [page[p] EXCEPT !.epoch = save[p].version, !.conflict = TRUE]

SaveAnswered(p) ==
    /\ IsOpen(p) /\ save[p].at = "answered"
    /\ save' = [save EXCEPT ![p] = NoSave]
    /\ page' = [page EXCEPT ![p] =
         CASE save[p].reply = "saved" -> [page[p] EXCEPT !.epoch = save[p].version,
                                                         !.persisted = save[p].progress]
           [] save[p].reply = "conflict" -> OnConflict(p)
           [] save[p].reply = "unavailable" -> page[p]]
    /\ UNCHANGED <<row, binding, query>>

\* The answer is lost, or the request was: the same progress may be queued again.
SaveLost(p) ==
    /\ save[p].at \in {"sent", "answered"}
    /\ save' = [save EXCEPT ![p] = NoSave]
    /\ page' = IF IsOpen(p) /\ page[p].queued = save[p].progress
               THEN [page EXCEPT ![p].queued = page[p].persisted]
               ELSE page
    /\ UNCHANGED <<row, binding, query>>

-----------------------------------------------------------------------------
(* The store *)

\* An answer to a page that is gone reaches nobody.
SaveReplies(p, reply) ==
    save' = [save EXCEPT ![p] = IF IsOpen(p)
                                THEN [@ EXCEPT !.at = "answered", !.reply = reply,
                                               !.version = row'.version]
                                ELSE NoSave]

\* touch_live_review_session_browser_binding
Bind(p) ==
    /\ save[p].at = "sent"
    /\ UNCHANGED <<row, binding, page, query>>
    /\ IF Reachable THEN save' = [save EXCEPT ![p].at = "bound"]
       ELSE SaveReplies(p, "unavailable")

\* The row is locked, compared and written; what the tenant's policy refuses is
\* not written.
Commit(p) ==
    /\ save[p].at = "bound"
    /\ UNCHANGED <<binding, page, query>>
    /\ \/ /\ row.open /\ row.version # save[p].epoch
          /\ UNCHANGED row
          /\ SaveReplies(p, "conflict")
       \/ /\ row.open /\ row.version = save[p].epoch /\ row.version < MaxVersion
          /\ row' = [row EXCEPT !.version = @ + 1, !.progress = save[p].progress]
          /\ SaveReplies(p, "saved")
       \/ /\ row.open => row.version = save[p].epoch
          /\ UNCHANGED row
          /\ SaveReplies(p, "unavailable")

\* revoke_live_review_session_browser_binding, asked for by a page.
Forget(p) ==
    /\ IsOpen(p) /\ binding = "live"
    /\ binding' = "ended"
    /\ UNCHANGED <<row, page, save, query>>

ExpireBinding ==
    /\ binding = "live"
    /\ binding' = "ended"
    /\ UNCHANGED <<row, page, save, query>>

\* The session expires, or its tenant or location is suspended.
CloseSession ==
    /\ row.open
    /\ row' = [row EXCEPT !.open = FALSE]
    /\ UNCHANGED <<binding, page, save, query>>

ProgressNext ==
    \/ \E p \in Page :
         \/ OpenPage(p)
         \/ Refetch(p)
         \/ Refetched(p)
         \/ \E progress \in Progress : Edit(p, progress)
         \/ Persist(p)
         \/ StartSave(p)
         \/ ClosePage(p)
         \/ SaveAnswered(p)
         \/ SaveLost(p)
         \/ Bind(p)
         \/ Commit(p)
         \/ Forget(p)
    \/ ExpireBinding
    \/ CloseSession

ProgressSpec == ProgressInit /\ [][ProgressNext]_progressVars

-----------------------------------------------------------------------------
(* US-02.3: simultaneous tabs and a refresh overwrite nothing unread.  A     *)
(* save that would be accepted replaces the progress its page had read or    *)
(* stored itself, also when answers are lost, the session is read again      *)
(* while a save is under way, or the page is gone.                           *)
NoBlindOverwrite == \A p \in Page :
    save[p].at \in {"sent", "bound"} /\ save[p].epoch = row.version
        => save[p].over = row.progress
==============================================================================
