--------------------------- MODULE DraftRevisions ---------------------------
(***************************************************************************)
(* One grounded draft under edit: its revisions and disposition             *)
(* (packages/db/execution-plane/reviewer-disposition-store.ts) and the      *)
(* pages that edit, autosave and copy it (frontend/app.tsx).  saveRevision  *)
(* reads the latest revision in the snapshot its statement begins with and  *)
(* only then waits for the draft's row; record locks the row first and      *)
(* reads afterwards.  A page is one load of the session in one tab.         *)
(***************************************************************************)
EXTENDS Naturals, Sequences, FiniteSets

CONSTANTS Editor,        \* pages
          Text, NoText,  \* Generated is the text of the grounded draft
          Generated,
          MaxOpen,       \* pages open at once
          MaxRevision    \* bound on the revisions

ASSUME DraftAssumption ==
    /\ Generated \in Text /\ NoText \notin Text
    /\ MaxOpen \in Nat /\ MaxRevision \in Nat \ {0}

VARIABLES revision,     \* draft_revisions: text, and what its author had read
          disposition,  \* the revision the disposition selects, 0 without one
          journeyDone,  \* the stored progress is in phase `done'
          editor,       \* the refs and state of each page
          request       \* the call each page is waiting for

draftVars == <<revision, disposition, journeyDone, editor, request>>

MaybeText == Text \cup {NoText}
EditorState ==
    [at : {"absent", "open", "closed"}, draftText : MaybeText, saved : MaybeText,
     queued : MaybeText, chained : MaybeText, base : 0..MaxRevision,
     timer : BOOLEAN, conflict : BOOLEAN, suspended : BOOLEAN,
     copying : MaybeText, completed : MaybeText]
NoEditor == [at |-> "absent", draftText |-> NoText, saved |-> NoText,
             queued |-> NoText, chained |-> NoText, base |-> 0,
             timer |-> FALSE, conflict |-> FALSE, suspended |-> FALSE,
             copying |-> NoText, completed |-> NoText]
PendingCall == [at : {"none", "sent", "read", "recorded", "conflict"},
            kind : {"save", "record"}, text : MaybeText, over : MaybeText,
            expected : 0..MaxRevision, latest : 0..MaxRevision]
NoCallYet == [at |-> "none", kind |-> "save", text |-> NoText, over |-> NoText,
              expected |-> 0, latest |-> 0]

DraftTypeOK ==
    /\ revision \in Seq([text : Text, over : MaybeText])
    /\ Len(revision) \in 1..MaxRevision
    /\ disposition \in 0..MaxRevision
    /\ journeyDone \in BOOLEAN
    /\ editor \in [Editor -> EditorState]
    /\ request \in [Editor -> PendingCall]

DraftInit ==
    /\ revision = << [text |-> Generated, over |-> NoText] >>
    /\ disposition = 0
    /\ journeyDone = FALSE
    /\ editor = [p \in Editor |-> NoEditor]
    /\ request = [p \in Editor |-> NoCallYet]

Latest == Len(revision)
LatestText == revision[Latest].text
Editing(p) == editor[p].at = "open"
Writing(p) == editor[p].completed = NoText

-----------------------------------------------------------------------------
(* The page *)

\* The session is read: the latest revision is shown, as done if it was done.
OpenEditor(p) ==
    /\ editor[p].at = "absent"
    /\ Cardinality({q \in Editor : Editing(q)}) < MaxOpen
    /\ editor' = [editor EXCEPT ![p] =
         [NoEditor EXCEPT !.at = "open", !.draftText = LatestText, !.saved = LatestText,
                          !.queued = LatestText, !.base = Latest,
                          !.completed = IF journeyDone THEN LatestText ELSE NoText]]
    /\ UNCHANGED <<revision, disposition, journeyDone, request>>

\* persistDraftRevision returns early for what is saved or queued already,
\* after a conflict, and while a copy suspends it.
Autosaves(e, text) ==
    ~e.conflict /\ ~e.suspended /\ text \notin {e.saved, e.queued}

\* Every edit starts the timer anew.  Bound: none once the last revision is
\* stored.
EditDraft(p, text) ==
    /\ Editing(p) /\ Writing(p) /\ ~editor[p].conflict
    /\ editor[p].draftText # text
    /\ Latest < MaxRevision
    /\ editor' = [editor EXCEPT ![p].draftText = text,
                                ![p].timer = Autosaves(editor[p], text)]
    /\ UNCHANGED <<revision, disposition, journeyDone, request>>

\* The timer fires: the text is chained behind the save under way.  Bound: one.
Autosave(p) ==
    /\ Editing(p) /\ editor[p].timer /\ editor[p].chained = NoText
    /\ editor' = [editor EXCEPT ![p] =
         IF Autosaves(@, @.draftText)
         THEN [@ EXCEPT !.timer = FALSE, !.queued = editor[p].draftText,
                        !.chained = editor[p].draftText]
         ELSE [@ EXCEPT !.timer = FALSE]]
    /\ UNCHANGED <<revision, disposition, journeyDone, request>>

SaveCall(p, text) ==
    [NoCallYet EXCEPT !.at = "sent", !.text = text, !.expected = editor[p].base,
                      !.over = editor[p].saved]

\* The chained save runs, or gives up on a conflict or a copy.
StartDraftSave(p) ==
    /\ Editing(p) /\ editor[p].chained # NoText /\ request[p].at = "none"
    /\ editor' = [editor EXCEPT ![p].chained = NoText]
    /\ request' = IF editor[p].conflict \/ editor[p].suspended THEN request
                  ELSE [request EXCEPT ![p] = SaveCall(p, editor[p].chained)]
    /\ UNCHANGED <<revision, disposition, journeyDone>>

\* The page goes away; pagehide flushes what it shows, unless a save is under
\* way.
CloseEditor(p) ==
    /\ Editing(p)
    /\ editor' = [editor EXCEPT ![p] = [NoEditor EXCEPT !.at = "closed"]]
    /\ request' = [request EXCEPT ![p] =
         CASE request[p].at \in {"sent", "read"} -> request[p]
           [] request[p].at = "none" /\ editor[p].chained = NoText
                /\ Autosaves(editor[p], editor[p].draftText) ->
                SaveCall(p, editor[p].draftText)
           [] OTHER -> NoCallYet]
    /\ UNCHANGED <<revision, disposition, journeyDone>>

\* Copy: autosave is suspended, the text is in the clipboard.
Copy(p) ==
    /\ Editing(p) /\ Writing(p) /\ editor[p].copying = NoText
    /\ editor' = [editor EXCEPT ![p].suspended = TRUE,
                                ![p].copying = editor[p].draftText]
    /\ UNCHANGED <<revision, disposition, journeyDone, request>>

\* The chain of saves is awaited; a conflict ends the copy, else it is recorded.
RecordCopy(p) ==
    /\ Editing(p) /\ editor[p].copying # NoText
    /\ editor[p].chained = NoText /\ request[p].at = "none"
    /\ IF editor[p].conflict
       THEN editor' = [editor EXCEPT ![p].copying = NoText] /\ UNCHANGED request
       ELSE /\ request' = [request EXCEPT ![p] =
                 [NoCallYet EXCEPT !.at = "sent", !.kind = "record",
                                   !.text = editor[p].copying]]
            /\ UNCHANGED editor
    /\ UNCHANGED <<revision, disposition, journeyDone>>

\* Back to edit: autosave stays suspended.
BackToEdit(p) ==
    /\ Editing(p) /\ ~Writing(p)
    /\ editor' = [editor EXCEPT ![p].completed = NoText]
    /\ journeyDone' \in {journeyDone, FALSE}
    /\ UNCHANGED <<revision, disposition, request>>

\* Fault: a conflict counts as a save.
ConflictAsSaved(p) ==
    [editor[p] EXCEPT !.base = request[p].latest, !.saved = request[p].text]

ConflictFound(p) ==
    [editor[p] EXCEPT !.base = request[p].latest, !.conflict = TRUE]

\* The answer arrives.  After a record the page is done, and so is the stored
\* progress unless that save fails or conflicts.
AnswerEditor(p) ==
    /\ Editing(p) /\ request[p].at \in {"recorded", "conflict"}
    /\ request' = [request EXCEPT ![p] = NoCallYet]
    /\ editor' = [editor EXCEPT ![p] =
         CASE request[p].at = "conflict" -> ConflictFound(p)
           [] request[p].at = "recorded" /\ request[p].kind = "save" ->
                [editor[p] EXCEPT !.base = request[p].latest, !.saved = request[p].text]
           [] OTHER -> [editor[p] EXCEPT !.copying = NoText,
                                         !.completed = request[p].text]]
    /\ journeyDone' \in IF request[p].kind = "record" THEN {TRUE, journeyDone}
                        ELSE {journeyDone}
    /\ UNCHANGED <<revision, disposition>>

\* The answer, or the request, is lost.
AnswerLost(p) ==
    /\ Editing(p) /\ request[p].at \in {"sent", "recorded", "conflict"}
    /\ request' = [request EXCEPT ![p] = NoCallYet]
    /\ editor' = [editor EXCEPT ![p] =
         IF request[p].kind = "record" THEN [editor[p] EXCEPT !.copying = NoText]
         ELSE IF editor[p].queued = request[p].text
              THEN [editor[p] EXCEPT !.queued = editor[p].saved]
              ELSE editor[p]]
    /\ UNCHANGED <<revision, disposition, journeyDone>>

-----------------------------------------------------------------------------
(* The store *)

\* An answer to a page that is gone reaches nobody.
Answers(p, status, latest) ==
    request' = [request EXCEPT ![p] =
        IF Editing(p) THEN [@ EXCEPT !.at = status, !.latest = latest] ELSE NoCallYet]

\* The statement of saveRevision takes its snapshot, and waits for the row.
SnapshotRevision(p) ==
    /\ request[p].at = "sent" /\ request[p].kind = "save"
    /\ request' = [request EXCEPT ![p].at = "read", ![p].latest = Latest]
    /\ UNCHANGED <<revision, disposition, journeyDone, editor>>

\* Fault: the new revision follows whatever is the latest by then.
AfterLatest(p) == Latest + 1

\* current.revision + 1
NextRevision(p) == request[p].latest + 1

\* The row is locked; the decision is the snapshot's.  The insertion of a
\* revision that exists by now fails, and the call with it.
SaveRevision(p) ==
    LET seen == request[p].latest IN
    /\ request[p].at = "read"
    /\ \/ /\ revision[seen].text = request[p].text
          /\ Answers(p, "recorded", seen)
          /\ UNCHANGED revision
       \/ /\ revision[seen].text # request[p].text /\ seen # request[p].expected
          /\ Answers(p, "conflict", seen)
          /\ UNCHANGED revision
       \/ /\ revision[seen].text # request[p].text /\ seen = request[p].expected
          /\ NextRevision(p) = Latest + 1 /\ Latest < MaxRevision
          /\ revision' = Append(revision, [text |-> request[p].text,
                                           over |-> request[p].over])
          /\ Answers(p, "recorded", NextRevision(p))
    /\ UNCHANGED <<disposition, journeyDone, editor>>

\* unique (draft, revision)
SaveFails(p) ==
    LET seen == request[p].latest IN
    /\ request[p].at = "read"
    /\ revision[seen].text # request[p].text /\ seen = request[p].expected
    /\ NextRevision(p) \in 1..Latest
    /\ request' = [request EXCEPT ![p] = NoCallYet]
    /\ editor' = IF Editing(p) /\ editor[p].queued = request[p].text
                 THEN [editor EXCEPT ![p].queued = editor[p].saved]
                 ELSE editor
    /\ UNCHANGED <<revision, disposition, journeyDone>>

\* The revisions with a text; the first of them is selected.
WithText(text) == {k \in 1..Latest : revision[k].text = text}

\* record: the original if it is accepted, else the first revision with the
\* final text, else a new one.
Record(p) ==
    LET same == WithText(request[p].text) IN
    /\ request[p].at = "sent" /\ request[p].kind = "record"
    /\ IF same # {}
       THEN /\ disposition' = CHOOSE k \in same : \A j \in same : k <= j
            /\ UNCHANGED revision
       ELSE /\ Latest < MaxRevision
            /\ revision' = Append(revision, [text |-> request[p].text, over |-> LatestText])
            /\ disposition' = Latest + 1
    /\ Answers(p, "recorded", disposition')
    /\ UNCHANGED <<journeyDone, editor>>

DraftNext == \E p \in Editor :
    \/ OpenEditor(p)
    \/ \E text \in Text : EditDraft(p, text)
    \/ Autosave(p)
    \/ StartDraftSave(p)
    \/ CloseEditor(p)
    \/ Copy(p)
    \/ RecordCopy(p)
    \/ BackToEdit(p)
    \/ AnswerEditor(p)
    \/ AnswerLost(p)
    \/ SnapshotRevision(p)
    \/ SaveRevision(p)
    \/ SaveFails(p)
    \/ Record(p)

DraftSpec == DraftInit /\ [][DraftNext]_draftVars

-----------------------------------------------------------------------------
(* Edits create draft revisions and overwrite none: an autosaved revision    *)
(* follows the one its author had read or saved, whatever other tabs save or *)
(* copy meanwhile and whichever snapshot its statement decides by.  (What a  *)
(* copy appends is the reviewer's decision and follows whatever is there.)   *)
RevisionsFollow == \A k \in 2..Latest :
    revision[k].over = revision[k - 1].text
==============================================================================
