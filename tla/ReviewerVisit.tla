----------------------------- MODULE ReviewerVisit -----------------------------
(***************************************************************************)
(* A reviewer's browsers and tabs, from a link to a review and back to it    *)
(* (app.tsx, survey-machine.ts, the reviewer's routes of the BFF, the        *)
(* binding of a review in packages/db/src/review-session).  A visit of a     *)
(* link gives its browser a capability, in a cookie the tabs share, and an   *)
(* entry challenge; both the challenge and the review it opens are bound to  *)
(* the capability of the request that made them.  A request carries the      *)
(* cookie of the moment it is sent.  The visit, its capability, its          *)
(* challenge and its review have one name.  The five attempts and the        *)
(* release of a challenge are in EntryAdmission, what a review keeps in      *)
(* ReviewProgress and DraftRevisions: of the requests that read, or that     *)
(* store what this module leaves out, the answer is one step with the        *)
(* request.                                                                  *)
(***************************************************************************)
EXTENDS Naturals

CONSTANTS Browser, Tab,
          Visit,         \* 1..n, in the order they are answered; a bound
          NoCall,
          ChallengeTTL,  \* 5 minutes
          CookieTTL,     \* Max-Age=86400
          BindingTTL,    \* 24 hours; a review itself lives 30 days
          LastHour       \* bound of the clock

ASSUME VisitAssumption ==
    /\ {ChallengeTTL, CookieTTL, BindingTTL, LastHour} \subseteq Nat
    /\ CookieTTL <= BindingTTL
    /\ Visit \subseteq Nat \ {0}

VARIABLES hour,        \* the clock, in the unit of the TTLs
          home,        \* the browser of each tab
          cookie,      \* __Host-review_browser of each browser
          invitation,  \* the invitation token of the one link that has one
          opening,     \* entry_challenges; lapse, replaced: of the cookie set with one
          review,      \* review_sessions and their browser bindings; asked: to be forgotten
          tab,         \* the page of each tab and the request it waits for
          stray        \* a request whose page is gone

visitVars == <<hour, home, cookie, invitation, opening, review, tab, stray>>

NoCookie == [capability |-> 0, ends |-> 0]
NotOpened == [at |-> "none"]
NoReview == [at |-> "none"]
Blank == [page |-> "away", of |-> 0, csrf |-> 0, call |-> NoCall]

VisitInit ==
    /\ hour = 0
    /\ home \in [Tab -> Browser]
    /\ cookie = [b \in Browser |-> NoCookie]
    /\ invitation = "live"
    /\ opening = [v \in Visit |-> NotOpened]
    /\ review = [v \in Visit |-> NoReview]
    /\ tab = [t \in Tab |-> Blank]
    /\ stray = NoCall

HourPasses ==
    /\ hour < LastHour
    /\ hour' = hour + 1
    /\ UNCHANGED <<home, cookie, invitation, opening, review, tab, stray>>

-----------------------------------------------------------------------------
(* Requests *)

\* A browser sends its cookie until it lapses.
Carried(b) == IF hour < cookie[b].ends THEN cookie[b].capability ELSE 0

Call(t, op, link) ==
    [op |-> op, of |-> tab[t].of, link |-> link, by |-> Carried(home[t]),
     csrf |-> tab[t].csrf, browser |-> home[t], answer |-> "sent"]

Calls == {c \in {tab[t].call : t \in Tab} \cup {stray} : c # NoCall /\ c.answer = "sent"}

\* csrfProtector.verify: the token is the one of the capability that comes with it.
Protected(c) == c.by # 0 /\ c.csrf = c.by

\* One request of a page at a time.
Sends(t, page, op, link) ==
    /\ tab[t].call = NoCall
    /\ tab' = [tab EXCEPT ![t].page = page, ![t].call = Call(t, op, link)]
    /\ UNCHANGED <<hour, home, cookie, invitation, opening, review, stray>>

\* A page that is left leaves its request behind (but for one that will be refused, and
\* a visit: it opens a challenge that nobody can name).
Lingers(c) == c \in Calls /\ (Protected(c) \/ c.op = "forget")

Leaves(t, page, of) ==
    /\ tab' = [tab EXCEPT ![t] = [Blank EXCEPT !.page = page, !.of = of]]
    /\ IF Lingers(tab[t].call)
       THEN stray = NoCall /\ stray' = tab[t].call
       ELSE UNCHANGED stray
    /\ UNCHANGED <<hour, home, cookie, invitation, opening, review>>

\* transition, and the pages of the two routes: what an answer makes of the page.  A page
\* that could not be read offers to read it again, or is loaded again.
Turned(page, op, word) ==
    CASE op = "read" -> IF word \in {"refused", "error"} THEN "loading" ELSE word
      [] op = "resume" -> IF word \in {"refused", "error"} THEN "resuming" ELSE word
      [] op \notin {"read", "resume"} /\ word = "admitted" -> "resuming"
      [] op = "start" /\ word # "admitted" -> IF word = "verification" THEN "verification" ELSE "entry"
      [] op = "verify" /\ word # "admitted" -> IF word = "unaided" THEN "unaided" ELSE "verification"
      [] op = "forget" /\ word = "forgotten" -> "away"
      [] OTHER -> page

\* The answer, for the page that asked if it is still there.
Hears(t, word) ==
    LET c == tab[t].call IN
    tab' = [tab EXCEPT ![t].page = Turned(tab[t].page, c.op, word),
                       ![t].of = IF word = "forgotten" THEN 0 ELSE tab[t].of,
                       ![t].csrf = IF word = "admitted" THEN 0 ELSE tab[t].csrf,
                       ![t].call = NoCall]

Says(c, word) ==
    \/ stray = c /\ stray' = NoCall /\ UNCHANGED tab
    \/ (\E t \in Tab : tab[t].call = c /\ Hears(t, word)) /\ UNCHANGED stray

\* Throttled, not a request of this origin, a failed port, a configuration that is
\* unavailable: an answer without effect.
Declines(c) ==
    /\ \E word \in {"refused", "error"} : Says(c, word)
    /\ UNCHANGED <<hour, home, cookie, invitation, opening, review>>

\* An answer that is lost is an error to the page, whatever the request does.
LoseAnswer(t) ==
    /\ Lingers(tab[t].call) /\ stray = NoCall
    /\ Hears(t, "error")
    /\ stray' = tab[t].call
    /\ UNCHANGED <<hour, home, cookie, invitation, opening, review>>

-----------------------------------------------------------------------------
(* /s/:tenantSlug/:locationSlug *)

OpenLink(t, link) ==
    /\ tab[t].page = "away"
    /\ Sends(t, "away", "visit", link)

\* Fault: every visit is a new browser.
AlwaysNew(c, v) == v

Capability(c, v) == IF c.by = 0 THEN v ELSE c.by

\* prepare: the challenge is bound to the capability, new or not.
Prepared(c, v) ==
    [at |-> "live", by |-> Capability(c, v), ends |-> hour + ChallengeTTL,
     invited |-> c.link = "invite", chosen |-> FALSE, failed |-> FALSE,
     browser |-> c.browser, lapse |-> 0, replaced |-> FALSE]

AnswerVisit(c) ==
    /\ c.op = "visit"
    /\ c.link = "invite" => invitation = "live"
    /\ \E v \in Visit :
         /\ opening[v] = NotOpened
         /\ \A u \in Visit : u < v => opening[u] # NotOpened
         /\ opening' = [opening EXCEPT ![v] = Prepared(c, v)]
         /\ \E t \in Tab : /\ tab[t].call = c
                           /\ tab' = [tab EXCEPT ![t].call.answer = "prepared",
                                                 ![t].call.of = v]
    /\ UNCHANGED <<hour, home, cookie, invitation, review, stray>>

\* The redirect to /start/:handle, with Set-Cookie when the capability is new.
Arrive(t) ==
    LET c == tab[t].call
        b == home[t]
        new == opening[c.of].by = c.of
    IN /\ c # NoCall /\ c.op = "visit" /\ c.answer = "prepared"
       /\ tab' = [tab EXCEPT ![t] = [Blank EXCEPT !.page = "loading", !.of = c.of]]
       /\ IF new
          THEN /\ cookie' = [cookie EXCEPT ![b] = [capability |-> c.of, ends |-> hour + CookieTTL]]
               /\ opening' = [v \in Visit |->
                    IF v = c.of THEN [opening[v] EXCEPT !.lapse = hour + CookieTTL]
                    ELSE IF c.by = 0 /\ v = cookie[b].capability
                         THEN [opening[v] EXCEPT !.replaced = TRUE]
                         ELSE opening[v]]
          ELSE UNCHANGED <<cookie, opening>>
       /\ UNCHANGED <<hour, home, invitation, review, stray>>

-----------------------------------------------------------------------------
(* /start/:entryChallengeHandle *)

\* Fault: the handle is enough.
ByHandle(v, by) == opening[v].at = "live" /\ hour < opening[v].ends /\ by # 0

\* resolve_live_entry_challenge
Resolvable(v, by) ==
    /\ opening[v].at = "live"
    /\ opening[v].by = by
    /\ hour < opening[v].ends
    /\ opening[v].invited => invitation = "live"

Stage(v) == IF opening[v].invited /\ opening[v].chosen
            THEN IF opening[v].failed THEN "unaided" ELSE "verification"
            ELSE "entry"

\* The CSRF token outlives its challenge: what counts is what it is bound to.
ReadEntry(t) ==
    LET c == Call(t, "read", "none")
        due == IF Resolvable(c.of, c.by) THEN Stage(c.of) ELSE "refused"
    IN /\ tab[t].page = "loading"
       /\ \E word \in {due, "refused", "error"} :
            tab' = [tab EXCEPT ![t].page = Turned(tab[t].page, "read", word), ![t].csrf = c.by]
       /\ UNCHANGED <<hour, home, cookie, invitation, opening, review, stray>>

OnEntry(t) == tab[t].page \in {"entry", "verification", "unaided"}

\* A rating and a path have been chosen.
CanStart(t) == tab[t].page = "entry" /\ tab[t].call = NoCall

ChoosePath(t) == CanStart(t) /\ Sends(t, "entry", "start", "none")

\* The challenge, and the invitation it came with, are consumed.
Admits(c) ==
    /\ opening' = [opening EXCEPT ![c.of].at = "consumed"]
    /\ invitation' = IF opening[c.of].invited THEN "consumed" ELSE invitation
    /\ review' = [review EXCEPT
         ![c.of] = [at |-> "open", by |-> c.by, ends |-> hour + BindingTTL, asked |-> FALSE]]
    /\ Says(c, "admitted")

AnswerStart(c) ==
    /\ c.op = "start"
    /\ IF ~Protected(c) \/ ~Resolvable(c.of, c.by)
       THEN Says(c, "refused") /\ UNCHANGED <<invitation, opening, review>>
       ELSE IF opening[c.of].invited
            THEN /\ opening' = [opening EXCEPT ![c.of].chosen = TRUE, ![c.of].failed = FALSE]
                 /\ Says(c, "verification")
                 /\ UNCHANGED <<invitation, review>>
            ELSE Admits(c)
    /\ UNCHANGED <<hour, home, cookie>>

CanVerify(t) == tab[t].page = "verification" /\ tab[t].call = NoCall

SubmitEvidence(t) ==
    CanVerify(t) /\ Sends(t, "verification", "verify", "none")

\* The evidence is the visit's, or it is not.
AnswerVerify(c) ==
    /\ c.op = "verify"
    /\ IF ~Protected(c) \/ ~Resolvable(c.of, c.by) \/ ~opening[c.of].chosen
       THEN Says(c, "refused") /\ UNCHANGED <<invitation, opening, review>>
       ELSE \/ Admits(c)
            \/ /\ opening' = [opening EXCEPT ![c.of].failed = TRUE]
               /\ Says(c, "unaided")
               /\ UNCHANGED <<invitation, review>>
    /\ UNCHANGED <<hour, home, cookie>>

\* `I do not have a code', and back.
NoCode(t) ==
    /\ \/ CanVerify(t) /\ tab' = [tab EXCEPT ![t].page = "unaided"]
       \/ tab[t].page = "unaided" /\ tab' = [tab EXCEPT ![t].page = "verification"]
    /\ UNCHANGED <<hour, home, cookie, invitation, opening, review, stray>>

-----------------------------------------------------------------------------
(* /review/:reviewSessionHandle *)

\* The binding of a handle and a capability.
Bound(c) ==
    /\ review[c.of].at = "open"
    /\ review[c.of].by = c.by
    /\ hour < review[c.of].ends

\* touch_live_review_session_browser_binding: what is used lives another 24 hours.
Touched(c) == review' = [review EXCEPT ![c.of].ends = hour + BindingTTL]

\* A request that is declined resolves nothing; an answer may be lost.
Serves(t, op) ==
    LET c == Call(t, op, "none") IN
    /\ tab[t].call = NoCall
    /\ \E word \in {"review", "refused", "error"} :
         /\ tab' = [tab EXCEPT ![t].page = Turned(tab[t].page, op, word)]
         /\ \/ Bound(c) /\ word # "refused" /\ Touched(c)
            \/ word # "review" /\ UNCHANGED review
    /\ UNCHANGED <<hour, home, cookie, invitation, opening, stray>>

Resume(t) == tab[t].page = "resuming" /\ Serves(t, "resume")
OnReview(t) == tab[t].page = "review"

SaveProgress(t) == OnReview(t) /\ Serves(t, "progress")
SaveDraft(t) == OnReview(t) /\ Serves(t, "draft")
Generate(t) == OnReview(t) /\ Serves(t, "generate")
Dispose(t) == OnReview(t) /\ Serves(t, "dispose")

ForgetReview(t) == OnReview(t) /\ Sends(t, "review", "forget", "none")

\* Fault: the browser forgets all it has opened.
ForgetsAll(c) == {v \in Visit : review[v].at = "open" /\ review[v].by = c.by}

Forgotten(c) == {c.of}

\* revoke_live_review_session_browser_binding
AnswerForget(c) ==
    /\ c.op = "forget"
    /\ IF Bound(c)
       THEN /\ review' = [v \in Visit |-> IF v \in Forgotten(c)
                                          THEN [review[v] EXCEPT !.at = "forgotten", !.asked = v = c.of]
                                          ELSE review[v]]
            /\ Says(c, "forgotten")
       ELSE Says(c, "refused") /\ UNCHANGED review
    /\ UNCHANGED <<hour, home, cookie, invitation, opening>>

-----------------------------------------------------------------------------
(* The address bar *)

\* The address of a page is opened again, or in another tab, of this browser or of
\* another.
Reload(t) ==
    \E u \in Tab :
        /\ u = t \/ (tab[t].page = "away" /\ tab[u].of # 0)
        /\ \/ OnEntry(u) /\ Leaves(t, "loading", tab[u].of)
           \/ OnReview(u) /\ Leaves(t, "resuming", tab[u].of)

VisitNext ==
    \/ HourPasses
    \/ \E t \in Tab :
         \/ OpenLink(t, "open") \/ OpenLink(t, "invite")
         \/ Arrive(t)
         \/ ReadEntry(t) \/ ChoosePath(t) \/ SubmitEvidence(t) \/ NoCode(t)
         \/ Resume(t) \/ SaveProgress(t) \/ SaveDraft(t) \/ Generate(t) \/ Dispose(t) \/ ForgetReview(t)
         \/ LoseAnswer(t) \/ Reload(t)
    \/ \E c \in Calls :
         \/ Declines(c)
         \/ AnswerVisit(c) \/ AnswerStart(c) \/ AnswerVerify(c) \/ AnswerForget(c)

VisitSpec == VisitInit /\ [][VisitNext]_visitVars

-----------------------------------------------------------------------------
(* Properties *)

\* The browser would be answered, now.
Reopens(t) ==
    LET r == review[tab[t].of] IN
    r.at = "open" /\ hour < r.ends /\ Carried(home[t]) = r.by

Shows(t) == OnEntry(t) \/ OnReview(t)

(* Two tabs, two links: whatever the other tab opens, starts, forgets or     *)
(* loads again, and whatever requests it has left behind, a review can be    *)
(* opened again from its tab for as long as the cookie its visit set lives,  *)
(* unless it was forgotten itself, or the cookie was replaced by that of a   *)
(* first visit that had set out before; and what a link opened is shown in   *)
(* no other browser, though its address is known there.                      *)
ReviewsStayWithTheirBrowser == \A t \in Tab : Shows(t) =>
    LET v == tab[t].of  r == review[v]  first == opening[opening[v].by] IN
    /\ home[t] = opening[v].browser
    /\ tab[t].page = "review" /\ ~r.asked
       /\ hour < first.lapse /\ ~first.replaced => Reopens(t)
=============================================================================
