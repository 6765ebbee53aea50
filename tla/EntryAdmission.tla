--------------------------- MODULE EntryAdmission ---------------------------
(***************************************************************************)
(* How a link becomes a review session (packages/db/src/admission:          *)
(* prepare, advance, verify, and the SQL functions they call).  A challenge *)
(* is short-lived and names at most one invitation token.  Every request    *)
(* reads its scope first, in a statement of its own, and opens a            *)
(* transaction afterwards; the challenge's row is locked by the first       *)
(* statement that updates it, or by verify's FOR UPDATE, until the          *)
(* transaction ends.  A session is named after the request that creates it. *)
(***************************************************************************)
EXTENDS Naturals

CONSTANTS EntryRequest, Challenge, Token, EntryRelease,
          Candidate,    \* the release a candidate of the BFF is bound to
          Mode,         \* entry mode of each release's snapshot
          Verified,     \* releases that require verified experience
          Visited,      \* tokens issued for a visit, which holds the evidence
          Selection,    \* a rating and an action
          NoToken, NoSelection,
          MaxFailures   \* 5 failed evidence attempts

ASSUME EntryAssumption ==
    /\ Mode \in [EntryRelease -> {"invite", "open-qr", "both"}]
    /\ Verified \subseteq EntryRelease
    /\ Visited \subseteq Token
    /\ NoToken \notin Token
    /\ NoSelection \notin Selection
    /\ MaxFailures \in Nat
    /\ Candidate \in EntryRelease

VARIABLES live,       \* the release the location's live pointer names
          token,      \* invitation_tokens
          challenge,  \* entry_challenges
          entry,      \* the requests: advance and verify
          session,    \* the review session each request created
          guesses     \* evidence that was compared and was wrong

entryVars == <<live, token, challenge, entry, session, guesses>>

ChallengeRow ==
    [at : {"absent", "live", "consumed", "expired"}, token : Token \cup {NoToken},
     release : EntryRelease, verification : BOOLEAN,
     selection : Selection \cup {NoSelection}, failures : 0..MaxFailures]
NoChallenge == [at |-> "absent", token |-> NoToken,
                release |-> CHOOSE r \in EntryRelease : TRUE, verification |-> FALSE,
                selection |-> NoSelection, failures |-> 0]
SessionRow == [challenge : Challenge, token : Token \cup {NoToken},
               release : EntryRelease, selection : Selection]
NoSession == [challenge |-> "none"]
EntryReply == {"none", "admitted", "unavailable", "verification-required",
               "verification-unavailable"}
RequestState ==
    [kind : {"advance", "verify"}, at : {"idle", "resolved", "locked", "consumed", "done"},
     challenge : Challenge \cup {"none"}, selection : Selection \cup {NoSelection},
     evidence : BOOLEAN, reply : EntryReply]
NoRequest == [kind |-> "advance", at |-> "idle",
              challenge |-> "none", selection |-> NoSelection,
              evidence |-> FALSE, reply |-> "none"]

EntryTypeOK ==
    /\ live \in EntryRelease
    /\ token \in [Token -> {"live", "consumed", "expired"}]
    /\ challenge \in [Challenge -> ChallengeRow]
    /\ entry \in [EntryRequest -> RequestState]
    /\ session \in [EntryRequest -> SessionRow \cup {NoSession}]
    /\ guesses \in [Challenge -> Nat]

EntryInit ==
    /\ live \in EntryRelease
    /\ token = [t \in Token |-> "live"]
    /\ challenge = [c \in Challenge |-> NoChallenge]
    /\ entry = [r \in EntryRequest |-> NoRequest]
    /\ session = [r \in EntryRequest |-> NoSession]
    /\ guesses = [c \in Challenge |-> 0]

-----------------------------------------------------------------------------
(* prepare *)

\* What a link may open: an invitation where one is asked for, none where the
\* location is open, and a visit where its evidence will be asked for.
Admissible(t, release) ==
    IF t = NoToken
    THEN Mode[release] # "invite" /\ release \notin Verified
    ELSE /\ Mode[release] # "open-qr"
         /\ token[t] = "live"
         /\ release \in Verified => t \in Visited

\* prepare_entry_challenge_for_release, for the live release or for the one a
\* candidate asks for; a refusal writes nothing.
PrepareChallenge(c, t, release) ==
    /\ challenge[c].at = "absent"
    /\ Admissible(t, release)
    /\ challenge' = [challenge EXCEPT
         ![c] = [NoChallenge EXCEPT !.at = "live", !.token = t, !.release = release,
                                    !.verification = release \in Verified /\ t # NoToken]]
    /\ UNCHANGED <<live, token, entry, session, guesses>>

-----------------------------------------------------------------------------
(* The scope of a request, read outside its transaction *)

\* resolve_live_entry_challenge
Resolvable(c) == /\ challenge[c].at = "live"
                 /\ challenge[c].token # NoToken => token[challenge[c].token] = "live"

Answered(r, answer) ==
    entry' = [entry EXCEPT ![r].at = "done", ![r].reply = answer]

Resolve(r) ==
    /\ entry[r].at = "idle"
    /\ \E c \in Challenge, chosen \in Selection, right \in BOOLEAN,
          kind \in {"advance", "verify"} :
         /\ Resolvable(c)
         /\ kind = "advance" => ~right
         /\ kind = "verify" => /\ challenge[c].verification
                               /\ challenge[c].selection = chosen
         /\ entry' = [entry EXCEPT
              ![r] = [kind |-> kind, at |-> "resolved", challenge |-> c,
                      selection |-> chosen, evidence |-> right, reply |-> "none"]]
    /\ UNCHANGED <<live, token, challenge, session, guesses>>

\* The scope is not live, or verify has nothing to verify.
ResolvesNothing(r) ==
    /\ entry[r].at = "idle"
    /\ \/ \E c \in Challenge : ~Resolvable(c)
       \/ \E c \in Challenge : ~challenge[c].verification
                               \/ challenge[c].selection = NoSelection
    /\ Answered(r, "unavailable")
    /\ UNCHANGED <<live, token, challenge, session, guesses>>

\* The snapshot is not the challenge's, or has no format for the action.
RefuseConfiguration(r) ==
    /\ entry[r].at = "resolved"
    /\ Answered(r, "unavailable")
    /\ UNCHANGED <<live, token, challenge, session, guesses>>

-----------------------------------------------------------------------------
(* The transactions *)

\* Fault: a statement does not wait for the row.
UnlockedAlways(c) == c \in Challenge

Unlocked(c) == \A r \in EntryRequest :
    entry[r].at \in {"locked", "consumed"} => entry[r].challenge # c

\* advance where verification is due: the selection is provisional.
AdvancePending(r) ==
    LET c == entry[r].challenge IN
    /\ entry[r].at = "resolved"
    /\ entry[r].kind = "advance"
    /\ challenge[c].verification
    /\ Unlocked(c)
    /\ IF challenge[c].at = "live" /\ challenge[c].failures < MaxFailures
       THEN /\ challenge' = [challenge EXCEPT ![c].selection = entry[r].selection]
            /\ Answered(r, "verification-required")
       ELSE Answered(r, "unavailable") /\ UNCHANGED challenge
    /\ UNCHANGED <<live, token, session, guesses>>

\* advance where it is not: the challenge is consumed, not yet committed.
AdvanceConsume(r) ==
    LET c == entry[r].challenge IN
    /\ entry[r].at = "resolved"
    /\ entry[r].kind = "advance"
    /\ ~challenge[c].verification
    /\ Unlocked(c)
    /\ IF challenge[c].at = "live"
       THEN entry' = [entry EXCEPT ![r].at = "consumed"]
       ELSE Answered(r, "unavailable")
    /\ UNCHANGED <<live, token, challenge, session, guesses>>

\* verify: the challenge's row is locked and its failures are read.
VerifyLock(r) ==
    LET c == entry[r].challenge IN
    /\ entry[r].at = "resolved"
    /\ entry[r].kind = "verify"
    /\ Unlocked(c)
    /\ IF challenge[c].at # "live" \/ challenge[c].selection = NoSelection
       THEN Answered(r, "unavailable")
       ELSE IF challenge[c].failures >= MaxFailures
            THEN Answered(r, "verification-unavailable")
            ELSE entry' = [entry EXCEPT ![r].at = "locked"]
    /\ UNCHANGED <<live, token, challenge, session, guesses>>

\* The evidence is not the visit's: the failure is counted.
VerifyWrong(r) ==
    LET c == entry[r].challenge IN
    /\ entry[r].at = "locked"
    /\ ~entry[r].evidence
    /\ guesses' = [guesses EXCEPT ![c] = @ + 1]
    /\ IF challenge[c].at = "live" /\ challenge[c].failures < MaxFailures
       THEN /\ challenge' = [challenge EXCEPT ![c].failures = @ + 1]
            /\ Answered(r, "verification-unavailable")
       ELSE Answered(r, "unavailable") /\ UNCHANGED challenge
    /\ UNCHANGED <<live, token, session>>

\* The evidence is the visit's: the challenge is consumed, not yet committed.
VerifyRight(r) ==
    LET c == entry[r].challenge IN
    /\ entry[r].at = "locked"
    /\ entry[r].evidence
    /\ IF challenge[c].at = "live" /\ challenge[c].failures < MaxFailures
       THEN entry' = [entry EXCEPT ![r].at = "consumed"]
       ELSE Answered(r, "unavailable")
    /\ UNCHANGED <<live, token, challenge, session, guesses>>

\* Fault: the token was live when the scope was read.
ConsumableOnce(t) == t \in Token \cup {NoToken}

Consumable(t) == t # NoToken => token[t] = "live"

\* Fault: the session takes the configuration that is live now.
LiveRelease(c) == IF challenge[c].at = "live" THEN live ELSE challenge[c].release

PinnedRelease(c) == challenge[c].release

\* Fault: the session takes what the challenge keeps for a verification.
Provisional(r) == challenge[entry[r].challenge].selection

Chosen(r) == entry[r].selection

\* The token is consumed, the session and its browser binding are inserted,
\* and the transaction commits; without the token it is rolled back.
Admit(r) ==
    LET c == entry[r].challenge
        t == challenge[c].token
    IN /\ entry[r].at = "consumed"
       /\ IF Consumable(t)
          THEN /\ challenge' = [challenge EXCEPT ![c].at = "consumed"]
               /\ token' = [u \in Token |-> IF u = t THEN "consumed" ELSE token[u]]
               /\ session' = [session EXCEPT
                    ![r] = [challenge |-> c, token |-> t,
                            release |-> PinnedRelease(c), selection |-> Chosen(r)]]
               /\ Answered(r, "admitted")
          ELSE Answered(r, "unavailable") /\ UNCHANGED <<challenge, token, session>>
       /\ UNCHANGED <<live, guesses>>

-----------------------------------------------------------------------------
(* What happens around the requests *)

\* The function dies: its transaction is rolled back, its locks are free.
EntryCrash(r) ==
    /\ entry[r].at \in {"resolved", "locked", "consumed"}
    /\ Answered(r, "none")
    /\ UNCHANGED <<live, token, challenge, session, guesses>>

ExpireChallenge(c) ==
    /\ challenge[c].at = "live"
    /\ challenge' = [challenge EXCEPT ![c].at = "expired"]
    /\ UNCHANGED <<live, token, entry, session, guesses>>

ExpireToken(t) ==
    /\ token[t] = "live"
    /\ token' = [token EXCEPT ![t] = "expired"]
    /\ UNCHANGED <<live, challenge, entry, session, guesses>>

\* Another configuration goes live.
GoLive ==
    /\ \E release \in EntryRelease \ {live} : live' = release
    /\ UNCHANGED <<token, challenge, entry, session, guesses>>

EntryNext ==
    \/ \E c \in Challenge, t \in Token \cup {NoToken}, release \in {live, Candidate} :
         PrepareChallenge(c, t, release)
    \/ \E r \in EntryRequest :
         \/ Resolve(r)
         \/ ResolvesNothing(r)
         \/ RefuseConfiguration(r)
         \/ AdvancePending(r)
         \/ AdvanceConsume(r)
         \/ VerifyLock(r)
         \/ VerifyWrong(r)
         \/ VerifyRight(r)
         \/ Admit(r)
         \/ EntryCrash(r)
    \/ \E c \in Challenge : ExpireChallenge(c)
    \/ \E t \in Token : ExpireToken(t)
    \/ GoLive

EntrySpec == EntryInit /\ [][EntryNext]_entryVars

-----------------------------------------------------------------------------
(* Properties *)

Admitted == {r \in EntryRequest : session[r] # NoSession}

(* US-02.2: however many browsers open one invitation, and however often and *)
(* with whatever requests they start, one review session comes of it, and    *)
(* one of each challenge.                                                    *)
OneSessionPerInvitation ==
    \A r, s \in Admitted : r # s =>
        /\ session[r].challenge # session[s].challenge
        /\ session[r].token = session[s].token => session[r].token = NoToken

(* A challenge is closed after its fifth failed attempt, whatever attempts   *)
(* run at once and whatever is selected again between them.                  *)
GuessesBounded == \A c \in Challenge : guesses[c] <= MaxFailures

(* A session is opened under the configuration its challenge was prepared    *)
(* with, and earned under that one: an invitation where it asks for one, the *)
(* visit's evidence where it asks for that, however often another one goes   *)
(* live in between.                                                          *)
EntryHonoursRelease == \A r \in Admitted :
    LET s == session[r] IN
    /\ s.release = challenge[s.challenge].release
    /\ Mode[s.release] = "invite" => s.token # NoToken
    /\ Mode[s.release] = "open-qr" => s.token = NoToken
    /\ s.release \in Verified => entry[r].kind = "verify" /\ entry[r].evidence
==============================================================================
