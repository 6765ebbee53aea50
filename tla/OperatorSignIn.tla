---------------------------- MODULE OperatorSignIn ----------------------------
(***************************************************************************)
(* An operator's sign-in, session and sign-out (cognito-operator-auth.ts,    *)
(* the auth routes of the BFF, console-routes.ts).  The BFF keeps no session: *)
(* it is sealed in a cookie, with the provider's refresh token and two ends,  *)
(* its own and that of the identity the provider gave.  A browser's tabs      *)
(* share its cookies; a request carries those of its start, and its answer    *)
(* may set them at any later time, or be lost.  The provider (Amazon Cognito) *)
(* is external: what it grants, refreshes and revokes.  It is configured without *)
(* rotation (main.tf), so a refresh token lasts until it is revoked.             *)
(***************************************************************************)
EXTENDS Naturals, FiniteSets

CONSTANTS Person,          \* identities of the provider
          SignIn,          \* sign-ins, in the order they begin; a bound
          Fetch,           \* the browser's requests
          SessionTTL,      \* SESSION_TTL_SECONDS
          RefreshAhead,    \* REFRESH_AHEAD_SECONDS
          TransactionTTL,  \* 600 s
          IdTTL,           \* the provider's ID tokens
          LastTick         \* bound of the clock

ASSUME SignInAssumption ==
    /\ {SessionTTL, RefreshAhead, TransactionTTL, LastTick} \subseteq Nat
    /\ IdTTL \in Nat \ {0}
    /\ SignIn \subseteq Nat

VARIABLES tick,     \* the clock, in the unit of the TTLs
          jar,      \* the cookies __Host-operator_session and __Host-operator_oidc
          consent,  \* at the provider: what became of a sign-in
          fetch     \* the requests and where they are

signInVars == <<tick, jar, consent, fetch>>

\* A session is [subject, signIn, idEnds, ends], a begun sign-in [state, ends].
NoCookie == [ends |-> 0]
NotBegun == [at |-> "unused"]

SignInInit ==
    /\ tick = 0
    /\ jar = [session |-> NoCookie, oidc |-> NoCookie]
    /\ consent = [s \in SignIn |-> NotBegun]
    /\ fetch = [f \in Fetch |-> NotBegun]

Pass == tick < LastTick /\ tick' = tick + 1 /\ UNCHANGED <<jar, consent, fetch>>

\* jwtDecrypt with currentDate.
Unsealed(cookie, date) == cookie # NoCookie /\ cookie.ends > date

-----------------------------------------------------------------------------
(* The provider *)

\* An ID token and a refresh token for a code, which is good once.
Granted(s) == consent[s].at = "granted"
Refreshable(s) == Granted(s) /\ consent[s].revoked = LastTick + 1

\* The operator signs in at the provider, which sends the browser to /auth/callback.
Consent(s, o) ==
    /\ consent[s].at = "asked"
    /\ consent' = [consent EXCEPT ![s] = [at |-> "code", subject |-> o]]
    /\ UNCHANGED <<tick, jar, fetch>>

-----------------------------------------------------------------------------
(* /auth/login and /auth/callback *)

\* begin, and its answer: a second tab that signs in takes the first one's cookie.
Login(s) ==
    /\ consent[s] = NotBegun
    /\ \A earlier \in SignIn : earlier < s => consent[earlier] # NotBegun
    /\ consent' = [consent EXCEPT ![s] = [at |-> "asked"]]
    /\ jar' = [jar EXCEPT !.oidc = [state |-> s, ends |-> tick + TransactionTTL]]
    /\ UNCHANGED <<tick, fetch>>

\* Without its cookie a callback is answered 400 and clears nothing.
CallBack(f, s) ==
    /\ fetch[f] = NotBegun
    /\ consent[s].at = "code"
    /\ jar.oidc # NoCookie
    /\ fetch' = [fetch EXCEPT ![f] = [at |-> "callback", state |-> s, cookie |-> jar.oidc]]
    /\ UNCHANGED <<tick, jar, consent>>

\* complete: the transaction is the one that was begun, and lives.
Completes(f) ==
    /\ Unsealed(fetch[f].cookie, tick)
    /\ fetch[f].cookie.state = fetch[f].state
    /\ consent[fetch[f].state].at = "code"

\* The provider's token endpoint may answer not at all, whatever it did.
CompleteSignIn(f) ==
    /\ fetch[f].at = "callback"
    /\ LET s == fetch[f].state
       IN \/ /\ Completes(f)
             /\ consent' = [consent EXCEPT ![s] = [at |-> "granted", subject |-> @.subject,
                                                   since |-> tick, revoked |-> LastTick + 1]]
             /\ fetch' = [fetch EXCEPT ![f] = [at |-> "answered", status |-> "signed in",
                   set |-> [oidc |-> NoCookie,
                            session |-> [subject |-> consent[s].subject, signIn |-> s,
                                         idEnds |-> tick + IdTTL, ends |-> tick + SessionTTL]]]]
          \/ /\ consent' \in {consent} \cup
                  (IF Completes(f)
                   THEN {[consent EXCEPT ![s] = [at |-> "granted", subject |-> @.subject,
                                                 since |-> tick, revoked |-> LastTick + 1]]}
                   ELSE {})
             /\ fetch' = [fetch EXCEPT ![f] = [at |-> "answered", status |-> "failed",
                                               set |-> [oidc |-> NoCookie]]]
    /\ UNCHANGED <<tick, jar>>

-----------------------------------------------------------------------------
(* The Console's requests *)

\* Without a session cookie the answer is 401 at once.
Request(f) ==
    /\ fetch[f] = NotBegun
    /\ jar.session # NoCookie
    /\ fetch' = [fetch EXCEPT ![f] = [at |-> "asked", cookie |-> jar.session]]
    /\ UNCHANGED <<tick, jar, consent>>

Unauthenticated == [at |-> "answered", status |-> "unauthenticated", set |-> [none |-> NoCookie]]
\* The identity a request goes on with to Context and Generation (ConsoleAccess), at the
\* date its session was read: whatever comes of it, the answer carries the cookie.
Authenticated(cookie, date, set) ==
    [at |-> "answered", status |-> "identified", subject |-> cookie.subject, date |-> date,
     set |-> set]

\* readSession, up to the provider: currentDate is the time it starts.
ReadSession(f) ==
    /\ fetch[f].at = "asked"
    /\ LET cookie == fetch[f].cookie
       IN fetch' = [fetch EXCEPT ![f] =
            CASE ~Unsealed(cookie, tick) -> Unauthenticated
              [] Unsealed(cookie, tick) /\ cookie.idEnds > tick + RefreshAhead ->
                   Authenticated(cookie, tick, [none |-> NoCookie])
              [] OTHER -> [at |-> "refreshing", cookie |-> cookie, date |-> tick]]
    /\ UNCHANGED <<tick, jar, consent>>

\* Fault: a refreshed session lives as long as a new one.
RefreshedAnew(cookie, date) ==
    [cookie EXCEPT !.idEnds = tick + IdTTL, !.ends = date + SessionTTL]

Refreshed(cookie, date) == [cookie EXCEPT !.idEnds = tick + IdTTL]

\* The provider refuses a token it revoked; the identity then lasts as it did.
Refresh(f) ==
    /\ fetch[f].at = "refreshing"
    /\ LET cookie == fetch[f].cookie
           date == fetch[f].date
       IN fetch' = [fetch EXCEPT ![f] =
            CASE Refreshable(cookie.signIn) ->
                   Authenticated(cookie, date, [session |-> Refreshed(cookie, date)])
              [] ~Refreshable(cookie.signIn) /\ cookie.idEnds > date ->
                   Authenticated(cookie, date, [none |-> NoCookie])
              [] OTHER -> Unauthenticated]
    /\ UNCHANGED <<tick, jar, consent>>

\* The provider is not reached, or answers what is not valid.
RefreshFails(f) ==
    /\ fetch[f].at = "refreshing"
    /\ fetch' = [fetch EXCEPT ![f] = Unauthenticated]
    /\ UNCHANGED <<tick, jar, consent>>

-----------------------------------------------------------------------------
(* /auth/logout *)

Logout(f) ==
    /\ fetch[f] = NotBegun
    /\ fetch' = [fetch EXCEPT ![f] = [at |-> "leaving", cookie |-> jar.session]]
    /\ UNCHANGED <<tick, jar, consent>>

\* Sign-out of the browser is unconditional, the revocation best effort.
SignOff(f) ==
    /\ fetch[f].at = "leaving"
    /\ LET cookie == fetch[f].cookie
       IN consent' \in {consent} \cup
            (IF Unsealed(cookie, tick) /\ Refreshable(cookie.signIn)
             THEN {[consent EXCEPT ![cookie.signIn].revoked = tick]} ELSE {})
    /\ fetch' = [fetch EXCEPT ![f] = [at |-> "answered", status |-> "signed out",
                                      set |-> [session |-> NoCookie]]]
    /\ UNCHANGED <<tick, jar>>

-----------------------------------------------------------------------------
\* An answer reaches the browser, which sets the cookies it names, or is lost.
Arrive(f) ==
    /\ fetch[f].at = "answered"
    /\ \/ jar' = [c \in DOMAIN jar |-> IF c \in DOMAIN fetch[f].set THEN fetch[f].set[c] ELSE jar[c]]
       \/ jar' = jar
    /\ fetch' = [fetch EXCEPT ![f] = NotBegun]
    /\ UNCHANGED <<tick, consent>>

SignInNext ==
    \/ Pass
    \/ \E s \in SignIn : Login(s) \/ \E o \in Person : Consent(s, o)
    \/ \E f \in Fetch :
         \/ \E s \in SignIn : CallBack(f, s)
         \/ CompleteSignIn(f) \/ Request(f) \/ ReadSession(f) \/ Refresh(f) \/ RefreshFails(f)
         \/ Logout(f) \/ SignOff(f) \/ Arrive(f)

SignInSpec == SignInInit /\ [][SignInNext]_signInVars

-----------------------------------------------------------------------------
(* Whoever is identified signed in here less than a session ago, and if he signed *)
(* out and the provider was told, less than an ID token ago: whatever answer of an *)
(* earlier request, also one that was under way at the sign-out, sets the cookie   *)
(* again (EP-04: "Clearing only the local cookie is not a logout").                 *)
SignedInWhileGranted ==
    \A f \in Fetch : (fetch[f].at = "answered" /\ fetch[f].status = "identified") =>
        \E s \in SignIn : /\ Granted(s) /\ consent[s].subject = fetch[f].subject
                          /\ fetch[f].date < consent[s].since + SessionTTL
                          /\ fetch[f].date < consent[s].revoked + IdTTL
=============================================================================
