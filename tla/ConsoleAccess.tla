---------------------------- MODULE ConsoleAccess ----------------------------
(***************************************************************************)
(* Who may do what in the Console, and for how long a decision lasts.  An    *)
(* account is bound to the identity that first signs in with its address     *)
(* (migration 25); Context decides on the grants it read a moment ago        *)
(* (domain/console/access.ts, scope.ts); the database decides again, in      *)
(* each of the transactions a page is put together from (console-store.ts),  *)
(* when a row is written or an execution read is minted (migration 21); and  *)
(* Generation, which knows no grants, serves whoever brings the receipt of   *)
(* either before it expires.  Grants end while this goes on.                 *)
(***************************************************************************)
EXTENDS DatabaseClock

CONSTANTS Reader,        \* the Console requests
          Account,       \* operators, named by their address
          Identity, NoIdentity,
          Venue,         \* tenants
          Site, SiteOf,  \* locations, and their tenant
          RoleCaps,      \* operator_role_definitions: a sequence, by role_key
          GrantSets,     \* bound: the grants that may be given
          Wishes,        \* bound: what is asked, of whom, by which identity
          ReadLife,      \* readReceiptTtlMs, receiptTtlMs: 30 s
          MintCap,       \* the longest a minted authorization may last: 60 s
          RequestLife    \* the timeout of the Context function

VARIABLES external,  \* operators.external_subject
          grant,     \* tenant_access_grants and platform_access_grants
          minted,    \* console_execution_read_authorizations
          asking,    \* the requests that are under way
          served     \* what was read, written or run, and when

accessVars == <<now, external, grant, minted, asking, served>>

\* The pages that begin with the tenant: settings and distribution stand for those that
\* are not found without their rows, catalogue for those that are empty, form is the bench's.
Headed == {"settings", "distribution", "catalogue", "form"}
Page == Headed \cup {"bootstrap", "prompts", "platform"}

Act == Page \cup {"overview", "analytics", "detail", "configure", "bench"}
Shape == [overview |-> "tenant-or-platform", analytics |-> "tenant-or-platform",
          detail |-> "tenant", configure |-> "tenant-or-location", bench |-> "tenant",
          bootstrap |-> "none", settings |-> "tenant", distribution |-> "location",
          catalogue |-> "tenant", form |-> "tenant", prompts |-> "tenant", platform |-> "platform"]

\* QUERY_POLICIES, COMMAND_POLICIES: what Context asks for besides console:read.
Needs == [a \in Act |-> CASE a \in {"analytics", "detail"} -> {"analytics:read"}
                         [] a = "configure" -> {"tenant:configure"}
                         [] a \in {"bench", "form", "prompts"} -> {"ai:operate"}
                         [] a = "platform" -> {"platform:admin"}
                         [] OTHER -> {}]

Grant == [account : Account, scope : Venue \cup {"platform"},
          role : DOMAIN RoleCaps, until : 0..(MaxTime + 1)]
Wish == [subject : Identity, address : Account, scope : {"platform"} \cup Venue \cup Site,
         act : Act]

ASSUME AccessAssumption ==
    /\ NoIdentity \notin Identity
    /\ SiteOf \in [Site -> Venue] /\ Site \cap (Venue \cup {"platform"}) = {}
    /\ \A g \in GrantSets : g \subseteq Grant
    /\ Wishes \subseteq Wish
    /\ {ReadLife, MintCap, RequestLife} \subseteq Nat

Idle == [at |-> "idle"]
Minted == [reader : Reader, account : Account, act : Act, raw : BOOLEAN,
           expires : 0..(MaxTime + Skew + ReadLife),
           scope : {"platform"} \cup Venue \cup Site]

AccessTypeOK ==
    /\ external \in [Account -> Identity \cup {NoIdentity}]
    /\ grant \subseteq Grant
    /\ minted \subseteq Minted
    /\ \A r \in Reader : asking[r].at \in
         {"idle", "unbound", "binding", "resolved", "authorized", "showing", "signed",
          "done", "refused", "failed"}
    /\ served \subseteq [reader : Reader, account : Account, act : Act, raw : BOOLEAN,
                         scope : {"platform"} \cup Venue \cup Site, at : 0..MaxTime]

AccessInit ==
    /\ ClockInit
    /\ external = [a \in Account |-> NoIdentity]
    /\ grant \in GrantSets
    /\ minted = {}
    /\ asking = [r \in Reader |-> Idle]
    /\ served = {}

-----------------------------------------------------------------------------
(* Grants, as the database and as Context read them *)

Active(a) == {g \in grant : g.account = a /\ now < g.until}
Caps(grants) == UNION {RoleCaps[g.role] : g \in grants}
OfPlatform(grants) == {g \in grants : g.scope = "platform"}
OfVenue(grants, v) == {g \in grants : g.scope = v}

\* review_operator_has_platform_capability, grantedForPlatform
PlatformHeld(a, c) == c \in Caps(OfPlatform(Active(a)))

\* review_operator_has_tenant_capability, grantedForTenant
VenueHeld(a, v, c) == c \in Caps(OfPlatform(Active(a)) \cup OfVenue(Active(a), v))

\* holdsCapability: of a tenant's grants only the first counts, by role_key.
FirstOf(grants) == {g \in grants : \A h \in grants : g.role <= h.role}
Holds(access, v, needed) ==
    needed \subseteq Caps(OfPlatform(access)) \cup
                     (Caps(FirstOf(OfVenue(access, v))) \ {"platform:admin"})

VenueOf(scope) == IF scope \in Site THEN SiteOf[scope] ELSE scope
IsAdmin(access) == "platform:admin" \in Caps(OfPlatform(access))

\* authorizeConsoleScope, and the shape of the view or command.
Authorized(access, w) ==
    \/ Shape[w.act] = "none"
    \/ /\ "console:read" \in Caps(access)
       /\ IF w.scope = "platform"
          THEN /\ IsAdmin(access)
               /\ Needs[w.act] \subseteq Caps(OfPlatform(access))
               /\ Shape[w.act] \in {"platform", "tenant-or-platform"}
          ELSE /\ OfVenue(access, VenueOf(w.scope)) # {} \/ IsAdmin(access)
               /\ Holds(access, VenueOf(w.scope), Needs[w.act])
               /\ Shape[w.act] # "platform"
               /\ Shape[w.act] = "location" => w.scope \in Site

\* A venue selection narrows what has a narrower form.
Selected(w) == IF Shape[w.act] = "tenant" /\ w.act # "bench" THEN VenueOf(w.scope)
               ELSE w.scope

-----------------------------------------------------------------------------
(* resolveAccess: one transaction *)

Bound(s) == {a \in Account : external[a] = s}

Step(r, f) == asking' = [asking EXCEPT ![r] = f]
Ended(r, how) == Step(r, [asking[r] EXCEPT !.at = how])

\* The grants are read; whoever may not read the Console is nobody.
Enter(r, w, a, began) ==
    Step(r, [at |-> IF "console:read" \in Caps(Active(a)) THEN "resolved" ELSE "refused",
             wish |-> w, account |-> a, access |-> Active(a), began |-> began,
             expires |-> 0])

\* console_resolve_operator_identity: the first look.
LookUp(r, w) ==
    /\ asking[r].at = "idle"
    /\ \/ \E a \in Bound(w.subject) : Enter(r, w, a, now)
       \/ /\ Bound(w.subject) = {}
          /\ Step(r, [at |-> "unbound", wish |-> w, began |-> now])
    /\ UNCHANGED <<now, external, grant, minted, served>>

Binding(r, s) == asking[s].at = "binding" /\ s # r /\
                 \/ asking[s].wish.address = asking[r].wish.address
                 \/ asking[s].wish.subject = asking[r].wish.subject

\* Fault: who comes second is told nothing.
RefuseSecond(r) == Ended(r, "refused")

\* The account was bound while this request waited: perhaps to this very identity.
SecondLook(r) ==
    LET w == asking[r].wish IN
    IF Bound(w.subject) # {} THEN \E a \in Bound(w.subject) : Enter(r, w, a, asking[r].began)
    ELSE Ended(r, "refused")

\* The update waits for who is binding the account, or the identity.
Bind(r) ==
    /\ asking[r].at = "unbound"
    /\ \A s \in Reader : ~Binding(r, s)
    /\ LET w == asking[r].wish IN
       \/ /\ external[w.address] = NoIdentity /\ Bound(w.subject) = {}
          /\ Ended(r, "binding")
       \/ /\ external[w.address] = NoIdentity /\ Bound(w.subject) # {}
          /\ Ended(r, "failed")
       \/ external[w.address] # NoIdentity /\ SecondLook(r)
    /\ UNCHANGED <<now, external, grant, minted, served>>

CommitBinding(r) ==
    /\ asking[r].at = "binding"
    /\ LET w == asking[r].wish IN
       /\ external' = [external EXCEPT ![w.address] = w.subject]
       /\ Enter(r, w, w.address, asking[r].began)
    /\ UNCHANGED <<now, grant, minted, served>>

-----------------------------------------------------------------------------
(* createConsoleService *)

\* resolveConsoleScope: the grants as they were, the tenant as the database shows it.
DecideAccess(r) ==
    /\ asking[r].at = "resolved"
    /\ LET q == asking[r] IN
       IF /\ Authorized(q.access, q.wish)
          /\ Shape[q.wish.act] # "none" /\ q.wish.scope # "platform" =>
               VenueHeld(q.account, VenueOf(q.wish.scope), "console:read")
          /\ q.wish.act = "bench" => q.wish.scope \in Site
       THEN Ended(r, "authorized")
       ELSE Ended(r, "refused")
    /\ UNCHANGED <<now, external, grant, minted, served>>

Entry(r, scope, raw) ==
    [reader |-> r, account |-> asking[r].account, act |-> asking[r].wish.act,
     scope |-> scope, raw |-> raw, at |-> now]
Log(r, raw) == served' = served \cup {Entry(r, Selected(asking[r].wish), raw)}

\* A command writes under the policies of its rows.
Write(r) ==
    /\ asking[r].at = "authorized" /\ asking[r].wish.act = "configure"
    /\ IF VenueHeld(asking[r].account, VenueOf(asking[r].wish.scope), "tenant:configure")
       THEN Ended(r, "done") /\ Log(r, FALSE)
       ELSE Ended(r, "failed") /\ UNCHANGED served
    /\ UNCHANGED <<now, external, grant, minted>>

\* bootstrap: an administrator's tenants are read now, anyone else's were with the grants.
ShowBootstrap(r) ==
    /\ asking[r].at = "authorized" /\ asking[r].wish.act = "bootstrap"
    /\ Ended(r, "done")
    /\ LET q == asking[r] IN
       served' = served \cup
         {Entry(r, v, FALSE) :
            v \in IF ~IsAdmin(q.access) THEN {g.scope : g \in q.access} \ {"platform"}
                  ELSE IF PlatformHeld(q.account, "platform:admin") THEN {"platform"} ELSE {}}
    /\ UNCHANGED <<now, external, grant, minted>>

\* requireTenant, requireLocation: whoever may not see the tenant finds nothing.
ReadHeader(r) ==
    /\ asking[r].at = "authorized" /\ asking[r].wish.act \in Headed
    /\ IF VenueHeld(asking[r].account, VenueOf(asking[r].wish.scope), "console:read")
       THEN Ended(r, "showing") /\ Log(r, FALSE)
       ELSE Ended(r, "refused") /\ UNCHANGED served
    /\ UNCHANGED <<now, external, grant, minted>>

\* The rows are read by another transaction: denied, a list is empty, or nothing is found.
ReadRows(r) ==
    /\ asking[r].at = "showing" /\ asking[r].wish.act # "form"
    /\ IF VenueHeld(asking[r].account, VenueOf(asking[r].wish.scope), "console:read")
       THEN Ended(r, "done") /\ Log(r, FALSE)
       ELSE /\ \/ Ended(r, "refused")
               \/ asking[r].wish.act = "catalogue" /\ Ended(r, "done")
            /\ UNCHANGED served
    /\ UNCHANGED <<now, external, grant, minted>>

\* bench-form: without one complete published configuration there is nothing to run.
ReadForm(r) ==
    /\ asking[r].at = "showing" /\ asking[r].wish.act = "form"
    /\ \/ /\ VenueHeld(asking[r].account, VenueOf(asking[r].wish.scope), "console:read")
          /\ Ended(r, "done") /\ Log(r, FALSE)
       \/ Ended(r, "refused") /\ UNCHANGED served
    /\ UNCHANGED <<now, external, grant, minted>>

\* prompts, prompt-comparison, experiments: the rows are only for who operates the AI.
ReadPrompts(r) ==
    /\ asking[r].at = "authorized" /\ asking[r].wish.act = "prompts"
    /\ IF VenueHeld(asking[r].account, VenueOf(asking[r].wish.scope), "ai:operate")
       THEN Ended(r, "done") /\ Log(r, FALSE)
       ELSE (\E how \in {"done", "refused"} : Ended(r, how)) /\ UNCHANGED served
    /\ UNCHANGED <<now, external, grant, minted>>

\* The platform's lists are empty without the grant, its settings and providers an error.
ReadPlatform(r) ==
    /\ asking[r].at = "authorized" /\ asking[r].wish.act = "platform"
    /\ IF PlatformHeld(asking[r].account, "platform:admin")
       THEN Ended(r, "done") /\ Log(r, FALSE)
       ELSE (\E how \in {"done", "failed"} : Ended(r, how)) /\ UNCHANGED served
    /\ UNCHANGED <<now, external, grant, minted>>

ReadNeeds(act) == IF act = "overview" THEN "console:read" ELSE "analytics:read"

\* Fault: the raw content is shown to who might see it when the request began.
RawAsResolved(r) == /\ asking[r].wish.act = "detail"
                    /\ "audit:read-raw" \in Caps(asking[r].access)

RawMinted(r) == /\ asking[r].wish.act = "detail"
                /\ VenueHeld(asking[r].account, Selected(asking[r].wish), "audit:read-raw")

\* console_execution_mint_authorization: the grants as they are.
Mintable(a, w) ==
    IF Selected(w) = "platform"
    THEN PlatformHeld(a, "platform:admin") /\ PlatformHeld(a, ReadNeeds(w.act))
    ELSE VenueHeld(a, VenueOf(w.scope), ReadNeeds(w.act))

Mint(r) ==
    /\ asking[r].at = "authorized" /\ asking[r].wish.act \in {"overview", "analytics", "detail"}
    /\ \E t \in AppClock :
         LET q == asking[r]
             expires == t + ReadLife IN
         IF expires <= now \/ expires > now + MintCap
         THEN Ended(r, "failed") /\ UNCHANGED minted
         ELSE IF ~Mintable(q.account, q.wish)
         THEN Ended(r, "refused") /\ UNCHANGED minted
         ELSE /\ minted' = {m \in minted : now < m.expires} \cup
                   {[reader |-> r, account |-> q.account, act |-> q.wish.act,
                     scope |-> Selected(q.wish), raw |-> RawMinted(r), expires |-> expires]}
              /\ Ended(r, "signed")
    /\ UNCHANGED <<now, external, grant, served>>

\* The bench's receipt is signed on what Context decided.
SignBench(r) ==
    /\ asking[r].at = "authorized" /\ asking[r].wish.act = "bench"
    /\ \E t \in AppClock :
         Step(r, [asking[r] EXCEPT !.at = "signed", !.expires = t + ReadLife])
    /\ UNCHANGED <<now, external, grant, minted, served>>

-----------------------------------------------------------------------------
(* The Generation function *)

\* The receipt is verified by a Lambda's clock, the authorization by the database's.
Verified(expires) == \E t \in AppClock : t < expires

Execute(r) ==
    /\ asking[r].at = "signed" /\ asking[r].wish.act # "bench"
    /\ LET live == {m \in minted : m.reader = r /\ now < m.expires /\ Verified(m.expires)} IN
       IF live = {} THEN Ended(r, "refused") /\ UNCHANGED served
       ELSE \E m \in live : Ended(r, "done") /\ Log(r, m.raw)
    /\ UNCHANGED <<now, external, grant, minted>>

ExecuteBench(r) ==
    /\ asking[r].at = "signed" /\ asking[r].wish.act = "bench"
    /\ \/ Verified(asking[r].expires) /\ Ended(r, "done") /\ Log(r, FALSE)
       \/ asking[r].expires <= now + Skew /\ Ended(r, "refused") /\ UNCHANGED served
    /\ UNCHANGED <<now, external, grant, minted>>

Pending == {"unbound", "binding", "resolved", "authorized", "showing"}

\* An error, a timeout or a death: an open transaction is rolled back.
AbandonRequest(r) ==
    /\ asking[r].at \in Pending
    /\ Ended(r, "failed")
    /\ UNCHANGED <<now, external, grant, minted, served>>

AccessTick ==
    /\ \A r \in Reader : asking[r].at \in Pending => now < asking[r].began + RequestLife
    /\ Tick
    /\ UNCHANGED <<external, grant, minted, asking, served>>

AccessNext ==
    \/ \E r \in Reader :
         \/ \E w \in Wishes : LookUp(r, w)
         \/ Bind(r)
         \/ CommitBinding(r)
         \/ DecideAccess(r)
         \/ ShowBootstrap(r)
         \/ ReadHeader(r)
         \/ ReadRows(r)
         \/ ReadForm(r)
         \/ ReadPrompts(r)
         \/ ReadPlatform(r)
         \/ Write(r)
         \/ Mint(r)
         \/ SignBench(r)
         \/ Execute(r)
         \/ ExecuteBench(r)
         \/ AbandonRequest(r)
    \/ AccessTick

AccessSpec == AccessInit /\ [][AccessNext]_accessVars

-----------------------------------------------------------------------------
(* Properties *)

HeldAt(a, scope, c, t) == \E g \in grant :
    /\ g.account = a /\ t < g.until /\ c \in RoleCaps[g.role]
    /\ g.scope \in {"platform", scope}

HeldWithin(a, scope, c, t, life) ==
    \E m \in 0..t : t < m + life /\ HeldAt(a, scope, c, m)

\* The operator had some grant for the tenant.
ListedWithin(a, v, t, life) ==
    \E m \in 0..t : t <= m + life /\ \E g \in grant :
        g.account = a /\ g.scope = v /\ m < g.until

(* Nothing is read, written or run for an operator whose grant for that      *)
(* tenant has ended longer ago than the receipt can last: not at all for     *)
(* a write or any part of a page, by the database's own limit for an         *)
(* execution read, and for reviewers' raw text by the grant to audit it,     *)
(* whatever Context had read before.  Only the first page, the list of the   *)
(* operator's own tenants, is as old as its request.                         *)
ServedWhileGranted == \A s \in served :
    LET v == VenueOf(s.scope) IN
    /\ s.act = "configure" => HeldAt(s.account, v, "tenant:configure", s.at)
    /\ s.act \in Headed => HeldAt(s.account, v, "console:read", s.at)
    /\ s.act = "prompts" => HeldAt(s.account, v, "ai:operate", s.at)
    /\ s.act = "platform" \/ (s.act = "bootstrap" /\ s.scope = "platform") =>
         HeldAt(s.account, "platform", "platform:admin", s.at)
    /\ s.act = "bootstrap" /\ s.scope # "platform" =>
         ListedWithin(s.account, v, s.at, RequestLife)
    /\ s.act \in {"overview", "analytics", "detail"} =>
         /\ HeldWithin(s.account, v, ReadNeeds(s.act), s.at, MintCap)
         /\ s.scope = "platform" =>
              HeldWithin(s.account, "platform", "platform:admin", s.at, MintCap)
         /\ s.raw => HeldWithin(s.account, v, "audit:read-raw", s.at, MintCap)
    /\ s.act = "bench" =>
         HeldWithin(s.account, v, "ai:operate", s.at, RequestLife + ReadLife + 2 * Skew)

(* An account is bound once, to one identity, and two requests of a first    *)
(* sign-in find the same account: neither is refused because of the other.   *)
AccountsBoundOnce ==
    [][/\ \A a \in Account : external[a] # NoIdentity => external'[a] = external[a]
       /\ \A r \in Reader :
            /\ asking[r].at # "resolved" /\ asking'[r].at = "resolved" =>
                 external'[asking'[r].account] = asking'[r].wish.subject
            /\ asking[r].at = "unbound" /\ asking'[r].at = "refused" =>
                 \A a \in Bound(asking[r].wish.subject) :
                   "console:read" \notin Caps(Active(a))]_accessVars
=============================================================================
