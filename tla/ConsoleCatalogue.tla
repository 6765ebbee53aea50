--------------------------- MODULE ConsoleCatalogue ---------------------------
(***************************************************************************)
(* The Console's commands that take effect at once, without a draft: rows   *)
(* that are known by a slug (accounts, locations, categories), versions     *)
(* that are only ever added (context, prompts of one action, the platform's *)
(* review format), a location's details, an account's status and a review   *)
(* destination (packages/db: control-plane/console-store.ts; apps/context-  *)
(* service: console/console-service.ts; the Console's views).  A command    *)
(* reads in one transaction, or at its start, and writes later: the unique  *)
(* indexes decide what the reads could not.  An answer that is lost differs *)
(* from one that is heard only in that the page is not loaded again, and a  *)
(* page may be loaded again at any time.                                    *)
(***************************************************************************)
EXTENDS FiniteSetsExt, Integers

CONSTANTS Clerk,       \* operators with an open Console
          Slug, Home,  \* slugs; the account in whose scope they work
          Language,
          MaxCommands  \* bound on the commands that are sent

ASSUME CatalogueAssumption ==
    Home \in Slug /\ "any" \notin Language /\ MaxCommands \in Nat

VARIABLES listing,  \* tenants, locations, categories, destination bindings
          issue,    \* tenant_context_, prompt_ and review_format_versions
          shown,    \* the rows on each operator's pages
          request,  \* the command each operator waits for
          sent,     \* how many were sent
          told      \* the commands whose outcome an operator may rely on

catalogueVars == <<listing, issue, shown, request, sent, told>>

Wording == Language \cup {"any"}
Keyed == {"account", "location", "category"}
Numbered == {"context", "prompt", "style"}

Command(do, key, says, status, whole) ==
    [do |-> do, key |-> key, says |-> says, status |-> status, whole |-> whole]
NoCommand == Command("none", Home, "any", "active", TRUE)

NoRequest ==
    [at |-> "idle", id |-> 0, command |-> NoCommand, number |-> 0, fitting |-> FALSE]

Owner(kind) == IF kind = "account" THEN "platform" ELSE Home

Row(kind, of, command, formats) ==
    [kind |-> kind, of |-> of, key |-> command.key, says |-> command.says,
     status |-> command.status, whole |-> command.whole, formats |-> formats]

CatalogueInit ==
    /\ \E l \in Language :
         listing = {Row("account", "platform", Command("account", Home, l, "active", TRUE), {})}
    /\ issue = {}
    /\ shown = [c \in Clerk |-> listing]
    /\ request = [c \in Clerk |-> NoRequest]
    /\ sent = 0
    /\ told = {}

-----------------------------------------------------------------------------
(* Pages and forms *)

\* listLocations, listPlatformTenants: a location that is not active is not shown.
Displayed == {r \in listing : r.kind = "account" \/ (r.kind = "location" /\ r.status = "active")}

LoadPage(c) ==
    /\ shown' = [shown EXCEPT ![c] = Displayed]
    /\ UNCHANGED <<listing, issue, request, sent, told>>

\* The buttons of the list of accounts.
NextStatus(r) ==
    CASE r.status = "active" -> {"suspended", "deactivated"}
      [] r.status = "suspended" -> {"active", "deactivated"}
      [] OTHER -> {}

\* The editor saves what it showed with another name, a button turns it off.
Edits(r) == {Command("update", r.key, w, r.status, TRUE) : w \in Wording}
            \cup {Command("update", r.key, r.says, "inactive", TRUE)}

Turns(r) == {Command("status", r.key, r.says, s, TRUE) : s \in NextStatus(r)}

Creates == {Command(kind, k, l, "active", TRUE) : kind \in Keyed, k \in Slug, l \in Language}

\* Only a manifest may not be whole.
Publishes == {Command(kind, Home, w, "active", TRUE) : kind \in Numbered, w \in Wording}
             \cup {Command("style", Home, "any", "active", FALSE)}

Destinations == {Command("destination", Home, "any", s, ok) : s \in {"active", "inactive"},
                                                              ok \in BOOLEAN}

\* Commands that are refused, whatever they say: what they change is staged.
Staged == {Command("direct", Home, "any", "active", TRUE)}

Form(c) == Creates \cup Publishes \cup Destinations \cup Staged
           \cup UNION {Edits(r) : r \in {s \in shown[c] : s.kind = "location"}}
           \cup UNION {Turns(r) : r \in {s \in shown[c] : s.kind = "account"}}

-----------------------------------------------------------------------------
(* The service and the store *)

Suits(i, language) == i.kind = "style" /\ i.says \in {language, "any"}

Send(c, command) ==
    /\ request[c].at = "idle"
    /\ sent < MaxCommands
    /\ sent' = sent + 1
    /\ request' = [request EXCEPT ![c] =
         [at |-> "sent", id |-> sent', command |-> command, number |-> 0,
          fitting |-> \E i \in issue : Suits(i, command.says)]]
    /\ UNCHANGED <<listing, issue, shown, told>>

Found(kind, key) ==
    {r \in listing : r.kind = kind /\ r.of = Owner(kind) /\ r.key = key}

Taken(command) == command.do \in Keyed /\ Found(command.do, command.key) # {}

\* nextPublishedVersion
NextVersion(kind) == Max({0} \cup {i.number : i \in {j \in issue : j.kind = kind}}) + 1

\* validateReviewDestination: a reviewer is never sent to half an address.
Unreachable(command) == command.do = "destination" /\ command.status = "active" /\ ~command.whole

\* validateStyleManifest
Invalid(command) == command.do = "style" /\ ~command.whole

Refused(command) ==
    \/ command \in Staged
    \/ Unreachable(command)
    \/ Invalid(command)
    \/ command.do = "update" /\ Found("location", command.key) = {}

Reads(c, number) == request' = [request EXCEPT ![c].at = "read", ![c].number = number]

\* Whether its answer arrives or is lost, the operator waits no longer.
Ended(c) == request' = [request EXCEPT ![c] = NoRequest]

Look(c) ==
    LET r == request[c] IN
    /\ r.at = "sent"
    /\ CASE Taken(r.command) -> /\ Ended(c)
                                /\ told' = told \cup {[r EXCEPT !.at = "taken"]}
         [] ~Taken(r.command) /\ Refused(r.command) -> Ended(c) /\ UNCHANGED told
         [] OTHER -> /\ Reads(c, IF r.command.do \in Numbered
                                 THEN NextVersion(r.command.do) ELSE 0)
                     /\ UNCHANGED told
    /\ UNCHANGED <<listing, issue, shown, sent>>

\* createTenant: the newest version of the format that its language can use.
NewestFormat(language) ==
    LET fits == {i.number : i \in {j \in issue : Suits(j, language)}}
    IN IF fits = {} THEN {} ELSE {Max(fits)}

\* An account starts with a category of its own.
Inserted(command) ==
    IF command.do = "account"
    THEN {Row("account", "platform", command, NewestFormat(command.says)),
          Row("category", command.key, [command EXCEPT !.key = "service"], {})}
    ELSE {Row(command.do, Home, command, {})}

\* An update writes every field of the row that it names.
Updated(kind, command) ==
    {IF r \in Found(kind, command.key)
     THEN [r EXCEPT !.says = command.says, !.status = command.status] ELSE r : r \in listing}

Upserted(command) ==
    {r \in listing : r.kind # "destination"} \cup {Row("destination", Home, command, {})}

Written(command) ==
    CASE command.do \in Keyed -> listing \cup Inserted(command)
      [] command.do = "update" -> Updated("location", command)
      [] command.do = "status" -> Updated("account", command)
      [] command.do = "destination" -> Upserted(command)
      [] OTHER -> listing

Issued(r) == [kind |-> r.command.do, number |-> r.number, says |-> r.command.says]

\* The unique indexes: of the number, and for prompts of the text.
Duplicate(r) ==
    \/ Taken(r.command)
    \/ \E i \in issue : /\ i.kind = r.command.do
                        /\ \/ i.number = r.number
                           \/ i.kind = "prompt" /\ i.says = r.command.says

\* Fault: that nothing was inserted is taken for a repetition.
AnyDuplicate(r) == r.command.do = "prompt"

\* skipDuplicates, and the row that is there is compared.
SameDuplicate(r) == r.command.do = "prompt" /\ Issued(r) \in issue

Store(c) ==
    LET r == request[c]
        stored == ~Duplicate(r)
        accepted == stored \/ SameDuplicate(r) IN
    /\ r.at = "read"
    /\ Ended(c)
    /\ listing' = IF stored THEN Written(r.command) ELSE listing
    /\ issue' = IF stored /\ r.command.do \in Numbered THEN issue \cup {Issued(r)} ELSE issue
    /\ told' = IF accepted THEN told \cup {[r EXCEPT !.at = "accepted"]} ELSE told
    /\ UNCHANGED <<shown, sent>>

\* The request ends before it wrote anything.
Ends(c) ==
    /\ request[c].at # "idle"
    /\ Ended(c)
    /\ UNCHANGED <<listing, issue, shown, sent, told>>

CatalogueNext ==
    \E c \in Clerk :
        \/ LoadPage(c)
        \/ \E command \in Form(c) : Send(c, command)
        \/ Look(c)
        \/ Store(c)
        \/ Ends(c)

CatalogueSpec == CatalogueInit /\ [][CatalogueNext]_catalogueVars

-----------------------------------------------------------------------------
(* Properties *)

Accepted == {t \in told : t.at = "accepted"}

(* What operators are told is true and stays true, whoever else writes in     *)
(* between and however often a command is repeated: an accepted version is    *)
(* there under the number its author was given, and numbers have no gaps; a   *)
(* slug that is taken has its row, and only one of its creators is accepted;  *)
(* an account has a format if one served its language when it was asked for.  *)
AnswersStayTrue ==
    /\ \A t \in Accepted : t.command.do \in Numbered => Issued(t) \in issue
    /\ \A kind \in Numbered : LET numbers == {i.number : i \in {j \in issue : j.kind = kind}}
                              IN numbers = 1..Cardinality({j \in issue : j.kind = kind})
    /\ \A t \in told : t.command.do \in Keyed =>
         Cardinality({r \in listing : /\ r.kind = t.command.do /\ r.key = t.command.key
                                      /\ r.of = Owner(t.command.do)}) = 1
    /\ \A t, u \in Accepted : t.command.do \in Keyed /\ t.id # u.id =>
         <<t.command.do, t.command.key>> # <<u.command.do, u.command.key>>
    /\ \A t \in Accepted : t.command.do = "account" /\ t.fitting =>
         \E r \in listing : r.kind = "account" /\ r.key = t.command.key /\ r.formats # {}
=============================================================================
