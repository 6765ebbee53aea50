-------------------------- MODULE EffectiveSettings --------------------------
(***************************************************************************)
(* What governs a location: settings in three layers, the tenant's and the   *)
(* location's fact options, its formats and actions.  Operators stage         *)
(* changes one by one; a publication applies them in order, or none of them,  *)
(* and writes a snapshot for each active location, which is all a reviewer    *)
(* ever sees.  The Console shows the rows by another route                    *)
(* (domain/console/inheritance.ts) than the one that makes the snapshot       *)
(* (domain/configuration/effective-config.ts).  The release set's lock makes  *)
(* a publication one step; ConfigurationPublication has the drafts' revisions *)
(* and the loss of answers.                                                   *)
(***************************************************************************)
EXTENDS Naturals, FiniteSets, Sequences, SequencesExt

CONSTANTS Branch,        \* the locations of one tenant
          FormatLocale,  \* the formats, and the locale of each
          OptionKey,     \* keys of fact options; the bound on their number
          FirstLayers,   \* bound: the settings a history begins with
          FirstOwner,    \* bound: the keys taken at first, and who owns them
          Founding,      \* bound: the overrides a location is created with
          MaxWork, MaxOptionVersion   \* bounds

VARIABLES layer,      \* platform_settings, tenants.configuration_values, locations.overrides
          catalogue,  \* fact_option_versions and the enablements
          standing,   \* locations.status, or that there is none yet
          edition,    \* published and config revisions
          staged,     \* configuration_drafts.changes
          effective   \* the newest effective_configuration_snapshots of a location

settingsVars == <<layer, catalogue, standing, edition, staged, effective>>

Values == [locale |-> {"en-GB", "de-DE"}, entryMode |-> {"invite", "open-qr"},
           requireDisclosure |-> {"yes", "no"}]
Field == DOMAIN Values
OverrideField == {"entryMode", "requireDisclosure"}
Layers == Branch \cup {"platform", "tenant"}
DraftScope == Branch \cup {"tenant"}
Formats == DOMAIN FormatLocale
Enablements == {"off", "generate"}
OptionRow == [key : OptionKey, version : 1..MaxOptionVersion, owner : DraftScope,
              active : BOOLEAN, order : Nat, live : BOOLEAN]
NoSnapshotYet == [edition |-> <<>>]
\* The settings a layer holds: the keys it has, and no others.
ProperlyHeld(held) == \A f \in DOMAIN held : f \in Field /\ held[f] \in Values[f]
NothingHeld == [f \in {} |-> ""]

ASSUME SettingsAssumption ==
    /\ Branch \cap {"platform", "tenant"} = {}
    /\ \A first \in FirstLayers : /\ DOMAIN first = Layers
                                   /\ \A s \in Layers : ProperlyHeld(first[s])
                                   /\ DOMAIN first["platform"] = Field
    /\ DOMAIN FirstOwner \subseteq OptionKey /\ Range(FirstOwner) \subseteq DraftScope
    /\ \A first \in Founding : ProperlyHeld(first) /\ DOMAIN first \subseteq {"entryMode"}
    /\ {MaxWork, MaxOptionVersion} \subseteq Nat

\* What was published and is staged, which MaxWork bounds.
Work == MapThenSumSet(LAMBDA s : edition[s] - 1, Layers)
          + MapThenSumSet(LAMBDA s : Len(staged[s]), DraftScope)

SettingsTypeOK ==
    /\ DOMAIN layer = Layers /\ \A s \in Layers : ProperlyHeld(layer[s])
    /\ DOMAIN layer["platform"] = Field
    /\ catalogue.options \subseteq OptionRow
    /\ catalogue.format \in [Formats -> Enablements]
    /\ catalogue.action \in BOOLEAN
    /\ standing \in [Branch -> {"absent", "active", "inactive"}]
    /\ edition \in [Layers -> 1..MaxWork + 1]
    /\ Work <= MaxWork

FirstOption(k, owner) == [key |-> k, version |-> 1, owner |-> owner, active |-> TRUE,
                          order |-> 0, live |-> TRUE]

SettingsInit ==
    /\ layer \in FirstLayers
    /\ catalogue = [options |-> {FirstOption(k, FirstOwner[k]) : k \in DOMAIN FirstOwner},
                    format |-> [f \in Formats |-> "generate"],
                    action |-> TRUE]
    /\ standing = [l \in Branch |-> IF l \in Range(FirstOwner) THEN "active" ELSE "absent"]
    /\ edition = [s \in Layers |-> 1]
    /\ staged = [s \in DraftScope |-> <<>>]
    /\ effective = [l \in Branch |-> NoSnapshotYet]

-----------------------------------------------------------------------------
(* What the Console shows *)

\* loadTenant: the tenant's values over the platform's.
TenantSettings == [f \in Field |-> IF f \in DOMAIN layer["tenant"] THEN layer["tenant"][f]
                                   ELSE layer["platform"][f]]

\* resolveInheritedSettings, projectLocationSettings
Shown(l) == [f \in Field |->
    IF f \in OverrideField \cap DOMAIN layer[l]
    THEN [value |-> layer[l][f], source |-> "location"]
    ELSE [value |-> TenantSettings[f],
          source |-> IF f \in DOMAIN layer["tenant"] THEN "tenant" ELSE "platform"]]

\* readDistribution: how a printed code is said to admit.
DistributedEntry(l) == IF "entryMode" \in DOMAIN layer[l] THEN layer[l]["entryMode"]
                       ELSE TenantSettings["entryMode"]

\* liveFactOptions: of the rows that are not retired the latest version.
LiveOptions(options, l) ==
    LET rows == {o \in options : o.live /\ o.owner \in {"tenant", l}}
    IN {o \in rows : \A p \in rows : p.key = o.key => p.version <= o.version}

-----------------------------------------------------------------------------
(* Staging *)

UsedKeys(cat) == {o.key : o \in cat.options}
IdOf(o) == <<o.key, o.version>>
\* The options a page of a scope lists.
Listed(s) == {o \in catalogue.options : o.live /\ o.owner \in {"tenant", s}}

\* Changes that give one of these fields a value it may have.
ValueChanges(op, fields) ==
    {c \in [op : {op}, field : fields, value : UNION {Values[f] : f \in fields}] :
        c.value \in Values[c.field]}

\* KeywordsView: another option, and what may be done with those that are listed.
NewOptions == [op : {"create"}, mutation : OptionKey \ UsedKeys(catalogue)]
OptionChanges(ids) == [op : {"update"}, id : ids, active : BOOLEAN]
                      \cup [op : {"delete"}, id : ids]
                      \cup [op : {"reorder"}, ids : SetToSeqs(ids)]

\* TenantSettingsView, StylesView and ActionsView, of the tenant only.
SettingChanges == ValueChanges("setting", Field)
FormatChanges == [op : {"format"}, style : Formats, to : Enablements]
ActionChanges == [op : {"action"}, enabled : BOOLEAN]

\* LocationSettingsView: an override, or none again.
OverrideChanges == ValueChanges("override", OverrideField) \cup [op : {"reset"}, field : OverrideField]

\* Whatever page an operator has open, a change must belong to the scope of its draft:
\* changeBelongsToConfigurationScope.
Offers(s) == OptionChanges({IdOf(o) : o \in Listed(s)}) \cup NewOptions
             \cup IF s = "tenant" THEN SettingChanges \cup FormatChanges \cup ActionChanges
                  ELSE OverrideChanges

\* configurationChangeIdentity
IdentityOf(c) ==
    CASE c.op \in {"override", "reset"} -> [override |-> c.field]
      [] c.op = "setting" -> [setting |-> c.field]
      [] c.op = "create" -> [created |-> c.mutation]
      [] c.op \in {"update", "delete"} -> [option |-> c.id]
      [] c.op = "format" -> [format |-> c.style]
      [] OTHER -> [only |-> c.op]

\* A change takes the place of the one with its identity, or comes last.
Merged(changes, c) ==
    LET same == {i \in DOMAIN changes : IdentityOf(changes[i]) = IdentityOf(c)}
    IN IF same = {} THEN Append(changes, c)
       ELSE [i \in DOMAIN changes |-> IF i \in same THEN c ELSE changes[i]]

StageChange(s) ==
    /\ Work < MaxWork
    /\ s \in Branch => standing[s] # "absent"
    /\ \E c \in Offers(s) : staged' = [staged EXCEPT ![s] = Merged(@, c)]
    /\ UNCHANGED <<layer, catalogue, standing, edition, effective>>

Cancel(s) ==
    /\ staged[s] # <<>>
    /\ staged' = [staged EXCEPT ![s] = <<>>]
    /\ UNCHANGED <<layer, catalogue, standing, edition, effective>>

-----------------------------------------------------------------------------
(* applyStagedCatalogueChanges *)

\* The rows a draft of this scope may touch.
Owned(cat, s, ids) == {o \in cat.options : o.live /\ o.owner = s /\ IdOf(o) \in ids}

Orders(cat, s) == {o.order : o \in {p \in cat.options : p.owner = s}}
NextOrder(cat, s) == IF Orders(cat, s) = {} THEN 0 ELSE Max(Orders(cat, s)) + 1

Applies(cat, s, c) ==
    CASE c.op \in {"update", "delete"} -> Owned(cat, s, {c.id}) # {}
      [] c.op = "reorder" -> Cardinality(Owned(cat, s, ToSet(c.ids))) = Len(c.ids)
      [] c.op = "create" -> OptionKey \ UsedKeys(cat) # {}  \* the bound on keys
      [] OTHER -> TRUE

\* Fault: the new version carries on with the state of the one it replaces.
UpdateStaysActive(cat, c, o) == [cat EXCEPT !.options =
    (@ \ {o}) \cup {[o EXCEPT !.live = FALSE], [o EXCEPT !.version = @ + 1]}]

UpdateOption(cat, c, o) == [cat EXCEPT !.options =
    (@ \ {o}) \cup {[o EXCEPT !.live = FALSE],
                    [o EXCEPT !.version = @ + 1, !.active = c.active]}]

Reorder(cat, c, rows) == [cat EXCEPT !.options =
    (@ \ rows) \cup {[o EXCEPT !.order = (CHOOSE i \in DOMAIN c.ids : c.ids[i] = IdOf(o)) - 1]
                     : o \in rows}]

CreateOption(cat, s, c) == [cat EXCEPT !.options =
    @ \cup {[FirstOption(CHOOSE k \in OptionKey : k \notin UsedKeys(cat), s)
               EXCEPT !.order = NextOrder(cat, s)]}]

AfterChange(cat, s, c) ==
    CASE c.op = "update" -> UpdateOption(cat, c, CHOOSE o \in Owned(cat, s, {c.id}) : TRUE)
      [] c.op = "delete" -> [cat EXCEPT !.options =
            {IF IdOf(o) = c.id THEN [o EXCEPT !.live = FALSE, !.active = FALSE] ELSE o : o \in @}]
      [] c.op = "reorder" -> Reorder(cat, c, Owned(cat, s, ToSet(c.ids)))
      [] c.op = "create" -> CreateOption(cat, s, c)
      [] c.op = "format" -> [cat EXCEPT !.format[c.style] = c.to]
      [] c.op = "action" -> [cat EXCEPT !.action = c.enabled]
      [] OTHER -> cat

-----------------------------------------------------------------------------
(* publishConfiguration and materializePublishedConfiguration *)

Refused == [refused |-> TRUE]
Applied(s) == FoldLeft(LAMBDA cat, c : IF cat # Refused /\ Applies(cat, s, c)
                                       THEN AfterChange(cat, s, c) ELSE Refused,
                       catalogue, staged[s])

\* The layer of a scope after its staged settings, overrides and resets.
AfterSetting(held, c) ==
    CASE c.op \in {"setting", "override"} ->
             [f \in DOMAIN held \cup {c.field} |-> IF f = c.field THEN c.value ELSE held[f]]
      [] c.op = "reset" -> [f \in DOMAIN held \ {c.field} |-> held[f]]
      [] OTHER -> held
Published(s) == [layer EXCEPT ![s] = FoldLeft(AfterSetting, @, staged[s])]

\* Fault: a value that is not truthy counts as one that is not there.
ResolvedIfTruthy(held, l, f) ==
    LET Has(s) == f \in DOMAIN held[s] /\ held[s][f] # "no"
    IN CASE Has(l) -> [value |-> held[l][f], source |-> "location"]
      [] ~Has(l) /\ Has("tenant") -> [value |-> held["tenant"][f], source |-> "tenant"]
      [] OTHER -> [value |-> held["platform"][f], source |-> "platform"]

\* resolveField: the nearest layer that has the key.
Resolved(held, l, f) ==
    CASE f \in DOMAIN held[l] -> [value |-> held[l][f], source |-> "location"]
      [] f \notin DOMAIN held[l] /\ f \in DOMAIN held["tenant"] ->
             [value |-> held["tenant"][f], source |-> "tenant"]
      [] OTHER -> [value |-> held["platform"][f], source |-> "platform"]

Compatible(f, locale) == FormatLocale[f] \in {"any", locale}

\* resolveExecutableGenerationActions, of the only action that can run.
Executable(cat, locale) ==
    /\ cat.action
    /\ \E f \in Formats : cat.format[f] = "generate" /\ Compatible(f, locale)

\* resolveEffectiveConfig refuses an override it does not know.
Complete(held, cat, l) ==
    /\ Executable(cat, Resolved(held, l, "locale").value)
    /\ DOMAIN held[l] \subseteq OverrideField

\* buildConfigSnapshot
Snapshot(held, cat, editions, l) ==
    [edition |-> <<editions["platform"], editions["tenant"], editions[l]>>,
     setting |-> [f \in Field |-> Resolved(held, l, f)],
     option |-> {[id |-> IdOf(o), owner |-> o.owner, active |-> o.active, order |-> o.order]
                 : o \in LiveOptions(cat.options, l)},
     format |-> {f \in Formats : /\ cat.format[f] # "off"
                                  /\ Compatible(f, Resolved(held, l, "locale").value)}]

\* One snapshot for each active location of what was published, or nothing at all.
Materialize(s, held, cat) ==
    LET active == {l \in Branch : standing[l] = "active"}
        renewed == IF s \in Branch THEN {s} ELSE active
        editions == [edition EXCEPT ![s] = @ + 1]
    IN /\ renewed \subseteq active
       /\ \A l \in renewed : Complete(held, cat, l)
       /\ layer' = held
       /\ catalogue' = cat
       /\ edition' = editions
       /\ effective' = [l \in Branch |-> IF l \in renewed THEN Snapshot(held, cat, editions, l)
                                          ELSE effective[l]]
       /\ UNCHANGED standing

\* MaxOptionVersion has room for what the draft updates.
WithinBounds == \A o \in catalogue.options : o.live => o.version < MaxOptionVersion

Publish(s) ==
    /\ staged[s] # <<>>
    /\ WithinBounds
    /\ Applied(s) # Refused
    /\ Materialize(s, Published(s), Applied(s))
    /\ staged' = [staged EXCEPT ![s] = <<>>]

\* publishPlatformConfiguration
PublishDefault ==
    /\ Work < MaxWork
    /\ \E f \in Field : \E v \in Values[f] :
          Materialize("platform", [layer EXCEPT !["platform"][f] = v], catalogue)
    /\ UNCHANGED staged

\* createLocation, updateLocation
CreateLocation(l, chosen) ==
    /\ standing[l] = "absent"
    /\ standing' = [standing EXCEPT ![l] = "active"]
    /\ layer' = [layer EXCEPT ![l] = chosen]
    /\ UNCHANGED <<catalogue, edition, staged, effective>>

UpdateLocation(l, to) ==
    /\ standing[l] # "absent"
    /\ to # standing[l]
    /\ standing' = [standing EXCEPT ![l] = to]
    /\ UNCHANGED <<layer, catalogue, edition, staged, effective>>

SettingsNext ==
    \/ \E s \in DraftScope : StageChange(s) \/ Cancel(s) \/ Publish(s)
    \/ PublishDefault
    \/ \E l \in Branch :
         \/ \E chosen \in Founding : CreateLocation(l, chosen)
         \/ \E to \in {"active", "inactive"} : UpdateLocation(l, to)

SettingsSpec == SettingsInit /\ [][SettingsNext]_settingsVars

-----------------------------------------------------------------------------
(* What the reviewer's readers make of a snapshot *)

\* snapshotFactProjections takes all options of a snapshot or refuses it, for the entry
\* page and for a session; exactSnapshotFacts refuses it when a draft is prepared.
FactsRead(snapshot, l) == \A o \in snapshot.option : o.active /\ o.owner \in {"tenant", l}

\* snapshotFormatProjections: what is left of the formats when an action is required.
FormatsRead(snapshot) == {f \in snapshot.format : Compatible(f, snapshot.setting["locale"].value)}

\* The entry page and the session of a location are available.
Readable(l) == /\ FactsRead(effective[l], l)
               /\ FormatsRead(effective[l]) # {}

(* A publication that commits leaves every active location it renews open to    *)
(* reviewers: an invalid location aborts it instead, and a fact option that was  *)
(* deactivated is no longer offered.                                             *)
PublishedIsReadable ==
    \A l \in Branch : effective[l] # NoSnapshotYet => Readable(l)

-----------------------------------------------------------------------------
(* A snapshot that carries the revisions in force says what the Console     *)
(* shows: the same value of every setting from the same layer, the entry     *)
(* mode of the printed code, and the fact options of the location and its     *)
(* tenant as they are now.  Resolving, staging, resetting, versions and        *)
(* locations that come and go are written twice over, in inheritance.ts and    *)
(* in effective-config.ts and its callers.                                     *)
ShownIsPublished ==
    \A l \in Branch :
        effective[l].edition = <<edition["platform"], edition["tenant"], edition[l]>> =>
            /\ effective[l].setting = Shown(l)
            /\ effective[l].setting["entryMode"].value = DistributedEntry(l)
            /\ {o.id : o \in effective[l].option} = {IdOf(o) : o \in LiveOptions(catalogue.options, l)}
            /\ \A o \in effective[l].option : o.owner = "tenant" \/ o.owner = l

(* What is published is what was staged: when a publication commits, every    *)
(* change of the draft is in force, whatever the others did before or after   *)
(* it, and no option of another owner has changed                             *)
(* (applyStagedCatalogueChanges).                                             *)
InForce(s, c) ==
    CASE c.op \in {"setting", "override"} -> layer[s][c.field] = c.value
      [] c.op = "reset" -> c.field \notin DOMAIN layer[s]
      [] c.op = "update" -> \E o \in LiveOptions(catalogue.options, s) :
             o.key = c.id[1] /\ o.version = c.id[2] + 1 /\ o.active = c.active
      [] c.op = "delete" -> \A o \in LiveOptions(catalogue.options, s) : o.key # c.id[1]
      [] c.op = "format" -> catalogue.format[c.style] = c.to
      [] c.op = "action" -> catalogue.action = c.enabled
      [] OTHER -> TRUE
PublishedAsStaged ==
    [][\A s \in DraftScope : edition'[s] # edition[s] =>
          /\ \A c \in ToSet(staged[s]) : InForce(s, c)'
          /\ {o \in catalogue.options : o.owner # s} = {o \in catalogue'.options : o.owner # s}
      ]_settingsVars
=============================================================================
