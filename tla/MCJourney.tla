------------------------------ MODULE MCJourney ------------------------------
(***************************************************************************)
(* The reviewer's side, for TLC: the entry, the rate limit of a source, the   *)
(* progress of a session, its drafts and the screen that generates, the       *)
(* settings a session is given, the rows of its paid requests, and what       *)
(* becomes of its words.  They share no row that changes, so each is a scene  *)
(* of its own, which starts where its module says and leaves the state of the *)
(* others as it was.  The scenes name their actors with the same values, so   *)
(* that one symmetry serves all.                                              *)
(***************************************************************************)
EXTENDS EntryAdmission, SourceRateLimit, ReviewProgress, DraftRevisions,
        ReviewSessionMachine, EffectiveSettings, ExecutionFence,
        DraftAcceptance, TLC

CONSTANTS a1, a2,  \* requests, calls and generations
          legacy,  \* the call of an earlier runtime; another generation
          b1, b2,  \* challenges, pages and formats
          c1, c2,  \* stages of progress
          tk, chosen, rInvite, rOpen

VARIABLE scene

MCMode == [r \in {rInvite, rOpen} |-> IF r = rInvite THEN "invite" ELSE "both"]
\* A tenant with one location, which say otherwise of the disclosure; another to come.
MCLocale == [en |-> "en-GB", any |-> "any"]
MCFirstLayers == {[platform |-> [locale |-> "en-GB", entryMode |-> "invite",
                                 requireDisclosure |-> "yes"],
                   tenant |-> [requireDisclosure |-> "yes"],
                   bistro |-> [requireDisclosure |-> "no"], annexe |-> NothingHeld]}
MCFirstOwner == <<"tenant", "bistro">>
MCFounding == {NothingHeld, [entryMode |-> "open-qr"]}

\* Three options and four words, one of them banned and one said to a `you'.
MCWordSize == [clean |-> 2, kind |-> 1, you |-> 2, scam |-> 3]
MCProposition == <<"clean", "kind", "you">>
MCPolicy == [disclosure |-> FALSE, provenance |-> TRUE, minChars |-> 2, maxChars |-> 5,
             paragraphs |-> 1, emoji |-> FALSE, secondPerson |-> FALSE,
             commands |-> {"generate", "paraphrase"}]
MCDraftSetting == {MCPolicy,
                   [MCPolicy EXCEPT !.disclosure = TRUE, !.paragraphs = 2],
                   [MCPolicy EXCEPT !.disclosure = TRUE, !.provenance = FALSE],
                   [MCPolicy EXCEPT !.emoji = TRUE, !.secondPerson = TRUE, !.commands = {"generate"}]}

MCSymmetry == UNION {Permutations(s) : s \in {{a1, a2}, {b1, b2}}}

\* What a scene that is not played starts with, where its module leaves a choice.  A
\* session starts at c1 in every scene: that the stages differ is all that matters.
Fixed(at) ==
    /\ at # "entry" => live = rOpen
    /\ row.progress = c1
    /\ at # "screen" => screen.at = "facts" /\ screen.facts = 1
    /\ at # "words" => policy = MCPolicy

\* The rows of ExecutionFence, which shares the database's clock with SourceRateLimit.
fenceRows == <<lease, attempt, generation>>

JourneyInit ==
    /\ scene \in {"entry", "source", "progress", "drafts", "screen", "settings", "fence", "words"}
    /\ EntryInit
    /\ SourceInit
    /\ ProgressInit
    /\ DraftInit
    /\ MachineInit
    /\ SettingsInit
    /\ FenceInit
    /\ AcceptanceInit
    /\ Fixed(scene)

JourneyNext ==
    /\ UNCHANGED scene
    /\ \/ /\ scene = "entry"
          /\ UNCHANGED <<sourceVars, fenceRows, progressVars, draftVars,
                         machineVars, settingsVars, acceptanceVars>>
          /\ EntryNext
       \/ /\ scene = "source"
          /\ UNCHANGED <<entryVars, fenceRows, progressVars, draftVars,
                         machineVars, settingsVars, acceptanceVars>>
          /\ SourceNext
       \/ /\ scene = "progress"
          /\ UNCHANGED <<entryVars, sourceVars, fenceRows, draftVars,
                         machineVars, settingsVars, acceptanceVars>>
          /\ ProgressNext
       \/ /\ scene = "drafts"
          /\ UNCHANGED <<entryVars, sourceVars, fenceRows, progressVars,
                         machineVars, settingsVars, acceptanceVars>>
          /\ DraftNext
       \/ /\ scene = "screen"
          /\ UNCHANGED <<entryVars, sourceVars, fenceRows, progressVars,
                         draftVars, settingsVars, acceptanceVars>>
          /\ MachineNext
       \/ /\ scene = "settings"
          /\ UNCHANGED <<entryVars, sourceVars, fenceRows, progressVars,
                         draftVars, machineVars, acceptanceVars>>
          /\ SettingsNext
       \/ /\ scene = "fence"
          /\ UNCHANGED <<entryVars, call, event, progressVars, draftVars,
                         machineVars, settingsVars, acceptanceVars>>
          /\ FenceNext
       \/ /\ scene = "words"
          /\ UNCHANGED <<entryVars, sourceVars, fenceRows, progressVars,
                         draftVars, machineVars, settingsVars>>
          /\ AcceptanceNext

journeyVars == <<scene, entryVars, sourceVars, progressVars, draftVars, machineVars,
                 settingsVars, fenceVars, acceptanceVars>>

JourneySpec == JourneyInit /\ [][JourneyNext]_journeyVars
=============================================================================
