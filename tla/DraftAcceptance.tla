--------------------------- MODULE DraftAcceptance ---------------------------
(***************************************************************************)
(* What becomes of a reviewer's words: prepare makes assertions of what he   *)
(* selected and wrote (packages/db/src/admission), the provider answers with *)
(* claims about them, the attempt accepts or rejects the answer              *)
(* (paid-work-attempt.ts, grounding-guard.ts, policy-engine.ts), and the     *)
(* terminal store looks at it again before it keeps it.  A text is what it   *)
(* says, its letters and digits in lower case, and its marks: normalisation  *)
(* compares what it says and drops the marks.                                *)
(***************************************************************************)
EXTENDS Naturals, FiniteSets, Sequences, SequencesExt

CONSTANTS Words,            \* what a text may say
          WordSize,             \* the length of each
          Option,           \* the fact options of the snapshot
          Proposition,      \* what each says
          Banned, Addresses,  \* words with a banned term; that speak to a `you'
          DraftSetting,     \* policies and formats, see DraftSettings
          MinSelections, MaxAssertion, MinSource, MaxPrompt, NoticeSize,
          MaxClaims         \* bound on the claims of an answer

Marks == {"emoji", "break"}
DraftSettings == [disclosure : BOOLEAN, provenance : BOOLEAN, minChars : Nat, maxChars : Nat,
                  paragraphs : Nat, emoji : BOOLEAN, secondPerson : BOOLEAN,
                  commands : SUBSET {"generate", "paraphrase"}]

ASSUME AcceptanceAssumption ==
    /\ WordSize \in [Words -> Nat \ {0}]
    /\ Proposition \in [Option -> Words]
    /\ Banned \subseteq Words /\ Addresses \subseteq Words
    /\ DraftSetting \subseteq DraftSettings
    /\ {MinSelections, MaxAssertion, MinSource, MaxPrompt, NoticeSize, MaxClaims} \subseteq Nat

VARIABLES policy,    \* the settings and the format of the session's snapshot
          workload,  \* generation_batches.normalized_input
          returned,  \* PaidWorkAttemptResult
          kept       \* the checkpoint: a draft with its claims, or a rejection

acceptanceVars == <<policy, workload, returned, kept>>

Nothing == [status |-> "none"]
Refusal(code) == [status |-> "rejected", code |-> code]

AcceptanceInit ==
    /\ policy \in DraftSetting
    /\ workload = Nothing
    /\ returned = Nothing
    /\ kept = Nothing

-----------------------------------------------------------------------------
(* prepare *)

NoWords == "none"  \* no text of the reviewer's own

\* normalizedAdmissionCommand
WellFormed(kind, options, words) ==
    CASE kind = "generate" -> /\ IsInjective(options)
                              /\ options # <<>> \/ words # NoWords
      [] kind = "paraphrase" -> words # NoWords /\ WordSize[words] >= MinSource
      [] OTHER -> FALSE

\* minimumFactSelections, maximumCustomerAssertionChars; a paraphrase has neither.
Enough(kind, options, words) ==
    kind = "generate" => IF words = NoWords THEN Len(options) >= MinSelections
                         ELSE WordSize[words] <= MaxAssertion

\* exactSnapshotFacts and the reviewer's text: an assertion is named by its place.
AssertionsOf(kind, options, words) ==
    (IF kind = "generate" THEN [i \in DOMAIN options |-> Proposition[options[i]]] ELSE <<>>)
       \o (IF words = NoWords THEN <<>> ELSE <<words>>)

TotalSize(texts) == FoldLeft(LAMBDA n, w : n + WordSize[w], 0, texts)

AdmitWords(kind, options, words) ==
    /\ workload = Nothing
    /\ WellFormed(kind, options, words)
    /\ Enough(kind, options, words)
    /\ kind \in policy.commands
    /\ TotalSize(AssertionsOf(kind, options, words)) <= MaxPrompt  \* promptInputByteUpperBound
    /\ workload' = [status |-> "admitted", kind |-> kind,
                    assertion |-> AssertionsOf(kind, options, words)]
    /\ UNCHANGED <<policy, returned, kept>>

-----------------------------------------------------------------------------
(* The attempt *)

ClaimText == [says : Words, marks : SUBSET Marks]
\* A claim of the provider: a name, or none, and the assertions it cites.
ProviderClaim == [name : {"c", "none"}, text : ClaimText,
                  cites : {<<>>} \cup {<<i>> : i \in 1..MaxClaims} \cup {<<1, 2>>}]
Outputs == UNION {[1..n -> ProviderClaim] : n \in 0..MaxClaims}

\* candidateFromProviderOutput throws unless every claim repeats the one assertion it cites.
ClaimsRepeat(output) ==
    \A c \in Range(output) :
        /\ Len(c.cites) = 1 /\ c.cites[1] \in DOMAIN workload.assertion
        /\ c.text.says = workload.assertion[c.cites[1]]

\* Fault: claims without a name share one.
CandidateNameless(output) == [i \in DOMAIN output |->
    [id |-> <<output[i].name>>, text |-> output[i].text, grounding |-> output[i].cites]]

CandidateOf(output) == [i \in DOMAIN output |->
    [id |-> IF output[i].name = "none" THEN <<"provider-claim", i>> ELSE <<output[i].name>>,
     text |-> output[i].text, grounding |-> output[i].cites]]

\* validateCoverage: some claim, each with a name of its own; every segment is a claim.
Covered(claims) == claims # <<>> /\ IsInjective([i \in DOMAIN claims |-> claims[i].id])

\* validateEvidence: only the request's assertions are allowed.
Evident(claims) == \A c \in Range(claims) : /\ c.grounding # <<>>
                                            /\ Range(c.grounding) \subseteq DOMAIN workload.assertion

\* validatePostcondition: a paraphrase leaves nothing out.
Postcondition(claims) ==
    workload.kind = "paraphrase" =>
        \A a \in DOMAIN workload.assertion : \E c \in Range(claims) : a \in Range(c.grounding)

\* evaluateGrounding
Grounded(claims) == Covered(claims) /\ Evident(claims) /\ Postcondition(claims)

\* renderCandidate: the claims in their order.
BodyOf(claims) == [i \in DOMAIN claims |-> claims[i].text]

\* applyPolicy: the draft, its notice, and the terms it may not hold.
Noticed == policy.disclosure /\ policy.provenance
DraftOf(body) == [body |-> body, notice |-> Noticed]
\* Fault: a notice that cannot be attributed is left out.
PolicyPassedUnattributed(draft) == \A t \in Range(draft.body) : t.says \notin Banned

PolicyPassed(draft) == /\ policy.disclosure => policy.provenance
                       /\ \A t \in Range(draft.body) : t.says \notin Banned

Length(draft) == FoldLeft(LAMBDA n, t : n + (WordSize[t.says] + Cardinality(t.marks)),
                          IF draft.notice THEN NoticeSize ELSE 0, draft.body)

Paragraphs(draft) == 1 + Cardinality({i \in DOMAIN draft.body : "break" \in draft.body[i].marks})
                       + (IF draft.notice THEN 1 ELSE 0)

FormatPassed(draft) ==
    /\ policy.minChars <= Length(draft) /\ Length(draft) <= policy.maxChars
    /\ Paragraphs(draft) = policy.paragraphs
    /\ policy.emoji \/ \A t \in Range(draft.body) : "emoji" \notin t.marks
    /\ policy.secondPerson \/ \A t \in Range(draft.body) : t.says \notin Addresses

StillBound(claims) == \A c \in Range(claims) :
    /\ Len(c.grounding) = 1 /\ c.grounding[1] \in DOMAIN workload.assertion
    /\ c.text.says = workload.assertion[c.grounding[1]]

\* validatePaidWorkTerminalDraft: the code of the first check that fails, or that none does.
Validation(artifact) ==
    IF ~StillBound(artifact.claims) \/ ~Grounded(artifact.claims)
          \/ BodyOf(artifact.claims) # artifact.draft.body THEN "GROUNDING_REJECTED"
    ELSE IF ~PolicyPassed(artifact.draft) \/ artifact.draft # DraftOf(BodyOf(artifact.claims))
         THEN "POLICY_REJECTED"
    ELSE IF FormatPassed(artifact.draft) THEN "pass" ELSE "FORMAT_REJECTED"

\* What the attempt makes of an answer.
ResultOf(output) ==
    LET claims == CandidateOf(output)
        artifact == [status |-> "completed", claims |-> claims, draft |-> DraftOf(BodyOf(claims))]
    IN IF ~ClaimsRepeat(output) \/ ~Grounded(claims) THEN Refusal("GROUNDING_REJECTED")
       ELSE IF Validation(artifact) = "pass" THEN artifact ELSE Refusal(Validation(artifact))

Accept(output) ==
    /\ workload # Nothing
    /\ returned = Nothing
    /\ returned' = ResultOf(output)
    /\ UNCHANGED <<policy, workload, kept>>

\* The terminal store's checkpoint.
KeepResult ==
    /\ returned # Nothing
    /\ kept = Nothing
    /\ kept' = IF returned.status = "rejected" THEN returned
               ELSE IF Validation(returned) # "pass" THEN Refusal(Validation(returned))
               ELSE [status |-> "completed", draft |-> returned.draft,
                     claims |-> [i \in DOMAIN returned.claims |->
                         [says |-> returned.claims[i].text,
                          assertions |-> returned.claims[i].grounding]]]
    /\ UNCHANGED <<policy, workload, returned>>

AcceptanceNext ==
    \/ \E kind \in {"generate", "paraphrase", "condense"}, words \in Words \cup {NoWords},
          options \in {<<>>} \cup {<<o>> : o \in Option} \cup (Option \X Option) :
          AdmitWords(kind, options, words)
    \/ \E output \in Outputs : Accept(output)
    \/ KeepResult

AcceptanceSpec == AcceptanceInit /\ [][AcceptanceNext]_acceptanceVars

-----------------------------------------------------------------------------
(* What is kept as a draft says only what the reviewer confirmed for this       *)
(* request, all of it if he asked for a paraphrase; each of its texts is a claim *)
(* that names its assertion; the notice stands under it exactly when the policy  *)
(* asks for one; and the whole of it, the notice included, keeps to the policy   *)
(* and the format (domain.md G1, G2, G6, G9, A2, A3).                             *)
KeptIsConfirmed ==
    kept.status = "completed" =>
        LET body == kept.draft.body
            said == {t.says : t \in Range(body)}
        IN /\ said # {} /\ said \subseteq Range(workload.assertion) \ Banned
           /\ workload.kind = "paraphrase" => said = Range(workload.assertion)
           /\ DOMAIN kept.claims = DOMAIN body
           /\ \A i \in DOMAIN body : /\ kept.claims[i].says = body[i]
                                     /\ \E a \in DOMAIN workload.assertion :
                                          /\ kept.claims[i].assertions = <<a>>
                                          /\ workload.assertion[a] = body[i].says
           /\ kept.draft.notice = policy.disclosure
           /\ policy.minChars <= Length(kept.draft) /\ Length(kept.draft) <= policy.maxChars
           /\ policy.secondPerson \/ said \cap Addresses = {}

(* Nothing else is refused: an answer that repeats every assertion in order, with *)
(* no marks and no names, is kept if the words, the notice and the format allow   *)
(* such a draft at all.                                                            *)
Verbatim == [i \in DOMAIN workload.assertion |->
    [name |-> "none", text |-> [says |-> workload.assertion[i], marks |-> {}], cites |-> <<i>>]]
FaithfulIsKept ==
    LET said == Range(workload.assertion)
        size == TotalSize(workload.assertion) + (IF policy.disclosure THEN NoticeSize ELSE 0)
    IN /\ workload # Nothing
       /\ said \cap Banned = {} /\ (policy.secondPerson \/ said \cap Addresses = {})
       /\ policy.disclosure => policy.provenance
       /\ size \in policy.minChars..policy.maxChars
       /\ policy.paragraphs = IF policy.disclosure THEN 2 ELSE 1
       => ResultOf(Verbatim).status = "completed"
=============================================================================
