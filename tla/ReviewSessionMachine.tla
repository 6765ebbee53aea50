------------------------ MODULE ReviewSessionMachine ------------------------
(***************************************************************************)
(* The reviewer's screen as it asks for generations (web-bff frontend:      *)
(* review-session-machine.ts, and the effect of app.tsx that runs them).    *)
(* While the screen is `generating', one run listens to the events of its   *)
(* idempotency key.  An event carries no key: the screen takes whatever     *)
(* terminal arrives.  Leaving the state aborts the run, the generation may  *)
(* go on.  A generation is named after its key.                             *)
(***************************************************************************)
EXTENDS Naturals

CONSTANTS GenerationKey, NoKey,
          Facts,            \* the confirmed input: fact options and assertion
          Format, NoFormat  \* review formats

ASSUME MachineAssumption ==
    NoKey \notin GenerationKey /\ NoFormat \notin Format /\ Facts # {}

VARIABLES screen,      \* the state of the machine
          listening,   \* keys whose run is not aborted
          serverRun   \* what the server does for each key

machineVars == <<screen, listening, serverRun>>

MaybeKey == GenerationKey \cup {NoKey}
MaybeFormat == Format \cup {NoFormat}
Screen == [at : {"facts", "format", "generating", "results", "generation-failed"},
           facts : Facts, format : MaybeFormat,
           source : MaybeKey,  \* sourceGenerationId of the state or its command
           key : MaybeKey, draft : MaybeKey, resume : MaybeKey, retryable : BOOLEAN]
ServerRun == [at : {"none", "asked", "succeeded", "rejected"},
               facts : Facts, format : MaybeFormat]

MachineTypeOK ==
    /\ screen \in Screen
    /\ listening \subseteq GenerationKey
    /\ serverRun \in [GenerationKey -> ServerRun]

MachineInit ==
    /\ screen \in [at : {"facts", "format"}, facts : Facts, format : {NoFormat},
                   source : {NoKey}, key : {NoKey}, draft : {NoKey},
                   resume : {NoKey}, retryable : {FALSE}]
    /\ listening = {}
    /\ serverRun = [k \in GenerationKey |->
         [at |-> "none", facts |-> CHOOSE f \in Facts : TRUE, format |-> NoFormat]]

Fresh(k) == serverRun[k].at = "none"

\* Fault: the runs of earlier requests go on listening.
Inattentive == listening

\* Every change of the state aborts the run of the one before.
Aborted == {}

\* Another state of the screen, without a run.
Show(next) == /\ screen' = next
              /\ listening' = Aborted
              /\ UNCHANGED serverRun

-----------------------------------------------------------------------------
(* The reviewer *)

ChangeFacts ==
    /\ screen.at = "facts"
    /\ \E facts \in Facts \ {screen.facts} : Show([screen EXCEPT !.facts = facts])

Continue ==
    /\ screen.at = "facts"
    /\ Show([screen EXCEPT !.at = "format", !.format = NoFormat])

SelectFormat ==
    /\ screen.at = "format"
    /\ \E format \in Format \ {screen.format} : Show([screen EXCEPT !.format = format])

\* Also by the browser's back button.
ReturnToFacts ==
    /\ screen.at # "facts"
    /\ Show([screen EXCEPT !.at = "facts", !.format = NoFormat, !.source = NoKey,
                           !.key = NoKey, !.draft = NoKey, !.resume = NoKey,
                           !.retryable = FALSE])

ReturnToFormat ==
    /\ screen.at \in {"results", "generation-failed"}
    /\ Show([screen EXCEPT !.at = "format", !.key = NoKey, !.draft = NoKey,
                           !.resume = NoKey, !.retryable = FALSE,
                           !.source = IF screen.at = "results" THEN screen.draft
                                      ELSE screen.source])

\* The screen generates and its effect starts the request.  A command sends
\* its source, and the server takes the facts from there.
Start(k, source) ==
    /\ screen' = [screen EXCEPT !.at = "generating", !.key = k, !.source = source,
                                !.draft = NoKey, !.resume = NoKey, !.retryable = FALSE]
    /\ listening' = Aborted \cup {k}
    /\ serverRun' = IF Fresh(k)
         THEN [serverRun EXCEPT ![k] =
                [at |-> "asked", format |-> screen.format,
                 facts |-> IF source = NoKey THEN screen.facts
                           ELSE serverRun[source].facts]]
         ELSE serverRun

RequestGeneration == /\ screen.at = "format" /\ screen.format # NoFormat
                     /\ \E k \in GenerationKey : Fresh(k) /\ Start(k, screen.source)

\* RETRY_REQUESTED of a result, and TRANSFORMATION_REQUESTED.
Resample == /\ screen.at = "results"
            /\ \E k \in GenerationKey : Fresh(k) /\ Start(k, screen.draft)

Retry == /\ screen.at = "generation-failed" /\ screen.retryable
         /\ \E k \in GenerationKey :
              /\ IF screen.resume = NoKey THEN Fresh(k) ELSE k = screen.resume
              /\ Start(k, screen.source)

Failed(retryable, resume) ==
    Show([screen EXCEPT !.at = "generation-failed", !.retryable = retryable,
                        !.resume = resume, !.key = NoKey])

Stop == screen.at = "generating" /\ Failed(TRUE, screen.key)

-----------------------------------------------------------------------------
(* The events of a run that is not aborted *)

\* GENERATION_SUCCEEDED; ignored in every other state.
Succeeded(k) ==
    /\ k \in listening /\ serverRun[k].at = "succeeded"
    /\ screen.at = "generating"
    /\ Show([screen EXCEPT !.at = "results", !.draft = k, !.key = NoKey])

\* GENERATION_FAILED, of a rejected terminal or of a broken transport.
Rejected(k) ==
    /\ k \in listening
    /\ screen.at = "generating"
    /\ \/ /\ serverRun[k].at = "rejected"
          /\ \E retryable \in BOOLEAN : Failed(retryable, NoKey)
       \/ Failed(TRUE, screen.key)

\* The server settles a generation, whether anybody listens or not.
Serve(k) ==
    /\ serverRun[k].at = "asked"
    /\ \E outcome \in {"succeeded", "rejected"} :
         serverRun' = [serverRun EXCEPT ![k].at = outcome]
    /\ UNCHANGED <<screen, listening>>

MachineNext ==
    \/ ChangeFacts
    \/ Continue
    \/ SelectFormat
    \/ ReturnToFacts
    \/ ReturnToFormat
    \/ RequestGeneration
    \/ Resample
    \/ Retry
    \/ Stop
    \/ \E k \in GenerationKey :
         \/ Succeeded(k)
         \/ Rejected(k)
         \/ Serve(k)

MachineSpec == MachineInit /\ [][MachineNext]_machineVars

-----------------------------------------------------------------------------
(* The draft on the screen was generated from the facts and the format the   *)
(* screen shows beside it, whatever was asked, stopped, resumed and asked    *)
(* again before, and whenever those generations end.                         *)
ShownAnswersRequest ==
    screen.at = "results" =>
        /\ serverRun[screen.draft].facts = screen.facts
        /\ serverRun[screen.draft].format = screen.format
==============================================================================
