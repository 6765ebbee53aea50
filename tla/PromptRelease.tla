---------------------------- MODULE PromptRelease ----------------------------
(***************************************************************************)
(* Prompt evidence, candidacy, deployment and experiments of one tenant and *)
(* one action (packages/db: control-plane/console-store.ts, migrations 23,  *)
(* 27 and 32).  A transaction takes advisory locks one after the other and  *)
(* holds them until it ends; what it writes is seen once it commits.  The   *)
(* store checks a prompt before it writes, the triggers check it again      *)
(* under the prompt's lock.  Left out: the platform's publication, which    *)
(* excludes all others, and the unique index on running experiments.        *)
(***************************************************************************)
EXTENDS Naturals

CONSTANTS Prompt,          \* prompt versions: numbers, in the order of their ids
          Experiment,
          Variants,        \* the prompts of each experiment
          Transaction,
          MaxEvaluations   \* bound on the evaluations of each prompt

ASSUME PromptAssumption ==
    /\ Prompt \subseteq Nat \ {0}
    /\ \A e \in Experiment : Variants[e] \subseteq Prompt
    /\ MaxEvaluations \in [Prompt -> Nat]

VARIABLES evidence,    \* the latest complete evaluation of each prompt
          decided,     \* prompt_candidacy_decisions: prompt and evaluation
          retired,     \* prompts with a RETIRED decision
          deployed,    \* the prompt of prompt_deployments, or 0
          experiment,  \* experiments
          tx           \* transactions

promptVars == <<evidence, decided, retired, deployed, experiment, tx>>

Lock == {"tenant", "action"} \X {0} \cup {"prompt"} \X Prompt
TenantLock == <<"tenant", 0>>
ActionLock == <<"action", 0>>
PromptLock(p) == <<"prompt", p>>

Kind == {"none", "evaluate", "decide", "retire", "publish", "start", "stop"}
TransactionState ==
    [kind : Kind, at : {"idle", "open", "set", "gated", "written"},
     prompt : Prompt \cup {0}, perfect : BOOLEAN, seen : Nat,
     experiment : SUBSET Experiment, wants : SUBSET Lock, holds : SUBSET Lock]
NoTransaction == [kind |-> "none", at |-> "idle", prompt |-> 0, perfect |-> FALSE,
                  seen |-> 0, experiment |-> {}, wants |-> {}, holds |-> {}]

PromptTypeOK ==
    /\ evidence \in [Prompt -> [id : Nat, perfect : BOOLEAN]]
    /\ decided \subseteq Prompt \X Nat
    /\ retired \subseteq Prompt
    /\ deployed \in Prompt \cup {0}
    /\ experiment \in [Experiment -> {"absent", "DRAFT", "RUNNING", "STOPPED"}]
    /\ tx \in [Transaction -> TransactionState]

PromptInit ==
    /\ evidence = [p \in Prompt |-> [id |-> 0, perfect |-> FALSE]]
    /\ decided = {}
    /\ retired = {}
    /\ deployed = 0
    /\ experiment = [e \in Experiment |-> "absent"]
    /\ tx = [t \in Transaction |-> NoTransaction]

rows == <<evidence, decided, retired, deployed, experiment>>

-----------------------------------------------------------------------------
(* The gates *)

\* prompt_is_effective_candidate
EffectiveCandidate(p) ==
    /\ evidence[p].perfect
    /\ <<p, evidence[p].id>> \in decided
    /\ p \notin retired

InExperiment(p) == \E e \in Experiment : experiment[e] = "RUNNING" /\ p \in Variants[e]

\* promptPassesQualityGate
PassesGate(p) == EffectiveCandidate(p) /\ ~InExperiment(p)

-----------------------------------------------------------------------------
(* Transactions *)

Begin(t, state) ==
    /\ tx[t] = NoTransaction
    /\ tx' = [tx EXCEPT ![t] = state]
    /\ UNCHANGED rows

Open(kind, wants) == [NoTransaction EXCEPT !.kind = kind, !.at = "open", !.wants = wants]

Proceed(t, at, wants) == tx' = [tx EXCEPT ![t].at = at, ![t].wants = wants]

Ready(t, kind, at) == tx[t].kind = kind /\ tx[t].at = at /\ tx[t].wants = {}

\* The next lock, in the order of the ids, is free or already its own.
Take(t) ==
    /\ \E l \in tx[t].wants :
         /\ \A m \in tx[t].wants : l[2] <= m[2]
         /\ \A u \in Transaction \ {t} : l \notin tx[u].holds
         /\ tx' = [tx EXCEPT ![t].wants = @ \ {l}, ![t].holds = @ \cup {l}]
    /\ UNCHANGED rows

\* Refused by a gate, out of time, or the victim of a deadlock: rolled back.
RollBack(t) ==
    /\ tx[t].at # "idle"
    /\ tx' = [tx EXCEPT ![t] = NoTransaction]
    /\ UNCHANGED rows

PromptLocks(prompts) == {PromptLock(p) : p \in prompts}

-----------------------------------------------------------------------------
(* Evidence *)

Evaluate(t, p) ==
    /\ evidence[p].id < MaxEvaluations[p]
    /\ \E perfect \in BOOLEAN :
         Begin(t, [Open("evaluate", {PromptLock(p)}) EXCEPT !.prompt = p,
                                                                !.perfect = perfect])

\* promotePromptVersion, up to the insertion of the decision.
Decide(t, p) ==
    /\ p \notin retired /\ ~InExperiment(p)
    /\ evidence[p].perfect
    /\ <<p, evidence[p].id>> \notin decided
    /\ Begin(t, [Open("decide", {PromptLock(p)}) EXCEPT !.prompt = p,
                                                            !.seen = evidence[p].id])

\* A RETIRED decision, inserted in SQL.
Retire(t, p) == Begin(t, [Open("retire", {PromptLock(p)}) EXCEPT !.prompt = p])

\* enforce_prompt_candidacy_decision
Decidable(t) == LET p == tx[t].prompt IN
    CASE tx[t].kind = "evaluate" -> evidence[p].id < MaxEvaluations[p]
      [] tx[t].kind = "decide" -> /\ evidence[p] = [id |-> tx[t].seen, perfect |-> TRUE]
                                  /\ p \notin retired
      [] tx[t].kind = "retire" -> \E n \in 1..MaxEvaluations[p] : <<p, n>> \in decided

WriteDecision(t) ==
    /\ \E kind \in {"evaluate", "decide", "retire"} : Ready(t, kind, "open")
    /\ Decidable(t)
    /\ Proceed(t, "written", {})
    /\ UNCHANGED rows

-----------------------------------------------------------------------------
(* publishConfiguration, with a deployment of prompt p or (0) without one *)

BeginPublish(t, p) == Begin(t, [Open("publish", {TenantLock}) EXCEPT !.prompt = p])

\* Fault: the deployed prompts are not locked.
NoSet == {}

\* console_lock_prompt_release_set, after the tenant's lock.
ReleaseSet == PromptLocks({deployed} \ {0})

LockReleaseSet(t) ==
    /\ Ready(t, "publish", "open")
    /\ Proceed(t, "set", ReleaseSet)
    /\ UNCHANGED rows

\* applyStagedCatalogueChanges: the upsert locks the old prompt and the new.
Deploy(t) ==
    LET p == tx[t].prompt IN
    /\ Ready(t, "publish", "set")
    /\ p # 0 => PassesGate(p)
    /\ Proceed(t, "gated", IF p = 0 THEN {} ELSE PromptLocks({p, deployed} \ {0}))
    /\ UNCHANGED rows

Deployment(t) == IF tx[t].prompt # 0 THEN tx[t].prompt ELSE deployed

\* The deployment's triggers, and materializePublishedConfiguration.
Materialize(t) ==
    /\ Ready(t, "publish", "gated")
    /\ Deployment(t) # 0
    /\ PassesGate(Deployment(t))
    /\ Proceed(t, "written", {})
    /\ UNCHANGED rows

-----------------------------------------------------------------------------
(* Experiments *)

CreateExperiment(e) ==
    /\ experiment[e] = "absent"
    /\ \A p \in Variants[e] : PassesGate(p)
    /\ experiment' = [experiment EXCEPT ![e] = "DRAFT"]
    /\ UNCHANGED <<evidence, decided, retired, deployed, tx>>

\* Fault: the status is read before the lock is taken.
StatusUnlocked == {}

StatusLocks == {ActionLock}

\* setExperimentStatus
BeginStatus(t, kind, e) ==
    /\ experiment[e] # "absent"
    /\ Begin(t, [Open(kind, StatusLocks) EXCEPT !.experiment = {e}])

GateStart(t) ==
    /\ Ready(t, "start", "open")
    /\ \A e \in tx[t].experiment :
         /\ experiment[e] = "DRAFT"
         /\ \A f \in Experiment : experiment[f] # "RUNNING"
         /\ \A p \in Variants[e] : PassesGate(p)
         /\ Proceed(t, "gated", PromptLocks(Variants[e]))
    /\ UNCHANGED rows

\* enforce_running_experiment_quality_gate and _candidacy_gate
WriteStart(t) ==
    /\ Ready(t, "start", "gated")
    /\ \A e \in tx[t].experiment : \A p \in Variants[e] : EffectiveCandidate(p)
    /\ Proceed(t, "written", {})
    /\ UNCHANGED rows

WriteStop(t) ==
    /\ Ready(t, "stop", "open")
    /\ \A e \in tx[t].experiment : experiment[e] = "RUNNING"
    /\ Proceed(t, "written", {})
    /\ UNCHANGED rows

-----------------------------------------------------------------------------
\* The writes of a kind of transaction.
Wrote(kind, t) == LET p == tx[t].prompt IN
    /\ evidence' = IF kind = "evaluate"
                   THEN [evidence EXCEPT ![p] = [id |-> @.id + 1, perfect |-> tx[t].perfect]]
                   ELSE evidence
    /\ decided' = IF kind = "decide" THEN decided \cup {<<p, tx[t].seen>>} ELSE decided
    /\ retired' = IF kind = "retire" THEN retired \cup {p} ELSE retired
    /\ deployed' = IF kind = "publish" THEN Deployment(t) ELSE deployed
    /\ experiment' = [e \in Experiment |->
         IF e \in tx[t].experiment
         THEN IF kind = "start" THEN "RUNNING" ELSE "STOPPED"
         ELSE experiment[e]]

Commit(t) ==
    /\ tx[t].at = "written"
    /\ Wrote(tx[t].kind, t)
    /\ tx' = [tx EXCEPT ![t] = NoTransaction]

PromptNext ==
    \/ \E e \in Experiment : CreateExperiment(e)
    \/ \E t \in Transaction :
         \/ \E p \in Prompt : Evaluate(t, p) \/ Decide(t, p) \/ Retire(t, p)
         \/ WriteDecision(t)
         \/ \E p \in Prompt \cup {0} : BeginPublish(t, p)
         \/ LockReleaseSet(t)
         \/ Deploy(t)
         \/ Materialize(t)
         \/ \E e \in Experiment, kind \in {"start", "stop"} : BeginStatus(t, kind, e)
         \/ GateStart(t)
         \/ WriteStart(t)
         \/ WriteStop(t)
         \/ Take(t)
         \/ RollBack(t)
         \/ Commit(t)

PromptSpec == PromptInit /\ [][PromptNext]_promptVars

-----------------------------------------------------------------------------
(* Properties *)

\* The prompts a transaction is about to publish or to start.
Subject(t) == CASE tx[t].kind = "publish" -> {Deployment(t)}
                [] tx[t].kind = "start" -> UNION {Variants[e] : e \in tx[t].experiment}
                [] OTHER -> {}

(* A publication and the start of an experiment commit with prompts that are *)
(* eligible at that moment: candidates by their latest evaluation, which is  *)
(* perfect, not retired and not in a running experiment, whatever            *)
(* evaluations, decisions and experiments overlap with the transaction.      *)
EligibleAtCommit == \A t \in Transaction :
    tx[t].at = "written" => \A p \in Subject(t) :
        /\ evidence[p].perfect /\ <<p, evidence[p].id>> \in decided
        /\ p \notin retired
        /\ \A e \in Experiment : experiment[e] = "RUNNING" => p \notin Variants[e]

(* However operators start and stop experiments at once, at most one of the  *)
(* action is running, also without the unique index.                         *)
OneRunningExperiment ==
    \A e, f \in Experiment : experiment[e] = "RUNNING" /\ experiment[f] = "RUNNING" => e = f
=============================================================================
