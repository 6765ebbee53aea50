----------------------------- MODULE ConsoleProofs ----------------------------
(***************************************************************************)
(* The prompts' gates, the console's grants and the operator's session, for *)
(* every number of operators, prompts, experiments, accounts and answers.  *)
(***************************************************************************)
EXTENDS PromptRelease, ConsoleAccess, OperatorSignIn, TLAPS

-----------------------------------------------------------------------------
(* The inductive invariant *)

Secured(s, l) == l \in s.wants \cup s.holds

\* What a transaction knows once it has the locks its decision needs.
StateInv(s) ==
    /\ s.at = "written" => s.wants = {}
    /\ s.kind \in {"evaluate", "decide", "retire"} =>
         s.prompt \in Prompt /\ Secured(s, PromptLock(s.prompt))
    /\ s.kind \notin {"start", "stop"} => s.experiment = {}
    /\ s.kind = "publish" => Secured(s, TenantLock)
    /\ s.kind = "publish" /\ s.at \in {"set", "gated", "written"} =>
         /\ TenantLock \in s.holds
         /\ deployed # 0 => Secured(s, PromptLock(deployed))
    /\ s.kind = "publish" /\ s.at \in {"gated", "written"} /\ s.prompt # 0 =>
         Secured(s, PromptLock(s.prompt))
    /\ s.kind = "publish" /\ s.at = "written" =>
         /\ s.prompt = 0 => deployed # 0 /\ PassesGate(deployed)
         /\ s.prompt # 0 => PassesGate(s.prompt)
    /\ s.kind \in {"start", "stop"} =>
         Secured(s, ActionLock) /\ \E e \in Experiment : s.experiment = {e}
    /\ s.kind = "start" /\ s.at \in {"gated", "written"} =>
         /\ ActionLock \in s.holds
         /\ \A f \in Experiment : experiment[f] # "RUNNING"
         /\ \A e \in s.experiment : \A p \in Variants[e] : Secured(s, PromptLock(p))
    /\ s.kind = "start" /\ s.at = "written" =>
         \A e \in s.experiment : \A p \in Variants[e] : EffectiveCandidate(p)

\* Locks exclude, and every transaction knows what it has locked.
PromptInv ==
    /\ PromptTypeOK
    /\ \A t, u \in Transaction : t # u => tx[t].holds \cap tx[u].holds = {}
    /\ \A t \in Transaction : StateInv(tx[t])
    /\ OneRunningExperiment

LEMMA IdleTransaction == NoTransaction \in TransactionState /\ StateInv(NoTransaction)
  BY DEF NoTransaction, TransactionState, Kind, StateInv

LEMMA PromptInitInv == PromptInit => PromptInv
<1> SUFFICES ASSUME PromptInit PROVE PromptInv
  OBVIOUS
<1>1. \A t \in Transaction : tx[t] = NoTransaction
  BY DEF PromptInit
<1>2. PromptTypeOK
  BY IdleTransaction DEF PromptInit, PromptTypeOK
<1>3. OneRunningExperiment
  BY DEF PromptInit, OneRunningExperiment
<1>4. NoTransaction.holds = {}
  BY DEF NoTransaction
<1>5. QED
  BY <1>1, <1>2, <1>3, <1>4, IdleTransaction DEF PromptInv

\* A transaction that writes no row may do what keeps its own knowledge true.
LEMMA QuietTransaction ==
    ASSUME PromptInv, NEW t \in Transaction, NEW s \in TransactionState,
           tx' = [tx EXCEPT ![t] = s], UNCHANGED rows, StateInv(s),
           \A u \in Transaction \ {t} : s.holds \cap tx[u].holds = {}
    PROVE  PromptInv'
<1>1. PromptTypeOK'
  BY DEF PromptInv, PromptTypeOK, rows
<1>2. \A u \in Transaction : tx'[u] = IF u = t THEN s ELSE tx[u]
  BY DEF PromptInv, PromptTypeOK
<1>3. \A u, v \in Transaction : u # v => tx'[u].holds \cap tx'[v].holds = {}
  BY <1>2 DEF PromptInv
<1>4. ASSUME NEW r, StateInv(r) PROVE StateInv(r)'
  BY <1>4 DEF StateInv, rows, PassesGate, EffectiveCandidate, InExperiment, Secured
<1>5. ASSUME NEW u \in Transaction PROVE StateInv(tx[u])'
  <2>1. StateInv(tx'[u])
    BY <1>2 DEF PromptInv
  <2>2. QED
    BY <2>1 DEF StateInv, rows, PassesGate, EffectiveCandidate, InExperiment, Secured
<1>6. OneRunningExperiment'
  BY DEF PromptInv, OneRunningExperiment, rows
<1>7. QED
  BY <1>1, <1>3, <1>5, <1>6 DEF PromptInv

LEMMA ProceedState ==
    ASSUME PromptInv, NEW t \in Transaction,
           NEW at \in {"open", "set", "gated", "written"}, NEW wants \in SUBSET Lock,
           Proceed(t, at, wants)
    PROVE  \E s \in TransactionState :
             /\ tx' = [tx EXCEPT ![t] = s]
             /\ s.at = at /\ s.wants = wants
             /\ s.kind = tx[t].kind /\ s.prompt = tx[t].prompt
             /\ s.experiment = tx[t].experiment /\ s.holds = tx[t].holds
<1> DEFINE s == [tx[t] EXCEPT !.at = at, !.wants = wants]
<1>1. tx \in [Transaction -> TransactionState] /\ tx[t] \in TransactionState
  BY DEF PromptInv, PromptTypeOK
<1>2. /\ s \in TransactionState /\ s.at = at /\ s.wants = wants
      /\ s.kind = tx[t].kind /\ s.prompt = tx[t].prompt
      /\ s.experiment = tx[t].experiment /\ s.holds = tx[t].holds
  BY <1>1 DEF TransactionState
<1>3. tx' = [tx EXCEPT ![t] = s]
  BY <1>1 DEF Proceed
<1>4. QED
  BY <1>2, <1>3

-----------------------------------------------------------------------------
(* Every step keeps it *)

LEMMA BeginKeeps ==
    ASSUME PromptInv, NEW t \in Transaction, NEW s \in TransactionState, Begin(t, s),
           s.holds = {}, StateInv(s)
    PROVE  PromptInv'
  BY QuietTransaction DEF Begin

\* A transaction that has only just begun.
LEMMA OpenState ==
    ASSUME NEW kind \in Kind, NEW wants \in SUBSET Lock
    PROVE  /\ Open(kind, wants) \in TransactionState
           /\ Open(kind, wants).kind = kind /\ Open(kind, wants).at = "open"
           /\ Open(kind, wants).experiment = {}
           /\ Open(kind, wants).wants = wants /\ Open(kind, wants).holds = {}
<1>1. /\ NoTransaction \in TransactionState
      /\ NoTransaction.experiment = {} /\ NoTransaction.holds = {}
  BY IdleTransaction DEF NoTransaction
<1>2. QED
  BY <1>1 DEF Open, TransactionState

LEMMA DecisionsBegin ==
    ASSUME PromptInv, NEW t \in Transaction, NEW p \in Prompt,
           Evaluate(t, p) \/ Decide(t, p) \/ Retire(t, p)
    PROVE  PromptInv'
<1> DEFINE open(kind) == Open(kind, {PromptLock(p)})
<1>1. ASSUME NEW kind \in {"evaluate", "decide", "retire"}, NEW s \in TransactionState,
             s.kind = kind, s.at = "open", s.prompt = p, s.experiment = {},
             s.wants = {PromptLock(p)}, s.holds = {}, Begin(t, s)
      PROVE  PromptInv'
  <2>1. StateInv(s)
    BY <1>1 DEF StateInv, Secured
  <2>2. QED
    BY <1>1, <2>1, BeginKeeps
<1>2. ASSUME NEW kind \in {"evaluate", "decide", "retire"}
      PROVE  /\ open(kind) \in TransactionState
             /\ open(kind).kind = kind /\ open(kind).at = "open" /\ open(kind).experiment = {}
             /\ open(kind).wants = {PromptLock(p)} /\ open(kind).holds = {}
  <2>1. kind \in Kind /\ {PromptLock(p)} \in SUBSET Lock
    BY DEF Kind, PromptLock, Lock
  <2>2. QED
    BY <2>1, OpenState
<1> HIDE DEF open
<1>3. CASE Evaluate(t, p)
  <2>1. PICK perfect \in BOOLEAN :
          Begin(t, [open("evaluate") EXCEPT !.prompt = p, !.perfect = perfect])
    BY <1>3 DEF Evaluate, open
  <2> DEFINE s == [open("evaluate") EXCEPT !.prompt = p, !.perfect = perfect]
  <2>2. /\ s \in TransactionState /\ s.kind = "evaluate" /\ s.at = "open" /\ s.prompt = p
        /\ s.experiment = {} /\ s.wants = {PromptLock(p)} /\ s.holds = {}
    BY <1>2 DEF TransactionState
  <2>3. QED
    BY <1>1, <2>1, <2>2
<1>4. CASE Decide(t, p)
  <2> DEFINE s == [open("decide") EXCEPT !.prompt = p, !.seen = evidence[p].id]
  <2>1. evidence[p].id \in Nat
    BY DEF PromptInv, PromptTypeOK
  <2>2. /\ s \in TransactionState /\ s.kind = "decide" /\ s.at = "open" /\ s.prompt = p
        /\ s.experiment = {} /\ s.wants = {PromptLock(p)} /\ s.holds = {}
    BY <1>2, <2>1 DEF TransactionState
  <2>3. Begin(t, s)
    BY <1>4 DEF Decide, open
  <2>4. QED
    BY <1>1, <2>2, <2>3
<1>5. CASE Retire(t, p)
  <2> DEFINE s == [open("retire") EXCEPT !.prompt = p]
  <2>1. /\ s \in TransactionState /\ s.kind = "retire" /\ s.at = "open" /\ s.prompt = p
        /\ s.experiment = {} /\ s.wants = {PromptLock(p)} /\ s.holds = {}
    BY <1>2 DEF TransactionState
  <2>2. Begin(t, s)
    BY <1>5 DEF Retire, open
  <2>3. QED
    BY <1>1, <2>1, <2>2
<1>6. QED
  BY <1>3, <1>4, <1>5

LEMMA PublishBegins ==
    ASSUME PromptInv, NEW t \in Transaction, NEW p \in Prompt \cup {0}, BeginPublish(t, p)
    PROVE  PromptInv'
<1> DEFINE open == Open("publish", {TenantLock})
           s == [open EXCEPT !.prompt = p]
<1>1. "publish" \in Kind /\ {TenantLock} \in SUBSET Lock
  BY DEF Kind, TenantLock, Lock
<1>2. /\ open \in TransactionState /\ open.kind = "publish" /\ open.at = "open"
      /\ open.experiment = {} /\ open.wants = {TenantLock} /\ open.holds = {}
  BY <1>1, OpenState
<1>3. Begin(t, s)
  BY DEF BeginPublish
<1> HIDE DEF open
<1>4. /\ s \in TransactionState /\ s.kind = "publish" /\ s.at = "open"
      /\ s.experiment = {} /\ s.wants = {TenantLock} /\ s.holds = {}
  BY <1>2 DEF TransactionState
<1> HIDE DEF s
<1>5. StateInv(s)
  BY <1>4 DEF StateInv, Secured
<1>6. QED
  BY <1>3, <1>4, <1>5, BeginKeeps

LEMMA StatusBegins ==
    ASSUME PromptInv, NEW t \in Transaction, NEW e \in Experiment,
           NEW kind \in {"start", "stop"}, BeginStatus(t, kind, e)
    PROVE  PromptInv'
<1> DEFINE open == Open(kind, {ActionLock})
           s == [open EXCEPT !.experiment = {e}]
<1>1. kind \in Kind /\ {ActionLock} \in SUBSET Lock
  BY DEF Kind, ActionLock, Lock
<1>2. /\ open \in TransactionState /\ open.kind = kind /\ open.at = "open"
      /\ open.wants = {ActionLock} /\ open.holds = {}
  BY <1>1, OpenState
<1>3. Begin(t, s)
  BY DEF BeginStatus, StatusLocks
<1> HIDE DEF open
<1>4. /\ s \in TransactionState /\ s.kind = kind /\ s.at = "open"
      /\ s.experiment = {e} /\ s.wants = {ActionLock} /\ s.holds = {}
  BY <1>2 DEF TransactionState
<1> HIDE DEF s
<1>5. StateInv(s)
  BY <1>4 DEF StateInv, Secured
<1>6. QED
  BY <1>3, <1>4, <1>5, BeginKeeps

LEMMA TakeKeeps ==
    ASSUME PromptInv, NEW t \in Transaction, Take(t)
    PROVE  PromptInv'
<1>1. PICK l \in tx[t].wants :
        /\ \A u \in Transaction \ {t} : l \notin tx[u].holds
        /\ tx' = [tx EXCEPT ![t].wants = @ \ {l}, ![t].holds = @ \cup {l}]
  BY DEF Take
<1> DEFINE s == [tx[t] EXCEPT !.wants = @ \ {l}, !.holds = @ \cup {l}]
<1>2. tx \in [Transaction -> TransactionState] /\ tx[t] \in TransactionState
  BY DEF PromptInv, PromptTypeOK
<1>3. tx' = [tx EXCEPT ![t] = s]
  BY <1>1, <1>2
<1>4. l \in Lock
  BY <1>2 DEF TransactionState
<1>5. /\ s \in TransactionState
      /\ s.wants = tx[t].wants \ {l} /\ s.holds = tx[t].holds \cup {l}
      /\ s.at = tx[t].at /\ s.kind = tx[t].kind /\ s.prompt = tx[t].prompt
      /\ s.experiment = tx[t].experiment
  BY <1>2, <1>4 DEF TransactionState
<1> HIDE DEF s
<1>6. StateInv(tx[t]) /\ tx[t].at # "written"
  BY DEF PromptInv, StateInv
<1>7. \A m : Secured(tx[t], m) => Secured(s, m)
  BY <1>5 DEF Secured
<1>8. StateInv(s)
  BY <1>5, <1>6, <1>7 DEF StateInv
<1>9. \A u \in Transaction \ {t} : s.holds \cap tx[u].holds = {}
  BY <1>1, <1>5 DEF PromptInv
<1>10. QED
  BY <1>3, <1>5, <1>8, <1>9, QuietTransaction DEF Take

LEMMA RollBackKeeps ==
    ASSUME PromptInv, NEW t \in Transaction, RollBack(t)
    PROVE  PromptInv'
<1>1. NoTransaction.holds = {}
  BY DEF NoTransaction
<1>2. QED
  BY <1>1, IdleTransaction, QuietTransaction DEF RollBack

\* A transaction goes on, with nothing left to lock, and learns what it reads.
LEMMA ProceedKeeps ==
    ASSUME PromptInv, NEW t \in Transaction, UNCHANGED rows,
           NEW at \in {"open", "set", "gated", "written"}, NEW wants \in SUBSET Lock,
           Proceed(t, at, wants),
           \A s \in TransactionState :
              /\ s.at = at /\ s.wants = wants
              /\ s.kind = tx[t].kind /\ s.prompt = tx[t].prompt
              /\ s.experiment = tx[t].experiment /\ s.holds = tx[t].holds
              => StateInv(s)
    PROVE  PromptInv'
<1>1. PICK s \in TransactionState :
        /\ tx' = [tx EXCEPT ![t] = s]
        /\ s.at = at /\ s.wants = wants
        /\ s.kind = tx[t].kind /\ s.prompt = tx[t].prompt
        /\ s.experiment = tx[t].experiment /\ s.holds = tx[t].holds
  BY ProceedState
<1>2. StateInv(s)
  BY <1>1
<1>3. \A u \in Transaction \ {t} : s.holds \cap tx[u].holds = {}
  BY <1>1 DEF PromptInv
<1>4. QED
  BY <1>1, <1>2, <1>3, QuietTransaction

LEMMA DecisionWritten ==
    ASSUME PromptInv, NEW t \in Transaction, WriteDecision(t)
    PROVE  PromptInv'
<1>1. /\ tx[t].kind \in {"evaluate", "decide", "retire"} /\ tx[t].wants = {}
      /\ Proceed(t, "written", {}) /\ UNCHANGED rows
  BY DEF WriteDecision, Ready
<1>2. ASSUME NEW s \in TransactionState, s.at = "written", s.wants = {},
             s.kind = tx[t].kind, s.prompt = tx[t].prompt,
             s.experiment = tx[t].experiment, s.holds = tx[t].holds
      PROVE  StateInv(s)
  BY <1>1, <1>2 DEF PromptInv, StateInv, Secured
<1>3. QED
  BY <1>1, <1>2, ProceedKeeps

LEMMA PublishProceeds ==
    ASSUME PromptInv, NEW t \in Transaction,
           LockReleaseSet(t) \/ Deploy(t) \/ Materialize(t)
    PROVE  PromptInv'
<1> DEFINE p == tx[t].prompt
<1>1. /\ StateInv(tx[t]) /\ tx[t].wants = {} /\ tx[t].kind = "publish"
      /\ p \in Prompt \cup {0} /\ deployed \in Prompt \cup {0}
  BY DEF PromptInv, PromptTypeOK, TransactionState, LockReleaseSet, Deploy, Materialize, Ready
<1>2. TenantLock \in tx[t].holds
  BY <1>1 DEF StateInv, Secured
<1>3. PromptLocks({p, deployed} \ {0}) \in SUBSET Lock /\ ReleaseSet \in SUBSET Lock
  BY <1>1 DEF PromptLocks, PromptLock, Lock, ReleaseSet
<1>4. CASE LockReleaseSet(t)
  <2>1. deployed # 0 => PromptLock(deployed) \in ReleaseSet
    BY DEF ReleaseSet, PromptLocks
  <2>2. ASSUME NEW s \in TransactionState, s.at = "set", s.wants = ReleaseSet,
               s.kind = tx[t].kind, s.prompt = tx[t].prompt,
               s.experiment = tx[t].experiment, s.holds = tx[t].holds
        PROVE  StateInv(s)
    BY <1>1, <1>2, <2>1, <2>2 DEF StateInv, Secured
  <2>3. Proceed(t, "set", ReleaseSet) /\ UNCHANGED rows
    BY <1>4 DEF LockReleaseSet
  <2>4. QED
    BY <1>3, <2>2, <2>3, ProceedKeeps
<1>5. CASE Deploy(t)
  <2> DEFINE wants == IF p = 0 THEN {} ELSE PromptLocks({p, deployed} \ {0})
  <2>1. p # 0 => PromptLock(p) \in wants
    BY DEF PromptLocks
  <2>2. deployed # 0 => PromptLock(deployed) \in tx[t].holds
    BY <1>1, <1>5 DEF Deploy, Ready, StateInv, Secured
  <2>3. wants \in SUBSET Lock /\ Proceed(t, "gated", wants) /\ UNCHANGED rows
    BY <1>3, <1>5 DEF Deploy
  <2> HIDE DEF wants
  <2>4. ASSUME NEW s \in TransactionState, s.at = "gated", s.wants = wants,
               s.kind = tx[t].kind, s.prompt = tx[t].prompt,
               s.experiment = tx[t].experiment, s.holds = tx[t].holds
        PROVE  StateInv(s)
    BY <1>1, <1>2, <2>1, <2>2, <2>4 DEF StateInv, Secured
  <2>5. QED
    BY <2>3, <2>4, ProceedKeeps
<1>6. CASE Materialize(t)
  <2>1. /\ p = 0 => deployed # 0 /\ PassesGate(deployed)
        /\ p # 0 => PassesGate(p)
    BY <1>6 DEF Materialize, Deployment
  <2>2. Proceed(t, "written", {}) /\ UNCHANGED rows /\ tx[t].at = "gated"
    BY <1>6 DEF Materialize, Ready
  <2>3. ASSUME NEW s \in TransactionState, s.at = "written", s.wants = {},
               s.kind = tx[t].kind, s.prompt = tx[t].prompt,
               s.experiment = tx[t].experiment, s.holds = tx[t].holds
        PROVE  StateInv(s)
    BY <1>1, <1>2, <2>1, <2>2, <2>3 DEF StateInv, Secured
  <2>4. QED
    BY <2>2, <2>3, ProceedKeeps
<1>7. QED
  BY <1>4, <1>5, <1>6

LEMMA StatusProceeds ==
    ASSUME PromptInv, NEW t \in Transaction,
           GateStart(t) \/ WriteStart(t) \/ WriteStop(t)
    PROVE  PromptInv'
<1>1. /\ StateInv(tx[t]) /\ tx[t].wants = {} /\ tx[t].kind \in {"start", "stop"}
      /\ ActionLock \in tx[t].holds
  BY DEF PromptInv, GateStart, WriteStart, WriteStop, Ready, StateInv, Secured
<1>2. PICK e \in Experiment : tx[t].experiment = {e}
  BY <1>1 DEF StateInv
<1>3. CASE GateStart(t)
  <2> DEFINE wants == PromptLocks(Variants[e])
  <2>1. wants \in SUBSET Lock
    BY PromptAssumption DEF PromptLocks, PromptLock, Lock
  <2>2. /\ Proceed(t, "gated", wants) /\ UNCHANGED rows
        /\ \A f \in Experiment : experiment[f] # "RUNNING"
        /\ tx[t].kind = "start"
    BY <1>2, <1>3 DEF GateStart, Ready
  <2>3. \A q \in Variants[e] : PromptLock(q) \in wants
    BY DEF PromptLocks
  <2> HIDE DEF wants
  <2>4. ASSUME NEW s \in TransactionState, s.at = "gated", s.wants = wants,
               s.kind = tx[t].kind, s.prompt = tx[t].prompt,
               s.experiment = tx[t].experiment, s.holds = tx[t].holds
        PROVE  StateInv(s)
    BY <1>1, <1>2, <2>2, <2>3, <2>4 DEF StateInv, Secured
  <2>5. QED
    BY <2>1, <2>2, <2>4, ProceedKeeps
<1>4. CASE WriteStart(t) \/ WriteStop(t)
  <2>1. Proceed(t, "written", {}) /\ UNCHANGED rows
    BY <1>4 DEF WriteStart, WriteStop
  <2>2. tx[t].kind = "start" =>
          /\ tx[t].at = "gated"
          /\ \A q \in Variants[e] : EffectiveCandidate(q)
    BY <1>2, <1>4 DEF WriteStart, WriteStop, Ready
  <2>3. ASSUME NEW s \in TransactionState, s.at = "written", s.wants = {},
               s.kind = tx[t].kind, s.prompt = tx[t].prompt,
               s.experiment = tx[t].experiment, s.holds = tx[t].holds
        PROVE  StateInv(s)
    BY <1>1, <1>2, <2>2, <2>3 DEF StateInv, Secured
  <2>4. QED
    BY <2>1, <2>3, ProceedKeeps
<1>5. QED
  BY <1>3, <1>4

LEMMA CreateKeeps ==
    ASSUME PromptInv, NEW e \in Experiment, CreateExperiment(e)
    PROVE  PromptInv'
<1>1. /\ experiment[e] = "absent" /\ experiment' = [experiment EXCEPT ![e] = "DRAFT"]
      /\ UNCHANGED <<evidence, decided, retired, deployed, tx>>
  BY DEF CreateExperiment
<1>2. /\ \A f \in Experiment : experiment'[f] = "RUNNING" <=> experiment[f] = "RUNNING"
      /\ PromptTypeOK'
  BY <1>1 DEF PromptInv, PromptTypeOK
<1>3. ASSUME NEW t \in Transaction PROVE StateInv(tx[t])'
  <2>1. StateInv(tx[t]) /\ UNCHANGED tx[t]
    BY <1>1 DEF PromptInv
  <2>2. \A p : EffectiveCandidate(p)' <=> EffectiveCandidate(p)
    BY <1>1 DEF EffectiveCandidate
  <2>3. \A p : PassesGate(p)' <=> PassesGate(p)
    BY <1>2, <2>2 DEF PassesGate, InExperiment
  <2>4. QED
    BY <1>1, <1>2, <2>1, <2>2, <2>3 DEF StateInv, Secured
<1>4. OneRunningExperiment'
  BY <1>2 DEF PromptInv, OneRunningExperiment
<1>5. QED
  BY <1>1, <1>2, <1>3, <1>4 DEF PromptInv

-----------------------------------------------------------------------------
(* A commit *)

\* What it writes is locked against everybody else.
LEMMA CommitRows ==
    ASSUME PromptInv, NEW u \in Transaction, Commit(u)
    PROVE  /\ PromptTypeOK'
           /\ \A p \in Prompt : PromptLock(p) \notin tx[u].holds =>
                /\ EffectiveCandidate(p) => EffectiveCandidate(p)'
                /\ PassesGate(p) => PassesGate(p)'
           /\ TenantLock \notin tx[u].holds => UNCHANGED deployed
           /\ ActionLock \notin tx[u].holds => UNCHANGED experiment
           /\ OneRunningExperiment'
<1> DEFINE s == tx[u]
           p == s.prompt
<1>1. /\ s \in TransactionState /\ StateInv(s) /\ s.at = "written" /\ s.wants = {}
      /\ Wrote(s.kind, u)
  BY DEF PromptInv, PromptTypeOK, Commit, StateInv
<1>2. /\ s.kind \in {"evaluate", "decide", "retire"} => p \in Prompt /\ PromptLock(p) \in s.holds
      /\ s.kind = "publish" => TenantLock \in s.holds
      /\ s.kind \in {"start", "stop"} => ActionLock \in s.holds
      /\ s.kind \notin {"start", "stop"} => s.experiment = {}
  BY <1>1 DEF StateInv, Secured
<1>3. PICK x : s.experiment \subseteq {x}
  BY <1>1, <1>2 DEF StateInv
<1>4. ASSUME NEW q \in Prompt, PromptLock(q) \notin s.holds
      PROVE  evidence'[q] = evidence[q] /\ decided \subseteq decided'
             /\ (q \in retired' => q \in retired)
  <2>1. s.kind \in {"evaluate", "retire"} => q # p
    BY <1>2, <1>4
  <2>2. QED
    BY <1>1, <2>1 DEF Wrote, PromptInv, PromptTypeOK
<1>5. ASSUME NEW q \in Prompt, PromptLock(q) \notin s.holds
      PROVE  EffectiveCandidate(q) => EffectiveCandidate(q)'
  BY <1>4, <1>5 DEF EffectiveCandidate
<1>6. experiment' = [e \in Experiment |->
         IF e \in s.experiment THEN IF s.kind = "start" THEN "RUNNING" ELSE "STOPPED"
         ELSE experiment[e]]
  BY <1>1 DEF Wrote
<1>7. ASSUME NEW e \in Experiment, experiment'[e] = "RUNNING"
      PROVE  experiment[e] = "RUNNING" \/ (s.kind = "start" /\ e \in s.experiment)
  BY <1>6, <1>7
<1>8. ASSUME NEW q \in Prompt, PromptLock(q) \notin s.holds
      PROVE  PassesGate(q) => PassesGate(q)'
  <2>1. ASSUME s.kind = "start", NEW e \in s.experiment PROVE q \notin Variants[e]
    BY <1>1, <1>8, <2>1 DEF StateInv, Secured
  <2>2. ~InExperiment(q) => ~InExperiment(q)'
    BY <1>7, <2>1 DEF InExperiment
  <2>3. QED
    BY <1>5, <1>8, <2>2 DEF PassesGate
<1>9. TenantLock \notin s.holds => UNCHANGED deployed
  BY <1>1, <1>2 DEF Wrote
<1>10. ActionLock \notin s.holds => UNCHANGED experiment
  BY <1>2, <1>6 DEF PromptInv, PromptTypeOK
<1>11. OneRunningExperiment'
  <2>1. CASE s.kind = "start"
    <3>1. \A f \in Experiment : experiment[f] # "RUNNING"
      BY <1>1, <2>1 DEF StateInv
    <3>2. QED
      BY <1>3, <1>7, <3>1 DEF OneRunningExperiment
  <2>2. CASE s.kind # "start"
    BY <1>7, <2>2 DEF PromptInv, OneRunningExperiment
  <2>3. QED
    BY <2>1, <2>2
<1>12. PromptTypeOK'
  <2>1. evidence' \in [Prompt -> [id : Nat, perfect : BOOLEAN]]
    <3>1. CASE s.kind = "evaluate"
      <4>1. [id |-> evidence[p].id + 1, perfect |-> s.perfect] \in [id : Nat, perfect : BOOLEAN]
        BY <1>1, <1>2, <3>1 DEF PromptInv, PromptTypeOK, TransactionState
      <4>2. evidence' = [evidence EXCEPT ![p] =
                           [id |-> evidence[p].id + 1, perfect |-> s.perfect]]
        BY <1>1, <1>2, <3>1 DEF Wrote, PromptInv, PromptTypeOK
      <4>3. QED
        BY <4>1, <4>2 DEF PromptInv, PromptTypeOK
    <3>2. CASE s.kind # "evaluate"
      BY <1>1, <3>2 DEF Wrote, PromptInv, PromptTypeOK
    <3>3. QED
      BY <3>1, <3>2
  <2>2. decided' \subseteq Prompt \X Nat /\ retired' \subseteq Prompt
    BY <1>1, <1>2 DEF Wrote, PromptInv, PromptTypeOK, TransactionState
  <2>3. deployed' \in Prompt \cup {0}
    BY <1>1 DEF Wrote, Deployment, PromptInv, PromptTypeOK, TransactionState
  <2>4. experiment' \in [Experiment -> {"absent", "DRAFT", "RUNNING", "STOPPED"}]
    BY <1>6 DEF PromptInv, PromptTypeOK
  <2>5. tx' \in [Transaction -> TransactionState]
    BY IdleTransaction DEF Commit, PromptInv, PromptTypeOK
  <2>6. QED
    BY <2>1, <2>2, <2>3, <2>4, <2>5 DEF PromptTypeOK
<1>13. QED
  BY <1>5, <1>8, <1>9, <1>10, <1>11, <1>12

LEMMA CommitKeeps ==
    ASSUME PromptInv, NEW u \in Transaction, Commit(u)
    PROVE  PromptInv'
<1>1. \A t \in Transaction : tx'[t] = IF t = u THEN NoTransaction ELSE tx[t]
  BY DEF Commit, PromptInv, PromptTypeOK
<1>2. \A t, v \in Transaction : t # v => tx'[t].holds \cap tx'[v].holds = {}
  <2>1. NoTransaction.holds = {}
    BY DEF NoTransaction
  <2>2. QED
    BY <1>1, <2>1 DEF PromptInv
<1>3. ASSUME NEW t \in Transaction PROVE StateInv(tx[t])'
  <2>1. CASE t = u
    <3>1. tx'[t] = NoTransaction
      BY <1>1, <2>1
    <3>2. QED
      BY <3>1 DEF StateInv, NoTransaction
  <2>2. CASE t # u
    <3>0. PICK s \in TransactionState : s = tx[t]
      BY DEF PromptInv, PromptTypeOK
    <3>1. /\ tx'[t] = s /\ StateInv(s) /\ s \in TransactionState
          /\ \A l \in s.holds : l \notin tx[u].holds
      BY <1>1, <2>2, <3>0 DEF PromptInv
    <3>2. TenantLock \in s.holds => UNCHANGED deployed
      BY <3>1, CommitRows
    <3>3. ActionLock \in s.holds => UNCHANGED experiment
      BY <3>1, CommitRows
    <3>4. ASSUME NEW p \in Prompt, PromptLock(p) \in s.holds
          PROVE  /\ EffectiveCandidate(p) => EffectiveCandidate(p)'
                 /\ PassesGate(p) => PassesGate(p)'
      BY <3>1, <3>4, CommitRows
    <3>5. ASSUME s.kind = "publish", s.at = "written"
          PROVE  /\ s.prompt = 0 => deployed' # 0 /\ PassesGate(deployed)'
                 /\ s.prompt # 0 => PassesGate(s.prompt)'
      <4>1. TenantLock \in s.holds /\ UNCHANGED deployed /\ s.wants = {}
        BY <3>1, <3>2, <3>5 DEF StateInv
      <4>2. s.prompt \in Prompt \cup {0} /\ deployed \in Prompt \cup {0}
        BY <3>1 DEF PromptInv, PromptTypeOK, TransactionState
      <4>3. ASSUME s.prompt = 0 PROVE deployed' # 0 /\ PassesGate(deployed)'
        <5>1. deployed \in Prompt /\ PromptLock(deployed) \in s.holds /\ PassesGate(deployed)
          BY <3>1, <3>5, <4>1, <4>2, <4>3 DEF StateInv, Secured
        <5>2. PICK p \in Prompt : p = deployed
          BY <5>1
        <5>3. PassesGate(p)'
          BY <3>4, <5>1, <5>2
        <5>4. p = deployed' /\ deployed' # 0
          BY <4>1, <5>1, <5>2, PromptAssumption
        <5>5. QED
          BY <5>3, <5>4 DEF PassesGate, EffectiveCandidate, InExperiment
      <4>4. ASSUME s.prompt # 0 PROVE PassesGate(s.prompt)'
        <5>1. s.prompt \in Prompt /\ PromptLock(s.prompt) \in s.holds /\ PassesGate(s.prompt)
          BY <3>1, <3>5, <4>1, <4>2, <4>4 DEF StateInv, Secured
        <5>2. QED
          BY <3>4, <5>1
      <4>5. QED
        BY <4>3, <4>4
    <3>6. ASSUME s.kind = "start", s.at = "written",
                 NEW e \in s.experiment, NEW p \in Variants[e]
          PROVE  EffectiveCandidate(p)'
      <4>1. p \in Prompt
        BY <3>1, PromptAssumption DEF TransactionState
      <4>2. PromptLock(p) \in s.holds /\ EffectiveCandidate(p)
        BY <3>1, <3>6 DEF StateInv, Secured
      <4>3. QED
        BY <3>4, <4>1, <4>2
    <3>7. StateInv(s)'
      BY <3>1, <3>2, <3>3, <3>5, <3>6 DEF StateInv, Secured
    <3>8. QED
      BY <3>1, <3>7 DEF StateInv, Secured, PassesGate, EffectiveCandidate, InExperiment
  <2>3. QED
    BY <2>1, <2>2
<1>4. QED
  BY <1>2, <1>3, CommitRows DEF PromptInv

LEMMA PromptStepInv == PromptInv /\ [PromptNext]_promptVars => PromptInv'
<1> SUFFICES ASSUME PromptInv, [PromptNext]_promptVars PROVE PromptInv'
  OBVIOUS
<1>1. CASE PromptNext
  BY <1>1, CreateKeeps, DecisionsBegin, DecisionWritten, PublishBegins, PublishProceeds,
     StatusBegins, StatusProceeds, TakeKeeps, RollBackKeeps, CommitKeeps DEF PromptNext
<1>2. CASE UNCHANGED promptVars
  BY <1>2 DEF promptVars, PromptInv, PromptTypeOK, StateInv, Secured, PassesGate,
              EffectiveCandidate, InExperiment, OneRunningExperiment
<1>3. QED
  BY <1>1, <1>2

\* Locks exclude, and a gated transaction knows what its locks keep as it was.
THEOREM PromptSafety == PromptSpec => []PromptInv
<1>1. PromptInit => PromptInv
  BY PromptInitInv
<1>2. PromptInv /\ [PromptNext]_promptVars => PromptInv'
  BY PromptStepInv
<1>3. QED
  BY <1>1, <1>2, PTL DEF PromptSpec

\* At most one experiment of the action is running.
THEOREM OneRunningTheorem == PromptSpec => []OneRunningExperiment
<1>1. PromptInv => OneRunningExperiment
  BY DEF PromptInv
<1>2. QED
  BY <1>1, PromptSafety, PTL

\* What is published or started is eligible at the moment of the commit.
THEOREM EligibleTheorem == PromptSpec => []EligibleAtCommit
<1>1. PromptInv => EligibleAtCommit
  <2> SUFFICES ASSUME PromptInv, NEW t \in Transaction, tx[t].at = "written",
                      NEW p \in Subject(t)
               PROVE  PassesGate(p)
    BY DEF EligibleAtCommit, PassesGate, EffectiveCandidate, InExperiment
  <2>1. StateInv(tx[t])
    BY DEF PromptInv
  <2>2. CASE tx[t].kind = "publish"
    BY <2>1, <2>2 DEF Subject, Deployment, StateInv
  <2>3. CASE tx[t].kind = "start"
    BY <2>1, <2>3 DEF Subject, StateInv, PassesGate, InExperiment
  <2>4. CASE tx[t].kind \notin {"publish", "start"}
    BY <2>4 DEF Subject
  <2>5. QED
    BY <2>2, <2>3, <2>4
<1>2. QED
  BY <1>1, PromptSafety, PTL

-----------------------------------------------------------------------------
(* Console access: what a request knows *)

GrantsAt(a, t) == {g \in grant : g.account = a /\ t < g.until}

Entered == {"resolved", "authorized", "showing", "signed"}

\* The state of a request at a time.  The grants it carries were those in force
\* at a time since it began.
AskOK(f, t) ==
    /\ f.at \in {"unbound", "binding"} => f = [at |-> f.at, wish |-> f.wish, began |-> f.began]
    /\ f.at \in Entered => f = [at |-> f.at, wish |-> f.wish, account |-> f.account,
                                access |-> f.access, began |-> f.began, expires |-> f.expires]
    /\ f.at \in Pending \cup Entered => f.wish \in Wishes /\ f.began \in Nat
    /\ f.at \in Pending => f.began <= t /\ t <= f.began + RequestLife
    /\ f.at \in Entered =>
         \E m \in 0..t : f.began <= m /\ f.access = GrantsAt(f.account, m)
    /\ f.at \in {"authorized", "showing", "signed"} =>
         Authorized(f.access, f.wish) /\ (f.wish.act = "bench" => f.wish.scope \in Site)
    /\ f.at = "showing" => f.wish.act \in Headed
    /\ f.at = "signed" /\ f.wish.act = "bench" =>
         f.expires \in Int /\ f.expires <= f.began + RequestLife + Skew + ReadLife

\* An authorization of a read: of the request of its reader, which has none before
\* it is signed, and minted when the grants it needs were there.
MintOK(m, ask, t) ==
    /\ m.reader \in Reader
    /\ ask[m.reader].at \in {"signed", "done", "refused"}
    /\ ask[m.reader].at = "signed" =>
         /\ m.account = ask[m.reader].account /\ m.act = ask[m.reader].wish.act
         /\ m.scope = Selected(ask[m.reader].wish)
    /\ m.act \in {"overview", "analytics", "detail"}
    /\ m.expires \in Int
    /\ \E u \in 0..t :
         /\ m.expires <= u + MintCap
         /\ HeldAt(m.account, VenueOf(m.scope), ReadNeeds(m.act), u)
         /\ m.scope = "platform" => HeldAt(m.account, "platform", "platform:admin", u)
         /\ m.raw => HeldAt(m.account, VenueOf(m.scope), "audit:read-raw", u)

ServedOK(s) ==
    LET v == VenueOf(s.scope) IN
    /\ s.act = "configure" => HeldAt(s.account, v, "tenant:configure", s.at)
    /\ s.act \in Headed => HeldAt(s.account, v, "console:read", s.at)
    /\ s.act = "prompts" => HeldAt(s.account, v, "ai:operate", s.at)
    /\ s.act = "platform" \/ (s.act = "bootstrap" /\ s.scope = "platform") =>
         HeldAt(s.account, "platform", "platform:admin", s.at)
    /\ s.act = "bootstrap" /\ s.scope # "platform" =>
         ListedWithin(s.account, v, s.at, RequestLife)
    /\ s.act \in {"overview", "analytics", "detail"} =>
         /\ HeldWithin(s.account, v, ReadNeeds(s.act), s.at, MintCap)
         /\ s.scope = "platform" =>
              HeldWithin(s.account, "platform", "platform:admin", s.at, MintCap)
         /\ s.raw => HeldWithin(s.account, v, "audit:read-raw", s.at, MintCap)
    /\ s.act = "bench" =>
         HeldWithin(s.account, v, "ai:operate", s.at, RequestLife + ReadLife + 2 * Skew)

AccessInv ==
    /\ now \in Nat
    /\ grant \subseteq Grant
    /\ asking = [r \in Reader |-> asking[r]]
    /\ \A r \in Reader : AskOK(asking[r], now)
    /\ \A m \in minted : MintOK(m, asking, now)
    /\ \A s \in served : ServedOK(s)

LEMMA AccessNats == /\ RequestLife \in Nat /\ ReadLife \in Nat /\ MintCap \in Nat
                    /\ Skew \in Nat /\ MaxTime \in Nat
  BY AccessAssumption, ClockAssumption

LEMMA AccessInitInv == AccessInit => AccessInv
<1> SUFFICES ASSUME AccessInit PROVE AccessInv
  OBVIOUS
<1>1. \A r \in Reader : asking[r].at = "idle"
  BY DEF AccessInit, Idle
<1>2. \A r \in Reader : AskOK(asking[r], now)
  BY <1>1 DEF AskOK, Entered, Pending
<1>3. grant \subseteq Grant
  BY AccessAssumption DEF AccessInit
<1>4. QED
  BY <1>2, <1>3 DEF AccessInit, AccessInv, ClockInit

-----------------------------------------------------------------------------
(* What is held *)

\* A capability is held by a grant of the operator that had not ended.
LEMMA HeldLemma ==
    ASSUME NEW a, NEW t, NEW v, NEW c, NEW G, G \subseteq GrantsAt(a, t),
           c \in Caps(OfPlatform(G) \cup OfVenue(G, v))
    PROVE  HeldAt(a, v, c, t)
<1>1. PICK g \in OfPlatform(G) \cup OfVenue(G, v) : c \in RoleCaps[g.role]
  BY DEF Caps
<1>2. g \in grant /\ g.account = a /\ t < g.until /\ g.scope \in {"platform", v}
  BY DEF GrantsAt, OfPlatform, OfVenue
<1>3. QED
  BY <1>1, <1>2 DEF HeldAt

LEMMA VenueHeldLemma ==
    ASSUME NEW a, NEW v, NEW c
    PROVE  /\ VenueHeld(a, v, c) => HeldAt(a, v, c, now)
           /\ PlatformHeld(a, c) => HeldAt(a, v, c, now)
<1>1. Active(a) = GrantsAt(a, now)
  BY DEF Active, GrantsAt
<1>2. Caps(OfPlatform(Active(a))) \subseteq Caps(OfPlatform(Active(a)) \cup OfVenue(Active(a), v))
  BY DEF Caps
<1>3. c \in Caps(OfPlatform(Active(a)) \cup OfVenue(Active(a), v)) => HeldAt(a, v, c, now)
  BY <1>1, HeldLemma
<1>4. QED
  BY <1>2, <1>3 DEF VenueHeld, PlatformHeld

\* Context finds the capability among the grants it has read.
LEMMA HoldsLemma ==
    ASSUME NEW a, NEW t, NEW v, NEW c, NEW needed, c \in needed,
           NEW G, G = GrantsAt(a, t), Holds(G, v, needed)
    PROVE  HeldAt(a, v, c, t)
<1>1. c \in Caps(OfPlatform(G)) \cup Caps(FirstOf(OfVenue(G, v)))
  BY DEF Holds
<1>2. OfPlatform(G) \cup FirstOf(OfVenue(G, v)) \subseteq OfPlatform(G) \cup OfVenue(G, v)
  BY DEF FirstOf
<1>3. c \in Caps(OfPlatform(G) \cup OfVenue(G, v))
  BY <1>1, <1>2 DEF Caps
<1>4. QED
  BY <1>3, HeldLemma

LEMMA VenueLemma ==
    ASSUME NEW w \in Wishes
    PROVE  /\ VenueOf(Selected(w)) = VenueOf(w.scope)
           /\ w.act \in {"configure", "bench"} => Selected(w) = w.scope
           /\ w.act \in Act
<1>1. w \in Wish
  BY AccessAssumption
<1>2. w.scope \in {"platform"} \cup Venue \cup Site /\ w.act \in Act
  BY <1>1 DEF Wish
<1>3. \A x \in {"platform"} \cup Venue \cup Site : VenueOf(x) \notin Site
  BY AccessAssumption DEF VenueOf
<1>4. VenueOf(VenueOf(w.scope)) = VenueOf(w.scope)
  BY <1>2, <1>3 DEF VenueOf
<1>5. Shape["configure"] = "tenant-or-location"
  BY DEF Shape
<1>6. w.act = "configure" => Selected(w) = w.scope
  BY <1>5 DEF Selected
<1>7. w.act = "bench" => Selected(w) = w.scope
  BY DEF Selected
<1>8. Selected(w) \in {w.scope, VenueOf(w.scope)}
  BY DEF Selected
<1>9. QED
  BY <1>2, <1>4, <1>6, <1>7, <1>8

-----------------------------------------------------------------------------
(* A request goes on *)

\* How a request looks when only its place changes.
LEMMA PlacedLemma ==
    ASSUME NEW f, NEW t, AskOK(f, t), f.at \in Pending \cup Entered, NEW how, NEW g,
           g = [f EXCEPT !.at = how]
    PROVE  /\ g.at = how /\ g.wish = f.wish /\ g.began = f.began
           /\ f.at \in {"unbound", "binding"} => g = [at |-> how, wish |-> f.wish, began |-> f.began]
           /\ f.at \in Entered =>
                /\ g = [at |-> how, wish |-> f.wish, account |-> f.account,
                        access |-> f.access, began |-> f.began, expires |-> f.expires]
                /\ g.account = f.account /\ g.access = f.access /\ g.expires = f.expires
<1>1. CASE f.at \in {"unbound", "binding"}
  <2>1. f = [at |-> f.at, wish |-> f.wish, began |-> f.began]
    BY <1>1 DEF AskOK
  <2>2. g = [at |-> how, wish |-> f.wish, began |-> f.began]
    BY <2>1
  <2>3. QED
    BY <1>1, <2>2 DEF Entered
<1>2. CASE f.at \in Entered
  <2>1. f = [at |-> f.at, wish |-> f.wish, account |-> f.account,
             access |-> f.access, began |-> f.began, expires |-> f.expires]
    BY <1>2 DEF AskOK
  <2>2. g = [at |-> how, wish |-> f.wish, account |-> f.account,
             access |-> f.access, began |-> f.began, expires |-> f.expires]
    BY <2>1
  <2>3. QED
    BY <1>2, <2>2 DEF Entered
<1>3. QED
  BY <1>1, <1>2 DEF Pending, Entered

LEMMA FinishedLemma ==
    ASSUME NEW f, NEW t, f.at \in {"idle", "done", "refused", "failed"}
    PROVE  AskOK(f, t)
  BY DEF AskOK, Pending, Entered

LEMMA EnterLemma ==
    ASSUME NEW f, NEW w \in Wishes, NEW a, NEW began \in Nat, now \in Nat,
           began <= now, now <= began + RequestLife,
           f = [at |-> IF "console:read" \in Caps(Active(a)) THEN "resolved" ELSE "refused",
                wish |-> w, account |-> a, access |-> Active(a), began |-> began,
                expires |-> 0]
    PROVE  /\ AskOK(f, now) /\ f.at \in {"resolved", "refused"}
           /\ f.wish = w /\ f.account = a
           /\ f.at = "refused" => "console:read" \notin Caps(Active(a))
<1>1. /\ f.at \in {"resolved", "refused"}
      /\ f.at = "refused" => "console:read" \notin Caps(Active(a))
      /\ f.wish = w /\ f.account = a /\ f.access = Active(a) /\ f.began = began /\ f.expires = 0
      /\ f = [at |-> f.at, wish |-> f.wish, account |-> f.account,
              access |-> f.access, began |-> f.began, expires |-> f.expires]
  OBVIOUS
<1>2. now \in 0..now /\ Active(a) = GrantsAt(a, now)
  BY DEF Active, GrantsAt
<1>3. \E m \in 0..now : f.began <= m /\ f.access = GrantsAt(f.account, m)
  BY <1>1, <1>2
<1>4. AskOK(f, now)
  BY <1>1, <1>3 DEF AskOK, Pending, Entered
<1>5. QED
  BY <1>1, <1>4

\* A step of one request that mints nothing, serves what may be served, and leaves
\* no authorization behind: it had none yet, or has used it.
LEMMA AskServedLemma ==
    ASSUME AccessInv, NEW r \in Reader, NEW f,
           asking' = [asking EXCEPT ![r] = f],
           AskOK(f, now),
           now' = now, grant' = grant, minted' = minted,
           \A s \in served' : s \in served \/ ServedOK(s),
           \/ asking[r].at \notin {"signed", "done", "refused"}
           \/ asking[r].at = "signed" /\ f.at \in {"done", "refused"}
    PROVE  AccessInv'
<1>1. /\ asking'[r] = f /\ asking' = [q \in Reader |-> asking'[q]]
      /\ \A q \in Reader : q # r => asking'[q] = asking[q]
  BY DEF AccessInv
<1>2. \A q \in Reader : AskOK(asking[q], now)'
  <2>1. \A q \in Reader : AskOK(asking'[q], now)
    BY <1>1 DEF AccessInv
  <2>2. QED
    BY <2>1 DEF AskOK, GrantsAt
<1>3. ASSUME NEW m \in minted PROVE MintOK(m, asking, now)'
  <2>1. MintOK(m, asking, now)
    BY DEF AccessInv
  <2>2. m.reader = r => asking[r].at = "signed" /\ asking'[r].at \in {"done", "refused"}
    BY <1>1, <2>1 DEF MintOK
  <2>3. m.reader # r => asking'[m.reader] = asking[m.reader]
    BY <1>1, <2>1 DEF MintOK
  <2>4. QED
    BY <2>1, <2>2, <2>3 DEF MintOK, HeldAt
<1>4. \A s \in served' : ServedOK(s)'
  BY DEF AccessInv, ServedOK, HeldAt, HeldWithin, ListedWithin
<1>5. QED
  BY <1>1, <1>2, <1>3, <1>4 DEF AccessInv

LEMMA AskLemma ==
    ASSUME AccessInv, NEW r \in Reader, NEW f,
           asking' = [asking EXCEPT ![r] = f],
           AskOK(f, now),
           now' = now, grant' = grant, minted' = minted, served' = served,
           \/ asking[r].at \notin {"signed", "done", "refused"}
           \/ asking[r].at = "signed" /\ f.at \in {"done", "refused"}
    PROVE  AccessInv'
<1>1. \A s \in served' : s \in served \/ ServedOK(s)
  OBVIOUS
<1>2. QED
  BY <1>1, AskServedLemma

LEMMA EndServedLemma ==
    ASSUME AccessInv, NEW r \in Reader, NEW how,
           Ended(r, how), how \in {"done", "refused", "failed"},
           now' = now, grant' = grant, minted' = minted,
           \A s \in served' : s \in served \/ ServedOK(s),
           \/ asking[r].at \in Pending
           \/ asking[r].at = "signed" /\ how \in {"done", "refused"}
    PROVE  AccessInv'
<1>1. PICK g : g = [asking[r] EXCEPT !.at = how]
  OBVIOUS
<1>2. AskOK(asking[r], now) /\ asking[r].at \in Pending \cup Entered
  BY DEF AccessInv, Entered
<1>3. g.at = how
  BY <1>1, <1>2, PlacedLemma
<1>4. AskOK(g, now)
  BY <1>3, FinishedLemma
<1>5. asking' = [asking EXCEPT ![r] = g]
  BY <1>1 DEF Ended, Step
<1>6. asking[r].at \in Pending => asking[r].at \notin {"signed", "done", "refused"}
  BY DEF Pending
<1>7. QED
  BY <1>3, <1>4, <1>5, <1>6, AskServedLemma

LEMMA EndLemma ==
    ASSUME AccessInv, NEW r \in Reader, NEW how,
           Ended(r, how), how \in {"done", "refused", "failed"},
           now' = now, grant' = grant, minted' = minted, served' = served,
           \/ asking[r].at \in Pending
           \/ asking[r].at = "signed" /\ how \in {"done", "refused"}
    PROVE  AccessInv'
<1>1. \A s \in served' : s \in served \/ ServedOK(s)
  OBVIOUS
<1>2. QED
  BY <1>1, EndServedLemma

LEMMA LookUpLemma ==
    ASSUME AccessInv, NEW r \in Reader, NEW w \in Wishes, LookUp(r, w)
    PROVE  AccessInv'
<1>1. /\ asking[r].at = "idle" /\ now \in Nat /\ RequestLife \in Nat
      /\ now' = now /\ grant' = grant /\ minted' = minted /\ served' = served
  BY AccessNats DEF LookUp, AccessInv
<1>2. ASSUME NEW a, Enter(r, w, a, now) PROVE AccessInv'
  <2>1. PICK f : f = [at |-> IF "console:read" \in Caps(Active(a)) THEN "resolved" ELSE "refused",
                      wish |-> w, account |-> a, access |-> Active(a), began |-> now,
                      expires |-> 0]
    OBVIOUS
  <2>2. now <= now /\ now <= now + RequestLife
    BY <1>1
  <2>3. AskOK(f, now)
    BY <1>1, <2>1, <2>2, EnterLemma
  <2>4. asking' = [asking EXCEPT ![r] = f]
    BY <1>2, <2>1 DEF Enter, Step
  <2>5. QED
    BY <1>1, <2>3, <2>4, AskLemma
<1>3. ASSUME Step(r, [at |-> "unbound", wish |-> w, began |-> now]) PROVE AccessInv'
  <2>1. PICK f : f = [at |-> "unbound", wish |-> w, began |-> now]
    OBVIOUS
  <2>2. /\ f.at = "unbound" /\ f.wish = w /\ f.began = now
        /\ f = [at |-> f.at, wish |-> f.wish, began |-> f.began]
    BY <2>1
  <2>3. AskOK(f, now)
    BY <1>1, <2>2 DEF AskOK, Pending, Entered
  <2>4. asking' = [asking EXCEPT ![r] = f]
    BY <1>3, <2>1 DEF Step
  <2>5. QED
    BY <1>1, <2>3, <2>4, AskLemma
<1>4. QED
  BY <1>2, <1>3 DEF LookUp

\* A request that was looked up enters with the account it is bound to.
LEMMA EnteredLemma ==
    ASSUME AccessInv, NEW r \in Reader, asking[r].at \in {"unbound", "binding"}, NEW a,
           Enter(r, asking[r].wish, a, asking[r].began),
           now' = now, grant' = grant, minted' = minted, served' = served
    PROVE  AccessInv'
<1>1. PICK w, b : w = asking[r].wish /\ b = asking[r].began
  OBVIOUS
<1>2. w \in Wishes /\ b \in Nat /\ b <= now /\ now <= b + RequestLife /\ now \in Nat
  BY <1>1 DEF AccessInv, AskOK, Pending
<1>3. PICK f : f = [at |-> IF "console:read" \in Caps(Active(a)) THEN "resolved" ELSE "refused",
                    wish |-> w, account |-> a, access |-> Active(a), began |-> b,
                    expires |-> 0]
  OBVIOUS
<1>4. AskOK(f, now)
  BY <1>2, <1>3, EnterLemma
<1>5. asking' = [asking EXCEPT ![r] = f]
  BY <1>1, <1>3 DEF Enter, Step
<1>6. QED
  BY <1>4, <1>5, AskLemma

LEMMA BindLemma ==
    ASSUME AccessInv, NEW r \in Reader, Bind(r) \/ CommitBinding(r)
    PROVE  AccessInv'
<1>1. /\ now' = now /\ grant' = grant /\ minted' = minted /\ served' = served
      /\ asking[r].at \in {"unbound", "binding"}
  BY DEF Bind, CommitBinding
<1>2. ASSUME NEW a, Enter(r, asking[r].wish, a, asking[r].began) PROVE AccessInv'
  BY <1>1, <1>2, EnteredLemma
<1>3. ASSUME NEW how \in {"refused", "failed"}, Ended(r, how) PROVE AccessInv'
  BY <1>1, <1>3, EndLemma DEF Pending
<1>4. ASSUME Ended(r, "binding") PROVE AccessInv'
  <2>1. PICK g : g = [asking[r] EXCEPT !.at = "binding"]
    OBVIOUS
  <2>2. AskOK(asking[r], now) /\ asking[r].at \in Pending \cup Entered
    BY <1>1 DEF AccessInv, Pending
  <2>3. /\ g.at = "binding" /\ g.wish = asking[r].wish /\ g.began = asking[r].began
        /\ g = [at |-> "binding", wish |-> asking[r].wish, began |-> asking[r].began]
    BY <1>1, <2>1, <2>2, PlacedLemma
  <2>4. AskOK(g, now)
    BY <1>1, <2>2, <2>3 DEF AskOK, Pending, Entered
  <2>5. asking' = [asking EXCEPT ![r] = g]
    BY <1>4, <2>1 DEF Ended, Step
  <2>6. QED
    BY <1>1, <2>4, <2>5, AskLemma
<1>5. QED
  BY <1>2, <1>3, <1>4 DEF Bind, CommitBinding, SecondLook

LEMMA DecideLemma ==
    ASSUME AccessInv, NEW r \in Reader, DecideAccess(r)
    PROVE  AccessInv'
<1>1. /\ now' = now /\ grant' = grant /\ minted' = minted /\ served' = served
      /\ asking[r].at = "resolved" /\ AskOK(asking[r], now)
  BY DEF DecideAccess, AccessInv
<1>2. CASE Ended(r, "refused")
  BY <1>1, <1>2, EndLemma DEF Pending
<1>3. CASE Ended(r, "authorized") /\ Authorized(asking[r].access, asking[r].wish)
             /\ (asking[r].wish.act = "bench" => asking[r].wish.scope \in Site)
  <2>1. PICK g : g = [asking[r] EXCEPT !.at = "authorized"]
    OBVIOUS
  <2>2. /\ g.at = "authorized" /\ g.wish = asking[r].wish /\ g.began = asking[r].began
        /\ g = [at |-> "authorized", wish |-> asking[r].wish, account |-> asking[r].account,
                access |-> asking[r].access, began |-> asking[r].began,
                expires |-> asking[r].expires]
        /\ g.account = asking[r].account /\ g.access = asking[r].access
        /\ g.expires = asking[r].expires
    BY <1>1, <2>1, PlacedLemma DEF Pending, Entered
  <2>3. AskOK(g, now)
    BY <1>1, <1>3, <2>2 DEF AskOK, Pending, Entered
  <2>4. asking' = [asking EXCEPT ![r] = g]
    BY <1>3, <2>1 DEF Ended, Step
  <2>5. QED
    BY <1>1, <2>3, <2>4, AskLemma
<1>4. QED
  BY <1>2, <1>3 DEF DecideAccess

LEMMA SignBenchLemma ==
    ASSUME AccessInv, NEW r \in Reader, SignBench(r)
    PROVE  AccessInv'
<1>1. /\ now' = now /\ grant' = grant /\ minted' = minted /\ served' = served
      /\ asking[r].at = "authorized" /\ AskOK(asking[r], now) /\ now \in Nat
  BY DEF SignBench, AccessInv
<1>2. PICK t \in AppClock : Step(r, [asking[r] EXCEPT !.at = "signed", !.expires = t + ReadLife])
  BY DEF SignBench
<1>3. PICK f : f = asking[r]
  OBVIOUS
<1>4. f = [at |-> f.at, wish |-> f.wish, account |-> f.account,
           access |-> f.access, began |-> f.began, expires |-> f.expires]
  BY <1>1, <1>3 DEF AskOK, Entered
<1>5. PICK g : g = [f EXCEPT !.at = "signed", !.expires = t + ReadLife]
  OBVIOUS
<1>6. g = [at |-> "signed", wish |-> f.wish, account |-> f.account,
           access |-> f.access, began |-> f.began, expires |-> t + ReadLife]
  BY <1>4, <1>5
<1>7. /\ g.at = "signed" /\ g.wish = f.wish /\ g.account = f.account
      /\ g.access = f.access /\ g.began = f.began /\ g.expires = t + ReadLife
  BY <1>6
<1>8. /\ f.began \in Nat /\ now <= f.began + RequestLife /\ f.wish \in Wishes
      /\ Authorized(f.access, f.wish) /\ (f.wish.act = "bench" => f.wish.scope \in Site)
      /\ \E m \in 0..now : f.began <= m /\ f.access = GrantsAt(f.account, m)
  BY <1>1, <1>3 DEF AskOK, Pending, Entered
<1>9. t + ReadLife \in Int /\ t + ReadLife <= f.began + RequestLife + Skew + ReadLife
  <2>1. t \in Nat /\ t <= now + Skew
    BY <1>1, AccessNats DEF AppClock
  <2>2. QED
    BY <1>1, <1>8, <2>1, AccessNats
<1>10. AskOK(g, now)
  BY <1>6, <1>7, <1>8, <1>9 DEF AskOK, Pending, Entered
<1>11. asking' = [asking EXCEPT ![r] = g]
  BY <1>2, <1>3, <1>5 DEF Step
<1>12. QED
  BY <1>1, <1>10, <1>11, AskLemma

LEMMA MintLemma ==
    ASSUME AccessInv, NEW r \in Reader, Mint(r)
    PROVE  AccessInv'
<1>1. /\ now' = now /\ grant' = grant /\ served' = served /\ now \in Nat
      /\ asking[r].at = "authorized" /\ AskOK(asking[r], now)
      /\ asking[r].wish.act \in {"overview", "analytics", "detail"}
      /\ asking[r].wish \in Wishes
  BY DEF Mint, AccessInv, AskOK, Entered
<1>2. ASSUME NEW how \in {"refused", "failed"}, Ended(r, how), minted' = minted
      PROVE  AccessInv'
  BY <1>1, <1>2, EndLemma DEF Pending
<1>3. ASSUME NEW t \in AppClock, ~(t + ReadLife > now + MintCap),
             Mintable(asking[r].account, asking[r].wish),
             minted' = {m \in minted : now < m.expires} \cup
                   {[reader |-> r, account |-> asking[r].account, act |-> asking[r].wish.act,
                     scope |-> Selected(asking[r].wish), raw |-> RawMinted(r),
                     expires |-> t + ReadLife]},
             Ended(r, "signed")
      PROVE  AccessInv'
  <2>1. PICK g : g = [asking[r] EXCEPT !.at = "signed"]
    OBVIOUS
  <2>2. PICK f : f = asking[r]
    OBVIOUS
  <2>3. /\ g.at = "signed" /\ g.wish = f.wish /\ g.began = f.began
        /\ g = [at |-> "signed", wish |-> f.wish, account |-> f.account,
                access |-> f.access, began |-> f.began, expires |-> f.expires]
        /\ g.account = f.account /\ g.access = f.access /\ g.expires = f.expires
    BY <1>1, <2>1, <2>2, PlacedLemma DEF Pending, Entered
  <2>4. f.wish.act # "bench"
    BY <1>1, <2>2
  <2>5. AskOK(g, now)
    BY <1>1, <2>2, <2>3, <2>4 DEF AskOK, Pending, Entered
  <2>6. /\ asking' = [q \in Reader |-> asking'[q]] /\ asking'[r] = g
        /\ \A q \in Reader : q # r => asking'[q] = asking[q]
    BY <1>3, <2>1 DEF Ended, Step, AccessInv
  <2>7. \A q \in Reader : AskOK(asking[q], now)'
    <3>1. \A q \in Reader : AskOK(asking'[q], now)
      BY <2>5, <2>6 DEF AccessInv
    <3>2. QED
      BY <1>1, <3>1 DEF AskOK, GrantsAt
  <2>8. ASSUME NEW m \in minted PROVE MintOK(m, asking, now)'
    <3>1. MintOK(m, asking, now)
      BY DEF AccessInv
    <3>2. m.reader # r /\ m.reader \in Reader
      BY <1>1, <3>1 DEF MintOK
    <3>3. asking'[m.reader] = asking[m.reader]
      BY <2>6, <3>2
    <3>4. QED
      BY <1>1, <3>1, <3>3 DEF MintOK, HeldAt
  <2>9. PICK n : n = [reader |-> r, account |-> f.account, act |-> f.wish.act,
                     scope |-> Selected(f.wish), raw |-> RawMinted(r), expires |-> t + ReadLife]
    OBVIOUS
  <2>10. /\ n.reader = r /\ n.account = f.account /\ n.act = f.wish.act
         /\ n.scope = Selected(f.wish) /\ n.expires = t + ReadLife
         /\ n.raw => RawMinted(r)
    BY <2>9
  <2>11. VenueOf(n.scope) = VenueOf(f.wish.scope)
    BY <1>1, <2>2, <2>10, VenueLemma
  <2>12. /\ HeldAt(n.account, VenueOf(n.scope), ReadNeeds(n.act), now)
         /\ n.scope = "platform" => HeldAt(n.account, "platform", "platform:admin", now)
    BY <1>3, <2>2, <2>10, <2>11, VenueHeldLemma DEF Mintable
  <2>13. n.raw => HeldAt(n.account, VenueOf(n.scope), "audit:read-raw", now)
    <3>1. ASSUME n.raw PROVE HeldAt(n.account, VenueOf(n.scope), "audit:read-raw", now)
      <4>1. f.wish.act = "detail" /\ VenueHeld(f.account, Selected(f.wish), "audit:read-raw")
        BY <2>2, <2>10, <3>1 DEF RawMinted
      <4>2. Selected(f.wish) = VenueOf(f.wish.scope)
        <5>1. Shape["detail"] = "tenant"
          BY DEF Shape
        <5>2. QED
          BY <4>1, <5>1 DEF Selected
      <4>3. QED
        BY <2>10, <2>11, <4>1, <4>2, VenueHeldLemma
    <3>2. QED
      BY <3>1
  <2>14. n.expires \in Int /\ n.expires <= now + MintCap /\ now \in 0..now
    <3>1. t \in Nat /\ t + ReadLife \in Nat /\ now + MintCap \in Nat
      BY <1>1, AccessNats DEF AppClock
    <3>2. QED
      BY <1>1, <1>3, <2>10, <3>1
  <2>15. MintOK(n, asking, now)'
    <3>1. MintOK(n, asking', now)
      BY <1>1, <2>2, <2>3, <2>6, <2>10, <2>12, <2>13, <2>14 DEF MintOK
    <3>2. QED
      BY <1>1, <3>1 DEF MintOK, HeldAt
  <2>16. \A m \in minted' : m \in minted \/ m = n
    BY <1>3, <2>2, <2>9
  <2>17. \A s \in served : ServedOK(s)'
    BY <1>1 DEF AccessInv, ServedOK, HeldAt, HeldWithin, ListedWithin
  <2>18. QED
    BY <1>1, <2>6, <2>7, <2>8, <2>15, <2>16, <2>17 DEF AccessInv
<1>4. QED
  BY <1>2, <1>3 DEF Mint

-----------------------------------------------------------------------------
(* A request is served *)

\* What was logged of a request.
LEMMA LogLemma ==
    ASSUME AccessInv, NEW r \in Reader, NEW raw, Ended(r, "done"), Log(r, raw),
           \/ asking[r].at \in Pending \/ asking[r].at = "signed",
           now' = now, grant' = grant, minted' = minted,
           NEW s, s = [reader |-> r, account |-> asking[r].account, act |-> asking[r].wish.act,
                       scope |-> Selected(asking[r].wish), raw |-> raw, at |-> now],
           ServedOK(s)
    PROVE  AccessInv'
<1>1. served' = served \cup {s}
  BY DEF Log, Entry
<1>2. \A x \in served' : x \in served \/ ServedOK(x)
  BY <1>1
<1>3. QED
  BY <1>2, EndServedLemma

LEMMA WriteLemma ==
    ASSUME AccessInv, NEW r \in Reader, Write(r)
    PROVE  AccessInv'
<1>1. /\ now' = now /\ grant' = grant /\ minted' = minted
      /\ asking[r].at = "authorized" /\ asking[r].wish.act = "configure"
      /\ asking[r].wish \in Wishes /\ asking[r].at \in Pending
  BY DEF Write, AccessInv, AskOK, Entered, Pending
<1>2. CASE Ended(r, "failed") /\ UNCHANGED served
  BY <1>1, <1>2, EndLemma
<1>3. CASE /\ VenueHeld(asking[r].account, VenueOf(asking[r].wish.scope), "tenant:configure")
           /\ Ended(r, "done") /\ Log(r, FALSE)
  <2>1. PICK f : f = asking[r]
    OBVIOUS
  <2>2. PICK s : s = [reader |-> r, account |-> f.account, act |-> f.wish.act,
                      scope |-> Selected(f.wish), raw |-> FALSE, at |-> now]
    OBVIOUS
  <2>3. /\ s.account = f.account /\ s.act = "configure" /\ s.scope = Selected(f.wish)
        /\ s.at = now
    BY <1>1, <2>1, <2>2
  <2>4. VenueOf(s.scope) = VenueOf(f.wish.scope)
    BY <1>1, <2>1, <2>3, VenueLemma
  <2>5. HeldAt(s.account, VenueOf(s.scope), "tenant:configure", s.at)
    BY <1>3, <2>1, <2>3, <2>4, VenueHeldLemma
  <2>6. ServedOK(s)
    BY <2>3, <2>5 DEF ServedOK, Headed
  <2>7. QED
    BY <1>1, <1>3, <2>1, <2>2, <2>6, LogLemma
<1>4. QED
  BY <1>2, <1>3 DEF Write

-----------------------------------------------------------------------------
(* The parts of a page *)

\* What a transaction of a page has read of the tenant.
LEMMA PartLemma ==
    ASSUME AccessInv, NEW r \in Reader, asking[r].wish \in Wishes,
           NEW c, \/ asking[r].wish.act \in Headed /\ c = "console:read"
                  \/ asking[r].wish.act = "prompts" /\ c = "ai:operate",
           VenueHeld(asking[r].account, VenueOf(asking[r].wish.scope), c),
           NEW s, s = [reader |-> r, account |-> asking[r].account, act |-> asking[r].wish.act,
                       scope |-> Selected(asking[r].wish), raw |-> FALSE, at |-> now]
    PROVE  ServedOK(s)
<1>1. PICK f : f = asking[r]
  OBVIOUS
<1>2. /\ s.account = f.account /\ s.act = f.wish.act /\ s.scope = Selected(f.wish)
      /\ s.at = now
  BY <1>1
<1>3. VenueOf(s.scope) = VenueOf(f.wish.scope)
  BY <1>1, <1>2, VenueLemma
<1>4. HeldAt(s.account, VenueOf(s.scope), c, s.at)
  BY <1>1, <1>2, <1>3, VenueHeldLemma
<1>5. s.act \notin {"configure", "overview", "analytics", "detail", "bench", "platform",
                    "bootstrap"}
  BY <1>1, <1>2 DEF Headed
<1>6. \/ s.act \in Headed /\ s.act # "prompts" /\ c = "console:read"
      \/ s.act = "prompts" /\ s.act \notin Headed /\ c = "ai:operate"
  BY <1>1, <1>2 DEF Headed
<1>7. QED
  BY <1>4, <1>5, <1>6 DEF ServedOK

LEMMA HeaderLemma ==
    ASSUME AccessInv, NEW r \in Reader, ReadHeader(r)
    PROVE  AccessInv'
<1>1. /\ now' = now /\ grant' = grant /\ minted' = minted
      /\ asking[r].at = "authorized" /\ asking[r].wish.act \in Headed
      /\ AskOK(asking[r], now) /\ asking[r].wish \in Wishes
  BY DEF ReadHeader, AccessInv, AskOK, Entered, Pending
<1>2. CASE Ended(r, "refused") /\ UNCHANGED served
  BY <1>1, <1>2, EndLemma DEF Pending
<1>3. CASE /\ VenueHeld(asking[r].account, VenueOf(asking[r].wish.scope), "console:read")
           /\ Ended(r, "showing") /\ Log(r, FALSE)
  <2>1. PICK g : g = [asking[r] EXCEPT !.at = "showing"]
    OBVIOUS
  <2>2. /\ g.at = "showing" /\ g.wish = asking[r].wish /\ g.began = asking[r].began
        /\ g = [at |-> "showing", wish |-> asking[r].wish, account |-> asking[r].account,
                access |-> asking[r].access, began |-> asking[r].began,
                expires |-> asking[r].expires]
        /\ g.account = asking[r].account /\ g.access = asking[r].access
        /\ g.expires = asking[r].expires
    BY <1>1, <2>1, PlacedLemma DEF Pending, Entered
  <2>3. AskOK(g, now)
    BY <1>1, <2>2 DEF AskOK, Pending, Entered
  <2>4. asking' = [asking EXCEPT ![r] = g]
    BY <1>3, <2>1 DEF Ended, Step
  <2>5. PICK s : s = [reader |-> r, account |-> asking[r].account, act |-> asking[r].wish.act,
                      scope |-> Selected(asking[r].wish), raw |-> FALSE, at |-> now]
    OBVIOUS
  <2>6. ServedOK(s)
    BY <1>1, <1>3, <2>5, PartLemma
  <2>7. \A x \in served' : x \in served \/ ServedOK(x)
    BY <1>3, <2>5, <2>6 DEF Log, Entry
  <2>8. QED
    BY <1>1, <2>3, <2>4, <2>7, AskServedLemma
<1>4. QED
  BY <1>2, <1>3 DEF ReadHeader

LEMMA RowsLemma ==
    ASSUME AccessInv, NEW r \in Reader, ReadRows(r) \/ ReadForm(r) \/ ReadPrompts(r)
    PROVE  AccessInv'
<1>1. /\ now' = now /\ grant' = grant /\ minted' = minted
      /\ asking[r].at \in {"authorized", "showing"}
      /\ AskOK(asking[r], now) /\ asking[r].wish \in Wishes
      /\ asking[r].at = "showing" => asking[r].wish.act \in Headed
  BY DEF ReadRows, ReadForm, ReadPrompts, AccessInv, AskOK, Entered, Pending
<1>2. ASSUME NEW how \in {"done", "refused"}, Ended(r, how), UNCHANGED served PROVE AccessInv'
  BY <1>1, <1>2, EndLemma DEF Pending
<1>3. ASSUME NEW c, \/ asking[r].wish.act \in Headed /\ c = "console:read"
                    \/ asking[r].wish.act = "prompts" /\ c = "ai:operate",
             VenueHeld(asking[r].account, VenueOf(asking[r].wish.scope), c),
             Ended(r, "done"), Log(r, FALSE)
      PROVE  AccessInv'
  <2>1. PICK s : s = [reader |-> r, account |-> asking[r].account, act |-> asking[r].wish.act,
                      scope |-> Selected(asking[r].wish), raw |-> FALSE, at |-> now]
    OBVIOUS
  <2>2. ServedOK(s)
    BY <1>1, <1>3, <2>1, PartLemma
  <2>3. QED
    BY <1>1, <1>3, <2>1, <2>2, LogLemma DEF Pending
<1>4. CASE ReadRows(r)
  BY <1>1, <1>2, <1>3, <1>4 DEF ReadRows
<1>5. CASE ReadForm(r)
  BY <1>1, <1>2, <1>3, <1>5 DEF ReadForm
<1>6. CASE ReadPrompts(r)
  BY <1>2, <1>3, <1>6 DEF ReadPrompts
<1>7. QED
  BY <1>4, <1>5, <1>6

LEMMA PlatformPageLemma ==
    ASSUME AccessInv, NEW r \in Reader, ReadPlatform(r)
    PROVE  AccessInv'
<1>1. /\ now' = now /\ grant' = grant /\ minted' = minted
      /\ asking[r].at = "authorized" /\ asking[r].wish.act = "platform"
  BY DEF ReadPlatform
<1>2. ASSUME NEW how \in {"done", "failed"}, Ended(r, how), UNCHANGED served PROVE AccessInv'
  BY <1>1, <1>2, EndLemma DEF Pending
<1>3. CASE /\ PlatformHeld(asking[r].account, "platform:admin")
           /\ Ended(r, "done") /\ Log(r, FALSE)
  <2>1. PICK s : s = [reader |-> r, account |-> asking[r].account, act |-> asking[r].wish.act,
                      scope |-> Selected(asking[r].wish), raw |-> FALSE, at |-> now]
    OBVIOUS
  <2>2. s.account = asking[r].account /\ s.act = "platform" /\ s.at = now
    BY <1>1, <2>1
  <2>3. HeldAt(s.account, "platform", "platform:admin", s.at)
    BY <1>3, <2>2, VenueHeldLemma
  <2>4. ServedOK(s)
    BY <2>2, <2>3 DEF ServedOK, Headed
  <2>5. QED
    BY <1>1, <1>3, <2>1, <2>4, LogLemma DEF Pending
<1>4. QED
  BY <1>2, <1>3 DEF ReadPlatform

LEMMA BootstrapLemma ==
    ASSUME AccessInv, NEW r \in Reader, ShowBootstrap(r)
    PROVE  AccessInv'
<1>1. /\ now' = now /\ grant' = grant /\ minted' = minted /\ now \in Nat
      /\ asking[r].at = "authorized" /\ asking[r].wish.act = "bootstrap"
      /\ Ended(r, "done")
  BY DEF ShowBootstrap, AccessInv
<1>2. PICK f : f = asking[r]
  OBVIOUS
<1>3. /\ f.began \in Nat /\ now <= f.began + RequestLife
      /\ \E m \in 0..now : f.began <= m /\ f.access = GrantsAt(f.account, m)
  BY <1>1, <1>2 DEF AccessInv, AskOK, Pending, Entered
<1>4. PICK m \in 0..now : f.began <= m /\ f.access = GrantsAt(f.account, m)
  BY <1>3
<1>5. now <= m + RequestLife
  BY <1>1, <1>3, <1>4, AccessNats
<1>6. ASSUME NEW v, NEW s,
             s = [reader |-> r, account |-> f.account, act |-> f.wish.act,
                  scope |-> v, raw |-> FALSE, at |-> now],
             \/ v = "platform" /\ PlatformHeld(f.account, "platform:admin")
             \/ v # "platform" /\ v \in {g.scope : g \in f.access}
      PROVE  ServedOK(s)
  <2>1. s.account = f.account /\ s.act = "bootstrap" /\ s.scope = v /\ s.at = now
    BY <1>1, <1>2, <1>6
  <2>2. CASE v = "platform" /\ PlatformHeld(f.account, "platform:admin")
    <3>1. HeldAt(s.account, "platform", "platform:admin", s.at)
      BY <2>1, <2>2, VenueHeldLemma
    <3>2. QED
      BY <2>1, <2>2, <3>1 DEF ServedOK, Headed
  <2>3. CASE v # "platform" /\ v \in {g.scope : g \in f.access}
    <3>1. PICK g \in f.access : g.scope = v
      BY <2>3
    <3>2. g \in grant /\ g.account = f.account /\ m < g.until
      BY <1>4 DEF GrantsAt
    <3>3. v \in Venue \cup {"platform"}
      BY <3>1, <3>2 DEF AccessInv, Grant
    <3>4. VenueOf(v) = v
      BY <3>3, AccessAssumption DEF VenueOf
    <3>5. ListedWithin(s.account, VenueOf(s.scope), s.at, RequestLife)
      BY <1>5, <2>1, <3>1, <3>2, <3>4 DEF ListedWithin
    <3>6. QED
      BY <2>1, <2>3, <3>5 DEF ServedOK, Headed
  <2>4. QED
    BY <1>6, <2>2, <2>3
<1>7. \A s \in served' : s \in served \/ ServedOK(s)
  <2>1. ASSUME NEW s \in served', s \notin served PROVE ServedOK(s)
    <3>1. PICK v : /\ \/ v = "platform" /\ PlatformHeld(f.account, "platform:admin")
                      \/ v # "platform" /\ v \in {g.scope : g \in f.access}
                   /\ s = [reader |-> r, account |-> f.account, act |-> f.wish.act,
                           scope |-> v, raw |-> FALSE, at |-> now]
      BY <1>2, <2>1 DEF ShowBootstrap, Entry
    <3>2. QED
      BY <1>6, <3>1
  <2>2. QED
    BY <2>1
<1>8. QED
  BY <1>1, <1>7, EndServedLemma DEF Pending

LEMMA ExecuteLemma ==
    ASSUME AccessInv, NEW r \in Reader, Execute(r)
    PROVE  AccessInv'
<1>1. /\ now' = now /\ grant' = grant /\ minted' = minted /\ now \in Nat
      /\ asking[r].at = "signed"
  BY DEF Execute, AccessInv
<1>2. CASE Ended(r, "refused") /\ UNCHANGED served
  BY <1>1, <1>2, EndLemma
<1>3. ASSUME NEW m \in minted, m.reader = r, now < m.expires, Ended(r, "done"), Log(r, m.raw)
      PROVE  AccessInv'
  <2>1. PICK f : f = asking[r]
    OBVIOUS
  <2>2. PICK s : s = [reader |-> r, account |-> f.account, act |-> f.wish.act,
                      scope |-> Selected(f.wish), raw |-> m.raw, at |-> now]
    OBVIOUS
  <2>3. MintOK(m, asking, now)
    BY DEF AccessInv
  <2>4. /\ m.account = f.account /\ m.act = f.wish.act /\ m.scope = Selected(f.wish)
        /\ m.act \in {"overview", "analytics", "detail"} /\ m.expires \in Int
    BY <1>1, <1>3, <2>1, <2>3 DEF MintOK
  <2>5. /\ s.account = m.account /\ s.act = m.act /\ s.scope = m.scope
        /\ s.raw = m.raw /\ s.at = now
    BY <2>2, <2>4
  <2>6. PICK u \in 0..now :
           /\ m.expires <= u + MintCap
           /\ HeldAt(m.account, VenueOf(m.scope), ReadNeeds(m.act), u)
           /\ m.scope = "platform" => HeldAt(m.account, "platform", "platform:admin", u)
           /\ m.raw => HeldAt(m.account, VenueOf(m.scope), "audit:read-raw", u)
    BY <2>3 DEF MintOK
  <2>7. now < u + MintCap
    <3>1. u \in Nat /\ MintCap \in Nat
      BY <1>1, AccessNats
    <3>2. QED
      BY <1>1, <1>3, <2>4, <2>6, <3>1
  <2>8. ASSUME NEW v, NEW c, HeldAt(s.account, v, c, u)
        PROVE  HeldWithin(s.account, v, c, s.at, MintCap)
    BY <2>5, <2>7, <2>8 DEF HeldWithin
  <2>9. ServedOK(s)
    BY <2>4, <2>5, <2>6, <2>8 DEF ServedOK, Headed
  <2>10. QED
    BY <1>1, <1>3, <2>1, <2>2, <2>9, LogLemma
<1>4. QED
  BY <1>2, <1>3 DEF Execute

LEMMA ExecuteBenchLemma ==
    ASSUME AccessInv, NEW r \in Reader, ExecuteBench(r)
    PROVE  AccessInv'
<1>1. /\ now' = now /\ grant' = grant /\ minted' = minted /\ now \in Nat
      /\ asking[r].at = "signed" /\ asking[r].wish.act = "bench" /\ AskOK(asking[r], now)
  BY DEF ExecuteBench, AccessInv
<1>2. CASE Ended(r, "refused") /\ UNCHANGED served
  BY <1>1, <1>2, EndLemma
<1>3. CASE Verified(asking[r].expires) /\ Ended(r, "done") /\ Log(r, FALSE)
  <2>1. PICK f : f = asking[r]
    OBVIOUS
  <2>2. PICK s : s = [reader |-> r, account |-> f.account, act |-> f.wish.act,
                      scope |-> Selected(f.wish), raw |-> FALSE, at |-> now]
    OBVIOUS
  <2>3. /\ f.wish \in Wishes /\ f.began \in Nat /\ f.wish.act = "bench"
        /\ Authorized(f.access, f.wish) /\ f.wish.scope \in Site
        /\ f.expires \in Int /\ f.expires <= f.began + RequestLife + Skew + ReadLife
        /\ \E u \in 0..now : f.began <= u /\ f.access = GrantsAt(f.account, u)
    BY <1>1, <2>1 DEF AskOK, Entered
  <2>4. PICK u \in 0..now : f.began <= u /\ f.access = GrantsAt(f.account, u)
    BY <2>3
  <2>5. /\ s.account = f.account /\ s.act = "bench" /\ s.scope = f.wish.scope /\ s.at = now
    <3>1. s.act = f.wish.act /\ s.scope = Selected(f.wish)
      BY <2>2
    <3>2. QED
      BY <2>2, <2>3, <3>1, VenueLemma
  <2>6. Holds(f.access, VenueOf(f.wish.scope), {"ai:operate"})
    <3>1. f.wish.scope # "platform"
      BY <2>3, AccessAssumption
    <3>2. Needs[f.wish.act] = {"ai:operate"}
      BY <2>3 DEF Needs, Act
    <3>3. QED
      BY <2>3, <3>1, <3>2 DEF Authorized, Shape
  <2>7. HeldAt(s.account, VenueOf(s.scope), "ai:operate", u)
    BY <2>4, <2>5, <2>6, HoldsLemma
  <2>8. now < u + (RequestLife + ReadLife + 2 * Skew)
    <3>1. PICK t \in AppClock : t < f.expires
      BY <1>3, <2>1 DEF Verified
    <3>2. t \in Nat /\ now <= t + Skew /\ u \in Nat
      BY <1>1, <3>1, AccessNats DEF AppClock
    <3>3. PICK e : e = f.expires
      OBVIOUS
    <3>4. PICK b : b = f.began
      OBVIOUS
    <3>5. /\ e \in Int /\ b \in Nat /\ t < e /\ b <= u
          /\ e <= b + RequestLife + Skew + ReadLife
      BY <2>3, <2>4, <3>1, <3>3, <3>4
    <3>6. QED
      BY <1>1, <3>2, <3>5, AccessNats
  <2>9. HeldWithin(s.account, VenueOf(s.scope), "ai:operate", s.at,
                   RequestLife + ReadLife + 2 * Skew)
    BY <2>5, <2>7, <2>8 DEF HeldWithin
  <2>10. ServedOK(s)
    BY <2>5, <2>9 DEF ServedOK, Headed
  <2>11. QED
    BY <1>1, <1>3, <2>1, <2>2, <2>10, LogLemma
<1>4. QED
  BY <1>2, <1>3 DEF ExecuteBench

LEMMA AccessTickLemma ==
    ASSUME AccessInv, AccessTick
    PROVE  AccessInv'
<1>1. /\ now' = now + 1 /\ now \in Nat /\ asking' = asking /\ grant' = grant
      /\ minted' = minted /\ served' = served
      /\ \A r \in Reader : asking[r].at \in Pending => now < asking[r].began + RequestLife
  BY DEF AccessTick, Tick, AccessInv
<1>2. \A u \in 0..now : u \in 0..(now + 1)
  BY <1>1
<1>3. ASSUME NEW r \in Reader PROVE AskOK(asking[r], now)'
  <2>1. PICK f : f = asking[r]
    OBVIOUS
  <2>2. AskOK(f, now) /\ (f.at \in Pending => now < f.began + RequestLife)
    BY <1>1, <2>1 DEF AccessInv
  <2>3. f.at \in Pending => f.began \in Nat /\ f.began <= now + 1 /\ now + 1 <= f.began + RequestLife
    BY <1>1, <2>2, AccessNats DEF AskOK
  <2>4. f.at \in Entered =>
          \E m \in 0..(now + 1) : f.began <= m /\ f.access = GrantsAt(f.account, m)
    BY <1>2, <2>2 DEF AskOK
  <2>5. AskOK(f, now + 1)
    BY <2>2, <2>3, <2>4 DEF AskOK
  <2>6. QED
    BY <1>1, <2>1, <2>5 DEF AskOK, GrantsAt
<1>4. ASSUME NEW m \in minted PROVE MintOK(m, asking, now)'
  <2>1. MintOK(m, asking, now)
    BY DEF AccessInv
  <2>2. MintOK(m, asking, now + 1)
    BY <1>2, <2>1 DEF MintOK
  <2>3. QED
    BY <1>1, <2>2 DEF MintOK, HeldAt
<1>5. \A s \in served : ServedOK(s)'
  BY <1>1 DEF AccessInv, ServedOK, HeldAt, HeldWithin, ListedWithin
<1>6. QED
  BY <1>1, <1>3, <1>4, <1>5 DEF AccessInv

LEMMA AccessStep == AccessInv /\ [AccessNext]_accessVars => AccessInv'
<1> SUFFICES ASSUME AccessInv, [AccessNext]_accessVars PROVE AccessInv'
  OBVIOUS
<1>1. CASE UNCHANGED accessVars
  BY <1>1 DEF accessVars, AccessInv, AskOK, MintOK, ServedOK, GrantsAt, HeldAt, HeldWithin, ListedWithin
<1>2. ASSUME NEW r \in Reader, AbandonRequest(r) PROVE AccessInv'
  BY <1>2, EndLemma DEF AbandonRequest
<1>3. QED
  BY <1>1, <1>2, LookUpLemma, BindLemma, DecideLemma, WriteLemma, MintLemma, SignBenchLemma,
     ExecuteLemma, ExecuteBenchLemma, AccessTickLemma, BootstrapLemma, HeaderLemma, RowsLemma,
     PlatformPageLemma DEF AccessNext

(* Whatever is read, written or run was granted then, or no longer ago than  *)
(* its receipt, its request and the clocks' distance allow: for any grants   *)
(* that end at any time, any roles and any number of requests.               *)
THEOREM ServedTheorem == AccessSpec => []ServedWhileGranted
<1>1. AccessInv => ServedWhileGranted
  BY DEF AccessInv, ServedOK, ServedWhileGranted
<1>2. QED
  BY <1>1, AccessInitInv, AccessStep, PTL DEF AccessSpec

-----------------------------------------------------------------------------
(* Accounts and identities *)

\* No identity has two accounts, and who is binding an account has its row and
\* the identity for himself.
BindInv ==
    /\ external = [a \in Account |-> external[a]]
    /\ \A a, b \in Account : external[a] = external[b] /\ external[a] # NoIdentity => a = b
    /\ \A r \in Reader : asking[r].at = "binding" =>
         /\ external[asking[r].wish.address] = NoIdentity
         /\ Bound(asking[r].wish.subject) = {}
    /\ \A r, s \in Reader : r # s /\ asking[r].at = "binding" /\ asking[s].at = "binding" =>
         /\ asking[r].wish.address # asking[s].wish.address
         /\ asking[r].wish.subject # asking[s].wish.subject

\* An account is bound once, and whoever is let in is who it is bound to.
BoundOnce ==
    /\ \A a \in Account : external[a] # NoIdentity => external'[a] = external[a]
    /\ \A r \in Reader :
         /\ asking[r].at # "resolved" /\ asking'[r].at = "resolved" =>
              external'[asking'[r].account] = asking'[r].wish.subject
         /\ asking[r].at = "unbound" /\ asking'[r].at = "refused" =>
              \A a \in Bound(asking[r].wish.subject) :
                "console:read" \notin Caps(Active(a))

LEMMA BindInit == AccessInit => BindInv
<1> SUFFICES ASSUME AccessInit PROVE BindInv
  OBVIOUS
<1>1. /\ \A r \in Reader : asking[r].at = "idle"
      /\ external = [a \in Account |-> NoIdentity]
  BY DEF AccessInit, Idle
<1>2. QED
  BY <1>1 DEF BindInv

LEMMA WishLemma ==
    ASSUME NEW w \in Wishes
    PROVE  w.subject \in Identity /\ w.subject # NoIdentity /\ w.address \in Account
<1>1. w \in Wish
  BY AccessAssumption
<1>2. w.subject \in Identity /\ w.address \in Account
  BY <1>1 DEF Wish
<1>3. QED
  BY <1>2, AccessAssumption

\* A step that binds nobody, and begins no binding.
LEMMA UnboundStep ==
    ASSUME AccessInv, BindInv, NEW r \in Reader, NEW f,
           asking' = [asking EXCEPT ![r] = f],
           external' = external, f.at # "binding",
           f.at = "resolved" => external[f.account] = f.wish.subject,
           asking[r].at = "unbound" /\ f.at = "refused" =>
              \A a \in Bound(asking[r].wish.subject) : "console:read" \notin Caps(Active(a))
    PROVE  BindInv' /\ BoundOnce
<1>1. asking'[r] = f /\ \A q \in Reader : q # r => asking'[q] = asking[q]
  BY DEF AccessInv
<1>2. BindInv'
  BY <1>1 DEF BindInv, Bound
<1>3. BoundOnce
  BY <1>1 DEF BoundOnce
<1>4. QED
  BY <1>2, <1>3

LEMMA EndedStep ==
    ASSUME AccessInv, BindInv, NEW r \in Reader, NEW how, Ended(r, how),
           asking[r].at \in Pending \cup Entered,
           how \notin {"binding", "resolved"}, external' = external,
           asking[r].at = "unbound" /\ how = "refused" => Bound(asking[r].wish.subject) = {}
    PROVE  BindInv' /\ BoundOnce
<1>1. PICK f : f = [asking[r] EXCEPT !.at = how]
  OBVIOUS
<1>2. f.at = how
  BY <1>1, PlacedLemma DEF AccessInv
<1>3. asking' = [asking EXCEPT ![r] = f]
  BY <1>1 DEF Ended, Step
<1>4. QED
  BY <1>2, <1>3, UnboundStep

LEMMA EnterStep ==
    ASSUME AccessInv, BindInv, NEW r \in Reader, NEW w \in Wishes, NEW a \in Bound(w.subject), NEW began,
           Enter(r, w, a, began), external' = external,
           asking[r].at = "unbound" => asking[r].wish = w
    PROVE  BindInv' /\ BoundOnce
<1>1. PICK f : f = [at |-> IF "console:read" \in Caps(Active(a)) THEN "resolved" ELSE "refused",
                    wish |-> w, account |-> a, access |-> Active(a), began |-> began,
                    expires |-> 0]
  OBVIOUS
<1>2. /\ f.at \in {"resolved", "refused"} /\ f.wish = w /\ f.account = a
      /\ f.at = "refused" => "console:read" \notin Caps(Active(a))
  BY <1>1
<1>3. asking' = [asking EXCEPT ![r] = f]
  BY <1>1 DEF Enter, Step
<1>4. a \in Account /\ external[a] = w.subject /\ w.subject # NoIdentity
  BY WishLemma DEF Bound
<1>5. \A b \in Bound(w.subject) : b = a
  BY <1>4 DEF Bound, BindInv
<1>6. f.at # "binding" /\ (f.at = "resolved" => external[f.account] = f.wish.subject)
  BY <1>2, <1>4
<1>7. asking[r].at = "unbound" /\ f.at = "refused" =>
        \A b \in Bound(asking[r].wish.subject) : "console:read" \notin Caps(Active(b))
  BY <1>2, <1>5
<1>8. QED
  BY <1>3, <1>6, <1>7, UnboundStep

LEMMA BindStep ==
    ASSUME AccessInv, BindInv, NEW r \in Reader, Bind(r)
    PROVE  BindInv' /\ BoundOnce
<1>1. /\ external' = external /\ asking[r].at = "unbound"
      /\ AskOK(asking[r], now) /\ asking[r].at \in Pending \cup Entered
  BY DEF Bind, AccessInv, Pending
<1>2. PICK w \in Wishes : w = asking[r].wish
  BY <1>1 DEF AskOK
<1>3. ASSUME Ended(r, "binding"), external[w.address] = NoIdentity, Bound(w.subject) = {},
             \A s \in Reader : ~Binding(r, s)
      PROVE  BindInv' /\ BoundOnce
  <2>1. PICK f : f = [asking[r] EXCEPT !.at = "binding"]
    OBVIOUS
  <2>2. f.at = "binding" /\ f.wish = w
    BY <1>1, <1>2, <2>1, PlacedLemma
  <2>3. asking'[r] = f /\ \A q \in Reader : q # r => asking'[q] = asking[q]
    BY <1>3, <2>1 DEF Ended, Step, AccessInv
  <2>4. \A s \in Reader \ {r} : asking[s].at = "binding" =>
          asking[s].wish.address # w.address /\ asking[s].wish.subject # w.subject
    BY <1>2, <1>3 DEF Binding
  <2>5. BindInv'
    BY <1>1, <1>3, <2>2, <2>3, <2>4 DEF BindInv, Bound
  <2>6. BoundOnce
    BY <1>1, <2>2, <2>3 DEF BoundOnce
  <2>7. QED
    BY <2>5, <2>6
<1>4. ASSUME Ended(r, "failed") PROVE BindInv' /\ BoundOnce
  BY <1>1, <1>4, EndedStep
<1>5. ASSUME Ended(r, "refused"), Bound(w.subject) = {} PROVE BindInv' /\ BoundOnce
  BY <1>1, <1>2, <1>5, EndedStep
<1>6. ASSUME NEW a \in Bound(w.subject), Enter(r, w, a, asking[r].began)
      PROVE  BindInv' /\ BoundOnce
  BY <1>1, <1>2, <1>6, EnterStep
<1>7. QED
  BY <1>2, <1>3, <1>4, <1>5, <1>6 DEF Bind, SecondLook

LEMMA CommitStep ==
    ASSUME AccessInv, BindInv, NEW r \in Reader, CommitBinding(r)
    PROVE  BindInv' /\ BoundOnce
<1>1. asking[r].at = "binding" /\ AskOK(asking[r], now)
  BY DEF CommitBinding, AccessInv
<1>2. PICK w \in Wishes : w = asking[r].wish
  BY <1>1 DEF AskOK, Pending
<1>3. PICK i, d : i = w.subject /\ d = w.address
  OBVIOUS
<1>4. i # NoIdentity /\ d \in Account /\ external[d] = NoIdentity /\ Bound(i) = {}
  BY <1>1, <1>2, <1>3, WishLemma DEF BindInv
<1>5. /\ external' = [a \in Account |-> external'[a]] /\ external'[d] = i
      /\ \A a \in Account : a # d => external'[a] = external[a]
  BY <1>2, <1>3, <1>4 DEF CommitBinding, BindInv
<1>6. PICK f : /\ asking' = [asking EXCEPT ![r] = f] /\ f.at \in {"resolved", "refused"}
               /\ f.wish = w /\ f.account = d
  <2>1. PICK f : f = [at |-> IF "console:read" \in Caps(Active(d)) THEN "resolved" ELSE "refused",
                      wish |-> w, account |-> d, access |-> Active(d),
                      began |-> asking[r].began, expires |-> 0]
    OBVIOUS
  <2>2. f.at \in {"resolved", "refused"} /\ f.wish = w /\ f.account = d
    BY <2>1
  <2>3. asking' = [asking EXCEPT ![r] = f]
    BY <1>2, <1>3, <2>1 DEF CommitBinding, Enter, Step
  <2>4. QED
    BY <2>2, <2>3
<1>7. asking'[r] = f /\ \A q \in Reader : q # r => asking'[q] = asking[q]
  BY <1>6 DEF AccessInv
<1>8. \A a \in Account : external[a] # i
  BY <1>4 DEF Bound
<1>9. \A a, b \in Account : external'[a] = external'[b] /\ external'[a] # NoIdentity => a = b
  BY <1>5, <1>8 DEF BindInv
<1>10. ASSUME NEW q \in Reader, asking'[q].at = "binding"
       PROVE  /\ external'[asking'[q].wish.address] = NoIdentity
              /\ \A a \in Account : external'[a] # asking'[q].wish.subject
  <2>1. q # r /\ asking'[q] = asking[q]
    BY <1>6, <1>7, <1>10
  <2>2. /\ asking[q].wish.address # d /\ asking[q].wish.subject # i
        /\ external[asking[q].wish.address] = NoIdentity /\ Bound(asking[q].wish.subject) = {}
    BY <1>1, <1>2, <1>3, <1>10, <2>1 DEF BindInv
  <2>3. asking[q].wish.address \in Account
    <3>1. AskOK(asking[q], now) /\ asking[q].at = "binding"
      BY <1>10, <2>1 DEF AccessInv
    <3>2. asking[q].wish \in Wishes
      BY <3>1 DEF AskOK, Pending
    <3>3. QED
      BY <3>2, WishLemma
  <2>4. QED
    BY <1>5, <2>1, <2>2, <2>3 DEF Bound
<1>11. BindInv'
  <2>1. \A q, s \in Reader : q # s /\ asking'[q].at = "binding" /\ asking'[s].at = "binding" =>
          /\ asking'[q].wish.address # asking'[s].wish.address
          /\ asking'[q].wish.subject # asking'[s].wish.subject
    BY <1>6, <1>7 DEF BindInv
  <2>2. QED
    BY <1>5, <1>9, <1>10, <2>1 DEF BindInv, Bound
<1>12. BoundOnce
  <2>1. \A a \in Account : external[a] # NoIdentity => external'[a] = external[a]
    BY <1>4, <1>5
  <2>2. \A q \in Reader : asking[q].at # "resolved" /\ asking'[q].at = "resolved" =>
          external'[asking'[q].account] = asking'[q].wish.subject
    BY <1>3, <1>5, <1>6, <1>7
  <2>3. \A q \in Reader : ~(asking[q].at = "unbound" /\ asking'[q].at = "refused")
    BY <1>1, <1>7
  <2>4. QED
    BY <2>1, <2>2, <2>3 DEF BoundOnce
<1>13. QED
  BY <1>11, <1>12

LEMMA OtherSteps ==
    ASSUME AccessInv, BindInv, NEW r \in Reader,
           \/ DecideAccess(r) \/ Write(r) \/ Mint(r) \/ Execute(r)
           \/ ExecuteBench(r) \/ AbandonRequest(r)
           \/ ShowBootstrap(r) \/ ReadHeader(r) \/ ReadRows(r) \/ ReadForm(r)
           \/ ReadPrompts(r) \/ ReadPlatform(r)
    PROVE  BindInv' /\ BoundOnce
<1>1. /\ external' = external
      /\ \E how \in {"authorized", "showing", "refused", "done", "failed", "signed"} :
           Ended(r, how) /\ (asking[r].at = "unbound" => how = "failed")
      /\ asking[r].at \in Pending \cup Entered
  BY DEF DecideAccess, Write, Mint, Execute, ExecuteBench, AbandonRequest, ShowBootstrap,
         ReadHeader, ReadRows, ReadForm, ReadPrompts, ReadPlatform, Entered
<1>2. QED
  BY <1>1, EndedStep

LEMMA BoundStep ==
    ASSUME AccessInv, BindInv, [AccessNext]_accessVars
    PROVE  BindInv' /\ BoundOnce
<1>1. CASE external' = external /\ asking' = asking
  <2>1. BindInv'
    BY <1>1 DEF BindInv, Bound
  <2>2. BoundOnce
    BY <1>1 DEF BoundOnce
  <2>3. QED
    BY <2>1, <2>2
<1>2. ASSUME NEW r \in Reader, NEW w \in Wishes, LookUp(r, w) PROVE BindInv' /\ BoundOnce
  <2>1. external' = external /\ asking[r].at = "idle"
    BY <1>2 DEF LookUp
  <2>2. ASSUME NEW a \in Bound(w.subject), Enter(r, w, a, now) PROVE BindInv' /\ BoundOnce
    BY <2>1, <2>2, EnterStep
  <2>3. ASSUME Step(r, [at |-> "unbound", wish |-> w, began |-> now])
        PROVE  BindInv' /\ BoundOnce
    <3>1. PICK f : f = [at |-> "unbound", wish |-> w, began |-> now]
      OBVIOUS
    <3>2. f.at = "unbound" /\ asking' = [asking EXCEPT ![r] = f]
      BY <2>3, <3>1 DEF Step
    <3>3. QED
      BY <2>1, <3>2, UnboundStep
  <2>4. QED
    BY <1>2, <2>2, <2>3 DEF LookUp
<1>3. ASSUME NEW r \in Reader, SignBench(r) PROVE BindInv' /\ BoundOnce
  <2>1. PICK t : /\ Step(r, [asking[r] EXCEPT !.at = "signed", !.expires = t + ReadLife])
                 /\ external' = external /\ asking[r].at = "authorized"
    BY <1>3 DEF SignBench
  <2>2. PICK f : f = asking[r]
    OBVIOUS
  <2>3. f = [at |-> f.at, wish |-> f.wish, account |-> f.account,
             access |-> f.access, began |-> f.began, expires |-> f.expires]
    BY <2>1, <2>2 DEF AccessInv, AskOK, Entered
  <2>4. PICK g : g = [f EXCEPT !.at = "signed", !.expires = t + ReadLife]
    OBVIOUS
  <2>5. g.at = "signed"
    BY <2>3, <2>4
  <2>6. asking' = [asking EXCEPT ![r] = g]
    BY <2>1, <2>2, <2>4 DEF Step
  <2>7. QED
    BY <2>1, <2>5, <2>6, UnboundStep
<1>4. QED
  BY <1>1, <1>2, <1>3, BindStep, CommitStep, OtherSteps DEF AccessNext, AccessTick, accessVars

(* An account is bound once and to one identity, and of two requests of one  *)
(* first sign-in neither is refused because of the other, however their      *)
(* transactions and those of other identities interleave.                    *)
THEOREM BoundTheorem == AccessSpec => AccountsBoundOnce
<1>1. AccessInit => AccessInv /\ BindInv
  BY AccessInitInv, BindInit
<1>2. AccessInv /\ BindInv /\ [AccessNext]_accessVars => (AccessInv /\ BindInv)'
  BY AccessStep, BoundStep
<1>3. AccessInv /\ BindInv /\ [AccessNext]_accessVars => [BoundOnce]_accessVars
  BY BoundStep
<1>4. QED
  BY <1>1, <1>2, <1>3, PTL DEF AccessSpec, AccountsBoundOnce, BoundOnce

-----------------------------------------------------------------------------
(* The types of the Console's access *)

Places == {"idle", "unbound", "binding", "resolved", "authorized", "showing", "signed",
           "done", "refused", "failed"}
Scopes == {"platform"} \cup Venue \cup Site
Served == [reader : Reader, account : Account, act : Act, raw : BOOLEAN, scope : Scopes,
           at : 0..MaxTime]

\* A request that was let in carries an account, and the clock is within its bound.
AccessTyped ==
    /\ AccessTypeOK
    /\ now \in 0..MaxTime
    /\ \A r \in Reader : asking[r].at \in Entered => asking[r].account \in Account

LEMMA ScopeTyped ==
    ASSUME NEW w \in Wishes
    PROVE  Selected(w) \in Scopes /\ w.act \in Act
<1>1. w \in Wish
  BY AccessAssumption
<1>2. w.scope \in Scopes /\ w.act \in Act
  BY <1>1 DEF Wish, Scopes
<1>3. VenueOf(w.scope) \in Scopes
  BY <1>2, AccessAssumption DEF VenueOf, Scopes
<1>4. QED
  BY <1>2, <1>3 DEF Selected

LEMMA EntryTyped ==
    ASSUME AccessInv, AccessTyped, NEW r \in Reader, asking[r].at \in Entered,
           NEW scope \in Scopes, NEW raw \in BOOLEAN
    PROVE  Entry(r, scope, raw) \in Served
<1>1. asking[r].wish \in Wishes /\ asking[r].account \in Account /\ now \in 0..MaxTime
  BY DEF AccessInv, AskOK, AccessTyped
<1>2. asking[r].wish.act \in Act
  BY <1>1, ScopeTyped
<1>3. QED
  BY <1>1, <1>2 DEF Entry, Served

LEMMA LogTyped ==
    ASSUME AccessInv, AccessTyped, NEW r \in Reader, asking[r].at \in Entered,
           NEW raw \in BOOLEAN, Log(r, raw)
    PROVE  served' \subseteq Served
<1>1. asking[r].wish \in Wishes
  BY DEF AccessInv, AskOK
<1>2. Entry(r, Selected(asking[r].wish), raw) \in Served
  BY <1>1, ScopeTyped, EntryTyped
<1>3. served \subseteq Served
  BY DEF AccessTyped, AccessTypeOK, Served, Scopes
<1>4. QED
  BY <1>2, <1>3 DEF Log

LEMMA AskTyped ==
    ASSUME AccessInv, AccessTyped, NEW r \in Reader, NEW f,
           asking' = [asking EXCEPT ![r] = f],
           f.at \in Places, f.at \in Entered => f.account \in Account,
           now' = now, grant' = grant, minted' \subseteq Minted, served' \subseteq Served,
           external' \in [Account -> Identity \cup {NoIdentity}]
    PROVE  AccessTyped'
<1>1. asking'[r] = f /\ \A q \in Reader : q # r => asking'[q] = asking[q]
  BY DEF AccessInv
<1>2. \A q \in Reader : /\ asking'[q].at \in Places
                        /\ asking'[q].at \in Entered => asking'[q].account \in Account
  BY <1>1 DEF AccessTyped, AccessTypeOK, Places
<1>3. AccessTypeOK'
  BY <1>2 DEF AccessTyped, AccessTypeOK, Places, Served, Scopes
<1>4. QED
  BY <1>2, <1>3 DEF AccessTyped

LEMMA EndTyped ==
    ASSUME AccessInv, AccessTyped, NEW r \in Reader, NEW how \in Places, Ended(r, how),
           asking[r].at \in Pending \cup Entered,
           how \in Entered => asking[r].at \in Entered,
           now' = now, grant' = grant, minted' \subseteq Minted, served' \subseteq Served,
           external' = external
    PROVE  AccessTyped'
<1>1. PICK f : f = [asking[r] EXCEPT !.at = how]
  OBVIOUS
<1>2. /\ f.at = how
      /\ asking[r].at \in Entered => f.account = asking[r].account
  BY <1>1, PlacedLemma DEF AccessInv
<1>3. asking' = [asking EXCEPT ![r] = f]
  BY <1>1 DEF Ended, Step
<1>4. f.at \in Entered => f.account \in Account
  BY <1>2 DEF AccessTyped
<1>5. external' \in [Account -> Identity \cup {NoIdentity}]
  BY DEF AccessTyped, AccessTypeOK
<1>6. QED
  BY <1>2, <1>3, <1>4, <1>5, AskTyped

LEMMA EnterTyped ==
    ASSUME AccessInv, AccessTyped, NEW r \in Reader, NEW w, NEW a \in Account, NEW began,
           Enter(r, w, a, began),
           now' = now, grant' = grant, minted' \subseteq Minted, served' \subseteq Served,
           external' \in [Account -> Identity \cup {NoIdentity}]
    PROVE  AccessTyped'
<1>1. PICK f : f = [at |-> IF "console:read" \in Caps(Active(a)) THEN "resolved" ELSE "refused",
                    wish |-> w, account |-> a, access |-> Active(a), began |-> began,
                    expires |-> 0]
  OBVIOUS
<1>2. f.at \in Places /\ f.account = a
  BY <1>1 DEF Places
<1>3. asking' = [asking EXCEPT ![r] = f]
  BY <1>1 DEF Enter, Step
<1>4. QED
  BY <1>2, <1>3, AskTyped

\* Where a request signs in.
LEMMA SignInTyped ==
    ASSUME AccessInv, AccessTyped, NEW r \in Reader,
           \/ \E w \in Wishes : LookUp(r, w)
           \/ Bind(r) \/ CommitBinding(r)
    PROVE  AccessTyped'
<1>1. /\ now' = now /\ grant' = grant /\ minted' \subseteq Minted /\ served' \subseteq Served
      /\ external \in [Account -> Identity \cup {NoIdentity}]
  BY DEF LookUp, Bind, CommitBinding, AccessTyped, AccessTypeOK, Served, Scopes
<1>2. CASE \E w \in Wishes : LookUp(r, w)
  <2>1. PICK w \in Wishes : LookUp(r, w)
    BY <1>2
  <2>2. external' = external
    BY <2>1 DEF LookUp
  <2>3. ASSUME NEW a \in Bound(w.subject), Enter(r, w, a, now) PROVE AccessTyped'
    <3>1. a \in Account
      BY DEF Bound
    <3>2. QED
      BY <1>1, <2>2, <2>3, <3>1, EnterTyped
  <2>4. ASSUME Step(r, [at |-> "unbound", wish |-> w, began |-> now]) PROVE AccessTyped'
    <3>1. PICK f : f = [at |-> "unbound", wish |-> w, began |-> now]
      OBVIOUS
    <3>2. f.at \in Places /\ f.at \notin Entered /\ asking' = [asking EXCEPT ![r] = f]
      BY <2>4, <3>1 DEF Step, Places, Entered
    <3>3. QED
      BY <1>1, <2>2, <3>2, AskTyped
  <2>5. QED
    BY <2>1, <2>3, <2>4 DEF LookUp
<1>3. CASE Bind(r)
  <2>1. external' = external /\ asking[r].at = "unbound" /\ asking[r].at \in Pending \cup Entered
    BY <1>3 DEF Bind, Pending
  <2>2. ASSUME NEW how \in {"binding", "refused", "failed"}, Ended(r, how) PROVE AccessTyped'
    BY <1>1, <2>1, <2>2, EndTyped DEF Places, Entered
  <2>3. ASSUME NEW a \in Bound(asking[r].wish.subject),
               Enter(r, asking[r].wish, a, asking[r].began)
        PROVE  AccessTyped'
    <3>1. a \in Account
      BY DEF Bound
    <3>2. QED
      BY <1>1, <2>1, <2>3, <3>1, EnterTyped
  <2>4. QED
    BY <1>3, <2>2, <2>3 DEF Bind, SecondLook
<1>4. CASE CommitBinding(r)
  <2>1. PICK w \in Wishes : w = asking[r].wish
    BY <1>4 DEF CommitBinding, AccessInv, AskOK, Pending
  <2>2. w.subject \in Identity /\ w.address \in Account
    BY WishLemma
  <2>3. external' = [external EXCEPT ![w.address] = w.subject]
    BY <1>4, <2>1 DEF CommitBinding
  <2>4. external' \in [Account -> Identity \cup {NoIdentity}]
    BY <1>1, <2>2, <2>3
  <2>5. Enter(r, w, w.address, asking[r].began)
    BY <1>4, <2>1 DEF CommitBinding
  <2>6. QED
    BY <1>1, <2>2, <2>4, <2>5, EnterTyped
<1>5. QED
  BY <1>2, <1>3, <1>4

\* What a request that was let in ends, or goes on, with.
LEMMA PageTyped ==
    ASSUME AccessInv, AccessTyped, NEW r \in Reader,
           \/ DecideAccess(r) \/ Write(r) \/ ExecuteBench(r) \/ AbandonRequest(r)
           \/ ReadHeader(r) \/ ReadRows(r) \/ ReadForm(r) \/ ReadPrompts(r) \/ ReadPlatform(r)
    PROVE  AccessTyped'
<1>1. /\ now' = now /\ grant' = grant /\ minted' \subseteq Minted /\ external' = external
      /\ asking[r].at \in Pending \cup Entered
      /\ asking[r].at \in Entered \/ UNCHANGED served
  BY DEF DecideAccess, Write, ExecuteBench, AbandonRequest, ReadHeader, ReadRows, ReadForm,
         ReadPrompts, ReadPlatform, AccessTyped, AccessTypeOK, Entered
<1>2. /\ \E how \in {"authorized", "showing", "done", "refused", "failed"} :
           Ended(r, how) /\ (how \in {"authorized", "showing"} => asking[r].at \in Entered)
      /\ UNCHANGED served \/ Log(r, FALSE)
  BY DEF DecideAccess, Write, ExecuteBench, AbandonRequest, ReadHeader, ReadRows, ReadForm,
         ReadPrompts, ReadPlatform, Entered
<1>3. served' \subseteq Served
  <2>1. CASE UNCHANGED served
    BY <2>1 DEF AccessTyped, AccessTypeOK, Served, Scopes
  <2>2. QED
    BY <1>1, <1>2, <2>1, LogTyped
<1>4. PICK how \in {"authorized", "showing", "done", "refused", "failed"} :
        Ended(r, how) /\ (how \in {"authorized", "showing"} => asking[r].at \in Entered)
  BY <1>2
<1>5. how \in Places /\ (how \in Entered => asking[r].at \in Entered)
  BY <1>4 DEF Places, Entered
<1>6. QED
  BY <1>1, <1>3, <1>4, <1>5, EndTyped

\* The operator's own tenants are those of grants.
LEMMA BootstrapTyped ==
    ASSUME AccessInv, AccessTyped, NEW r \in Reader, ShowBootstrap(r)
    PROVE  AccessTyped'
<1>1. /\ now' = now /\ grant' = grant /\ minted' \subseteq Minted /\ external' = external
      /\ asking[r].at = "authorized" /\ Ended(r, "done")
  BY DEF ShowBootstrap, AccessTyped, AccessTypeOK
<1>2. asking[r].access \subseteq Grant
  BY <1>1 DEF AccessInv, AskOK, Entered, GrantsAt
<1>3. \A g \in asking[r].access : g.scope \in Scopes
  BY <1>2 DEF Grant, Scopes
<1>4. ASSUME NEW s \in served' PROVE s \in Served
  <2>1. CASE s \in served
    BY <2>1 DEF AccessTyped, AccessTypeOK, Served, Scopes
  <2>2. ASSUME NEW v \in Scopes, s = Entry(r, v, FALSE) PROVE s \in Served
    BY <1>1, <2>2, EntryTyped DEF Entered
  <2>3. s \in served \/ \E v \in {g.scope : g \in asking[r].access} \cup {"platform"} :
                          s = Entry(r, v, FALSE)
    BY DEF ShowBootstrap
  <2>4. {g.scope : g \in asking[r].access} \cup {"platform"} \subseteq Scopes
    BY <1>3 DEF Scopes
  <2>5. QED
    BY <2>1, <2>2, <2>3, <2>4
<1>5. "done" \in Places /\ "done" \notin Entered /\ asking[r].at \in Pending \cup Entered
  BY <1>1 DEF Places, Entered
<1>6. QED
  BY <1>1, <1>4, <1>5, EndTyped

\* The database's limit is on what it is given; the receipt's end is that of a clock.
LEMMA MintTyped ==
    ASSUME AccessInv, AccessTyped, NEW r \in Reader, Mint(r)
    PROVE  AccessTyped'
<1>1. /\ now' = now /\ grant' = grant /\ external' = external /\ served' \subseteq Served
      /\ asking[r].at = "authorized" /\ asking[r].at \in Pending \cup Entered
      /\ minted \subseteq Minted
  BY DEF Mint, AccessTyped, AccessTypeOK, Served, Scopes, Pending
<1>2. ASSUME NEW how \in {"failed", "refused"}, Ended(r, how), UNCHANGED minted
      PROVE  AccessTyped'
  BY <1>1, <1>2, EndTyped DEF Places, Entered
<1>3. PICK t \in AppClock :
        \/ \E how \in {"failed", "refused"} : Ended(r, how) /\ UNCHANGED minted
        \/ /\ minted' = {m \in minted : now < m.expires} \cup
                {[reader |-> r, account |-> asking[r].account, act |-> asking[r].wish.act,
                  scope |-> Selected(asking[r].wish), raw |-> RawMinted(r),
                  expires |-> t + ReadLife]}
           /\ Ended(r, "signed")
  BY DEF Mint
<1>4. ASSUME minted' = {m \in minted : now < m.expires} \cup
                {[reader |-> r, account |-> asking[r].account, act |-> asking[r].wish.act,
                  scope |-> Selected(asking[r].wish), raw |-> RawMinted(r),
                  expires |-> t + ReadLife]},
             Ended(r, "signed")
      PROVE  AccessTyped'
  <2>1. t + ReadLife \in 0..(MaxTime + Skew + ReadLife)
    <3>1. t \in Nat /\ t <= now + Skew /\ now <= MaxTime /\ now \in Nat
      BY AccessNats DEF AppClock, AccessTyped
    <3>2. QED
      BY <3>1, AccessNats
  <2>2. asking[r].wish \in Wishes /\ asking[r].account \in Account
    BY <1>1 DEF AccessInv, AskOK, AccessTyped, Entered
  <2>3. Selected(asking[r].wish) \in Scopes /\ asking[r].wish.act \in Act
    BY <2>2, ScopeTyped
  <2>4. RawMinted(r) \in BOOLEAN
    BY DEF RawMinted
  <2>5. [reader |-> r, account |-> asking[r].account, act |-> asking[r].wish.act,
         scope |-> Selected(asking[r].wish), raw |-> RawMinted(r),
         expires |-> t + ReadLife] \in Minted
    BY <2>1, <2>2, <2>3, <2>4 DEF Minted, Scopes
  <2>6. minted' \subseteq Minted
    BY <1>1, <1>4, <2>5
  <2>7. QED
    BY <1>1, <1>4, <2>6, EndTyped DEF Places, Entered
<1>5. QED
  BY <1>2, <1>3, <1>4

LEMMA SignTyped ==
    ASSUME AccessInv, AccessTyped, NEW r \in Reader, SignBench(r)
    PROVE  AccessTyped'
<1>1. PICK t \in AppClock :
        Step(r, [asking[r] EXCEPT !.at = "signed", !.expires = t + ReadLife])
  BY DEF SignBench
<1>2. /\ now' = now /\ grant' = grant /\ external' \in [Account -> Identity \cup {NoIdentity}]
      /\ minted' \subseteq Minted /\ served' \subseteq Served /\ asking[r].at = "authorized"
  BY DEF SignBench, AccessTyped, AccessTypeOK, Served, Scopes
<1>3. PICK f : f = asking[r]
  OBVIOUS
<1>4. /\ f = [at |-> f.at, wish |-> f.wish, account |-> f.account,
              access |-> f.access, began |-> f.began, expires |-> f.expires]
      /\ f.account \in Account
  BY <1>2, <1>3 DEF AccessInv, AskOK, Entered, AccessTyped
<1>5. PICK g : g = [f EXCEPT !.at = "signed", !.expires = t + ReadLife]
  OBVIOUS
<1>6. g.at = "signed" /\ g.account = f.account
  BY <1>4, <1>5
<1>7. asking' = [asking EXCEPT ![r] = g]
  BY <1>1, <1>3, <1>5 DEF Step
<1>8. QED
  BY <1>2, <1>4, <1>6, <1>7, AskTyped DEF Places

LEMMA ExecuteTyped ==
    ASSUME AccessInv, AccessTyped, NEW r \in Reader, Execute(r)
    PROVE  AccessTyped'
<1>1. /\ now' = now /\ grant' = grant /\ external' = external /\ minted' \subseteq Minted
      /\ asking[r].at = "signed" /\ asking[r].at \in Pending \cup Entered
      /\ served \subseteq Served
  BY DEF Execute, AccessTyped, AccessTypeOK, Served, Scopes, Entered
<1>2. CASE Ended(r, "refused") /\ UNCHANGED served
  BY <1>1, <1>2, EndTyped DEF Places, Entered
<1>3. ASSUME NEW m \in minted, Ended(r, "done"), Log(r, m.raw) PROVE AccessTyped'
  <2>1. m.raw \in BOOLEAN
    BY DEF AccessTyped, AccessTypeOK, Minted
  <2>2. served' \subseteq Served
    BY <1>1, <1>3, <2>1, LogTyped DEF Entered
  <2>3. QED
    BY <1>1, <1>3, <2>2, EndTyped DEF Places, Entered
<1>4. QED
  BY <1>2, <1>3 DEF Execute

LEMMA AccessTypedStep ==
    ASSUME AccessInv, AccessTyped, [AccessNext]_accessVars
    PROVE  AccessTyped'
<1>1. CASE UNCHANGED accessVars
  BY <1>1 DEF accessVars, AccessTyped, AccessTypeOK
<1>2. CASE AccessTick
  <2>1. now' = now + 1 /\ now < MaxTime /\ now \in Nat
    BY <1>2 DEF AccessTick, Tick, AccessTyped
  <2>2. now' \in 0..MaxTime
    BY <2>1, AccessNats
  <2>3. QED
    BY <1>2, <2>2 DEF AccessTick, AccessTyped, AccessTypeOK
<1>3. QED
  BY <1>1, <1>2, SignInTyped, PageTyped, BootstrapTyped, MintTyped, SignTyped, ExecuteTyped
     DEF AccessNext

\* What the Console keeps of its requests, of what they were minted and of what
\* they were served is well typed, whatever the grants and however they end.
THEOREM AccessTypes == AccessSpec => []AccessTypeOK
<1>1. AccessInit => AccessInv /\ AccessTyped
  <2> SUFFICES ASSUME AccessInit PROVE AccessTyped
    BY AccessInitInv
  <2>1. \A r \in Reader : asking[r].at = "idle"
    BY DEF AccessInit, Idle
  <2>2. now \in 0..MaxTime
    BY AccessNats DEF AccessInit, ClockInit
  <2>3. AccessTypeOK
    BY <2>1, AccessAssumption DEF AccessInit, AccessTypeOK
  <2>4. QED
    BY <2>1, <2>2, <2>3 DEF AccessTyped, Entered
<1>2. AccessInv /\ AccessTyped /\ [AccessNext]_accessVars => (AccessInv /\ AccessTyped)'
  BY AccessStep, AccessTypedStep
<1>3. AccessTyped => AccessTypeOK
  BY DEF AccessTyped
<1>4. QED
  BY <1>1, <1>2, <1>3, PTL DEF AccessSpec

-----------------------------------------------------------------------------
(* Sign-in: the inductive invariant *)

\* A sealed session is that of a sign-in that was granted to its subject, and its
\* identity outlives neither an ID token nor, once that is told, the sign-out by one.
SessionCookie == [subject : Person, signIn : SignIn, idEnds : Nat, ends : Nat]
Sealed(c) ==
    /\ c \in SessionCookie
    /\ Granted(c.signIn)
    /\ consent[c.signIn].subject = c.subject
    /\ c.ends <= consent[c.signIn].since + SessionTTL
    /\ c.idEnds <= tick + IdTTL
    /\ c.idEnds <= consent[c.signIn].revoked + IdTTL
CookieSound(c) == c = NoCookie \/ Sealed(c)

\* Whoever is identified, at a date that has passed.
IdentifiedBy(s, o, d) ==
    /\ Granted(s) /\ consent[s].subject = o
    /\ d \in Nat /\ d <= tick
    /\ d < consent[s].since + SessionTTL
    /\ d < consent[s].revoked + IdTTL
IdentitySound(o, d) == \E s \in SignIn : IdentifiedBy(s, o, d)

FetchSound(x) ==
    /\ x.at = "callback" => x.state \in SignIn
    /\ x.at = "asked" => Sealed(x.cookie)
    /\ x.at = "refreshing" => /\ Sealed(x.cookie)
                              /\ x.date \in Nat /\ x.date <= tick
                              /\ x.date < x.cookie.ends
    /\ x.at = "leaving" => CookieSound(x.cookie)
    /\ x.at = "answered" =>
         /\ "session" \in DOMAIN x.set => CookieSound(x.set["session"])
         /\ x.status = "identified" => IdentitySound(x.subject, x.date)

ConsentSound(x) ==
    /\ x.at \in {"code", "granted"} => x.subject \in Person
    /\ x.at = "granted" => x.since \in Nat /\ x.revoked \in Nat

Keyed ==
    /\ consent = [s \in SignIn |-> consent[s]]
    /\ fetch = [f \in Fetch |-> fetch[f]]
    /\ jar = [c \in {"session", "oidc"} |-> jar[c]]

SignInInv ==
    /\ tick \in Nat /\ tick <= LastTick
    /\ Keyed
    /\ CookieSound(jar["session"])
    /\ \A s \in SignIn : ConsentSound(consent[s])
    /\ \A f \in Fetch : FetchSound(fetch[f])

-----------------------------------------------------------------------------
(* A grant is not taken back, but may be revoked now *)

GrantsKept ==
    /\ tick' \in Nat /\ tick <= tick'
    /\ \A s \in SignIn : Granted(s) =>
         /\ Granted(s)'
         /\ consent'[s].subject = consent[s].subject
         /\ consent'[s].since = consent[s].since
         /\ consent'[s].revoked = consent[s].revoked \/ consent'[s].revoked = tick

LEMMA SealedStays ==
    ASSUME SignInInv, GrantsKept, NEW c, Sealed(c)
    PROVE  Sealed(c)'
<1>1. PICK s \in SignIn : s = c.signIn
  BY DEF Sealed, SessionCookie
<1>2. /\ tick \in Nat /\ tick' \in Nat /\ tick <= tick' /\ IdTTL \in Nat /\ c.idEnds \in Nat
  BY SignInAssumption DEF SignInInv, GrantsKept, Sealed, SessionCookie
<1>3. c.idEnds <= tick' + IdTTL
  BY <1>2 DEF Sealed
<1>4. /\ Granted(s)' /\ consent'[s].subject = consent[s].subject
      /\ consent'[s].since = consent[s].since
      /\ consent'[s].revoked = consent[s].revoked \/ consent'[s].revoked = tick
  BY <1>1 DEF Sealed, GrantsKept
<1>5. c.idEnds <= consent'[s].revoked + IdTTL
  BY <1>1, <1>4 DEF Sealed
<1>6. QED
  BY <1>1, <1>3, <1>4, <1>5 DEF Sealed

LEMMA IdentityStays ==
    ASSUME SignInInv, GrantsKept, NEW o, NEW d, IdentitySound(o, d)
    PROVE  IdentitySound(o, d)'
<1>1. PICK s \in SignIn : IdentifiedBy(s, o, d)
  BY DEF IdentitySound
<1>2. /\ tick \in Nat /\ tick' \in Nat /\ tick <= tick' /\ IdTTL \in Nat \ {0}
      /\ d \in Nat /\ d <= tick
  BY <1>1, SignInAssumption DEF SignInInv, GrantsKept, IdentifiedBy
<1>3. d <= tick' /\ d < tick + IdTTL
  BY <1>2
<1>4. /\ Granted(s)' /\ consent'[s].subject = consent[s].subject
      /\ consent'[s].since = consent[s].since
      /\ consent'[s].revoked = consent[s].revoked \/ consent'[s].revoked = tick
  BY <1>1 DEF IdentifiedBy, GrantsKept
<1>5. IdentifiedBy(s, o, d)'
  BY <1>1, <1>2, <1>3, <1>4 DEF IdentifiedBy
<1>6. QED
  BY <1>5 DEF IdentitySound

LEMMA CookieStays ==
    ASSUME SignInInv, GrantsKept, NEW c, CookieSound(c)
    PROVE  CookieSound(c)'
  BY SealedStays DEF CookieSound

LEMMA FetchStays ==
    ASSUME SignInInv, GrantsKept, NEW x, FetchSound(x)
    PROVE  FetchSound(x)'
<1>1. ASSUME x.at = "asked" PROVE Sealed(x.cookie)'
  BY <1>1, SealedStays DEF FetchSound
<1>2. ASSUME x.at = "refreshing"
      PROVE  Sealed(x.cookie)' /\ x.date \in Nat /\ x.date <= tick' /\ x.date < x.cookie.ends
  <2>1. Sealed(x.cookie)'
    BY <1>2, SealedStays DEF FetchSound
  <2>2. x.date <= tick'
    BY <1>2 DEF FetchSound, SignInInv, GrantsKept
  <2>3. QED
    BY <1>2, <2>1, <2>2 DEF FetchSound
<1>3. ASSUME x.at = "leaving" PROVE CookieSound(x.cookie)'
  BY <1>3, CookieStays DEF FetchSound
<1>4. ASSUME x.at = "answered", "session" \in DOMAIN x.set
      PROVE  CookieSound(x.set["session"])'
  BY <1>4, CookieStays DEF FetchSound
<1>5. ASSUME x.at = "answered", x.status = "identified"
      PROVE  IdentitySound(x.subject, x.date)'
  BY <1>5, IdentityStays DEF FetchSound
<1>6. QED
  BY <1>1, <1>2, <1>3, <1>4, <1>5 DEF FetchSound

-----------------------------------------------------------------------------
(* The turns of a request *)

LEMMA FetchTurned ==
    ASSUME Keyed, NEW f \in Fetch, NEW x, fetch' = [fetch EXCEPT ![f] = x]
    PROVE  /\ fetch' = [g \in Fetch |-> fetch'[g]]
           /\ fetch'[f] = x
           /\ \A g \in Fetch \ {f} : fetch'[g] = fetch[g]
  BY DEF Keyed

LEMMA ConsentTurned ==
    ASSUME Keyed, NEW s \in SignIn, NEW x, consent' = [consent EXCEPT ![s] = x]
    PROVE  /\ consent' = [r \in SignIn |-> consent'[r]]
           /\ consent'[s] = x
           /\ \A r \in SignIn \ {s} : consent'[r] = consent[r]
  BY DEF Keyed

LEMMA NothingGranted ==
    ASSUME SignInInv, UNCHANGED consent, tick' \in Nat, tick <= tick'
    PROVE  GrantsKept
  BY DEF GrantsKept, Granted

\* A request that takes a turn, with what it does to the consents.
LEMMA FetchKeeps ==
    ASSUME SignInInv, NEW f \in Fetch, NEW x, fetch' = [fetch EXCEPT ![f] = x],
           FetchSound(x)', GrantsKept, UNCHANGED <<tick, jar>>,
           consent' = [s \in SignIn |-> consent'[s]],
           \A s \in SignIn : ConsentSound(consent'[s])
    PROVE  SignInInv'
<1>1. /\ Keyed /\ tick \in Nat /\ tick <= LastTick
  BY DEF SignInInv
<1>2. /\ fetch' = [g \in Fetch |-> fetch'[g]] /\ fetch'[f] = x
      /\ \A g \in Fetch \ {f} : fetch'[g] = fetch[g]
  BY <1>1, FetchTurned
<1>3. Keyed'
  BY <1>1, <1>2 DEF Keyed
<1>4. ASSUME NEW g \in Fetch PROVE FetchSound(fetch[g])'
  <2>1. CASE g = f
    BY <1>2, <2>1 DEF FetchSound
  <2>2. CASE g # f
    <3>1. PICK y : y = fetch[g]
      OBVIOUS
    <3>2. FetchSound(y)'
      BY <3>1, FetchStays DEF SignInInv
    <3>3. QED
      BY <1>2, <2>2, <3>1, <3>2 DEF FetchSound
  <2>3. QED
    BY <2>1, <2>2
<1>5. CookieSound(jar["session"])'
  <2>1. PICK c : c = jar["session"]
    OBVIOUS
  <2>2. CookieSound(c)'
    BY <2>1, CookieStays DEF SignInInv
  <2>3. QED
    BY <2>1, <2>2 DEF CookieSound, Sealed
<1>6. \A s \in SignIn : ConsentSound(consent[s])'
  BY DEF ConsentSound
<1>7. QED
  BY <1>1, <1>3, <1>4, <1>5, <1>6 DEF SignInInv

\* A request that takes a turn of its own.
LEMMA OwnTurnKeeps ==
    ASSUME SignInInv, NEW f \in Fetch, NEW x, fetch' = [fetch EXCEPT ![f] = x],
           FetchSound(x), UNCHANGED <<tick, jar, consent>>
    PROVE  SignInInv'
<1>1. GrantsKept
  BY NothingGranted DEF SignInInv
<1>2. FetchSound(x)'
  BY <1>1, FetchStays
<1>3. /\ consent' = [s \in SignIn |-> consent'[s]]
      /\ \A s \in SignIn : ConsentSound(consent'[s])
  BY DEF SignInInv, Keyed
<1>4. QED
  BY <1>1, <1>2, <1>3, FetchKeeps

LEMMA PassKeeps == ASSUME SignInInv, Pass PROVE SignInInv'
<1>1. /\ tick \in Nat /\ tick' = tick + 1 /\ tick < LastTick /\ LastTick \in Nat
      /\ UNCHANGED <<jar, consent, fetch>>
  BY SignInAssumption DEF SignInInv, Pass
<1>2. GrantsKept /\ tick' \in Nat /\ tick' <= LastTick
  BY <1>1, NothingGranted
<1>3. ASSUME NEW f \in Fetch PROVE FetchSound(fetch[f])'
  <2>1. PICK y : y = fetch[f]
    OBVIOUS
  <2>2. FetchSound(y)'
    BY <1>2, <2>1, FetchStays DEF SignInInv
  <2>3. QED
    BY <1>1, <2>1, <2>2 DEF FetchSound
<1>4. CookieSound(jar["session"])'
  <2>1. PICK c : c = jar["session"]
    OBVIOUS
  <2>2. CookieSound(c)'
    BY <1>2, <2>1, CookieStays DEF SignInInv
  <2>3. QED
    BY <1>1, <2>1, <2>2 DEF CookieSound, Sealed
<1>5. Keyed' /\ \A s \in SignIn : ConsentSound(consent[s])'
  BY <1>1 DEF SignInInv, Keyed, ConsentSound
<1>6. QED
  BY <1>2, <1>3, <1>4, <1>5 DEF SignInInv

\* A sign-in before it is granted: the sessions are others'.
LEMMA NotGrantedKeeps ==
    ASSUME SignInInv, NEW s \in SignIn, ~Granted(s), NEW x, ConsentSound(x),
           consent' = [consent EXCEPT ![s] = x], UNCHANGED tick
    PROVE  /\ GrantsKept
           /\ consent' = [r \in SignIn |-> consent'[r]]
           /\ consent'[s] = x
           /\ \A r \in SignIn : ConsentSound(consent'[r])
<1>1. /\ consent' = [r \in SignIn |-> consent'[r]] /\ consent'[s] = x
      /\ \A r \in SignIn \ {s} : consent'[r] = consent[r]
  BY ConsentTurned DEF SignInInv
<1>2. GrantsKept
  BY <1>1 DEF SignInInv, GrantsKept, Granted
<1>3. \A r \in SignIn : ConsentSound(consent'[r])
  BY <1>1 DEF SignInInv
<1>4. QED
  BY <1>1, <1>2, <1>3

\* The requests and the session of the browser stay as they are.
LEMMA ConsentKeeps ==
    ASSUME SignInInv, GrantsKept, UNCHANGED <<tick, fetch>>,
           consent' = [r \in SignIn |-> consent'[r]],
           \A r \in SignIn : ConsentSound(consent'[r]),
           jar' = [c \in {"session", "oidc"} |-> jar'[c]],
           jar'["session"] = jar["session"]
    PROVE  SignInInv'
<1>1. ASSUME NEW f \in Fetch PROVE FetchSound(fetch[f])'
  <2>1. PICK y : y = fetch[f]
    OBVIOUS
  <2>2. FetchSound(y)'
    BY <2>1, FetchStays DEF SignInInv
  <2>3. QED
    BY <2>1, <2>2 DEF FetchSound
<1>2. CookieSound(jar["session"])'
  <2>1. PICK c : c = jar["session"]
    OBVIOUS
  <2>2. CookieSound(c)'
    BY <2>1, CookieStays DEF SignInInv
  <2>3. QED
    BY <2>1, <2>2 DEF CookieSound, Sealed
<1>3. Keyed'
  BY DEF SignInInv, Keyed
<1>4. \A r \in SignIn : ConsentSound(consent[r])'
  BY DEF ConsentSound
<1>5. QED
  BY <1>1, <1>2, <1>3, <1>4 DEF SignInInv

LEMMA ConsentGiven ==
    ASSUME SignInInv, NEW s \in SignIn, NEW o \in Person, Consent(s, o)
    PROVE  SignInInv'
<1> DEFINE x == [at |-> "code", subject |-> o]
<1>1. consent' = [consent EXCEPT ![s] = x] /\ UNCHANGED <<tick, jar, fetch>> /\ ~Granted(s)
  BY DEF Consent, Granted
<1>2. ConsentSound(x)
  BY DEF ConsentSound
<1> HIDE DEF x
<1>3. /\ GrantsKept /\ consent' = [r \in SignIn |-> consent'[r]]
      /\ \A r \in SignIn : ConsentSound(consent'[r])
  BY <1>1, <1>2, NotGrantedKeeps
<1>4. QED
  BY <1>1, <1>3, ConsentKeeps DEF SignInInv, Keyed

LEMMA LoginKeeps == ASSUME SignInInv, NEW s \in SignIn, Login(s) PROVE SignInInv'
<1> DEFINE x == [at |-> "asked"]
<1>1. consent' = [consent EXCEPT ![s] = x] /\ UNCHANGED <<tick, fetch>> /\ ~Granted(s)
  BY DEF Login, Granted, NotBegun
<1>2. ConsentSound(x)
  BY DEF ConsentSound
<1> HIDE DEF x
<1>3. /\ GrantsKept /\ consent' = [r \in SignIn |-> consent'[r]]
      /\ \A r \in SignIn : ConsentSound(consent'[r])
  BY <1>1, <1>2, NotGrantedKeeps
<1>4. /\ jar' = [c \in {"session", "oidc"} |-> jar'[c]]
      /\ jar'["session"] = jar["session"]
  BY DEF Login, SignInInv, Keyed
<1>5. QED
  BY <1>1, <1>3, <1>4, ConsentKeeps

LEMMA CallBackKeeps ==
    ASSUME SignInInv, NEW f \in Fetch, NEW s \in SignIn, CallBack(f, s)
    PROVE  SignInInv'
<1> DEFINE x == [at |-> "callback", state |-> s, cookie |-> jar.oidc]
<1>1. fetch' = [fetch EXCEPT ![f] = x] /\ UNCHANGED <<tick, jar, consent>>
  BY DEF CallBack
<1>2. FetchSound(x)
  BY DEF FetchSound
<1> HIDE DEF x
<1>3. QED
  BY <1>1, <1>2, OwnTurnKeeps

LEMMA RequestKeeps == ASSUME SignInInv, NEW f \in Fetch, Request(f) PROVE SignInInv'
<1> DEFINE x == [at |-> "asked", cookie |-> jar.session]
<1>1. /\ fetch' = [fetch EXCEPT ![f] = x] /\ UNCHANGED <<tick, jar, consent>>
      /\ jar["session"] # NoCookie
  BY DEF Request
<1>2. Sealed(jar["session"])
  BY <1>1 DEF SignInInv, CookieSound
<1>3. FetchSound(x)
  BY <1>2 DEF FetchSound
<1> HIDE DEF x
<1>4. QED
  BY <1>1, <1>3, OwnTurnKeeps

LEMMA LogoutKeeps == ASSUME SignInInv, NEW f \in Fetch, Logout(f) PROVE SignInInv'
<1> DEFINE x == [at |-> "leaving", cookie |-> jar.session]
<1>1. fetch' = [fetch EXCEPT ![f] = x] /\ UNCHANGED <<tick, jar, consent>>
  BY DEF Logout
<1>2. FetchSound(x)
  BY DEF FetchSound, SignInInv
<1> HIDE DEF x
<1>3. QED
  BY <1>1, <1>2, OwnTurnKeeps

LEMMA UnauthenticatedSound == FetchSound(Unauthenticated)
<1>1. /\ Unauthenticated.at = "answered" /\ Unauthenticated.status = "unauthenticated"
      /\ Unauthenticated.set = [none |-> NoCookie]
  BY DEF Unauthenticated
<1>2. "session" \notin DOMAIN [none |-> NoCookie]
  OBVIOUS
<1>3. QED
  BY <1>1, <1>2 DEF FetchSound

LEMMA AuthenticatedSound ==
    ASSUME NEW c, NEW d, NEW cookies, IdentitySound(c.subject, d),
           "session" \in DOMAIN cookies => CookieSound(cookies["session"])
    PROVE  FetchSound(Authenticated(c, d, cookies))
<1>1. PICK x : x = Authenticated(c, d, cookies)
  OBVIOUS
<1>2. /\ x.at = "answered" /\ x.status = "identified" /\ x.subject = c.subject
      /\ x.date = d /\ x.set = cookies
  BY <1>1 DEF Authenticated
<1>3. FetchSound(x)
  BY <1>2 DEF FetchSound
<1>4. QED
  BY <1>1, <1>3

\* A sealed session that is not over identifies its subject.
LEMMA SealedIdentifies ==
    ASSUME SignInInv, NEW c, Sealed(c), NEW d \in Nat, d <= tick, d < c.ends,
           \/ d < c.idEnds
           \/ consent[c.signIn].revoked = LastTick + 1
    PROVE  IdentitySound(c.subject, d)
<1>1. PICK s \in SignIn : s = c.signIn
  BY DEF Sealed, SessionCookie
<1>2. /\ ConsentSound(consent[s]) /\ consent[s].at = "granted"
  BY <1>1 DEF SignInInv, Sealed, Granted
<1>3. /\ consent[s].since \in Nat /\ consent[s].revoked \in Nat
      /\ tick \in Nat /\ tick <= LastTick /\ LastTick \in Nat /\ IdTTL \in Nat
      /\ SessionTTL \in Nat /\ c.ends \in Nat /\ c.idEnds \in Nat
  BY <1>2, SignInAssumption DEF ConsentSound, SignInInv, Sealed, SessionCookie
<1>4. c.ends <= consent[s].since + SessionTTL /\ c.idEnds <= consent[s].revoked + IdTTL
  BY <1>1 DEF Sealed
<1>5. d < consent[s].since + SessionTTL
  BY <1>3, <1>4
<1>6. d < consent[s].revoked + IdTTL
  BY <1>1, <1>3, <1>4
<1>7. IdentifiedBy(s, c.subject, d)
  BY <1>1, <1>5, <1>6 DEF IdentifiedBy, Sealed
<1>8. QED
  BY <1>7 DEF IdentitySound

LEMMA ReadSessionKeeps == ASSUME SignInInv, NEW f \in Fetch, ReadSession(f) PROVE SignInInv'
<1>1. PICK c : c = fetch[f].cookie
  OBVIOUS
<1>2. Sealed(c) /\ tick \in Nat
  BY <1>1 DEF ReadSession, SignInInv, FetchSound
<1>3. /\ c.ends \in Nat /\ c.idEnds \in Nat /\ RefreshAhead \in Nat
  BY <1>2, SignInAssumption DEF Sealed, SessionCookie
<1>4. UNCHANGED <<tick, jar, consent>>
  BY DEF ReadSession
<1>5. CASE ~Unsealed(c, tick)
  <2>1. fetch' = [fetch EXCEPT ![f] = Unauthenticated]
    BY <1>1, <1>5 DEF ReadSession
  <2>2. QED
    BY <1>4, <2>1, UnauthenticatedSound, OwnTurnKeeps
<1>6. CASE Unsealed(c, tick) /\ c.idEnds > tick + RefreshAhead
  <2>1. fetch' = [fetch EXCEPT ![f] = Authenticated(c, tick, [none |-> NoCookie])]
    BY <1>1, <1>6 DEF ReadSession
  <2>2. tick < c.ends /\ tick < c.idEnds
    BY <1>2, <1>3, <1>6 DEF Unsealed
  <2>3. IdentitySound(c.subject, tick)
    BY <1>2, <2>2, SealedIdentifies
  <2>4. FetchSound(Authenticated(c, tick, [none |-> NoCookie]))
    <3>1. PICK cookies : cookies = [none |-> NoCookie]
      OBVIOUS
    <3>2. "session" \notin DOMAIN cookies
      BY <3>1
    <3>3. QED
      BY <2>3, <3>1, <3>2, AuthenticatedSound
  <2>5. QED
    BY <1>4, <2>1, <2>4, OwnTurnKeeps
<1>7. CASE Unsealed(c, tick) /\ ~(c.idEnds > tick + RefreshAhead)
  <2> DEFINE x == [at |-> "refreshing", cookie |-> c, date |-> tick]
  <2>1. fetch' = [fetch EXCEPT ![f] = x]
    BY <1>1, <1>7 DEF ReadSession
  <2>2. tick < c.ends
    BY <1>2, <1>3, <1>7 DEF Unsealed
  <2>3. FetchSound(x)
    BY <1>2, <2>2 DEF FetchSound
  <2> HIDE DEF x
  <2>4. QED
    BY <1>4, <2>1, <2>3, OwnTurnKeeps
<1>8. QED
  BY <1>5, <1>6, <1>7

LEMMA RefreshKeeps == ASSUME SignInInv, NEW f \in Fetch, Refresh(f) PROVE SignInInv'
<1>1. PICK c, d : c = fetch[f].cookie /\ d = fetch[f].date
  OBVIOUS
<1>2. /\ Sealed(c) /\ tick \in Nat /\ tick <= LastTick
      /\ d \in Nat /\ d <= tick /\ d < c.ends
  BY <1>1 DEF Refresh, SignInInv, FetchSound
<1>3. UNCHANGED <<tick, jar, consent>>
  BY DEF Refresh
<1>4. CASE Refreshable(c.signIn)
  <2>1. fetch' = [fetch EXCEPT ![f] = Authenticated(c, d, [session |-> Refreshed(c, d)])]
    BY <1>1, <1>4 DEF Refresh
  <2>2. IdentitySound(c.subject, d)
    BY <1>2, <1>4, SealedIdentifies DEF Refreshable
  <2>3. PICK r : r = Refreshed(c, d)
    OBVIOUS
  <2>4. Sealed(r)
    <3>1. IdTTL \in Nat /\ LastTick \in Nat /\ c \in SessionCookie
      BY <1>2, SignInAssumption DEF Sealed
    <3>2. PICK n \in Nat : n = tick + IdTTL
      BY <1>2, <3>1
    <3>3. r = [c EXCEPT !.idEnds = n]
      BY <2>3, <3>2 DEF Refreshed
    <3>4. /\ r \in SessionCookie /\ r.idEnds = n /\ r.ends = c.ends
          /\ r.signIn = c.signIn /\ r.subject = c.subject
      BY <3>1, <3>2, <3>3 DEF SessionCookie
    <3>5. n <= consent[c.signIn].revoked + IdTTL
      BY <1>2, <1>4, <3>1, <3>2 DEF Refreshable
    <3>6. QED
      BY <1>2, <3>2, <3>4, <3>5 DEF Sealed
  <2>5. PICK cookies : cookies = [session |-> r]
    OBVIOUS
  <2>6. CookieSound(cookies["session"])
    BY <2>4, <2>5 DEF CookieSound
  <2>7. FetchSound(Authenticated(c, d, cookies))
    BY <2>2, <2>6, AuthenticatedSound
  <2>8. QED
    BY <1>3, <2>1, <2>3, <2>5, <2>7, OwnTurnKeeps
<1>5. CASE ~Refreshable(c.signIn) /\ c.idEnds > d
  <2>1. fetch' = [fetch EXCEPT ![f] = Authenticated(c, d, [none |-> NoCookie])]
    BY <1>1, <1>5 DEF Refresh
  <2>2. d < c.idEnds
    BY <1>2, <1>5 DEF Sealed, SessionCookie
  <2>3. IdentitySound(c.subject, d)
    BY <1>2, <2>2, SealedIdentifies
  <2>4. PICK cookies : cookies = [none |-> NoCookie]
    OBVIOUS
  <2>5. "session" \notin DOMAIN cookies
    BY <2>4
  <2>6. FetchSound(Authenticated(c, d, cookies))
    BY <2>3, <2>5, AuthenticatedSound
  <2>7. QED
    BY <1>3, <2>1, <2>4, <2>6, OwnTurnKeeps
<1>6. CASE ~Refreshable(c.signIn) /\ ~(c.idEnds > d)
  <2>1. fetch' = [fetch EXCEPT ![f] = Unauthenticated]
    BY <1>1, <1>6 DEF Refresh
  <2>2. QED
    BY <1>3, <2>1, UnauthenticatedSound, OwnTurnKeeps
<1>7. QED
  BY <1>4, <1>5, <1>6

LEMMA RefreshFailsKeeps == ASSUME SignInInv, NEW f \in Fetch, RefreshFails(f) PROVE SignInInv'
  BY UnauthenticatedSound, OwnTurnKeeps DEF RefreshFails

\* A code is granted once, to the subject it was given for.
LEMMA GrantMoves ==
    ASSUME SignInInv, NEW s \in SignIn, consent[s].at = "code",
           consent' = [consent EXCEPT ![s] =
               [at |-> "granted", subject |-> consent[s].subject,
                since |-> tick, revoked |-> LastTick + 1]],
           UNCHANGED tick
    PROVE  /\ GrantsKept
           /\ consent' = [r \in SignIn |-> consent'[r]]
           /\ \A r \in SignIn : ConsentSound(consent'[r])
           /\ consent'[s].at = "granted" /\ consent'[s].subject = consent[s].subject
           /\ consent'[s].since = tick /\ consent'[s].revoked = LastTick + 1
           /\ consent[s].subject \in Person
<1> DEFINE x == [at |-> "granted", subject |-> consent[s].subject,
                 since |-> tick, revoked |-> LastTick + 1]
<1>1. /\ consent[s].subject \in Person /\ tick \in Nat /\ LastTick + 1 \in Nat
      /\ ~Granted(s)
  BY SignInAssumption DEF SignInInv, ConsentSound, Granted
<1>2. /\ x.at = "granted" /\ x.subject = consent[s].subject
      /\ x.since = tick /\ x.revoked = LastTick + 1
  OBVIOUS
<1>3. ConsentSound(x)
  BY <1>1, <1>2 DEF ConsentSound
<1>4. consent' = [consent EXCEPT ![s] = x]
  OBVIOUS
<1> HIDE DEF x
<1>5. QED
  BY <1>1, <1>2, <1>3, <1>4, NotGrantedKeeps

GrantedNow(s) ==
    /\ consent[s].at = "code"
    /\ consent' = [consent EXCEPT ![s] =
           [at |-> "granted", subject |-> consent[s].subject,
            since |-> tick, revoked |-> LastTick + 1]]

LEMMA CompleteSignInKeeps ==
    ASSUME SignInInv, NEW f \in Fetch, CompleteSignIn(f)
    PROVE  SignInInv'
<1>1. PICK s : s = fetch[f].state
  OBVIOUS
<1>2. s \in SignIn /\ UNCHANGED <<tick, jar>> /\ tick \in Nat
  BY <1>1 DEF CompleteSignIn, SignInInv, FetchSound
<1>3. PICK c : c = [subject |-> consent[s].subject, signIn |-> s,
                    idEnds |-> tick + IdTTL, ends |-> tick + SessionTTL]
  OBVIOUS
<1>4. PICK x : x = [at |-> "answered", status |-> "signed in",
                    set |-> [oidc |-> NoCookie, session |-> c]]
  OBVIOUS
<1>5. PICK y : y = [at |-> "answered", status |-> "failed", set |-> [oidc |-> NoCookie]]
  OBVIOUS
<1>6. CASE /\ Completes(f)
           /\ consent' = [consent EXCEPT ![s] = [at |-> "granted", subject |-> @.subject,
                                                 since |-> tick, revoked |-> LastTick + 1]]
           /\ fetch' = [fetch EXCEPT ![f] = x]
  <2>1. GrantedNow(s)
    BY <1>1, <1>6 DEF Completes, GrantedNow
  <2>2. /\ GrantsKept
        /\ consent' = [r \in SignIn |-> consent'[r]]
        /\ \A r \in SignIn : ConsentSound(consent'[r])
        /\ consent'[s].at = "granted" /\ consent'[s].subject = consent[s].subject
        /\ consent'[s].since = tick /\ consent'[s].revoked = LastTick + 1
        /\ consent[s].subject \in Person
    BY <1>2, <2>1, GrantMoves DEF GrantedNow
  <2>3. /\ tick + IdTTL \in Nat /\ tick + SessionTTL \in Nat
        /\ tick + IdTTL <= LastTick + 1 + IdTTL
    BY <1>2, SignInAssumption DEF SignInInv
  <2>4. /\ c \in SessionCookie /\ c.signIn = s
        /\ c.subject = consent[s].subject
        /\ c.idEnds = tick + IdTTL /\ c.ends = tick + SessionTTL
    BY <1>2, <1>3, <2>2, <2>3 DEF SessionCookie
  <2>5. Sealed(c)'
    BY <1>2, <2>2, <2>3, <2>4 DEF Sealed, Granted
  <2>6. /\ x.at = "answered" /\ x.status = "signed in" /\ x.set["session"] = c
    BY <1>4
  <2>7. FetchSound(x)'
    BY <2>5, <2>6 DEF FetchSound, CookieSound
  <2>8. QED
    BY <1>2, <1>6, <2>2, <2>7, FetchKeeps
<1>7. CASE /\ UNCHANGED consent \/ GrantedNow(s)
           /\ fetch' = [fetch EXCEPT ![f] = y]
  <2>1. y.at = "answered" /\ y.status = "failed" /\ "session" \notin DOMAIN y.set
    BY <1>5
  <2>2. FetchSound(y)'
    BY <2>1 DEF FetchSound
  <2>3. CASE UNCHANGED consent
    <3>1. GrantsKept
      BY <1>2, <2>3, NothingGranted
    <3>2. /\ consent' = [r \in SignIn |-> consent'[r]]
          /\ \A r \in SignIn : ConsentSound(consent'[r])
      BY <2>3 DEF SignInInv, Keyed
    <3>3. QED
      BY <1>2, <1>7, <2>2, <3>1, <3>2, FetchKeeps
  <2>4. CASE GrantedNow(s)
    <3>1. /\ GrantsKept
          /\ consent' = [r \in SignIn |-> consent'[r]]
          /\ \A r \in SignIn : ConsentSound(consent'[r])
      BY <1>2, <2>4, GrantMoves DEF GrantedNow
    <3>2. QED
      BY <1>2, <1>7, <2>2, <3>1, FetchKeeps
  <2>5. QED
    BY <1>7, <2>3, <2>4
<1>8. QED
  <2>1. consent' \in {consent} \cup
             (IF Completes(f)
              THEN {[consent EXCEPT ![s] = [at |-> "granted", subject |-> @.subject,
                                            since |-> tick, revoked |-> LastTick + 1]]}
              ELSE {})
        => UNCHANGED consent \/ GrantedNow(s)
    BY <1>1 DEF Completes, GrantedNow
  <2>2. QED
    BY <1>1, <1>3, <1>4, <1>5, <1>6, <1>7, <2>1 DEF CompleteSignIn

LEMMA SignOffKeeps == ASSUME SignInInv, NEW f \in Fetch, SignOff(f) PROVE SignInInv'
<1>1. PICK c : c = fetch[f].cookie
  OBVIOUS
<1>2. CookieSound(c) /\ UNCHANGED <<tick, jar>> /\ tick \in Nat
  BY <1>1 DEF SignOff, SignInInv, FetchSound
<1>3. PICK y : y = [at |-> "answered", status |-> "signed out",
                    set |-> [session |-> NoCookie]]
  OBVIOUS
<1>4. fetch' = [fetch EXCEPT ![f] = y]
  BY <1>3 DEF SignOff
<1>5. y.at = "answered" /\ y.status = "signed out" /\ y.set["session"] = NoCookie
  BY <1>3
<1>6. FetchSound(y)'
  BY <1>5 DEF FetchSound, CookieSound
<1>7. CASE UNCHANGED consent
  <2>1. GrantsKept
    BY <1>2, <1>7, NothingGranted
  <2>2. /\ consent' = [r \in SignIn |-> consent'[r]]
        /\ \A r \in SignIn : ConsentSound(consent'[r])
    BY <1>7 DEF SignInInv, Keyed
  <2>3. QED
    BY <1>2, <1>4, <1>6, <2>1, <2>2, FetchKeeps
<1>8. CASE Unsealed(c, tick) /\ Refreshable(c.signIn)
           /\ consent' = [consent EXCEPT ![c.signIn].revoked = tick]
  <2>1. PICK s \in SignIn : s = c.signIn
    BY <1>2, <1>8 DEF Unsealed, CookieSound, Sealed, SessionCookie
  <2>2. PICK x : x = [consent[s] EXCEPT !.revoked = tick]
    OBVIOUS
  <2>3. consent' = [consent EXCEPT ![s] = x] /\ Keyed
    BY <1>8, <2>1, <2>2 DEF SignInInv, Keyed
  <2>4. /\ consent' = [r \in SignIn |-> consent'[r]] /\ consent'[s] = x
        /\ \A r \in SignIn \ {s} : consent'[r] = consent[r]
    BY <2>3, ConsentTurned
  <2>5. /\ x.at = consent[s].at /\ x.subject = consent[s].subject
        /\ x.since = consent[s].since /\ x.revoked = tick
    BY <2>2
  <2>6. GrantsKept
    BY <1>2, <2>4, <2>5 DEF GrantsKept, Granted
  <2>7. \A r \in SignIn : ConsentSound(consent'[r])
    BY <1>2, <2>4, <2>5 DEF SignInInv, ConsentSound
  <2>8. QED
    BY <1>2, <1>4, <1>6, <2>4, <2>6, <2>7, FetchKeeps
<1>9. QED
  BY <1>1, <1>7, <1>8 DEF SignOff

\* The session the browser is left with is one that was sealed, or none.
LEMMA ArriveKeeps == ASSUME SignInInv, NEW f \in Fetch, Arrive(f) PROVE SignInInv'
<1>1. /\ fetch[f].at = "answered" /\ UNCHANGED <<tick, consent>>
      /\ fetch' = [fetch EXCEPT ![f] = NotBegun]
      /\ Keyed /\ FetchSound(fetch[f]) /\ CookieSound(jar["session"])
      /\ tick \in Nat /\ tick <= LastTick
  BY DEF Arrive, SignInInv
<1>2. NotBegun.at = "unused"
  BY DEF NotBegun
<1>3. /\ fetch' = [g \in Fetch |-> fetch'[g]] /\ fetch'[f] = NotBegun
      /\ \A g \in Fetch \ {f} : fetch'[g] = fetch[g]
  BY <1>1, FetchTurned
<1>4. GrantsKept
  BY <1>1, NothingGranted
<1>5. ASSUME NEW g \in Fetch PROVE FetchSound(fetch[g])'
  <2>1. CASE g = f
    BY <1>2, <1>3, <2>1 DEF FetchSound
  <2>2. CASE g # f
    <3>1. PICK y : y = fetch[g]
      OBVIOUS
    <3>2. FetchSound(y)'
      BY <1>4, <3>1, FetchStays DEF SignInInv
    <3>3. QED
      BY <1>3, <2>2, <3>1, <3>2 DEF FetchSound
  <2>3. QED
    BY <2>1, <2>2
<1>6. /\ jar' = [c \in {"session", "oidc"} |-> jar'[c]]
      /\ CookieSound(jar'["session"])
  <2>1. CASE jar' = jar
    BY <1>1, <2>1 DEF Keyed
  <2>2. CASE jar' = [c \in DOMAIN jar |->
                        IF c \in DOMAIN fetch[f].set THEN fetch[f].set[c] ELSE jar[c]]
    <3>1. DOMAIN jar = {"session", "oidc"}
      BY <1>1 DEF Keyed
    <3>2. jar'["session"] = IF "session" \in DOMAIN fetch[f].set
                            THEN fetch[f].set["session"] ELSE jar["session"]
      BY <2>2, <3>1
    <3>3. CookieSound(jar'["session"])
      BY <1>1, <3>2 DEF FetchSound
    <3>4. jar' = [c \in {"session", "oidc"} |-> jar'[c]]
      BY <2>2, <3>1
    <3>5. QED
      BY <3>3, <3>4
  <2>3. QED
    BY <2>1, <2>2 DEF Arrive
<1>7. CookieSound(jar["session"])'
  <2>1. PICK c : c = jar'["session"]
    OBVIOUS
  <2>2. CookieSound(c)'
    BY <1>4, <1>6, <2>1, CookieStays
  <2>3. QED
    BY <2>1, <2>2 DEF CookieSound, Sealed
<1>8. Keyed' /\ \A s \in SignIn : ConsentSound(consent[s])'
  BY <1>1, <1>3, <1>6 DEF Keyed, SignInInv, ConsentSound
<1>9. QED
  BY <1>1, <1>5, <1>7, <1>8 DEF SignInInv

-----------------------------------------------------------------------------
LEMMA SignInInitInv == SignInInit => SignInInv
<1> SUFFICES ASSUME SignInInit PROVE SignInInv
  OBVIOUS
<1>1. /\ tick = 0 /\ jar = [session |-> NoCookie, oidc |-> NoCookie]
      /\ consent = [s \in SignIn |-> NotBegun] /\ fetch = [f \in Fetch |-> NotBegun]
  BY DEF SignInInit
<1>2. NotBegun.at = "unused"
  BY DEF NotBegun
<1>3. Keyed
  <2>1. jar = [c \in {"session", "oidc"} |-> jar[c]]
    BY <1>1
  <2>2. QED
    BY <1>1, <2>1 DEF Keyed
<1>4. CookieSound(jar["session"])
  BY <1>1 DEF CookieSound
<1>5. \A s \in SignIn : ConsentSound(consent[s])
  BY <1>1, <1>2 DEF ConsentSound
<1>6. \A f \in Fetch : FetchSound(fetch[f])
  BY <1>1, <1>2 DEF FetchSound
<1>7. tick \in Nat /\ tick <= LastTick
  BY <1>1, SignInAssumption
<1>8. QED
  BY <1>3, <1>4, <1>5, <1>6, <1>7 DEF SignInInv

LEMMA SignInNextInv == SignInInv /\ [SignInNext]_signInVars => SignInInv'
<1> SUFFICES ASSUME SignInInv, [SignInNext]_signInVars PROVE SignInInv'
  OBVIOUS
<1>1. ASSUME NEW f \in Fetch,
             \/ \E s \in SignIn : CallBack(f, s)
             \/ CompleteSignIn(f) \/ Request(f) \/ ReadSession(f) \/ Refresh(f)
             \/ RefreshFails(f) \/ Logout(f) \/ SignOff(f) \/ Arrive(f)
      PROVE  SignInInv'
  BY <1>1, CallBackKeeps, CompleteSignInKeeps, RequestKeeps, ReadSessionKeeps,
     RefreshKeeps, RefreshFailsKeeps, LogoutKeeps, SignOffKeeps, ArriveKeeps
<1>2. ASSUME NEW s \in SignIn, Login(s) \/ \E o \in Person : Consent(s, o)
      PROVE  SignInInv'
  BY <1>2, LoginKeeps, ConsentGiven
<1>3. CASE UNCHANGED signInVars
  <2>1. UNCHANGED <<tick, jar, consent, fetch>> /\ tick \in Nat
    BY <1>3 DEF signInVars, SignInInv
  <2>2. GrantsKept
    BY <2>1, NothingGranted
  <2>3. /\ consent' = [r \in SignIn |-> consent'[r]]
        /\ \A r \in SignIn : ConsentSound(consent'[r])
        /\ jar' = [c \in {"session", "oidc"} |-> jar'[c]]
    BY <2>1 DEF SignInInv, Keyed
  <2>4. QED
    BY <2>1, <2>2, <2>3, ConsentKeeps
<1>4. QED
  BY <1>1, <1>2, <1>3, PassKeeps DEF SignInNext

\* Whoever an answer identifies signed in here, less than a session before, and less
\* than an ID token after a sign-out that the provider was told of, whatever order the
\* answers of one browser arrive in and however many are lost.
THEOREM SignedInTheorem == SignInSpec => []SignedInWhileGranted
<1>1. SignInInv => SignedInWhileGranted
  BY DEF SignInInv, SignedInWhileGranted, FetchSound, IdentitySound, IdentifiedBy
<1>2. QED
  BY <1>1, SignInInitInv, SignInNextInv, PTL DEF SignInSpec
=============================================================================
