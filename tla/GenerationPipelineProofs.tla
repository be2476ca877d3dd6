----------------------- MODULE GenerationPipelineProofs -----------------------
(***************************************************************************)
(* Proofs about CreditLedger and about GenerationPipeline, which extends   *)
(* it, for every set of jobs and of events, every number of credits,       *)
(* retries and faults and every fault model.                               *)
(*                                                                         *)
(*  - LedgerInv is inductive: the counters of the ENTITLEMENT item agree   *)
(*    with the JOB items, and the ledger implements the account.           *)
(*  - Each step of the pipeline is a step of the ledger, or leaves it      *)
(*    alone, so the pipeline implements the ledger and inherits its        *)
(*    invariants.                                                          *)
(*  - SpendInv, an invariant on the calls in flight: a call past the       *)
(*    freeze exists only for a job whose credit was frozen, and no         *)
(*    abandoned call can undo that.  From it SpendNeedsCredit and          *)
(*    SucceededIsCharged.                                                  *)
(*  - RunInv, on how far the execution is: while it makes its meditation   *)
(*    nothing settles the job, so an object that is missing and a credit   *)
(*    that is stranded have a cause that can be named.  From it            *)
(*    StrandedOnlyBy, PaidNarrationKept and OnlyStraysWriteAfterSettlement.*)
(***************************************************************************)
EXTENDS GenerationPipeline, FiniteSetTheorems, TLAPS

(***************************************************************************)
(* How one job changing status moves the two counted sets.                 *)
(***************************************************************************)

\* A job that leaves a finite set makes it smaller by one.
LEMMA LeaveSet ==
    ASSUME NEW S, IsFiniteSet(S), NEW j \in S, NEW T, T = S \ {j}
    PROVE  IsFiniteSet(T) /\ Cardinality(T) = Cardinality(S) - 1
           /\ Cardinality(S) \in Nat
  BY FS_RemoveElement, FS_CardinalityType

\* A job that joins a finite set makes it larger by one.
LEMMA JoinSet ==
    ASSUME NEW S, IsFiniteSet(S), NEW j, j \notin S, NEW T, T = S \union {j}
    PROVE  IsFiniteSet(T) /\ Cardinality(T) = Cardinality(S) + 1
           /\ Cardinality(S) \in Nat
  BY FS_AddElement, FS_CardinalityType

\* The statuses of every other job are untouched by SetStatus.
LEMMA SetStatusEffect ==
    ASSUME LedgerTypeOK, NEW j \in Job, NEW s \in Status, SetStatus(j, s)
    PROVE  /\ status' \in [Job -> Status]
           /\ status'[j] = s
           /\ \A k \in Job \ {j} : status'[k] = status[k]
  BY DEF LedgerTypeOK, SetStatus

\* Freezing adds the job to those in flight and to no other set.
LEMMA FreezeSets ==
    ASSUME LedgerTypeOK, NEW j \in Job, FreezeCredit(j)
    PROVE  /\ j \notin InFlight
           /\ InFlight' = InFlight \union {j}
           /\ Charged' = Charged
  BY SetStatusEffect
  DEF FreezeCredit, Freezable, InFlight, Charged, InFlightStatus,
      ChargedStatus, Status

\* Committing moves the job from those in flight to those charged.
LEMMA CommitSets ==
    ASSUME LedgerTypeOK, NEW j \in Job, CommitCredit(j)
    PROVE  /\ j \in InFlight
           /\ InFlight' = InFlight \ {j}
           /\ j \notin Charged
           /\ Charged' = Charged \union {j}
  BY SetStatusEffect
  DEF CommitCredit, Committable, InFlight, Charged, InFlightStatus,
      ChargedStatus, Status

\* Rolling back removes the job from those in flight; it is never charged.
LEMMA RollbackSets ==
    ASSUME LedgerTypeOK, NEW j \in Job, status[j] # "FAILED",
           RollbackCredit(j)
    PROVE  /\ j \in InFlight
           /\ InFlight' = InFlight \ {j}
           /\ Charged' = Charged
  BY SetStatusEffect
  DEF RollbackCredit, Refundable, InFlight, Charged, InFlightStatus,
      ChargedStatus, Status

\* The status changes that are no credit operation leave both sets alone.
LEMMA LifecycleSets ==
    ASSUME LedgerTypeOK, NEW j \in Job,
           CreateJob(j) \/ MarkJobGenerating(j) \/ MarkJobDeleted(j)
    PROVE  InFlight' = InFlight /\ Charged' = Charged
  BY SetStatusEffect
  DEF CreateJob, MarkJobGenerating, MarkJobDeleted, InFlight, Charged,
      InFlightStatus, ChargedStatus, Status

-----------------------------------------------------------------------------
(***************************************************************************)
(* The inductive invariant.                                                *)
(***************************************************************************)

\* An empty ledger satisfies the invariant.
LEMMA LedgerInvInit == LedgerInit => LedgerInv
<1> SUFFICES ASSUME LedgerInit PROVE LedgerInv
  OBVIOUS
<1>1. LedgerTypeOK /\ \A j \in Job : status[j] # "FAILED"
  BY DEF LedgerInit, LedgerTypeOK, Status
<1>2. InFlight = {} /\ Charged = {}
  BY DEF LedgerInit, InFlight, Charged, InFlightStatus, ChargedStatus
<1>3. IsFiniteSet({}) /\ Cardinality({}) = 0
  BY FS_EmptySet
<1>4. FrozenCountsInFlight /\ CreditsConserved
  BY <1>2, <1>3 DEF LedgerInit, FrozenCountsInFlight, CreditsConserved
<1> QED
  BY <1>1, <1>4 DEF LedgerInv, LedgerInit

\* Types and the absence of FAILED, which need nothing of the counts but that
\* a frozen credit exists when one is released.
LEMMA LedgerTypeStep ==
    ASSUME LedgerInv, LedgerNext
    PROVE  /\ LedgerTypeOK'
           /\ \A j \in Job : status'[j] # "FAILED"
           /\ ~provisioned' => available' = 0 /\ frozen' = 0
<1> USE LedgerAssumption DEF LedgerInv, LedgerTypeOK
<1>1. CASE InitializeUser
  BY <1>1 DEF InitializeUser
<1>2. CASE \E e \in Event : ApplyStripeEvent(e)
  BY <1>2 DEF ApplyStripeEvent
<1>3. ASSUME NEW j \in Job, CreateJob(j) \/ MarkJobGenerating(j)
                             \/ MarkJobDeleted(j)
      PROVE  /\ LedgerTypeOK'
             /\ \A k \in Job : status'[k] # "FAILED"
             /\ ~provisioned' => available' = 0 /\ frozen' = 0
  BY <1>3 DEF CreateJob, MarkJobGenerating, MarkJobDeleted, SetStatus,
              entitlement, Status
<1>4. ASSUME NEW j \in Job, FreezeCredit(j) \/ CommitCredit(j)
                             \/ RollbackCredit(j)
      PROVE  /\ LedgerTypeOK'
             /\ \A k \in Job : status'[k] # "FAILED"
             /\ ~provisioned' => available' = 0 /\ frozen' = 0
  BY <1>4 DEF FreezeCredit, CommitCredit, RollbackCredit, HasAvailable,
              HasFrozen, SetStatus, Status
<1> QED
  BY <1>1, <1>2, <1>3, <1>4 DEF LedgerNext

\* The counts: every operation moves the two counters and the two sets of
\* jobs together.
LEMMA LedgerCountStep ==
    ASSUME LedgerInv, LedgerNext
    PROVE  FrozenCountsInFlight' /\ CreditsConserved'
<1> USE DEF FrozenCountsInFlight, CreditsConserved
<1>0. /\ LedgerTypeOK
      /\ \A j \in Job : status[j] # "FAILED"
      /\ ~provisioned => available = 0 /\ frozen = 0
      /\ FrozenCountsInFlight
      /\ CreditsConserved
  BY DEF LedgerInv
<1>n. /\ available \in Nat /\ frozen \in Nat /\ granted \in Nat
      /\ Cardinality(Charged) \in Nat
  BY <1>0, FS_CardinalityType DEF LedgerTypeOK
<1>1. CASE InitializeUser
  <2>1. InFlight' = InFlight /\ Charged' = Charged
    BY <1>1 DEF InitializeUser, InFlight, Charged
  <2> QED
    BY <1>0, <1>1, <1>n, <2>1, LedgerAssumption DEF InitializeUser
<1>2. ASSUME NEW e \in Event, ApplyStripeEvent(e)
      PROVE  FrozenCountsInFlight' /\ CreditsConserved'
  <2>1. InFlight' = InFlight /\ Charged' = Charged
    BY <1>2 DEF ApplyStripeEvent, InFlight, Charged
  <2>2. CreditsOf[e] \in Nat
    BY LedgerAssumption
  <2> QED
    BY <1>0, <1>2, <1>n, <2>1, <2>2 DEF ApplyStripeEvent
<1>3. ASSUME NEW j \in Job, CreateJob(j) \/ MarkJobGenerating(j)
                             \/ MarkJobDeleted(j)
      PROVE  FrozenCountsInFlight' /\ CreditsConserved'
  <2>1. InFlight' = InFlight /\ Charged' = Charged
    BY <1>0, <1>3, LifecycleSets
  <2> QED
    BY <1>0, <1>3, <2>1
    DEF CreateJob, MarkJobGenerating, MarkJobDeleted, entitlement
<1>4. ASSUME NEW j \in Job, FreezeCredit(j)
      PROVE  FrozenCountsInFlight' /\ CreditsConserved'
  <2>1. /\ j \notin InFlight /\ InFlight' = InFlight \union {j}
        /\ Charged' = Charged
    BY <1>0, <1>4, FreezeSets
  <2>2. IsFiniteSet(InFlight') /\ Cardinality(InFlight') = Cardinality(InFlight) + 1
    BY <1>0, <2>1, JoinSet
  <2> QED
    BY <1>0, <1>4, <1>n, <2>1, <2>2 DEF FreezeCredit
<1>5. ASSUME NEW j \in Job, CommitCredit(j)
      PROVE  FrozenCountsInFlight' /\ CreditsConserved'
  <2>1. /\ j \in InFlight /\ InFlight' = InFlight \ {j}
        /\ j \notin Charged /\ Charged' = Charged \union {j}
    BY <1>0, <1>5, CommitSets
  <2>2. IsFiniteSet(InFlight') /\ Cardinality(InFlight') = Cardinality(InFlight) - 1
    BY <1>0, <2>1, LeaveSet
  <2>3. IsFiniteSet(Charged') /\ Cardinality(Charged') = Cardinality(Charged) + 1
    BY <1>0, <2>1, JoinSet
  <2> QED
    BY <1>0, <1>5, <1>n, <2>2, <2>3 DEF CommitCredit
<1>6. ASSUME NEW j \in Job, RollbackCredit(j)
      PROVE  FrozenCountsInFlight' /\ CreditsConserved'
  <2>1. /\ j \in InFlight /\ InFlight' = InFlight \ {j}
        /\ Charged' = Charged
    BY <1>0, <1>6, RollbackSets
  <2>2. IsFiniteSet(InFlight') /\ Cardinality(InFlight') = Cardinality(InFlight) - 1
    BY <1>0, <2>1, LeaveSet
  <2> QED
    BY <1>0, <1>6, <1>n, <2>1, <2>2 DEF RollbackCredit
<1> QED
  BY <1>1, <1>2, <1>3, <1>4, <1>5, <1>6 DEF LedgerNext

\* A step that leaves the ledger alone leaves the invariant alone.
LEMMA LedgerInvStutter ==
    ASSUME LedgerInv, UNCHANGED ledgerVars PROVE LedgerInv'
  BY DEF LedgerInv, ledgerVars, LedgerTypeOK, FrozenCountsInFlight,
         CreditsConserved, InFlight, Charged

\* The invariant of the ledger holds of every behaviour: the counters of the
\* ENTITLEMENT item agree with the JOB items whatever calls are made, in any
\* order and any number of times.
THEOREM LedgerInvariant == LedgerSpec => []LedgerInv
<1>1. LedgerInv /\ [LedgerNext]_ledgerVars => LedgerInv'
  BY LedgerTypeStep, LedgerCountStep, LedgerInvStutter DEF LedgerInv
<1> QED
  BY LedgerInvInit, <1>1, PTL DEF LedgerSpec

\* Type correctness: in particular available and frozen are never negative.
THEOREM LedgerTypeCorrect == LedgerSpec => []LedgerTypeOK
<1>1. LedgerInv => LedgerTypeOK
  BY DEF LedgerInv
<1> QED
  BY LedgerInvariant, <1>1, PTL

\* frozen counts the jobs in flight.
THEOREM FrozenIsInFlight == LedgerSpec => []FrozenCountsInFlight
<1>1. LedgerInv => FrozenCountsInFlight
  BY DEF LedgerInv
<1> QED
  BY LedgerInvariant, <1>1, PTL

\* No credit is ever lost, created or spent twice.
THEOREM Conservation == LedgerSpec => []CreditsConserved
<1>1. LedgerInv => CreditsConserved
  BY DEF LedgerInv
<1> QED
  BY LedgerInvariant, <1>1, PTL

\* commit_credit and rollback_credit never meet an ENTITLEMENT without the
\* frozen credit they are about to release.
THEOREM NeverStarves == LedgerSpec => []SettlementNeverStarves
<1>1. LedgerInv => SettlementNeverStarves
  <2> SUFFICES ASSUME LedgerInv, NEW j \in Job, Committable(j) \/ Refundable(j)
               PROVE  HasFrozen
    BY DEF SettlementNeverStarves
  <2>1. j \in InFlight
    BY DEF LedgerInv, Committable, Refundable, InFlight, InFlightStatus
  <2>2. /\ IsFiniteSet(InFlight) /\ frozen = Cardinality(InFlight)
        /\ frozen \in Nat
        /\ ~provisioned => frozen = 0
        /\ provisioned \in BOOLEAN
    BY DEF LedgerInv, FrozenCountsInFlight, LedgerTypeOK
  <2>3. frozen # 0
    BY <2>1, <2>2, FS_EmptySet
  <2> QED
    BY <2>2, <2>3 DEF HasFrozen
<1> QED
  BY LedgerInvariant, <1>1, PTL

-----------------------------------------------------------------------------
(***************************************************************************)
(* Settlement.                                                             *)
(***************************************************************************)

\* One step of the ledger moves no job where MayFollow does not allow.
LEMMA LedgerStepMayFollow ==
    ASSUME LedgerInv, [LedgerNext]_ledgerVars
    PROVE  \A j \in Job : MayFollow(status[j], status'[j])
<1> USE DEF LedgerInv, LedgerTypeOK, MayFollow, InFlightStatus, SetStatus
<1>1. CASE InitializeUser
  BY <1>1 DEF InitializeUser
<1>2. CASE \E e \in Event : ApplyStripeEvent(e)
  BY <1>2 DEF ApplyStripeEvent
<1>3. ASSUME NEW k \in Job, CreateJob(k) \/ MarkJobGenerating(k)
                             \/ MarkJobDeleted(k)
      PROVE  \A j \in Job : MayFollow(status[j], status'[j])
  BY <1>3 DEF CreateJob, MarkJobGenerating, MarkJobDeleted
<1>4. ASSUME NEW k \in Job, FreezeCredit(k) \/ CommitCredit(k)
                             \/ RollbackCredit(k)
      PROVE  \A j \in Job : MayFollow(status[j], status'[j])
  BY <1>4 DEF FreezeCredit, CommitCredit, RollbackCredit, Freezable,
              Committable, Refundable
<1>5. CASE UNCHANGED ledgerVars
  BY <1>5 DEF ledgerVars
<1> QED
  BY <1>1, <1>2, <1>3, <1>4, <1>5 DEF LedgerNext

\* A delivered job is never refunded, a refunded job never charged, and
\* neither freezes a credit again, at any later step.
THEOREM SettlementFinal == LedgerSpec => SettlementIsFinal
<1>1. LedgerInv /\ [LedgerNext]_ledgerVars
        => [\A j \in Job : MayFollow(status[j], status'[j])]_ledgerVars
  BY LedgerStepMayFollow
<1> QED
  BY LedgerInvariant, <1>1, PTL DEF LedgerSpec, SettlementIsFinal

-----------------------------------------------------------------------------
(***************************************************************************)
(* Refinement: the ledger implements the account.                          *)
(***************************************************************************)

\* A status change seen through HoldOf changes the hold of that job only.
LEMMA HoldEffect ==
    ASSUME LedgerTypeOK, NEW j \in Job, NEW s \in Status, SetStatus(j, s)
    PROVE  [k \in Job |-> HoldOf(status[k])]' =
             [[k \in Job |-> HoldOf(status[k])] EXCEPT ![j] = HoldOf(s)]
  BY SetStatusEffect

\* Every ledger step is a step of the account, or changes nothing it sees.
LEMMA LedgerStepIsAccountStep ==
    ASSUME LedgerInv, LedgerNext
    PROVE  [Account!AccountNext]_(Account!accountVars)
<1>0. LedgerTypeOK /\ LedgerTypeOK'
  BY LedgerTypeStep DEF LedgerInv
<1> DEFINE hold == [k \in Job |-> HoldOf(status[k])]
<1>1. CASE InitializeUser
  <2>1. Account!Grant
    BY <1>0, <1>1, LedgerAssumption
    DEF InitializeUser, Account!Grant, LedgerTypeOK, LedgerInv
  <2> QED
    BY <2>1 DEF Account!AccountNext
<1>2. ASSUME NEW e \in Event, ApplyStripeEvent(e)
      PROVE  Account!AccountNext
  <2>1. CreditsOf[e] \in Nat
    BY LedgerAssumption
  <2>2. Account!Grant
    BY <1>0, <1>2, <2>1 DEF ApplyStripeEvent, Account!Grant, LedgerTypeOK
  <2> QED
    BY <2>2 DEF Account!AccountNext
<1>3. ASSUME NEW j \in Job, CreateJob(j) \/ MarkJobGenerating(j)
                             \/ MarkJobDeleted(j)
      PROVE  UNCHANGED Account!accountVars
  <2>1. PICK s \in Status : SetStatus(j, s) /\ HoldOf(s) = HoldOf(status[j])
    BY <1>3 DEF CreateJob, MarkJobGenerating, MarkJobDeleted, HoldOf,
                InFlightStatus, ChargedStatus, Status
  <2>2. hold' = [hold EXCEPT ![j] = HoldOf(status[j])]
    BY <1>0, <2>1, HoldEffect
  <2>3. hold' = hold
    BY <2>2
  <2> QED
    BY <1>3, <2>3 DEF CreateJob, MarkJobGenerating, MarkJobDeleted,
                      entitlement, Account!accountVars
<1>4. ASSUME NEW j \in Job, FreezeCredit(j)
      PROVE  Account!AccountNext
  <2>1. hold' = [hold EXCEPT ![j] = "held"]
    BY <1>0, <1>4, HoldEffect DEF FreezeCredit, HoldOf, InFlightStatus, Status
  <2>2. hold[j] = "none"
    BY <1>4 DEF FreezeCredit, Freezable, HoldOf, InFlightStatus, ChargedStatus
  <2>3. Account!Hold(j)
    BY <1>0, <1>4, <2>1, <2>2
    DEF FreezeCredit, HasAvailable, Account!Hold, LedgerTypeOK
  <2> QED
    BY <2>3 DEF Account!AccountNext
<1>5. ASSUME NEW j \in Job, CommitCredit(j)
      PROVE  Account!AccountNext
  <2>1. hold' = [hold EXCEPT ![j] = "charged"]
    BY <1>0, <1>5, HoldEffect
    DEF CommitCredit, HoldOf, InFlightStatus, ChargedStatus, Status
  <2>2. hold[j] = "held"
    BY <1>5 DEF CommitCredit, Committable, HoldOf, InFlightStatus
  <2>3. Account!Charge(j)
    BY <1>5, <2>1, <2>2 DEF CommitCredit, Account!Charge
  <2> QED
    BY <2>3 DEF Account!AccountNext
<1>6. ASSUME NEW j \in Job, RollbackCredit(j)
      PROVE  Account!AccountNext
  <2>1. hold' = [hold EXCEPT ![j] = "returned"]
    BY <1>0, <1>6, HoldEffect
    DEF RollbackCredit, HoldOf, InFlightStatus, ChargedStatus, Status
  <2>2. hold[j] = "held"
    BY <1>6 DEF RollbackCredit, Refundable, HoldOf, InFlightStatus, LedgerInv
  <2>3. Account!Return(j)
    BY <1>6, <2>1, <2>2 DEF RollbackCredit, Account!Return
  <2> QED
    BY <2>3 DEF Account!AccountNext
<1> QED
  BY <1>1, <1>2, <1>3, <1>4, <1>5, <1>6 DEF LedgerNext

\* DynamoDB's two-item transactions implement the account: each job's credit
\* is held once, and then charged or returned once.
THEOREM LedgerImplementsAccount == LedgerSpec => ImplementsAccount
<1>1. LedgerInit => Account!AccountInit
  BY DEF LedgerInit, Account!AccountInit, HoldOf, InFlightStatus, ChargedStatus
<1>2. UNCHANGED ledgerVars => UNCHANGED Account!accountVars
  BY DEF ledgerVars, Account!accountVars
<1>3. LedgerInv /\ [LedgerNext]_ledgerVars
        => [Account!AccountNext]_(Account!accountVars)
  BY <1>2, LedgerStepIsAccountStep
<1> QED
  BY LedgerInvariant, <1>1, <1>3, PTL
  DEF LedgerSpec, ImplementsAccount, Account!AccountSpec

-----------------------------------------------------------------------------
(***************************************************************************)
(* The pipeline implements the ledger.                                     *)
(***************************************************************************)

\* Every call in flight is of a job of the system and a task of the machine,
\* and no task is retried more than MaxRetry times.
CallsOK ==
    /\ calls \subseteq [job : Job, task : Task, attempt : 0..MaxRetry, step : Step]
    /\ attempt \in [Job -> 0..MaxRetry]

\* A step of an invocation's handler is a step of the ledger or leaves it
\* alone, as long as the call is of a job of the system.
LEMMA HandlerStepRefines ==
    ASSUME NEW c, c.job \in Job, HandlerStep(c)
    PROVE  [LedgerNext]_ledgerVars
<1>1. CASE FreezeTransaction(c)
    BY <1>1 DEF FreezeTransaction, LedgerNext
<1>2. CASE CommitTransaction(c)
    BY <1>2 DEF CommitTransaction, LedgerNext
<1>3. CASE RollbackTransaction(c)
    BY <1>3 DEF RollbackTransaction, LedgerNext
<1>4. CASE MarkGenerating(c)
    BY <1>4 DEF MarkGenerating, LedgerNext
<1>5. CASE RereadJob(c) \/ SweepRolledBack(c)
    BY <1>5 DEF RereadJob, SweepRolledBack
<1>6. CASE WriteScript(c) \/ SetJobScriptKey(c)
    BY <1>6 DEF WriteScript, SetJobScriptKey
<1>7. CASE ReadScript(c) \/ WriteNarration(c) \/ SetJobAudioKey(c)
    BY <1>7 DEF ReadScript, WriteNarration, SetJobAudioKey
<1> QED
    BY <1>1, <1>2, <1>3, <1>4, <1>5, <1>6, <1>7 DEF HandlerStep

\* A fault of the infrastructure leaves the ledger alone.
LEMMA FaultStepRefines ==
    ASSUME FaultStep
    PROVE  UNCHANGED ledgerVars
BY DEF FaultStep, LoseCall, TimeOutCall, RaiseError, ExpireExecution, Fault

\* A step of the API is a step of the ledger or leaves it alone.
LEMMA UserStepRefines ==
    ASSUME UserStep
    PROVE  [LedgerNext]_ledgerVars
<1>1. PICK j \in Job :
          \/ PassGate(j) \/ WriteJobRow(j) \/ StartExecution(j)
          \/ StartFails(j) \/ ConfirmAgain(j) \/ DeleteDreamscape(j)
          \/ SweepDeleted(j)
    BY DEF UserStep
<1>2. CASE WriteJobRow(j)
    BY <1>2 DEF WriteJobRow, LedgerNext
<1>3. CASE DeleteDreamscape(j)
    BY <1>3 DEF DeleteDreamscape, LedgerNext
<1>4. CASE \/ PassGate(j) \/ StartExecution(j) \/ StartFails(j)
           \/ ConfirmAgain(j) \/ SweepDeleted(j)
    BY <1>4 DEF PassGate, StartExecution, StartFails, ConfirmAgain, SweepDeleted
<1> QED
    BY <1>1, <1>2, <1>3, <1>4

\* Every step of the pipeline is a step of the ledger or leaves it alone.
LEMMA PipelineStepRefines ==
    ASSUME CallsOK, [PipelineNext]_vars
    PROVE  [LedgerNext]_ledgerVars
<1>1. CASE \E c \in calls : HandlerStep(c)
  BY <1>1, HandlerStepRefines DEF CallsOK
<1>2. CASE FaultStep
  BY <1>2, FaultStepRefines
<1>3. CASE UserStep
  BY <1>3, UserStepRefines
<1>4. CASE CreditsArrive
  BY <1>4 DEF CreditsArrive, LedgerNext
<1>5. CASE UNCHANGED vars
  BY <1>5 DEF vars
<1> QED
  BY <1>1, <1>2, <1>3, <1>4, <1>5 DEF PipelineNext

-----------------------------------------------------------------------------
(***************************************************************************)
(* What one step does to the calls and to the execution's state.           *)
(***************************************************************************)

\* The calls a step of c leaves are those there were, c at a later step of the
\* same handler, a retry of the same task, or the first call of a new state.
CallsFrom(c, s, step) ==
    \A d \in calls' :
        \/ d \in calls
        \/ /\ d.job = c.job /\ d.task = c.task
           /\ d.step \in {FirstStep[c.task], step}
        \/ /\ d.job = c.job /\ d.task = s /\ d.step = FirstStep[s]
           /\ s \in Task
           /\ machine' = [machine EXCEPT ![c.job] = s]

\* The execution of c's job stays where it is or, if it waits for c's task,
\* enters s.
MachineFrom(c, s) ==
    \/ machine' = machine
    \/ machine[c.job] = c.task /\ machine' = [machine EXCEPT ![c.job] = s]

Effect(c, s, step) ==
    CallsOK' /\ CallsFrom(c, s, step) /\ MachineFrom(c, s)

\* A handler that goes on to its next remote write.
LEMMA ProceedEffect ==
    ASSUME CallsOK, NEW c \in calls, NEW step \in Step, NEW s,
           Proceed(c, step)
    PROVE  Effect(c, s, step)
<1> DEFINE e == [c EXCEPT !.step = step]
<1>1. /\ e \in [job : Job, task : Task, attempt : 0..MaxRetry, step : Step]
      /\ e.job = c.job /\ e.task = c.task /\ e.step = step
  BY DEF CallsOK
<1>2. /\ calls' = (calls \ {c}) \union {e}
      /\ machine' = machine /\ attempt' = attempt
  BY DEF Proceed
<1> HIDE DEF e
<1> QED
  BY <1>1, <1>2 DEF CallsOK, CallsFrom, MachineFrom, Effect

\* A new invocation.
LEMMA CallFields ==
    ASSUME NEW j \in Job, NEW t \in Task, NEW n \in 0..MaxRetry
    PROVE  /\ Call(j, t, n) \in
                [job : Job, task : Task, attempt : 0..MaxRetry, step : Step]
           /\ Call(j, t, n).job = j
           /\ Call(j, t, n).task = t
           /\ Call(j, t, n).step = FirstStep[t]
<1>1. FirstStep[t] \in Step
  BY DEF FirstStep, Step
<1> QED
  BY <1>1 DEF Call

\* The execution enters a state on the answer of one of its calls.
LEMMA EnterEffect ==
    ASSUME CallsOK, NEW c \in calls, NEW s, NEW step,
           NEW others, others \subseteq calls,
           Live(c), Enter(c.job, s, others)
    PROVE  Effect(c, s, step)
<1>0. 0 \in 0..MaxRetry /\ c.job \in Job
  BY PipelineAssumption DEF CallsOK
<1>1. /\ MachineFrom(c, s) /\ machine' = [machine EXCEPT ![c.job] = s]
      /\ attempt' \in [Job -> 0..MaxRetry]
  BY <1>0 DEF Enter, Live, MachineFrom, CallsOK
<1>2. CASE s \in Task
  <2> DEFINE e == Call(c.job, s, 0)
  <2>1. /\ e \in [job : Job, task : Task, attempt : 0..MaxRetry, step : Step]
        /\ e.job = c.job /\ e.task = s /\ e.step = FirstStep[s]
    BY <1>0, <1>2, CallFields
  <2>2. calls' = others \union {e}
    BY <1>2 DEF Enter
  <2> HIDE DEF e
  <2> QED
    BY <1>1, <1>2, <2>1, <2>2 DEF CallsOK, CallsFrom, Effect
<1>3. CASE s \notin Task
  <2>1. calls' = others
    BY <1>3 DEF Enter
  <2> QED
    BY <1>1, <2>1 DEF CallsOK, CallsFrom, Effect
<1> QED
  BY <1>2, <1>3

\* A call that raised is retried, or its task is caught.
LEMMA RetryEffect ==
    ASSUME CallsOK, NEW c \in calls, NEW others, others \subseteq calls,
           NEW step, Live(c), RetryOrCatch(c, others)
    PROVE  Effect(c, CatchState[c.task], step)
<1>1. CASE c.attempt < MaxRetry
  <2> DEFINE e == Call(c.job, c.task, c.attempt + 1)
  <2>0. c.job \in Job /\ c.task \in Task /\ c.attempt + 1 \in 0..MaxRetry
    BY <1>1, PipelineAssumption DEF CallsOK
  <2>1. /\ e \in [job : Job, task : Task, attempt : 0..MaxRetry, step : Step]
        /\ e.job = c.job /\ e.task = c.task /\ e.step = FirstStep[c.task]
    BY <2>0, CallFields
  <2>2. calls' = others \union {e} /\ machine' = machine
    BY <1>1 DEF RetryOrCatch
  <2>3. attempt' \in [Job -> 0..MaxRetry]
    BY <1>1, <2>0 DEF RetryOrCatch, CallsOK
  <2> HIDE DEF e
  <2> QED
    BY <2>1, <2>2, <2>3 DEF CallsOK, CallsFrom, MachineFrom, Effect
<1>2. CASE ~(c.attempt < MaxRetry)
  BY <1>2, EnterEffect DEF RetryOrCatch
<1> QED
  BY <1>1, <1>2

\* An abandoned call ends.
LEMMA DropEffect ==
    ASSUME CallsOK, NEW c \in calls, NEW s, NEW step, Drop(c)
    PROVE  Effect(c, s, step)
BY DEF Drop, CallsOK, CallsFrom, MachineFrom, Effect

\* A handler returns: its execution moves on, or nobody was waiting.
LEMMA AnswerEffect ==
    ASSUME CallsOK, NEW c \in calls, NEW s, NEW step, Answer(c, s)
    PROVE  Effect(c, s, step)
<1>1. CASE Live(c)
  BY <1>1, EnterEffect DEF Answer
<1>2. CASE ~Live(c)
  BY <1>2, DropEffect DEF Answer
<1> QED
  BY <1>1, <1>2

\* A handler raises what its task retries.
LEMMA RaiseTransientEffect ==
    ASSUME CallsOK, NEW c \in calls, NEW step, RaiseTransient(c)
    PROVE  Effect(c, CatchState[c.task], step)
<1>1. CASE Live(c)
  BY <1>1, RetryEffect DEF RaiseTransient
<1>2. CASE ~Live(c)
  BY <1>2, DropEffect DEF RaiseTransient
<1> QED
  BY <1>1, <1>2

(***************************************************************************)
(* What a handler's step may start.  A task past the freeze follows only a *)
(* call past the freeze or a job that has frozen; the commit follows only  *)
(* the call that recorded the narration; a generation succeeds only once   *)
(* its job is charged, and fails only once it is settled.                  *)
(***************************************************************************)
PastFreezeTask == {"GenerateScriptTask", "SynthesizeTask", "CommitCreditTask"}
MakingTask == {"FreezeCreditTask", "GenerateScriptTask", "SynthesizeTask"}
CreditTask == {"FreezeCreditTask", "CommitCreditTask", "RollbackCreditTask"}
NeverFroze == {"ABSENT", "PENDING"}

Earned(c, s) ==
    /\ s \in (Task \ {"FreezeCreditTask"}) \union EndState
    /\ s \in PastFreezeTask =>
          c.task \in PastFreezeTask \/ status'[c.job] \notin NeverFroze
    /\ s \in MakingTask => c.task \in MakingTask
    /\ s = "CommitCreditTask" =>
          c.step = "recordAudio" /\ "narration" \in keys'[c.job]
    /\ s = "GenerationSucceeded" => status'[c.job] \in ChargedStatus
    /\ s = "InsufficientCredits" => status'[c.job] \in NeverFroze
    /\ s = "GenerationFailed" =>
          c.step = "sweep" \/ status'[c.job] \notin InFlightStatus

\* What c has done when it reaches a step past its first.
Reached(c, step) ==
    /\ step = "reread" => c.task \in CreditTask
    /\ step = "sweep" => status'[c.job] = "ROLLED_BACK"
    /\ step = "recordAudio" => "narration" \in objects'[c.job]

Advance(c) ==
    \E s, step : /\ CallsFrom(c, s, step)
                 /\ MachineFrom(c, s)
                 /\ Earned(c, s)
                 /\ Reached(c, step)

\* An error is caught by the rollback, which earns nothing.
LEMMA CatchEarned ==
    ASSUME NEW c, c.task \in Task
    PROVE  Earned(c, CatchState[c.task])
<1>1. CatchState[c.task] \in {"RollbackRaised", "RollbackCreditTask"}
  BY DEF CatchState
<1> QED
  BY <1>1 DEF Earned, Task, EndState, PastFreezeTask, MakingTask

\* The first step of a task reaches nothing.
LEMMA FirstReached ==
    ASSUME NEW c
    PROVE  Reached(c, "mark")
BY DEF Reached

\* Going on within a handler earns whatever its own state had earned.
LEMMA ProceedAdvance ==
    ASSUME CallsOK, NEW c \in calls, NEW step \in Step, Proceed(c, step),
           Reached(c, step)
    PROVE  CallsOK' /\ Advance(c)
<1>1. Earned(c, "RollbackRaised")
  BY DEF Earned, EndState, PastFreezeTask, MakingTask
<1>2. Effect(c, "RollbackRaised", step)
  BY ProceedEffect
<1> QED
  BY <1>1, <1>2 DEF Advance, Effect

\* Raising leads to a state that needs nothing to have been earned.
LEMMA RaiseAdvance ==
    ASSUME CallsOK, NEW c \in calls, Raise(c) \/ RaiseTransient(c)
    PROVE  CallsOK' /\ Advance(c)
<1>1. c.task \in Task
  BY DEF CallsOK
<1>2. Effect(c, CatchState[c.task], "mark")
  BY AnswerEffect, RaiseTransientEffect DEF Raise
<1> QED
  BY <1>1, <1>2, CatchEarned, FirstReached DEF Advance, Effect

\* A handler that returns has earned the state after its own, when it
\* leaves behind what that state needs.
LEMMA SucceedAdvance ==
    ASSUME CallsOK, NEW c \in calls, Succeed(c),
           c.task = "FreezeCreditTask" => status'[c.job] \notin NeverFroze,
           c.task = "SynthesizeTask" =>
              c.step = "recordAudio" /\ "narration" \in keys'[c.job],
           c.task = "CommitCreditTask" => status'[c.job] \in ChargedStatus,
           c.task = "RollbackCreditTask" =>
              c.step = "sweep" \/ status'[c.job] \notin InFlightStatus
    PROVE  CallsOK' /\ Advance(c)
<1>1. c.task \in Task
  BY DEF CallsOK
<1>2. /\ c.task = "FreezeCreditTask" => NextState[c.task] = "GenerateScriptTask"
      /\ c.task = "GenerateScriptTask" => NextState[c.task] = "SynthesizeTask"
      /\ c.task = "SynthesizeTask" => NextState[c.task] = "CommitCreditTask"
      /\ c.task = "CommitCreditTask" => NextState[c.task] = "GenerationSucceeded"
      /\ c.task = "RollbackCreditTask" => NextState[c.task] = "GenerationFailed"
  BY <1>1 DEF NextState, Task
<1>3. Earned(c, NextState[c.task])
  BY <1>1, <1>2 DEF Earned, Task, EndState, PastFreezeTask, MakingTask
<1>4. Effect(c, NextState[c.task], "mark")
  BY AnswerEffect DEF Succeed
<1> QED
  BY <1>3, <1>4, FirstReached DEF Advance, Effect

(***************************************************************************)
(* The first part of the invariant: the types, and what is paid for.       *)
(***************************************************************************)

\* Only the handlers of the credit tasks read the job again.
RereadsOfCredits == \A c \in calls : c.step = "reread" => c.task \in CreditTask

\* A call past the freeze is for a job that has frozen its credit.
PaidCalls ==
    \A c \in calls : c.task \in PastFreezeTask => status[c.job] \notin NeverFroze

SpendInv ==
    /\ PipelineTypeOK
    /\ RereadsOfCredits
    /\ PaidCalls
    /\ SpendNeedsCredit
    /\ SucceededIsCharged

\* The part of the type invariant the calls and the executions need.
LEMMA TypesOfCalls ==
    ASSUME PipelineTypeOK
    PROVE  /\ LedgerTypeOK
           /\ CallsOK
           /\ machine \in [Job -> Task \union EndState \union {"NotStarted"}]
           /\ keys \in [Job -> SUBSET Object]
           /\ objects \in [Job -> SUBSET Object]
BY DEF PipelineTypeOK, CallsOK

\* Nothing is in flight at first.
LEMMA SpendInvInit == PipelineInit => SpendInv
<1> SUFFICES ASSUME PipelineInit PROVE SpendInv
  OBVIOUS
<1>1. LedgerTypeOK
  BY LedgerInvInit DEF PipelineInit, LedgerInv
<1>2. faults \in 0..MaxFaults /\ attempt \in [Job -> 0..MaxRetry]
  BY PipelineAssumption DEF PipelineInit
<1>3. /\ request \in [Job -> {"none", "open", "row", "accepted", "failed", "taken"}]
      /\ machine \in [Job -> Task \union EndState \union {"NotStarted"}]
      /\ deletion \in [Job -> {"none", "sweeping", "failed", "swept"}]
  BY DEF PipelineInit
<1>4. /\ calls = {} /\ lateFreeze = {}
      /\ keys \in [Job -> SUBSET Object] /\ objects \in [Job -> SUBSET Object]
  BY DEF PipelineInit
<1>5. PipelineTypeOK
  BY <1>1, <1>2, <1>3, <1>4 DEF PipelineTypeOK
<1>6. SpendNeedsCredit /\ SucceededIsCharged
  BY DEF PipelineInit, SpendNeedsCredit, SucceededIsCharged
<1> QED
  BY <1>4, <1>5, <1>6 DEF SpendInv, RereadsOfCredits, PaidCalls

\* Every step of every handler starts only what it has earned.
LEMMA HandlerAdvance ==
    ASSUME SpendInv, NEW c \in calls, HandlerStep(c)
    PROVE  CallsOK' /\ Advance(c)
<1>0. /\ CallsOK /\ c.job \in Job /\ c.task \in Task
      /\ status \in [Job -> Status]
      /\ keys \in [Job -> SUBSET Object] /\ objects \in [Job -> SUBSET Object]
  BY TypesOfCalls DEF SpendInv, CallsOK, LedgerTypeOK
<1> USE <1>0
<1>1. CASE FreezeTransaction(c)
  <2>1. CASE /\ Freezable(c.job) /\ Answer(c, "InsufficientCredits")
             /\ UNCHANGED ledgerVars
    <3>1. Earned(c, "InsufficientCredits")
      BY <2>1 DEF Earned, EndState, PastFreezeTask, MakingTask, Freezable,
                  NeverFroze, ledgerVars
    <3>2. Effect(c, "InsufficientCredits", "mark")
      BY <2>1, AnswerEffect
    <3> QED
      BY <3>1, <3>2, FirstReached DEF Advance, Effect
  <2>2. CASE Proceed(c, "reread")
    BY <1>1, <2>2, ProceedAdvance
    DEF Step, Reached, CreditTask, FreezeTransaction, At
  <2> QED
    BY <1>1, <2>1, <2>2 DEF FreezeTransaction
<1>2. CASE CommitTransaction(c)
  BY <1>2, RaiseAdvance, ProceedAdvance
  DEF CommitTransaction, Step, Reached, CreditTask, At
<1>3. CASE RollbackTransaction(c)
  BY <1>3, RaiseAdvance, ProceedAdvance
  DEF RollbackTransaction, Step, Reached, CreditTask, At
<1>4. CASE RereadJob(c)
  <2>0. status' = status /\ c.task \in CreditTask
    BY <1>4 DEF RereadJob, ledgerVars, SpendInv, RereadsOfCredits
  <2>1. CASE SweepsAfter(c.task, status[c.job]) /\ Proceed(c, "sweep")
    BY <2>0, <2>1, ProceedAdvance DEF Step, Reached, SweepsAfter
  <2>2. CASE Raise(c)
    BY <2>2, RaiseAdvance
  <2>3. CASE status[c.job] \in ReplayStatuses[c.task] /\ Succeed(c)
    <3>1. /\ c.task = "FreezeCreditTask" => status'[c.job] \notin NeverFroze
          /\ c.task = "CommitCreditTask" => status'[c.job] \in ChargedStatus
          /\ c.task = "RollbackCreditTask" => status'[c.job] \notin InFlightStatus
          /\ c.task # "SynthesizeTask"
      BY <2>0, <2>3
      DEF ReplayStatuses, NeverFroze, ChargedStatus, InFlightStatus, CreditTask
    <3> QED
      BY <2>3, <3>1, SucceedAdvance
  <2> QED
    BY <1>4, <2>1, <2>2, <2>3 DEF RereadJob
<1>5. CASE SweepRolledBack(c)
  BY <1>5, SucceedAdvance DEF SweepRolledBack, At
<1>6. CASE MarkGenerating(c)
  BY <1>6, ProceedAdvance DEF MarkGenerating, Step, Reached
<1>7. CASE WriteScript(c)
  BY <1>7, ProceedAdvance, RaiseAdvance DEF WriteScript, Step, Reached
<1>8. CASE SetJobScriptKey(c)
  BY <1>8, SucceedAdvance DEF SetJobScriptKey, At
<1>9. CASE ReadScript(c)
  BY <1>9, ProceedAdvance, RaiseAdvance DEF ReadScript, Step, Reached
<1>10. CASE WriteNarration(c)
  <2>1. CASE /\ objects' = [objects EXCEPT ![c.job] = @ \union {"narration"}]
             /\ Proceed(c, "recordAudio")
    <3>1. Reached(c, "recordAudio")
      BY <2>1 DEF Reached
    <3> QED
      BY <2>1, <3>1, ProceedAdvance DEF Step
  <2> QED
    BY <1>10, <2>1, RaiseAdvance DEF WriteNarration
<1>11. CASE SetJobAudioKey(c)
  <2>1. "narration" \in keys'[c.job]
    BY <1>11 DEF SetJobAudioKey
  <2> QED
    BY <1>11, <2>1, SucceedAdvance DEF SetJobAudioKey, At
<1> QED
  BY <1>1, <1>2, <1>3, <1>4, <1>5, <1>6, <1>7, <1>8, <1>9, <1>10, <1>11
  DEF HandlerStep

\* A fault invokes a retry, the rollback, or nothing.
LEMMA FaultAdvance ==
    ASSUME CallsOK, FaultStep
    PROVE  CallsOK' /\ \E c \in calls : Advance(c)
<1>1. PICK c \in calls : LoseCall(c) \/ TimeOutCall(c) \/ RaiseError(c)
                         \/ ExpireExecution(c)
  BY DEF FaultStep
<1>2. c.task \in Task /\ Live(c)
  BY <1>1 DEF CallsOK, LoseCall, TimeOutCall, RaiseError, ExpireExecution, Fault
<1>3. Earned(c, CatchState[c.task]) /\ Earned(c, "TimedOut")
  BY <1>2, CatchEarned DEF Earned, EndState, PastFreezeTask, MakingTask
<1>4. CASE LoseCall(c)
  <2>1. Effect(c, CatchState[c.task], "mark")
    BY <1>2, <1>4, RetryEffect DEF LoseCall
  <2> QED
    BY <1>3, <2>1, FirstReached DEF Advance, Effect
<1>5. CASE TimeOutCall(c)
  <2>1. Effect(c, CatchState[c.task], "mark")
    BY <1>2, <1>5, EnterEffect DEF TimeOutCall
  <2> QED
    BY <1>3, <2>1, FirstReached DEF Advance, Effect
<1>6. CASE RaiseError(c)
  BY <1>6, RaiseAdvance DEF RaiseError
<1>7. CASE ExpireExecution(c)
  <2>1. Effect(c, "TimedOut", "mark")
    BY <1>2, <1>7, EnterEffect DEF ExpireExecution
  <2> QED
    BY <1>3, <2>1, FirstReached DEF Advance, Effect
<1> QED
  BY <1>1, <1>4, <1>5, <1>6, <1>7

\* A step of the API starts an execution that had not started, at its freeze,
\* or makes no call at all.
LEMMA UserCalls ==
    ASSUME UserStep
    PROVE  \/ UNCHANGED <<machine, attempt, calls>>
           \/ \E j \in Job :
                 /\ machine[j] = "NotStarted"
                 /\ machine' = [machine EXCEPT ![j] = "FreezeCreditTask"]
                 /\ attempt' = [attempt EXCEPT ![j] = 0]
                 /\ calls' = calls \union {Call(j, "FreezeCreditTask", 0)}
                 /\ UNCHANGED <<status, objects, keys, deletion, lateFreeze>>
<1>1. PICK j \in Job :
          \/ PassGate(j) \/ WriteJobRow(j) \/ StartExecution(j)
          \/ StartFails(j) \/ ConfirmAgain(j) \/ DeleteDreamscape(j)
          \/ SweepDeleted(j)
  BY DEF UserStep
<1>2. Start(j) =>
          \/ UNCHANGED <<machine, attempt, calls>>
          \/ /\ machine[j] = "NotStarted"
             /\ machine' = [machine EXCEPT ![j] = "FreezeCreditTask"]
             /\ attempt' = [attempt EXCEPT ![j] = 0]
             /\ calls' = calls \union {Call(j, "FreezeCreditTask", 0)}
  BY DEF Start, Enter, Task
<1>3. CASE StartExecution(j) \/ StartFails(j)
  BY <1>2, <1>3 DEF StartExecution, StartFails, ledgerVars
<1>4. CASE \/ PassGate(j) \/ WriteJobRow(j) \/ ConfirmAgain(j)
           \/ DeleteDreamscape(j) \/ SweepDeleted(j)
  BY <1>4 DEF PassGate, WriteJobRow, ConfirmAgain, DeleteDreamscape, SweepDeleted
<1> QED
  BY <1>1, <1>3, <1>4

-----------------------------------------------------------------------------
(***************************************************************************)
(* The first part of the invariant is inductive.                           *)
(***************************************************************************)

\* A job that has frozen stays so, and one that is charged stays charged.
LEMMA PaidForGood ==
    ASSUME LedgerInv, [LedgerNext]_ledgerVars, NEW j \in Job
    PROVE  /\ status[j] \notin NeverFroze => status'[j] \notin NeverFroze
           /\ status[j] \in ChargedStatus => status'[j] \in ChargedStatus
<1>1. MayFollow(status[j], status'[j])
  BY LedgerStepMayFollow
<1> QED
  BY <1>1 DEF MayFollow, NeverFroze, ChargedStatus, InFlightStatus

\* The tasks that put objects in the bucket.
WritingTask == {"GenerateScriptTask", "SynthesizeTask"}

\* Objects only grow by the hand of a call of such a task.
LEMMA ObjectsWritten ==
    ASSUME CallsOK, objects \in [Job -> SUBSET Object], [PipelineNext]_vars
    PROVE  \/ objects' = objects
           \/ \E j \in Job, left \in SUBSET Object :
                 /\ objects' = [objects EXCEPT ![j] = left]
                 /\ \/ left \subseteq objects[j]
                    \/ \E c \in calls : c.job = j /\ c.task \in WritingTask
<1> DEFINE Changed ==
        \/ objects' = objects
        \/ \E j \in Job, left \in SUBSET Object :
              /\ objects' = [objects EXCEPT ![j] = left]
              /\ \/ left \subseteq objects[j]
                 \/ \E c \in calls : c.job = j /\ c.task \in WritingTask
<1>1. ASSUME NEW c \in calls, HandlerStep(c)
      PROVE  Changed
  <2>0. c.job \in Job
    BY DEF CallsOK
  <2>1. CASE WriteScript(c) \/ WriteNarration(c)
    BY <2>0, <2>1 DEF WriteScript, WriteNarration, At, WritingTask, Object
  <2>2. CASE SweepRolledBack(c)
    BY <2>0, <2>2 DEF SweepRolledBack
  <2>3. CASE FreezeTransaction(c) \/ CommitTransaction(c)
             \/ RollbackTransaction(c) \/ RereadJob(c)
    BY <2>3 DEF FreezeTransaction, CommitTransaction, RollbackTransaction,
                RereadJob
  <2>4. CASE MarkGenerating(c) \/ SetJobScriptKey(c) \/ ReadScript(c)
             \/ SetJobAudioKey(c)
    BY <2>4 DEF MarkGenerating, SetJobScriptKey, ReadScript, SetJobAudioKey
  <2> QED
    BY <1>1, <2>1, <2>2, <2>3, <2>4 DEF HandlerStep
<1>2. CASE FaultStep
  BY <1>2 DEF FaultStep, LoseCall, TimeOutCall, RaiseError, ExpireExecution, Fault
<1>3. CASE UserStep
  <2>1. PICK j \in Job :
            \/ PassGate(j) \/ WriteJobRow(j) \/ StartExecution(j)
            \/ StartFails(j) \/ ConfirmAgain(j) \/ DeleteDreamscape(j)
            \/ SweepDeleted(j)
    BY <1>3 DEF UserStep
  <2>2. CASE SweepDeleted(j)
    BY <2>2 DEF SweepDeleted
  <2>3. CASE \/ PassGate(j) \/ WriteJobRow(j) \/ StartExecution(j)
             \/ StartFails(j) \/ ConfirmAgain(j) \/ DeleteDreamscape(j)
    BY <2>3 DEF PassGate, WriteJobRow, StartExecution, StartFails,
                ConfirmAgain, DeleteDreamscape
  <2> QED
    BY <2>1, <2>2, <2>3
<1>4. CASE CreditsArrive \/ UNCHANGED vars
  BY <1>4 DEF CreditsArrive, pipelineVars, vars
<1> QED
  BY <1>1, <1>2, <1>3, <1>4 DEF PipelineNext

\* Objects are written by calls past the freeze only.
LEMMA SpendObjectsStep ==
    ASSUME LedgerInv, SpendInv, [PipelineNext]_vars
    PROVE  objects' \in [Job -> SUBSET Object] /\ SpendNeedsCredit'
<1>1. [LedgerNext]_ledgerVars
  BY PipelineStepRefines, TypesOfCalls DEF SpendInv
<1>t. objects \in [Job -> SUBSET Object] /\ CallsOK
  BY TypesOfCalls DEF SpendInv
<1>2. \A j \in Job :
         status[j] \notin NeverFroze => status'[j] \notin NeverFroze
  BY <1>1, PaidForGood
<1>3. \A j \in Job : objects[j] # {} => status[j] \notin NeverFroze
  BY DEF SpendInv, SpendNeedsCredit, NeverFroze
<1>4. CASE objects' = objects
  BY <1>t, <1>2, <1>3, <1>4 DEF SpendNeedsCredit, NeverFroze
<1>5. ASSUME NEW j \in Job, NEW left \in SUBSET Object,
             objects' = [objects EXCEPT ![j] = left],
             \/ left \subseteq objects[j]
             \/ \E c \in calls : c.job = j /\ c.task \in WritingTask
      PROVE  objects' \in [Job -> SUBSET Object] /\ SpendNeedsCredit'
  <2>1. objects' \in [Job -> SUBSET Object]
    BY <1>t, <1>5
  <2>2. left # {} => status[j] \notin NeverFroze
    BY <1>3, <1>5 DEF SpendInv, PaidCalls, PastFreezeTask, WritingTask
  <2>3. \A k \in Job : objects'[k] # {} => status'[k] \notin NeverFroze
    BY <1>t, <1>2, <1>3, <1>5, <2>2
  <2> QED
    BY <2>1, <2>3 DEF SpendNeedsCredit, NeverFroze
<1> QED
  BY <1>t, <1>4, <1>5, ObjectsWritten

\* The attributes a step writes beside the calls, the executions, the ledger
\* and the objects keep their types.
LEMMA AttributesStep ==
    ASSUME PipelineTypeOK, [PipelineNext]_vars
    PROVE  /\ request' \in
                [Job -> {"none", "open", "row", "accepted", "failed", "taken"}]
           /\ keys' \in [Job -> SUBSET Object]
           /\ deletion' \in [Job -> {"none", "sweeping", "failed", "swept"}]
           /\ faults' \in 0..MaxFaults
           /\ lateFreeze' \subseteq Job
<1> DEFINE Goal ==
        /\ request' \in
             [Job -> {"none", "open", "row", "accepted", "failed", "taken"}]
        /\ keys' \in [Job -> SUBSET Object]
        /\ deletion' \in [Job -> {"none", "sweeping", "failed", "swept"}]
        /\ faults' \in 0..MaxFaults
        /\ lateFreeze' \subseteq Job
<1> USE DEF PipelineTypeOK
<1>1. ASSUME NEW c \in calls, HandlerStep(c)
      PROVE  Goal
  <2>0. c.job \in Job
    OBVIOUS
  <2>1. CASE FreezeTransaction(c)
    BY <2>0, <2>1 DEF FreezeTransaction
  <2>2. CASE CommitTransaction(c) \/ RollbackTransaction(c) \/ RereadJob(c)
             \/ SweepRolledBack(c) \/ MarkGenerating(c)
    BY <2>2 DEF CommitTransaction, RollbackTransaction, RereadJob,
                SweepRolledBack, MarkGenerating
  <2>3. CASE WriteScript(c) \/ ReadScript(c) \/ WriteNarration(c)
    BY <2>3 DEF WriteScript, ReadScript, WriteNarration
  <2>4. CASE SetJobScriptKey(c) \/ SetJobAudioKey(c)
    BY <2>0, <2>4 DEF SetJobScriptKey, SetJobAudioKey, Object
  <2> QED
    BY <1>1, <2>1, <2>2, <2>3, <2>4 DEF HandlerStep
<1>2. CASE FaultStep
  <2>1. PICK c \in calls : \E kind : Fault(kind, c)
    BY <1>2 DEF FaultStep, LoseCall, TimeOutCall, RaiseError, ExpireExecution
  <2> QED
    BY <2>1, PipelineAssumption DEF Fault
<1>3. ASSUME NEW j \in Job,
             \/ PassGate(j) \/ WriteJobRow(j) \/ StartExecution(j)
             \/ StartFails(j) \/ ConfirmAgain(j) \/ DeleteDreamscape(j)
             \/ SweepDeleted(j)
      PROVE  Goal
  <2>1. CASE PassGate(j) \/ WriteJobRow(j) \/ ConfirmAgain(j)
    BY <2>1 DEF PassGate, WriteJobRow, ConfirmAgain
  <2>2. CASE StartExecution(j) \/ StartFails(j)
    BY <2>2 DEF StartExecution, StartFails
  <2>3. CASE DeleteDreamscape(j) \/ SweepDeleted(j)
    BY <2>3 DEF DeleteDreamscape, SweepDeleted
  <2> QED
    BY <1>3, <2>1, <2>2, <2>3
<1>4. CASE CreditsArrive \/ UNCHANGED vars
  BY <1>4 DEF CreditsArrive, pipelineVars, vars
<1> QED
  BY <1>1, <1>2, <1>3, <1>4 DEF PipelineNext, UserStep

\* A step advances one call, starts one execution or touches no call.
LEMMA PipelineAdvance ==
    ASSUME SpendInv, [PipelineNext]_vars
    PROVE  /\ CallsOK'
           /\ \/ \E c \in calls : Advance(c)
              \/ \E j \in Job :
                   /\ machine[j] = "NotStarted"
                   /\ machine' = [machine EXCEPT ![j] = "FreezeCreditTask"]
                   /\ calls' = calls \union {Call(j, "FreezeCreditTask", 0)}
                   /\ UNCHANGED <<status, objects, keys, deletion, lateFreeze>>
              \/ UNCHANGED <<machine, calls>>
<1>0. CallsOK
  BY TypesOfCalls DEF SpendInv
<1>1. CASE \E c \in calls : HandlerStep(c)
  BY <1>1, HandlerAdvance
<1>2. CASE FaultStep
  BY <1>0, <1>2, FaultAdvance
<1>3. CASE UNCHANGED <<machine, attempt, calls>>
  BY <1>0, <1>3 DEF CallsOK
<1>4. ASSUME NEW j \in Job,
             machine[j] = "NotStarted",
             machine' = [machine EXCEPT ![j] = "FreezeCreditTask"],
             attempt' = [attempt EXCEPT ![j] = 0],
             calls' = calls \union {Call(j, "FreezeCreditTask", 0)}
      PROVE  CallsOK'
  <2>1. 0 \in 0..MaxRetry
    BY PipelineAssumption
  <2>2. Call(j, "FreezeCreditTask", 0) \in
            [job : Job, task : Task, attempt : 0..MaxRetry, step : Step]
    BY <2>1, CallFields DEF Task
  <2> QED
    BY <1>0, <1>4, <2>1, <2>2 DEF CallsOK
<1>5. CASE UserStep
  BY <1>3, <1>4, <1>5, UserCalls
<1>6. CASE CreditsArrive \/ UNCHANGED vars
  BY <1>3, <1>6 DEF CreditsArrive, pipelineVars, vars
<1> QED
  BY <1>1, <1>2, <1>3, <1>5, <1>6 DEF PipelineNext

\* What each call, and each execution that succeeded, shows of the ledger is
\* kept by every step.
LEMMA SpendCallsStep ==
    ASSUME LedgerInv, SpendInv, [PipelineNext]_vars
    PROVE  /\ CallsOK'
           /\ machine' \in [Job -> Task \union EndState \union {"NotStarted"}]
           /\ RereadsOfCredits'
           /\ PaidCalls'
           /\ SucceededIsCharged'
<1>0. /\ CallsOK /\ CallsOK'
      /\ machine \in [Job -> Task \union EndState \union {"NotStarted"}]
  BY TypesOfCalls, PipelineAdvance DEF SpendInv
<1>1. [LedgerNext]_ledgerVars
  BY <1>0, PipelineStepRefines
<1>2. \A j \in Job :
         /\ status[j] \notin NeverFroze => status'[j] \notin NeverFroze
         /\ status[j] \in ChargedStatus => status'[j] \in ChargedStatus
  BY <1>1, PaidForGood
<1>3. ASSUME NEW c \in calls, Advance(c)
      PROVE  /\ machine' \in [Job -> Task \union EndState \union {"NotStarted"}]
             /\ RereadsOfCredits' /\ PaidCalls' /\ SucceededIsCharged'
  <2>1. PICK s, step : /\ CallsFrom(c, s, step) /\ MachineFrom(c, s)
                       /\ Earned(c, s) /\ Reached(c, step)
    BY <1>3 DEF Advance
  <2>2. c.job \in Job /\ c.task \in Task
    BY <1>0 DEF CallsOK
  <2>3. machine' \in [Job -> Task \union EndState \union {"NotStarted"}]
    BY <1>0, <2>1, <2>2 DEF MachineFrom, Earned
  <2>4. ASSUME NEW d \in calls', d.task \in PastFreezeTask
        PROVE  status'[d.job] \notin NeverFroze
    <3>1. CASE d \in calls
      BY <1>0, <1>2, <2>4, <3>1 DEF SpendInv, PaidCalls, CallsOK
    <3>2. CASE d.job = c.job /\ d.task = c.task
      BY <1>2, <2>2, <2>4, <3>2 DEF SpendInv, PaidCalls
    <3>3. CASE d.job = c.job /\ d.task = s
      BY <1>2, <2>1, <2>2, <2>4, <3>3 DEF SpendInv, PaidCalls, Earned
    <3> QED
      BY <2>1, <3>1, <3>2, <3>3 DEF CallsFrom
  <2>5. ASSUME NEW j \in Job, machine'[j] = "GenerationSucceeded"
        PROVE  status'[j] \in ChargedStatus
    <3>1. CASE machine[j] = "GenerationSucceeded"
      BY <1>2, <3>1 DEF SpendInv, SucceededIsCharged, Charged
    <3>2. CASE machine[j] # "GenerationSucceeded"
      BY <1>0, <2>1, <2>2, <2>5, <3>2 DEF MachineFrom, Earned
    <3> QED
      BY <3>1, <3>2
  <2>6. ASSUME NEW d \in calls', d.step = "reread"
        PROVE  d.task \in CreditTask
    <3>1. \A t \in Task : FirstStep[t] # "reread"
      BY DEF FirstStep, Task
    <3> QED
      BY <2>1, <2>2, <2>6, <3>1
      DEF SpendInv, RereadsOfCredits, CallsFrom, Reached
  <2> QED
    BY <2>3, <2>4, <2>5, <2>6
    DEF PaidCalls, SucceededIsCharged, Charged, RereadsOfCredits
<1>4. CASE UNCHANGED <<machine, calls>>
  <2>1. PaidCalls'
    BY <1>0, <1>2, <1>4 DEF SpendInv, PaidCalls, CallsOK
  <2>2. SucceededIsCharged'
    BY <1>2, <1>4 DEF SpendInv, SucceededIsCharged, Charged
  <2> QED
    BY <1>0, <1>4, <2>1, <2>2 DEF SpendInv, RereadsOfCredits
<1>5. ASSUME NEW j \in Job,
             machine' = [machine EXCEPT ![j] = "FreezeCreditTask"],
             calls' = calls \union {Call(j, "FreezeCreditTask", 0)}
      PROVE  /\ machine' \in [Job -> Task \union EndState \union {"NotStarted"}]
             /\ RereadsOfCredits' /\ PaidCalls' /\ SucceededIsCharged'
  <2>1. 0 \in 0..MaxRetry
    BY PipelineAssumption
  <2>2. Call(j, "FreezeCreditTask", 0).task = "FreezeCreditTask"
    BY <2>1, CallFields DEF Task
  <2>3. PaidCalls'
    BY <1>0, <1>2, <1>5, <2>2 DEF SpendInv, PaidCalls, CallsOK, PastFreezeTask
  <2>4. SucceededIsCharged'
    BY <1>2, <1>5 DEF SpendInv, SucceededIsCharged, Charged
  <2>5. RereadsOfCredits'
    BY <1>5, <2>2 DEF SpendInv, RereadsOfCredits, CreditTask
  <2> QED
    BY <1>0, <1>5, <2>3, <2>4, <2>5 DEF Task
<1> QED
  BY <1>0, <1>3, <1>4, <1>5, PipelineAdvance

\* The first part of the invariant is kept by every step.
LEMMA SpendInvStep ==
    ASSUME LedgerInv, SpendInv, [PipelineNext]_vars
    PROVE  LedgerInv' /\ SpendInv'
<1>1. [LedgerNext]_ledgerVars
  BY PipelineStepRefines, TypesOfCalls DEF SpendInv
<1>2. LedgerInv'
  BY <1>1, LedgerTypeStep, LedgerCountStep, LedgerInvStutter DEF LedgerInv
<1>3. PipelineTypeOK'
  <2>1. LedgerTypeOK'
    BY <1>2 DEF LedgerInv
  <2>2. PipelineTypeOK
    BY DEF SpendInv
  <2> QED
    BY <2>1, <2>2, AttributesStep, SpendObjectsStep, SpendCallsStep
    DEF PipelineTypeOK, CallsOK
<1> QED
  BY <1>2, <1>3, SpendObjectsStep, SpendCallsStep DEF SpendInv

-----------------------------------------------------------------------------
(***************************************************************************)
(* The second part of the invariant: what the calls in flight, the state   *)
(* of the execution and the status of the job say of each other.           *)
(***************************************************************************)
SettledStatus == {"DONE", "ROLLED_BACK", "DELETED"}

\* Before its execution starts, nothing runs for a job and nothing is frozen.
NothingBeforeStart ==
    \A j \in Job : machine[j] = "NotStarted" =>
        /\ status[j] \in NeverFroze
        /\ \A c \in calls : c.job # j

\* While the execution is at the tasks before the commit, no commit and no
\* rollback of the job exists, not even an abandoned one, and it is not settled.
UnsettledWhileMaking ==
    \A j \in Job : machine[j] \in MakingTask =>
        /\ status[j] \notin SettledStatus
        /\ \A c \in calls : c.job = j => c.task \in MakingTask

\* A rollback only sweeps a job that is refunded, a deletion one it deleted.
SweepsOfRefunded ==
    \A c \in calls : c.step = "sweep" => status[c.job] = "ROLLED_BACK"

DeletionsOfDeleted ==
    \A j \in Job : deletion[j] = "sweeping" => status[j] = "DELETED"

\* The narration is there, or the job is one whose objects are swept.
Narrated(j) ==
    "narration" \in objects[j] \/ status[j] \in {"ROLLED_BACK", "DELETED"}

\* The narration is written before its key, and its key before any commit.
NarratedCalls ==
    \A c \in calls :
        /\ c.step = "recordAudio" => Narrated(c.job)
        /\ c.task = "CommitCreditTask" =>
              "narration" \in keys[c.job] /\ Narrated(c.job)

RunInv ==
    /\ NothingBeforeStart
    /\ UnsettledWhileMaking
    /\ SweepsOfRefunded
    /\ DeletionsOfDeleted
    /\ NarratedCalls
    /\ StrandedOnlyBy
    /\ PaidNarrationKept

\* Nothing has run at first.
LEMMA RunInvInit == PipelineInit => RunInv
<1> SUFFICES ASSUME PipelineInit PROVE RunInv
  OBVIOUS
<1>1. /\ \A j \in Job : /\ machine[j] = "NotStarted" /\ status[j] = "ABSENT"
                        /\ deletion[j] = "none"
      /\ calls = {}
  BY DEF PipelineInit, LedgerInit
<1>2. NothingBeforeStart /\ UnsettledWhileMaking
  BY <1>1 DEF NothingBeforeStart, UnsettledWhileMaking, NeverFroze, MakingTask
<1>3. SweepsOfRefunded /\ DeletionsOfDeleted /\ NarratedCalls
  BY <1>1 DEF SweepsOfRefunded, DeletionsOfDeleted, NarratedCalls
<1>4. StrandedOnlyBy /\ PaidNarrationKept
  BY <1>1 DEF StrandedOnlyBy, PaidNarrationKept, InFlight, InFlightStatus
<1> QED
  BY <1>2, <1>3, <1>4 DEF RunInv

\* What the second part of the invariant needs of the first.
LEMMA RunTypes ==
    ASSUME SpendInv
    PROVE  /\ status \in [Job -> Status]
           /\ machine \in [Job -> Task \union EndState \union {"NotStarted"}]
           /\ keys \in [Job -> SUBSET Object]
           /\ objects \in [Job -> SUBSET Object]
           /\ deletion \in [Job -> {"none", "sweeping", "failed", "swept"}]
           /\ CallsOK
           /\ \A c \in calls : c.job \in Job /\ c.task \in Task
BY TypesOfCalls DEF SpendInv, LedgerTypeOK, CallsOK, PipelineTypeOK

\* How a job's status changes: by its row, by its deletion, or by the hand of
\* one of its own calls, the one of the task the new status belongs to.
WrittenBy(c) ==
    \/ /\ status' = [status EXCEPT ![c.job] = "FROZEN"]
       /\ UNCHANGED machine
       /\ c.task = "FreezeCreditTask"
       /\ Live(c) \/ c.job \in lateFreeze'
    \/ /\ status' = [status EXCEPT ![c.job] = "GENERATING"]
       /\ c.task = "GenerateScriptTask"
       /\ status[c.job] \in InFlightStatus
    \/ /\ status' = [status EXCEPT ![c.job] = "DONE"]
       /\ c.task = "CommitCreditTask"
       /\ status[c.job] \in InFlightStatus
    \/ /\ status' = [status EXCEPT ![c.job] = "ROLLED_BACK"]
       /\ c.task = "RollbackCreditTask"

\* What a step may write to the JOB items, and who writes it.
LEMMA StatusWritten ==
    ASSUME SpendInv, [PipelineNext]_vars
    PROVE  /\ lateFreeze \subseteq lateFreeze'
           /\ \/ status' = status
              \/ \E j \in Job :
                    \/ /\ status[j] = "ABSENT"
                       /\ status' = [status EXCEPT ![j] = "PENDING"]
                    \/ /\ status[j] \in {"DONE", "DELETED"}
                       /\ status' = [status EXCEPT ![j] = "DELETED"]
              \/ \E c \in calls : WrittenBy(c)
<1>0. CallsOK
  BY RunTypes
<1>1. ASSUME NEW c \in calls, HandlerStep(c)
      PROVE  /\ lateFreeze \subseteq lateFreeze'
             /\ status' = status \/ WrittenBy(c)
  <2>1. CASE FreezeTransaction(c)
    <3>1. CASE FreezeCredit(c.job) /\ Proceed(c, "reread")
               /\ lateFreeze' = IF Live(c) THEN lateFreeze
                                ELSE lateFreeze \union {c.job}
      BY <2>1, <3>1
      DEF FreezeCredit, SetStatus, Proceed, WrittenBy, FreezeTransaction, At
    <3>2. CASE UNCHANGED <<ledgerVars, lateFreeze>>
      BY <3>2 DEF ledgerVars
    <3> QED
      BY <2>1, <3>1, <3>2 DEF FreezeTransaction
  <2>2. CASE CommitTransaction(c)
    BY <2>2 DEF CommitTransaction, CommitCredit, Committable, SetStatus,
                InFlightStatus, WrittenBy, At, ledgerVars
  <2>3. CASE RollbackTransaction(c)
    BY <2>3 DEF RollbackTransaction, RollbackCredit, SetStatus, WrittenBy, At,
                ledgerVars
  <2>4. CASE MarkGenerating(c)
    BY <2>4 DEF MarkGenerating, MarkJobGenerating, SetStatus, InFlightStatus,
                WrittenBy, At, ledgerVars
  <2>5. CASE RereadJob(c) \/ SweepRolledBack(c) \/ WriteScript(c)
             \/ SetJobScriptKey(c)
    BY <2>5 DEF RereadJob, SweepRolledBack, WriteScript, SetJobScriptKey,
                ledgerVars
  <2>6. CASE ReadScript(c) \/ WriteNarration(c) \/ SetJobAudioKey(c)
    BY <2>6 DEF ReadScript, WriteNarration, SetJobAudioKey, ledgerVars
  <2> QED
    BY <1>1, <2>1, <2>2, <2>3, <2>4, <2>5, <2>6 DEF HandlerStep
<1>2. CASE FaultStep
  BY <1>2 DEF FaultStep, LoseCall, TimeOutCall, RaiseError, ExpireExecution,
              Fault, ledgerVars
<1>3. ASSUME NEW j \in Job,
             \/ PassGate(j) \/ WriteJobRow(j) \/ StartExecution(j)
             \/ StartFails(j) \/ ConfirmAgain(j) \/ DeleteDreamscape(j)
             \/ SweepDeleted(j)
      PROVE  /\ lateFreeze' = lateFreeze
             /\ \/ status' = status
                \/ /\ status[j] = "ABSENT"
                   /\ status' = [status EXCEPT ![j] = "PENDING"]
                \/ /\ status[j] \in {"DONE", "DELETED"}
                   /\ status' = [status EXCEPT ![j] = "DELETED"]
  <2>1. CASE WriteJobRow(j)
    BY <2>1 DEF WriteJobRow, CreateJob, SetStatus
  <2>2. CASE DeleteDreamscape(j)
    BY <2>2 DEF DeleteDreamscape, MarkJobDeleted, SetStatus
  <2>3. CASE \/ PassGate(j) \/ StartExecution(j) \/ StartFails(j)
             \/ ConfirmAgain(j) \/ SweepDeleted(j)
    BY <2>3 DEF PassGate, StartExecution, StartFails, ConfirmAgain,
                SweepDeleted, ledgerVars
  <2> QED
    BY <1>3, <2>1, <2>2, <2>3
<1>4. CASE CreditsArrive
  BY <1>4 DEF CreditsArrive, pipelineVars, InitializeUser, ApplyStripeEvent
<1>5. CASE UNCHANGED vars
  BY <1>5 DEF vars, ledgerVars, pipelineVars
<1> QED
  BY <1>1, <1>2, <1>3, <1>4, <1>5 DEF PipelineNext, UserStep

\* No step takes a recorded key away, and objects only go with the sweep of a
\* job that is refunded or deleted.
LEMMA ObjectsSwept ==
    ASSUME SpendInv, RunInv, [PipelineNext]_vars, NEW j \in Job
    PROVE  /\ keys[j] \subseteq keys'[j]
           /\ \/ objects[j] \subseteq objects'[j]
              \/ status[j] \in {"ROLLED_BACK", "DELETED"}
<1> DEFINE Goal == /\ keys[j] \subseteq keys'[j]
                   /\ \/ objects[j] \subseteq objects'[j]
                      \/ status[j] \in {"ROLLED_BACK", "DELETED"}
<1>0. /\ keys \in [Job -> SUBSET Object] /\ objects \in [Job -> SUBSET Object]
      /\ \A c \in calls : c.job \in Job
  BY RunTypes
<1>1. ASSUME NEW c \in calls, HandlerStep(c)
      PROVE  Goal
  <2>1. CASE SweepRolledBack(c)
    BY <1>0, <2>1 DEF SweepRolledBack, At, RunInv, SweepsOfRefunded
  <2>2. CASE WriteScript(c) \/ WriteNarration(c)
    BY <1>0, <2>2 DEF WriteScript, WriteNarration
  <2>3. CASE SetJobScriptKey(c) \/ SetJobAudioKey(c)
    BY <1>0, <2>3 DEF SetJobScriptKey, SetJobAudioKey
  <2>4. CASE FreezeTransaction(c) \/ CommitTransaction(c)
             \/ RollbackTransaction(c) \/ RereadJob(c)
    BY <2>4 DEF FreezeTransaction, CommitTransaction, RollbackTransaction,
                RereadJob
  <2>5. CASE MarkGenerating(c) \/ ReadScript(c)
    BY <2>5 DEF MarkGenerating, ReadScript
  <2> QED
    BY <1>1, <2>1, <2>2, <2>3, <2>4, <2>5 DEF HandlerStep
<1>2. CASE FaultStep
  BY <1>2 DEF FaultStep, LoseCall, TimeOutCall, RaiseError, ExpireExecution, Fault
<1>3. ASSUME NEW k \in Job,
             \/ PassGate(k) \/ WriteJobRow(k) \/ StartExecution(k)
             \/ StartFails(k) \/ ConfirmAgain(k) \/ DeleteDreamscape(k)
             \/ SweepDeleted(k)
      PROVE  Goal
  <2>1. CASE SweepDeleted(k)
    BY <1>0, <2>1 DEF SweepDeleted, RunInv, DeletionsOfDeleted
  <2>2. CASE \/ PassGate(k) \/ WriteJobRow(k) \/ StartExecution(k)
             \/ StartFails(k) \/ ConfirmAgain(k) \/ DeleteDreamscape(k)
    BY <2>2 DEF PassGate, WriteJobRow, StartExecution, StartFails,
                ConfirmAgain, DeleteDreamscape
  <2> QED
    BY <1>3, <2>1, <2>2
<1>4. CASE CreditsArrive \/ UNCHANGED vars
  BY <1>4 DEF CreditsArrive, pipelineVars, vars
<1> QED
  BY <1>1, <1>2, <1>3, <1>4 DEF PipelineNext, UserStep

\* A settlement is kept, a narration only lost with it.
LEMMA NarratedStays ==
    ASSUME LedgerInv, SpendInv, RunInv, [PipelineNext]_vars, NEW j \in Job
    PROVE  /\ \A s \in {"ROLLED_BACK", "DELETED"} :
                 status[j] = s => status'[j] = s
           /\ "narration" \in keys[j] => "narration" \in keys'[j]
           /\ Narrated(j) => Narrated(j)'
<1>1. MayFollow(status[j], status'[j])
  <2>1. [LedgerNext]_ledgerVars
    BY PipelineStepRefines, RunTypes
  <2> QED
    BY <2>1, LedgerStepMayFollow
<1>2. \A s \in {"ROLLED_BACK", "DELETED"} : status[j] = s => status'[j] = s
  BY <1>1 DEF MayFollow, InFlightStatus
<1> QED
  BY <1>2, ObjectsSwept DEF Narrated

-----------------------------------------------------------------------------
(***************************************************************************)
(* The second part of the invariant is inductive.                          *)
(***************************************************************************)

\* What every conjunct needs of a step: it advances one call, starts one
\* execution, or touches no call.
StepOfCalls ==
    \/ \E c \in calls : \E s, step :
          /\ CallsFrom(c, s, step) /\ MachineFrom(c, s)
          /\ Earned(c, s) /\ Reached(c, step)
    \/ \E j \in Job :
          /\ machine[j] = "NotStarted"
          /\ machine' = [machine EXCEPT ![j] = "FreezeCreditTask"]
          /\ calls' = calls \union {Call(j, "FreezeCreditTask", 0)}
          /\ UNCHANGED <<status, objects, keys, deletion, lateFreeze>>
    \/ UNCHANGED <<machine, calls>>

\* Every step of the pipeline moves the calls of one job at most, as earned.
LEMMA StepOfCallsHolds ==
    ASSUME SpendInv, [PipelineNext]_vars
    PROVE  StepOfCalls
BY PipelineAdvance DEF StepOfCalls, Advance

\* The first call of an execution, and that first steps reach nothing late.
LEMMA FirstCall ==
    ASSUME NEW j \in Job
    PROVE  /\ Call(j, "FreezeCreditTask", 0).job = j
           /\ Call(j, "FreezeCreditTask", 0).task = "FreezeCreditTask"
           /\ Call(j, "FreezeCreditTask", 0).step = "transact"
<1>1. 0 \in 0..MaxRetry
  BY PipelineAssumption
<1> QED
  BY <1>1, CallFields DEF Task, FirstStep

\* No handler starts with the writes that need something to be there.
LEMMA FirstStepsEarly ==
    \A t \in Task : FirstStep[t] \notin {"reread", "sweep", "recordAudio"}
BY DEF FirstStep, Task

\* An execution that has not started has frozen nothing and runs nothing.
LEMMA NothingBeforeStartStep ==
    ASSUME LedgerInv, SpendInv, RunInv, [PipelineNext]_vars
    PROVE  NothingBeforeStart'
<1> SUFFICES ASSUME NEW j \in Job, machine'[j] = "NotStarted"
             PROVE  /\ status'[j] \in NeverFroze
                    /\ \A d \in calls' : d.job # j
  BY DEF NothingBeforeStart
<1>0. /\ machine \in [Job -> Task \union EndState \union {"NotStarted"}]
      /\ status \in [Job -> Status]
      /\ \A c \in calls : c.job \in Job
  BY RunTypes
<1>1. machine[j] = "NotStarted" /\ \A d \in calls' : d.job \in {c.job : c \in calls} \/ d.job # j
  <2>1. ASSUME NEW c \in calls, NEW s, NEW step,
               CallsFrom(c, s, step), MachineFrom(c, s), Earned(c, s)
        PROVE  /\ machine[j] = "NotStarted"
               /\ \A d \in calls' : d.job \in {x.job : x \in calls}
    <3>1. s # "NotStarted"
      BY <2>1 DEF Earned, Task, EndState
    <3> QED
      BY <1>0, <2>1, <3>1 DEF CallsFrom, MachineFrom
  <2>2. ASSUME NEW k \in Job,
               machine' = [machine EXCEPT ![k] = "FreezeCreditTask"],
               calls' = calls \union {Call(k, "FreezeCreditTask", 0)}
        PROVE  /\ machine[j] = "NotStarted"
               /\ \A d \in calls' : d.job \in {x.job : x \in calls} \/ d.job # j
    BY <1>0, <2>2, FirstCall
  <2> QED
    BY <2>1, <2>2, StepOfCallsHolds DEF StepOfCalls
<1>2. status[j] \in NeverFroze /\ \A c \in calls : c.job # j
  BY <1>1 DEF RunInv, NothingBeforeStart
<1>3. status'[j] \in NeverFroze
  <2>1. \A c \in calls : WrittenBy(c) => status'[j] = status[j]
    BY <1>0, <1>2 DEF WrittenBy
  <2> QED
    BY <1>0, <1>2, <2>1, StatusWritten DEF NeverFroze
<1> QED
  BY <1>1, <1>2, <1>3

\* While an execution makes its meditation nothing settles the job, for all
\* its calls, abandoned ones too, are still making it.
LEMMA UnsettledWhileMakingStep ==
    ASSUME LedgerInv, SpendInv, RunInv, [PipelineNext]_vars
    PROVE  UnsettledWhileMaking'
<1> SUFFICES ASSUME NEW j \in Job, machine'[j] \in MakingTask
             PROVE  /\ status'[j] \notin SettledStatus
                    /\ \A d \in calls' : d.job = j => d.task \in MakingTask
  BY DEF UnsettledWhileMaking
<1>0. /\ machine \in [Job -> Task \union EndState \union {"NotStarted"}]
      /\ status \in [Job -> Status]
      /\ \A c \in calls : c.job \in Job
  BY RunTypes
<1>1. CASE machine[j] \in MakingTask
  <2>1. /\ status[j] \notin SettledStatus
        /\ \A c \in calls : c.job = j => c.task \in MakingTask
    BY <1>1 DEF RunInv, UnsettledWhileMaking
  <2>2. status'[j] \notin SettledStatus
    <3>1. ASSUME NEW c \in calls, WrittenBy(c)
          PROVE  status'[j] \notin SettledStatus
      BY <1>0, <2>1, <3>1 DEF WrittenBy, MakingTask, SettledStatus
    <3> QED
      BY <1>0, <2>1, <3>1, StatusWritten DEF SettledStatus
  <2>3. ASSUME NEW c \in calls, NEW s, NEW step, CallsFrom(c, s, step),
               NEW d \in calls', d.job = j
        PROVE  d.task \in MakingTask
    BY <1>0, <2>1, <2>3 DEF CallsFrom
  <2>4. ASSUME NEW k \in Job, calls' = calls \union {Call(k, "FreezeCreditTask", 0)},
               NEW d \in calls', d.job = j
        PROVE  d.task \in MakingTask
    BY <2>1, <2>4, FirstCall DEF MakingTask
  <2> QED
    BY <2>1, <2>2, <2>3, <2>4, StepOfCallsHolds DEF StepOfCalls
<1>2. CASE machine[j] \notin MakingTask
  <2>1. ~\E c \in calls : \E s : MachineFrom(c, s) /\ Earned(c, s)
    BY <1>0, <1>2 DEF MachineFrom, Earned
  <2>2. PICK k \in Job :
            /\ machine[k] = "NotStarted"
            /\ machine' = [machine EXCEPT ![k] = "FreezeCreditTask"]
            /\ calls' = calls \union {Call(k, "FreezeCreditTask", 0)}
            /\ status' = status
    BY <1>2, <2>1, StepOfCallsHolds DEF StepOfCalls
  <2>3. k = j
    BY <1>0, <1>2, <2>2
  <2>4. status[j] \in NeverFroze /\ \A c \in calls : c.job # j
    BY <2>2, <2>3 DEF RunInv, NothingBeforeStart
  <2> QED
    BY <2>2, <2>3, <2>4, FirstCall DEF MakingTask, NeverFroze, SettledStatus
<1> QED
  BY <1>1, <1>2

\* The rollback sweeps only what it has refunded, and the API only what is
\* deleted.
LEMMA SweepsStep ==
    ASSUME LedgerInv, SpendInv, RunInv, [PipelineNext]_vars
    PROVE  SweepsOfRefunded' /\ DeletionsOfDeleted'
<1>0. /\ \A c \in calls : c.job \in Job /\ c.task \in Task
      /\ deletion \in [Job -> {"none", "sweeping", "failed", "swept"}]
      /\ status \in [Job -> Status]
  BY RunTypes
<1>1. ASSUME NEW d \in calls', d.step = "sweep"
      PROVE  status'[d.job] = "ROLLED_BACK"
  <2>1. CASE d \in calls
    BY <1>0, <1>1, <2>1, NarratedStays DEF RunInv, SweepsOfRefunded
  <2>2. ASSUME NEW c \in calls, NEW s, NEW step,
               CallsFrom(c, s, step), Reached(c, step), d \notin calls
        PROVE  status'[d.job] = "ROLLED_BACK"
    BY <1>0, <1>1, <2>2, FirstStepsEarly DEF CallsFrom, Reached
  <2>3. ASSUME NEW k \in Job, d = Call(k, "FreezeCreditTask", 0)
        PROVE  FALSE
    BY <1>1, <2>3, FirstCall
  <2> QED
    BY <2>1, <2>2, <2>3, StepOfCallsHolds DEF StepOfCalls
<1>2. ASSUME NEW j \in Job, deletion'[j] = "sweeping"
      PROVE  status'[j] = "DELETED"
  <2>1. CASE deletion[j] = "sweeping"
    BY <2>1, NarratedStays DEF RunInv, DeletionsOfDeleted
  <2>2. CASE deletion[j] # "sweeping"
    <3>1. \E k \in Job : DeleteDreamscape(k) \/ SweepDeleted(k)
      <4>1. deletion' # deletion
        BY <1>2, <2>2
      <4>2. ~\E c \in calls : HandlerStep(c)
        BY <4>1 DEF HandlerStep, FreezeTransaction, CommitTransaction,
           RollbackTransaction, RereadJob, SweepRolledBack, MarkGenerating,
           WriteScript, SetJobScriptKey, ReadScript, WriteNarration,
           SetJobAudioKey
      <4>3. ~FaultStep
        BY <4>1 DEF FaultStep, LoseCall, TimeOutCall, RaiseError,
                    ExpireExecution, Fault
      <4>4. ~CreditsArrive /\ ~UNCHANGED vars
        BY <4>1 DEF CreditsArrive, vars, pipelineVars
      <4>5. PICK k \in Job :
                \/ PassGate(k) \/ WriteJobRow(k) \/ StartExecution(k)
                \/ StartFails(k) \/ ConfirmAgain(k) \/ DeleteDreamscape(k)
                \/ SweepDeleted(k)
        BY <4>2, <4>3, <4>4 DEF PipelineNext, UserStep
      <4>6. ~(\/ PassGate(k) \/ WriteJobRow(k) \/ StartExecution(k)
              \/ StartFails(k) \/ ConfirmAgain(k))
        BY <4>1 DEF PassGate, WriteJobRow, StartExecution, StartFails,
                    ConfirmAgain
      <4> QED
        BY <4>5, <4>6
    <3>2. PICK k \in Job : DeleteDreamscape(k) \/ SweepDeleted(k)
      BY <3>1
    <3>3. ~SweepDeleted(k)
      BY <1>0, <1>2, <2>2 DEF SweepDeleted
    <3>4. k = j /\ DeleteDreamscape(j)
      BY <1>0, <1>2, <2>2, <3>2, <3>3 DEF DeleteDreamscape
    <3> QED
      BY <1>0, <3>4 DEF DeleteDreamscape, MarkJobDeleted, SetStatus
  <2> QED
    BY <2>1, <2>2
<1> QED
  BY <1>1, <1>2 DEF SweepsOfRefunded, DeletionsOfDeleted

\* A call about to record the narration, or to commit, finds it in the bucket.
LEMMA NarratedCallsStep ==
    ASSUME LedgerInv, SpendInv, RunInv, [PipelineNext]_vars
    PROVE  NarratedCalls'
<1>0. /\ \A c \in calls : c.job \in Job /\ c.task \in Task
      /\ objects \in [Job -> SUBSET Object]
  BY RunTypes
<1>1. ASSUME NEW d \in calls
      PROVE  /\ d.step = "recordAudio" => Narrated(d.job)'
             /\ d.task = "CommitCreditTask" =>
                   "narration" \in keys'[d.job] /\ Narrated(d.job)'
  BY <1>0, NarratedStays DEF RunInv, NarratedCalls
<1>2. ASSUME NEW c \in calls, NEW s, NEW step, CallsFrom(c, s, step),
             Earned(c, s), Reached(c, step), NEW d \in calls', d \notin calls
      PROVE  /\ d.step = "recordAudio" => Narrated(d.job)'
             /\ d.task = "CommitCreditTask" =>
                   "narration" \in keys'[d.job] /\ Narrated(d.job)'
  <2>1. CASE d.job = c.job /\ d.task = c.task /\ d.step \in {FirstStep[c.task], step}
    <3>1. d.step = "recordAudio" => Narrated(d.job)'
      BY <1>0, <1>2, <2>1, FirstStepsEarly DEF Reached, Narrated
    <3> QED
      BY <1>1, <2>1, <3>1
  <2>2. CASE d.job = c.job /\ d.task = s /\ d.step = FirstStep[s] /\ s \in Task
    BY <1>1, <1>2, <2>2, FirstStepsEarly DEF Earned
  <2> QED
    BY <1>2, <2>1, <2>2 DEF CallsFrom
<1>3. ASSUME NEW k \in Job, NEW d, d = Call(k, "FreezeCreditTask", 0)
      PROVE  d.step # "recordAudio" /\ d.task # "CommitCreditTask"
  BY <1>3, FirstCall
<1>4. ASSUME NEW d \in calls'
      PROVE  /\ d.step = "recordAudio" => Narrated(d.job)'
             /\ d.task = "CommitCreditTask" =>
                   "narration" \in keys'[d.job] /\ Narrated(d.job)'
  BY <1>1, <1>2, <1>3, StepOfCallsHolds DEF StepOfCalls
<1> QED
  BY <1>4 DEF NarratedCalls, Narrated

\* A credit left frozen has something running for it, but for the three ways.
LEMMA StrandedStep ==
    ASSUME LedgerInv, SpendInv, RunInv, [PipelineNext]_vars
    PROVE  StrandedOnlyBy'
<1> SUFFICES ASSUME NEW j \in Job, status'[j] \in InFlightStatus,
                    machine'[j] \notin Task, j \notin lateFreeze'
             PROVE  machine'[j] \in {"RollbackRaised", "TimedOut"}
  BY DEF StrandedOnlyBy, InFlight, Running
<1>0. /\ machine \in [Job -> Task \union EndState \union {"NotStarted"}]
      /\ status \in [Job -> Status]
      /\ \A c \in calls : c.job \in Job /\ c.task \in Task
  BY RunTypes
<1>1. CASE status[j] \in InFlightStatus
  <2>0. /\ lateFreeze \subseteq lateFreeze'
        /\ machine[j] \in Task \union {"RollbackRaised", "TimedOut"}
    BY <1>1, StatusWritten
    DEF RunInv, StrandedOnlyBy, InFlight, Running
  <2>1. ASSUME NEW c \in calls, NEW s, MachineFrom(c, s), Earned(c, s)
        PROVE  machine'[j] \in {"RollbackRaised", "TimedOut"}
    <3>1. CASE machine'[j] = machine[j]
      BY <2>0, <3>1
    <3>2. CASE machine'[j] # machine[j]
      <4>1. c.job = j /\ machine'[j] = s
        BY <1>0, <2>1, <3>2 DEF MachineFrom
      <4>2. s # "GenerationSucceeded" /\ s # "InsufficientCredits"
        BY <2>1, <4>1
        DEF Earned, ChargedStatus, NeverFroze, InFlightStatus
      <4>3. s # "GenerationFailed"
        <5>1. c.step = "sweep" => status'[j] = "ROLLED_BACK"
          BY <4>1, SweepsStep, NarratedStays DEF RunInv, SweepsOfRefunded
        <5> QED
          BY <2>1, <4>1, <5>1 DEF Earned, InFlightStatus
      <4> QED
        BY <2>1, <4>1, <4>2, <4>3 DEF Earned, EndState
    <3> QED
      BY <3>1, <3>2
  <2>2. ASSUME NEW k \in Job,
               machine' = [machine EXCEPT ![k] = "FreezeCreditTask"]
        PROVE  machine'[j] \in {"RollbackRaised", "TimedOut"}
    BY <1>0, <2>0, <2>2 DEF Task
  <2> QED
    BY <2>0, <2>1, <2>2, StepOfCallsHolds DEF StepOfCalls
<1>2. CASE status[j] \notin InFlightStatus
  <2>1. PICK c \in calls : WrittenBy(c)
    BY <1>0, <1>2, StatusWritten DEF InFlightStatus
  <2>2. /\ c.job = j /\ machine' = machine
        /\ Live(c) \/ j \in lateFreeze'
    BY <1>0, <1>2, <2>1 DEF WrittenBy, InFlightStatus
  <2> QED
    BY <1>0, <2>2 DEF Live
<1> QED
  BY <1>1, <1>2

\* A delivered dreamscape keeps its narration.
LEMMA NarrationKeptStep ==
    ASSUME LedgerInv, SpendInv, RunInv, [PipelineNext]_vars
    PROVE  PaidNarrationKept'
<1> SUFFICES ASSUME NEW j \in Job, status'[j] = "DONE"
             PROVE  "narration" \in keys'[j] /\ "narration" \in objects'[j]
  BY DEF PaidNarrationKept
<1>0. /\ status \in [Job -> Status]
      /\ \A c \in calls : c.job \in Job
  BY RunTypes
<1>1. "narration" \in keys[j] /\ Narrated(j)
  <2>1. CASE status[j] = "DONE"
    BY <2>1 DEF RunInv, PaidNarrationKept, Narrated
  <2>2. CASE status[j] # "DONE"
    <3>1. PICK c \in calls : WrittenBy(c)
      BY <1>0, <2>2, StatusWritten
    <3>2. c.job = j /\ c.task = "CommitCreditTask"
      BY <1>0, <2>2, <3>1 DEF WrittenBy
    <3> QED
      BY <3>2 DEF RunInv, NarratedCalls
  <2> QED
    BY <2>1, <2>2
<1> QED
  BY <1>1, NarratedStays DEF Narrated

\* The second layer of the invariant is inductive.
LEMMA RunInvStep ==
    ASSUME LedgerInv, SpendInv, RunInv, [PipelineNext]_vars
    PROVE  RunInv'
BY NothingBeforeStartStep, UnsettledWhileMakingStep, SweepsStep,
   NarratedCallsStep, StrandedStep, NarrationKeptStep
DEF RunInv

\* Where objects come back after a settlement, an abandoned call writes them.
StraysOnly ==
    \A j \in Job :
       /\ status[j] \in {"ROLLED_BACK", "DELETED"}
       /\ ~(objects'[j] \subseteq objects[j])
       => \E c \in calls : c.job = j /\ ~Live(c)

\* What is written after a settlement is written by an abandoned call: the
\* live ones of a settled job write nothing.
LEMMA StraysStep ==
    ASSUME SpendInv, RunInv, [PipelineNext]_vars
    PROVE  StraysOnly
<1> SUFFICES ASSUME NEW j \in Job, status[j] \in {"ROLLED_BACK", "DELETED"},
                    ~(objects'[j] \subseteq objects[j])
             PROVE  \E c \in calls : c.job = j /\ ~Live(c)
  BY DEF StraysOnly
<1>0. CallsOK /\ objects \in [Job -> SUBSET Object]
  BY RunTypes
<1>1. PICK c \in calls : c.job = j /\ c.task \in WritingTask
  BY <1>0, ObjectsWritten
<1>2. c.task \in MakingTask
  BY <1>1 DEF MakingTask, WritingTask
<1>3. ~Live(c)
  BY <1>1, <1>2 DEF Live, RunInv, UnsettledWhileMaking, SettledStatus
<1> QED
  BY <1>1, <1>3

-----------------------------------------------------------------------------
(***************************************************************************)
(* The theorems.                                                           *)
(***************************************************************************)

\* The pipeline's invariant holds of every behaviour.
THEOREM SpendInvariant == PipelineSpec => [](LedgerInv /\ SpendInv /\ RunInv)
<1>1. PipelineInit => LedgerInv /\ SpendInv /\ RunInv
  BY LedgerInvInit, SpendInvInit, RunInvInit DEF PipelineInit
<1>2. LedgerInv /\ SpendInv /\ RunInv /\ [PipelineNext]_vars
        => LedgerInv' /\ SpendInv' /\ RunInv'
  BY SpendInvStep, RunInvStep
<1> QED
  BY <1>1, <1>2, PTL DEF PipelineSpec

\* Type correctness: no task is retried more than MaxRetry times, and every
\* call is of a task of the machine.
THEOREM PipelineTyped == PipelineSpec => []PipelineTypeOK
<1>1. SpendInv => PipelineTypeOK
  BY DEF SpendInv
<1> QED
  BY <1>1, SpendInvariant, PTL

\* The pipeline implements the ledger: whatever the retries, the lost answers
\* and the abandoned invocations do, they do by the ledger's operations.
THEOREM PipelineImplementsLedger == PipelineSpec => ImplementsLedger
<1>1. PipelineInit => LedgerInit
  BY DEF PipelineInit
<1>2. SpendInv /\ [PipelineNext]_vars => [LedgerNext]_ledgerVars
  BY PipelineStepRefines, TypesOfCalls DEF SpendInv
<1> QED
  BY <1>1, <1>2, SpendInvariant, PTL DEF PipelineSpec, ImplementsLedger, LedgerSpec

\* So no behaviour of the pipeline loses, creates or double-spends a credit.
THEOREM PipelineConservation == PipelineSpec => []CreditsConserved
BY PipelineImplementsLedger, Conservation, PTL DEF ImplementsLedger

\* Nothing is generated for a job that never froze a credit.
THEOREM SpendIsPaid == PipelineSpec => []SpendNeedsCredit
<1>1. SpendInv => SpendNeedsCredit
  BY DEF SpendInv
<1> QED
  BY <1>1, SpendInvariant, PTL

\* An execution that ends in GenerationSucceeded has charged its job.
THEOREM SuccessIsPaid == PipelineSpec => []SucceededIsCharged
<1>1. SpendInv => SucceededIsCharged
  BY DEF SpendInv
<1> QED
  BY <1>1, SpendInvariant, PTL

\* A credit is only stranded by a rollback that failed, an execution timeout
\* or a freeze that landed after its execution had given up waiting.
THEOREM StrandedThreeWays == PipelineSpec => []StrandedOnlyBy
<1>1. RunInv => StrandedOnlyBy
  BY DEF RunInv
<1> QED
  BY <1>1, SpendInvariant, PTL

\* A delivered dreamscape has its narration, key and object, whatever rolls
\* back, is retried or is abandoned around it.
THEOREM DeliveredIsThere == PipelineSpec => []PaidNarrationKept
<1>1. RunInv => PaidNarrationKept
  BY DEF RunInv
<1> QED
  BY <1>1, SpendInvariant, PTL

\* After a refund or a deletion, objects come back only by an abandoned call.
THEOREM OnlyStraysWrite == PipelineSpec => OnlyStraysWriteAfterSettlement
<1>1. SpendInv /\ RunInv /\ [PipelineNext]_vars => [StraysOnly]_vars
  BY StraysStep
<1>2. PipelineSpec => [][StraysOnly]_vars
  BY <1>1, SpendInvariant, PTL DEF PipelineSpec
<1> QED
  BY <1>2, PTL DEF OnlyStraysWriteAfterSettlement, StraysOnly
=============================================================================
