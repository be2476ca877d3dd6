---------------------------- MODULE CreditLedger ----------------------------
(***************************************************************************)
(* The credit ledger of one user: the ENTITLEMENT item, the JOB items and  *)
(* the EVENT markers of the user's DynamoDB partition, and the operations  *)
(* of EntitlementStore (src/backend/shared/db.py) that change credits or a *)
(* job's status.                                                           *)
(*                                                                         *)
(* Every operation is one conditional write, so one atomic action.  A call *)
(* whose condition fails changes nothing.  The module says nothing of who  *)
(* calls: any operation may run for any job at any time, repeated, late or *)
(* out of order, as retries and abandoned Lambda invocations make it.      *)
(***************************************************************************)
EXTENDS Integers, FiniteSets

CONSTANTS
    Job,                      \* job ids
    Event,                    \* Stripe event ids that grant credits
    CreditsOf,                \* the credits each event grants
    FreeSignupCredits         \* FREE_SIGNUP_CREDITS of shared/models.py

ASSUME LedgerAssumption ==
    /\ CreditsOf \in [Event -> Nat]
    /\ FreeSignupCredits \in Nat

VARIABLES
    provisioned,              \* does the ENTITLEMENT item exist?
    available,                \* ENTITLEMENT.available, 0 while it does not
    frozen,                   \* ENTITLEMENT.frozen, 0 while it does not
    status,                   \* the status of each JOB item, or "ABSENT"
    markers,                  \* events whose EVENT# marker is written
    granted                   \* history: credits ever granted

entitlement == <<provisioned, available, frozen>>
ledgerVars == <<provisioned, available, frozen, status, markers, granted>>

(***************************************************************************)
(* JobStatus of shared/models.py, and the absent item.  FAILED is in the   *)
(* enumeration and in rollback's allow-list; nothing ever writes it.       *)
(***************************************************************************)
Status == {"ABSENT", "PENDING", "FROZEN", "GENERATING", "DONE", "FAILED",
           "ROLLED_BACK", "DELETED"}

InFlightStatus == {"FROZEN", "GENERATING"}
ChargedStatus  == {"DONE", "DELETED"}

InFlight == {j \in Job : status[j] \in InFlightStatus}
Charged  == {j \in Job : status[j] \in ChargedStatus}

LedgerInit ==
    /\ provisioned = FALSE
    /\ available = 0
    /\ frozen = 0
    /\ status = [j \in Job |-> "ABSENT"]
    /\ markers = {}
    /\ granted = 0

SetStatus(j, s) == status' = [status EXCEPT ![j] = s]

(***************************************************************************)
(* Faulty variants of the definitions below: each is a mistake this code   *)
(* could make, and makes a property fail (the module's own definitions     *)
(* never use them).                                                        *)
(***************************************************************************)

\* mark_job_deleted that accepts a job still being made.
MarkJobDeletedInFlight(j) ==
    /\ status[j] \in {"GENERATING", "DONE", "DELETED"}
    /\ SetStatus(j, "DELETED")
    /\ UNCHANGED <<entitlement, markers, granted>>

\* rollback_credit that only refunds a job nothing was generated for yet.
RefundableFrozen(j) == status[j] \in {"FROZEN", "FAILED"}

\* freeze_credit without available >= 1.
HasAvailableUnchecked == provisioned

\* rollback_credit that drops the frozen credit instead of returning it.
RollbackCreditUnreturned(j) ==
    /\ provisioned /\ frozen >= 1
    /\ status[j] \in {"FROZEN", "GENERATING", "FAILED"}
    /\ frozen' = frozen - 1
    /\ SetStatus(j, "ROLLED_BACK")
    /\ UNCHANGED <<provisioned, available, markers, granted>>

(***************************************************************************)
(* Provisioning and billing.                                               *)
(***************************************************************************)

\* initialize_user: put ENTITLEMENT unless it exists, with the free credit.
\* (The independent PROFILE put holds nothing the ledger reads.)
InitializeUser ==
    /\ ~provisioned
    /\ provisioned' = TRUE
    /\ available' = FreeSignupCredits
    /\ granted' = granted + FreeSignupCredits
    /\ UNCHANGED <<frozen, status, markers>>

\* apply_stripe_credit and apply_subscription_update: one transaction puts
\* the marker, if absent, and adds the credits, creating ENTITLEMENT if needed.
ApplyStripeEvent(e) ==
    /\ e \notin markers
    /\ markers' = markers \union {e}
    /\ provisioned' = TRUE
    /\ available' = available + CreditsOf[e]
    /\ granted' = granted + CreditsOf[e]
    /\ UNCHANGED <<frozen, status>>

(***************************************************************************)
(* Job lifecycle.                                                          *)
(***************************************************************************)

\* create_job: put a PENDING item unless the id is taken.
CreateJob(j) ==
    /\ status[j] = "ABSENT"
    /\ SetStatus(j, "PENDING")
    /\ UNCHANGED <<entitlement, markers, granted>>

\* mark_job_generating: FROZEN or GENERATING to GENERATING.
MarkJobGenerating(j) ==
    /\ status[j] \in {"FROZEN", "GENERATING"}
    /\ SetStatus(j, "GENERATING")
    /\ UNCHANGED <<entitlement, markers, granted>>

\* mark_job_deleted: DONE to DELETED, and DELETED again for a retry.
MarkJobDeleted(j) ==
    /\ status[j] \in {"DONE", "DELETED"}
    /\ SetStatus(j, "DELETED")
    /\ UNCHANGED <<entitlement, markers, granted>>

(***************************************************************************)
(* The three credit transactions.  Each updates ENTITLEMENT and JOB        *)
(* together, under a condition on each; Freezable, Committable and         *)
(* Refundable are the conditions on the JOB item.                          *)
(***************************************************************************)
Freezable(j)   == status[j] \in {"ABSENT", "PENDING"}
Committable(j) == status[j] \in {"FROZEN", "GENERATING"}
Refundable(j)  == status[j] \in {"FROZEN", "GENERATING", "FAILED"}

HasAvailable == provisioned /\ available >= 1
HasFrozen    == provisioned /\ frozen >= 1

FreezeCredit(j) ==
    /\ HasAvailable
    /\ Freezable(j)
    /\ available' = available - 1
    /\ frozen' = frozen + 1
    /\ SetStatus(j, "FROZEN")
    /\ UNCHANGED <<provisioned, markers, granted>>

CommitCredit(j) ==
    /\ HasFrozen
    /\ Committable(j)
    /\ frozen' = frozen - 1
    /\ SetStatus(j, "DONE")
    /\ UNCHANGED <<provisioned, available, markers, granted>>

RollbackCredit(j) ==
    /\ HasFrozen
    /\ Refundable(j)
    /\ frozen' = frozen - 1
    /\ available' = available + 1
    /\ SetStatus(j, "ROLLED_BACK")
    /\ UNCHANGED <<provisioned, markers, granted>>

LedgerNext ==
    \/ InitializeUser
    \/ \E e \in Event : ApplyStripeEvent(e)
    \/ \E j \in Job :
          \/ CreateJob(j)
          \/ MarkJobGenerating(j)
          \/ MarkJobDeleted(j)
          \/ FreezeCredit(j)
          \/ CommitCredit(j)
          \/ RollbackCredit(j)

LedgerSpec == LedgerInit /\ [][LedgerNext]_ledgerVars

(***************************************************************************)
(* Properties.                                                             *)
(***************************************************************************)

\* The ledger's counters are naturals and its statuses those of JobStatus.
LedgerTypeOK ==
    /\ provisioned \in BOOLEAN
    /\ available \in Nat
    /\ frozen \in Nat
    /\ status \in [Job -> Status]
    /\ markers \subseteq Event
    /\ granted \in Nat

\* ENTITLEMENT.frozen is the number of jobs in flight.  The two items are
\* only related through the transactions' conditions: were one wrong, a
\* refund could find no frozen credit (CreditLedgerError) or a user could be
\* locked out by generation_gate with no job running.
FrozenCountsInFlight ==
    IsFiniteSet(InFlight) /\ frozen = Cardinality(InFlight)

\* Every credit granted is still available, is frozen for a job in flight, or
\* was spent on a delivered job: no order of calls, however repeated, refunds
\* a credit twice, charges twice or loses one.
CreditsConserved ==
    /\ IsFiniteSet(Charged)
    /\ available + frozen + Cardinality(Charged) = granted

\* Whenever the JOB item admits a commit or a refund, ENTITLEMENT admits it
\* too: the CreditLedgerError of commit_credit and rollback_credit, which no
\* Retry block lists and which would strand the credit, cannot happen.
SettlementNeverStarves ==
    \A j \in Job : Committable(j) \/ Refundable(j) => HasFrozen

\* What the fate of a job may still become: a settled job never settles the
\* other way, and never freezes a second credit.
MayFollow(s, t) ==
    \/ s = t
    \/ s \in {"ABSENT", "PENDING"} /\ t \in {"PENDING", "FROZEN"}
    \/ s \in InFlightStatus /\ t \in {"GENERATING", "DONE", "ROLLED_BACK"}
    \/ s = "DONE" /\ t = "DELETED"

\* A job is charged or refunded once and for all (the allow-lists of commit
\* and rollback are disjoint from each other's targets).
SettlementIsFinal ==
    [][\A j \in Job : MayFollow(status[j], status'[j])]_ledgerVars

\* The invariant that carries the proofs: with the two above, no job is ever
\* FAILED, and an absent ENTITLEMENT item holds no credit.
LedgerInv ==
    /\ LedgerTypeOK
    /\ \A j \in Job : status[j] # "FAILED"
    /\ ~provisioned => available = 0 /\ frozen = 0
    /\ FrozenCountsInFlight
    /\ CreditsConserved

\* The ledger implements the account: a job holds a credit while in flight,
\* and its settled status says what became of it.
HoldOf(s) ==
    IF s \in InFlightStatus THEN "held"
    ELSE IF s \in ChargedStatus THEN "charged"
    ELSE IF s = "ROLLED_BACK" THEN "returned"
    ELSE "none"

Account == INSTANCE CreditAccount WITH
    balance <- available,
    hold <- [j \in Job |-> HoldOf(status[j])]

ImplementsAccount == Account!AccountSpec
=============================================================================
