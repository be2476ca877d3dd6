--------------------------- MODULE CreditAccount ---------------------------
(***************************************************************************)
(* What the application promises a user about credits, with no database in *)
(* sight.  Credits come in by grants.  A meditation job holds one credit   *)
(* while it is being made; the hold ends exactly once, either as a charge  *)
(* (the meditation was delivered) or as a return (it failed).              *)
(*                                                                         *)
(* CreditLedger, the two-item DynamoDB transactions of                     *)
(* src/backend/shared/db.py, is shown to implement this.                   *)
(***************************************************************************)
EXTENDS Integers

CONSTANT Job                  \* the jobs that may ever ask for a credit

VARIABLES
    granted,                  \* credits ever granted to the user
    balance,                  \* credits the user may still hold for a job
    hold                      \* what became of each job's credit

accountVars == <<granted, balance, hold>>

HoldState == {"none", "held", "charged", "returned"}

AccountInit ==
    /\ granted = 0
    /\ balance = 0
    /\ hold = [j \in Job |-> "none"]

\* A signup, a credit pack or a subscription period adds credits.
Grant ==
    /\ granted' \in Nat
    /\ granted' >= granted
    /\ balance' = balance + (granted' - granted)
    /\ UNCHANGED hold

\* A job takes one credit out of the balance.
Hold(j) ==
    /\ hold[j] = "none"
    /\ balance > 0
    /\ balance' = balance - 1
    /\ hold' = [hold EXCEPT ![j] = "held"]
    /\ UNCHANGED granted

\* The meditation was delivered: the credit is gone.
Charge(j) ==
    /\ hold[j] = "held"
    /\ hold' = [hold EXCEPT ![j] = "charged"]
    /\ UNCHANGED <<granted, balance>>

\* The job failed: its credit is back in the balance.
Return(j) ==
    /\ hold[j] = "held"
    /\ balance' = balance + 1
    /\ hold' = [hold EXCEPT ![j] = "returned"]
    /\ UNCHANGED granted

AccountNext ==
    \/ Grant
    \/ \E j \in Job : Hold(j) \/ Charge(j) \/ Return(j)

AccountSpec == AccountInit /\ [][AccountNext]_accountVars
=============================================================================
