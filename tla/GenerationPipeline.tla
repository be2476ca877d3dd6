------------------------- MODULE GenerationPipeline -------------------------
(***************************************************************************)
(* How a meditation is made: the API's start of a job, the Step Functions  *)
(* execution named after it, the Lambda invocations that execution makes,  *)
(* the objects they write to S3, and the user's deletion of the result.    *)
(* Credits and job statuses are those of CreditLedger, which this module   *)
(* composes with and implements.                                           *)
(*                                                                         *)
(* Sources: infra/stacks/pipeline_stack.py (the state machine),            *)
(* backend/functions/* (the task handlers), backend/shared/jobs.py and     *)
(* backend/api/routers/{generate,dreamscapes}.py.                          *)
(*                                                                         *)
(* An invocation ("call") runs its handler's remote writes one at a time,  *)
(* interleaved with everything else.  Step Functions may stop waiting for  *)
(* a call that goes on running - a lost response, a task timeout - and may *)
(* start another one: the abandoned call can still perform the rest of its *)
(* writes at any later moment, or none of them.                            *)
(***************************************************************************)
EXTENDS CreditLedger

CONSTANTS
    AgentJob,          \* jobs a companion session confirms: the id is reused
    MaxRetry,          \* bound: retries of a task (max_attempts, 3 in the code)
    MaxFaults,         \* bound: infrastructure faults in a behaviour
    FaultModel         \* the faults considered, pairs <<kind, task>>

Task == {"FreezeCreditTask", "GenerateScriptTask", "SynthesizeTask",
         "CommitCreditTask", "RollbackCreditTask"}

FaultKind == {"lost", "timeout", "error", "expired"}

ASSUME PipelineAssumption ==
    /\ AgentJob \subseteq Job
    /\ MaxRetry \in Nat
    /\ MaxFaults \in Nat
    /\ FaultModel \subseteq FaultKind \X Task

VARIABLES
    request,           \* progress of the API request that starts each job
    machine,           \* state of each job's execution
    attempt,           \* retries spent in that state
    calls,             \* Lambda invocations that still run
    keys,              \* script_key and audio_key attributes of each JOB item
    objects,           \* what lies under jobs/{job_id}/ in the audio bucket
    deletion,          \* progress of DELETE /dreamscapes/{job_id}
    faults,            \* bound: faults so far
    lateFreeze         \* history: jobs frozen by an abandoned call

pipelineVars == <<request, machine, attempt, calls, keys, objects, deletion,
                  faults, lateFreeze>>
vars == <<ledgerVars, pipelineVars>>

Object == {"script", "narration"}

EndState == {"GenerationSucceeded", "InsufficientCredits", "GenerationFailed",
             "RollbackRaised", "TimedOut"}

PipelineInit ==
    /\ LedgerInit
    /\ request = [j \in Job |-> "none"]
    /\ machine = [j \in Job |-> "NotStarted"]
    /\ attempt = [j \in Job |-> 0]
    /\ calls = {}
    /\ keys = [j \in Job |-> {}]
    /\ objects = [j \in Job |-> {}]
    /\ deletion = [j \in Job |-> "none"]
    /\ faults = 0
    /\ lateFreeze = {}

(***************************************************************************)
(* Faulty variants of definitions below: mistakes this code could make,    *)
(* each of which makes a property fail.  Nothing in the module uses them.  *)
(***************************************************************************)

\* A definition wired without the commit task.
NextStateUncommitted ==
    [t \in Task |-> CASE t = "FreezeCreditTask"   -> "GenerateScriptTask"
                      [] t = "GenerateScriptTask" -> "SynthesizeTask"
                      [] t = "RollbackCreditTask" -> "GenerationFailed"
                      [] OTHER                    -> "GenerationSucceeded"]

\* The commit task caught straight into the Fail state.
CatchStateUnrefunded ==
    [t \in Task |-> IF t = "RollbackCreditTask" THEN "RollbackRaised"
                    ELSE IF t = "CommitCreditTask" THEN "GenerationFailed"
                    ELSE "RollbackCreditTask"]

\* rollback_credit's handler sweeping whatever the ledger answered.
SweepsAfterReplay(t, s) ==
    t = "RollbackCreditTask" /\ s \in {"ROLLED_BACK", "DONE"}

(***************************************************************************)
(* The state machine.  A task succeeds into NextState; an error in its     *)
(* Retry list invokes it again while attempts remain; any other error, and *)
(* the last retry, is caught into CatchState.  The rollback task has no    *)
(* Catch: its error fails the execution.                                   *)
(***************************************************************************)
NextState ==
    [t \in Task |-> CASE t = "FreezeCreditTask"   -> "GenerateScriptTask"
                      [] t = "GenerateScriptTask" -> "SynthesizeTask"
                      [] t = "SynthesizeTask"     -> "CommitCreditTask"
                      [] t = "CommitCreditTask"   -> "GenerationSucceeded"
                      [] t = "RollbackCreditTask" -> "GenerationFailed"]

CatchState ==
    [t \in Task |-> IF t = "RollbackCreditTask" THEN "RollbackRaised"
                                                ELSE "RollbackCreditTask"]

\* The remote operations of the handlers, and the first of each.
Step == {"transact", "reread", "sweep", "mark", "converse", "recordScript",
         "read", "speak", "recordAudio"}

FirstStep ==
    [t \in Task |-> CASE t = "GenerateScriptTask" -> "mark"
                      [] t = "SynthesizeTask"     -> "read"
                      [] OTHER                    -> "transact"]

Call(j, t, n) == [job |-> j, task |-> t, attempt |-> n, step |-> FirstStep[t]]

\* Does the execution still wait for this call?
Live(c) == machine[c.job] = c.task /\ attempt[c.job] = c.attempt

\* The execution of j enters state s, invoking its task if it is one.
Enter(j, s, others) ==
    /\ machine' = [machine EXCEPT ![j] = s]
    /\ attempt' = [attempt EXCEPT ![j] = 0]
    /\ calls' = IF s \in Task THEN others \union {Call(j, s, 0)} ELSE others

\* Faulty: one retry too many, and retries that are never counted.
RetryOnceMore(c, others) ==
    IF c.attempt <= MaxRetry
    THEN /\ attempt' = [attempt EXCEPT ![c.job] = c.attempt + 1]
         /\ calls' = others \union {Call(c.job, c.task, c.attempt + 1)}
         /\ UNCHANGED machine
    ELSE Enter(c.job, CatchState[c.task], others)

RetryUncounted(c, others) ==
    /\ calls' = others \union {Call(c.job, c.task, c.attempt)}
    /\ UNCHANGED <<machine, attempt>>

RetryOrCatch(c, others) ==
    IF c.attempt < MaxRetry
    THEN /\ attempt' = [attempt EXCEPT ![c.job] = c.attempt + 1]
         /\ calls' = others \union {Call(c.job, c.task, c.attempt + 1)}
         /\ UNCHANGED machine
    ELSE Enter(c.job, CatchState[c.task], others)

(***************************************************************************)
(* How a call ends or goes on.  The answer of an abandoned call reaches    *)
(* nobody.                                                                 *)
(***************************************************************************)
Drop(c) == calls' = calls \ {c} /\ UNCHANGED <<machine, attempt>>

Answer(c, s)  == IF Live(c) THEN Enter(c.job, s, calls \ {c}) ELSE Drop(c)
Succeed(c)    == Answer(c, NextState[c.task])
Raise(c)      == Answer(c, CatchState[c.task])
RaiseTransient(c) ==
    IF Live(c) THEN RetryOrCatch(c, calls \ {c}) ELSE Drop(c)

Proceed(c, step) ==
    /\ calls' = (calls \ {c}) \union {[c EXCEPT !.step = step]}
    /\ UNCHANGED <<machine, attempt>>

At(c, t, step) == c.task = t /\ c.step = step

(***************************************************************************)
(* The credit handlers: freeze_credit, commit_credit, rollback_credit.     *)
(* After the transaction the job is read, by a second request: an applied  *)
(* one reports the status it finds, and one cancelled by the JOB item's    *)
(* condition (looked at first) tells a replay from an error by it.  What   *)
(* an applied transaction can find is among its ReplayStatuses too.        *)
(***************************************************************************)
ReplayStatuses ==
    [t \in {"FreezeCreditTask", "CommitCreditTask", "RollbackCreditTask"} |->
        CASE t = "FreezeCreditTask"   -> Status \ {"ABSENT", "PENDING"}
          [] t = "CommitCreditTask"   -> {"DONE", "DELETED"}
          [] t = "RollbackCreditTask" -> {"ABSENT", "PENDING", "DONE",
                                          "ROLLED_BACK", "DELETED"}]

FreezeTransaction(c) ==
    /\ At(c, "FreezeCreditTask", "transact")
    /\ \/ /\ FreezeCredit(c.job)
          /\ Proceed(c, "reread")
          /\ lateFreeze' = IF Live(c) THEN lateFreeze
                                      ELSE lateFreeze \union {c.job}
       \/ /\ ~(Freezable(c.job) /\ HasAvailable)
          /\ IF Freezable(c.job) THEN Answer(c, "InsufficientCredits")
                                 ELSE Proceed(c, "reread")
          /\ UNCHANGED <<ledgerVars, lateFreeze>>
    /\ UNCHANGED <<request, keys, objects, deletion, faults>>

CommitTransaction(c) ==
    /\ At(c, "CommitCreditTask", "transact")
    /\ \/ CommitCredit(c.job) /\ Proceed(c, "reread")
       \/ /\ ~(Committable(c.job) /\ HasFrozen)
          /\ IF Committable(c.job) THEN Raise(c) ELSE Proceed(c, "reread")
          /\ UNCHANGED ledgerVars
    /\ UNCHANGED <<request, keys, objects, deletion, faults, lateFreeze>>

RollbackTransaction(c) ==
    /\ At(c, "RollbackCreditTask", "transact")
    /\ \/ RollbackCredit(c.job) /\ Proceed(c, "reread")
       \/ /\ ~(Refundable(c.job) /\ HasFrozen)
          /\ IF Refundable(c.job) THEN Raise(c) ELSE Proceed(c, "reread")
          /\ UNCHANGED ledgerVars
    /\ UNCHANGED <<request, keys, objects, deletion, faults, lateFreeze>>

\* Only a job the ledger reports as rolled back is swept.
SweepsAfter(t, s) == t = "RollbackCreditTask" /\ s = "ROLLED_BACK"

RereadJob(c) ==
    /\ c.step = "reread"
    /\ LET s == status[c.job]
       IN  IF SweepsAfter(c.task, s) THEN Proceed(c, "sweep")
           ELSE IF s \in ReplayStatuses[c.task] THEN Succeed(c)
           ELSE Raise(c)
    /\ UNCHANGED <<ledgerVars, request, keys, objects, deletion, faults,
                   lateFreeze>>

\* sweep_job_objects: list, then delete.  A failure, which may come after some
\* objects are gone, is logged and the handler succeeds all the same.
SweepRolledBack(c) ==
    /\ At(c, "RollbackCreditTask", "sweep")
    /\ \E left \in SUBSET objects[c.job] :
          objects' = [objects EXCEPT ![c.job] = left]
    /\ Succeed(c)
    /\ UNCHANGED <<ledgerVars, request, keys, deletion, faults, lateFreeze>>

(***************************************************************************)
(* generate_script: mark the job, call the model, put script.txt, record   *)
(* its key.  The status update is a no-op once the job has moved on.       *)
(***************************************************************************)
\* Faulty: the status written without its allow-list.
MarkGeneratingUnguarded(c) ==
    /\ c.task = "GenerateScriptTask" /\ c.step = "mark"
    /\ SetStatus(c.job, "GENERATING")
    /\ Proceed(c, "converse")
    /\ UNCHANGED <<entitlement, markers, granted>>
    /\ UNCHANGED <<request, keys, objects, deletion, faults, lateFreeze>>

MarkGenerating(c) ==
    /\ At(c, "GenerateScriptTask", "mark")
    /\ \/ MarkJobGenerating(c.job)
       \/ status[c.job] \notin {"FROZEN", "GENERATING"} /\ UNCHANGED ledgerVars
    /\ Proceed(c, "converse")
    /\ UNCHANGED <<request, keys, objects, deletion, faults, lateFreeze>>

\* BedrockTransientError is retried; ScriptGenerationError is not.
WriteScript(c) ==
    /\ At(c, "GenerateScriptTask", "converse")
    /\ \/ /\ objects' = [objects EXCEPT ![c.job] = @ \union {"script"}]
          /\ Proceed(c, "recordScript")
       \/ RaiseTransient(c) /\ UNCHANGED objects
       \/ Raise(c) /\ UNCHANGED objects
    /\ UNCHANGED <<ledgerVars, request, keys, deletion, faults, lateFreeze>>

SetJobScriptKey(c) ==
    /\ At(c, "GenerateScriptTask", "recordScript")
    /\ keys' = [keys EXCEPT ![c.job] = @ \union {"script"}]
    /\ Succeed(c)
    /\ UNCHANGED <<ledgerVars, request, objects, deletion, faults, lateFreeze>>

(***************************************************************************)
(* synthesize: read the script, speak it, put narration.mp3, record its    *)
(* key.  A swept script raises a ClientError, which is not retried.        *)
(***************************************************************************)
ReadScript(c) ==
    /\ At(c, "SynthesizeTask", "read")
    /\ IF "script" \in objects[c.job] THEN Proceed(c, "speak") ELSE Raise(c)
    /\ UNCHANGED <<ledgerVars, request, keys, objects, deletion, faults,
                   lateFreeze>>

WriteNarration(c) ==
    /\ At(c, "SynthesizeTask", "speak")
    /\ \/ /\ objects' = [objects EXCEPT ![c.job] = @ \union {"narration"}]
          /\ Proceed(c, "recordAudio")
       \/ RaiseTransient(c) /\ UNCHANGED objects
       \/ Raise(c) /\ UNCHANGED objects
    /\ UNCHANGED <<ledgerVars, request, keys, deletion, faults, lateFreeze>>

SetJobAudioKey(c) ==
    /\ At(c, "SynthesizeTask", "recordAudio")
    /\ keys' = [keys EXCEPT ![c.job] = @ \union {"narration"}]
    /\ Succeed(c)
    /\ UNCHANGED <<ledgerVars, request, objects, deletion, faults, lateFreeze>>

HandlerStep(c) ==
    \/ FreezeTransaction(c) \/ CommitTransaction(c) \/ RollbackTransaction(c)
    \/ RereadJob(c) \/ SweepRolledBack(c)
    \/ MarkGenerating(c) \/ WriteScript(c) \/ SetJobScriptKey(c)
    \/ ReadScript(c) \/ WriteNarration(c) \/ SetJobAudioKey(c)

(***************************************************************************)
(* Infrastructure faults, each spending one of MaxFaults.                  *)
(***************************************************************************)
Fault(kind, c) ==
    /\ Live(c)
    /\ <<kind, c.task>> \in FaultModel
    /\ faults < MaxFaults
    /\ faults' = faults + 1
    /\ UNCHANGED <<ledgerVars, request, keys, objects, deletion, lateFreeze>>

\* A Lambda service error reaches the execution, which retries the task; the
\* call itself goes on.
LoseCall(c) == Fault("lost", c) /\ RetryOrCatch(c, calls)

\* States.Timeout is in no Retry list: it is caught at once, and stopping to
\* wait does not stop the call.
TimeOutCall(c) == Fault("timeout", c) /\ Enter(c.job, CatchState[c.task], calls)

\* The handler raises what nobody retries, such as a throttled or conflicting
\* DynamoDB request, before its next write.
RaiseError(c) == Fault("error", c) /\ Raise(c)

\* The execution timeout ends the execution and runs no Catch.
ExpireExecution(c) == Fault("expired", c) /\ Enter(c.job, "TimedOut", calls)

FaultStep ==
    \E c \in calls :
        LoseCall(c) \/ TimeOutCall(c) \/ RaiseError(c) \/ ExpireExecution(c)

(***************************************************************************)
(* The API: POST /generate and the companion's confirm, which share        *)
(* generation_gate and start_generation.                                   *)
(***************************************************************************)
GenerationGate ==
    IF ~provisioned \/ available < 1 THEN "NO_CREDIT"
    ELSE IF frozen >= 1 THEN "JOB_IN_FLIGHT"
    ELSE "OK"

\* A request passes the gate; a refused one is answered and leaves no trace.
PassGate(j) ==
    /\ request[j] = "none"
    /\ GenerationGate = "OK"
    /\ request' = [request EXCEPT ![j] = "open"]
    /\ UNCHANGED <<ledgerVars, machine, attempt, calls, keys, objects,
                   deletion, faults, lateFreeze>>

\* start_generation writes the JOB row ...
WriteJobRow(j) ==
    /\ request[j] = "open"
    /\ CreateJob(j)
    /\ request' = [request EXCEPT ![j] = "row"]
    /\ UNCHANGED <<machine, attempt, calls, keys, objects, deletion, faults,
                   lateFreeze>>

\* Faulty: an execution that begins at its second task.
StartUnfrozen(j) ==
    IF machine[j] = "NotStarted" THEN Enter(j, "GenerateScriptTask", calls)
    ELSE UNCHANGED <<machine, attempt, calls>>

\* ... and starts the execution named after the job.  The name is unique: a
\* second StartExecution starts nothing.
Start(j) ==
    IF machine[j] = "NotStarted" THEN Enter(j, "FreezeCreditTask", calls)
    ELSE UNCHANGED <<machine, attempt, calls>>

StartExecution(j) ==
    /\ request[j] = "row"
    /\ request' = [request EXCEPT ![j] = "accepted"]
    /\ Start(j)
    /\ UNCHANGED <<ledgerVars, keys, objects, deletion, faults, lateFreeze>>

\* StartExecution reports an error; the execution may have started anyway.
StartFails(j) ==
    /\ request[j] = "row"
    /\ request' = [request EXCEPT ![j] = "failed"]
    /\ Start(j) \/ UNCHANGED <<machine, attempt, calls>>
    /\ UNCHANGED <<ledgerVars, keys, objects, deletion, faults, lateFreeze>>

\* The companion's job id is derived from its session, so confirming again
\* meets the same row: while it is PENDING the start is tried again.
ConfirmAgain(j) ==
    /\ j \in AgentJob
    /\ request[j] = "failed"
    /\ GenerationGate = "OK"
    /\ request' = [request EXCEPT
                      ![j] = IF status[j] = "PENDING" THEN "row" ELSE "taken"]
    /\ UNCHANGED <<ledgerVars, machine, attempt, calls, keys, objects,
                   deletion, faults, lateFreeze>>

\* DELETE /dreamscapes/{job_id}: the status first, then the objects; a failed
\* sweep answers 500, and deleting again finds the job DELETED and sweeps.
DeleteDreamscape(j) ==
    /\ deletion[j] # "sweeping"
    /\ MarkJobDeleted(j)
    /\ deletion' = [deletion EXCEPT ![j] = "sweeping"]
    /\ UNCHANGED <<request, machine, attempt, calls, keys, objects, faults,
                   lateFreeze>>

SweepDeleted(j) ==
    /\ deletion[j] = "sweeping"
    /\ \E left \in SUBSET objects[j] :
          /\ objects' = [objects EXCEPT ![j] = left]
          /\ deletion' = [deletion EXCEPT
                            ![j] = IF left = {} THEN "swept" ELSE "failed"]
    /\ UNCHANGED <<ledgerVars, request, machine, attempt, calls, keys, faults,
                   lateFreeze>>

(***************************************************************************)
(* Credits arrive from signup and from Stripe.                             *)
(***************************************************************************)
CreditsArrive ==
    /\ InitializeUser \/ \E e \in Event : ApplyStripeEvent(e)
    /\ UNCHANGED pipelineVars

UserStep ==
    \E j \in Job :
        \/ PassGate(j) \/ WriteJobRow(j) \/ StartExecution(j) \/ StartFails(j)
        \/ ConfirmAgain(j) \/ DeleteDreamscape(j) \/ SweepDeleted(j)

PipelineNext ==
    \/ \E c \in calls : HandlerStep(c)
    \/ FaultStep
    \/ UserStep
    \/ CreditsArrive

PipelineSpec == PipelineInit /\ [][PipelineNext]_vars

\* Step Functions and Lambda carry on with a call an execution waits for.
\* Nothing is assumed of an abandoned call, of a fault or of a user.
Progress(j) == \E c \in calls : c.job = j /\ Live(c) /\ HandlerStep(c)

FairPipelineSpec == PipelineSpec /\ \A j \in Job : WF_vars(Progress(j))

(***************************************************************************)
(* Properties.                                                             *)
(***************************************************************************)

Running(j) == machine[j] \in Task

\* Calls are of the machine's tasks, objects of the two a job writes.
PipelineTypeOK ==
    /\ LedgerTypeOK
    /\ request \in [Job -> {"none", "open", "row", "accepted", "failed", "taken"}]
    /\ machine \in [Job -> Task \union EndState \union {"NotStarted"}]
    /\ attempt \in [Job -> 0..MaxRetry]
    /\ calls \subseteq [job : Job, task : Task, attempt : 0..MaxRetry,
                        step : Step]
    /\ keys \in [Job -> SUBSET Object]
    /\ objects \in [Job -> SUBSET Object]
    /\ deletion \in [Job -> {"none", "sweeping", "failed", "swept"}]
    /\ faults \in 0..MaxFaults
    /\ lateFreeze \subseteq Job

\* A credit is only left frozen with nothing running for it in three ways:
\* the rollback task itself failed, the execution timed out, or the freeze
\* landed after its execution had given up waiting for it.  Every other path
\* of Retry and Catch ends in a commit or a refund.
StrandedOnlyBy ==
    \A j \in InFlight :
        \/ Running(j)
        \/ machine[j] \in {"RollbackRaised", "TimedOut"}
        \/ j \in lateFreeze

\* What GET /jobs/{id} signs a URL for is there: a delivered dreamscape keeps
\* its narration, whatever rolls back, is retried or is abandoned around it.
PaidNarrationKept ==
    \A j \in Job : status[j] = "DONE" =>
        "narration" \in keys[j] /\ "narration" \in objects[j]

\* Nothing is generated for a job whose credit was never frozen: a start that
\* slipped past the gate ends "without producing anything".
SpendNeedsCredit ==
    \A j \in Job : objects[j] # {} => status[j] \notin {"ABSENT", "PENDING"}

\* A generation that succeeded has been paid for.
SucceededIsCharged ==
    \A j \in Job : machine[j] = "GenerationSucceeded" => j \in Charged

\* Once a job is refunded or deleted, its objects only come back by the hand
\* of a call its execution abandoned: the sweeps miss nothing else.
OnlyStraysWriteAfterSettlement ==
    [][\A j \in Job :
          /\ status[j] \in {"ROLLED_BACK", "DELETED"}
          /\ ~(objects'[j] \subseteq objects[j])
          => \E c \in calls : c.job = j /\ ~Live(c)]_vars

\* Every execution ends, whatever fails.
ExecutionsEnd == \A j \in Job : Running(j) ~> ~Running(j)

\* A frozen credit is committed or refunded in the end, however often the
\* tasks before it failed, timed out or were lost, but for the execution
\* timeout, a freeze that lands after its execution gave up, and a fault that
\* defeats the rollback itself.
FrozenCreditSettles ==
    \A j \in Job :
        j \in InFlight ~> \/ j \notin InFlight
                          \/ machine[j] = "TimedOut"
                          \/ machine[j] = "RollbackRaised" /\ faults > 0
                          \/ j \in lateFreeze

\* Every step of the pipeline is a step of the ledger, or leaves it alone.
ImplementsLedger == LedgerSpec

(***************************************************************************)
(* What the code's texts say and the code does not do.                     *)
(***************************************************************************)

\* "Generation failed; the frozen credit has been refunded." (the cause of
\* the GenerationFailed state): no credit is spent on the job, or left frozen.
FailedIsRefunded ==
    \A j \in Job : machine[j] = "GenerationFailed" => j \notin Charged \union InFlight
=============================================================================
