--------------------------- MODULE PictureReading ---------------------------
(***************************************************************************)
(* How one uploaded picture is described: POST /pictures/{id}/describe     *)
(* (api/routers/pictures.py), the PICTURE item (shared/db.py), the picture *)
(* state machine (infra/stacks/pipeline_stack.py) and its handler          *)
(* (functions/describe_picture).                                           *)
(*                                                                         *)
(* A describe request claims the item for an attempt and starts an         *)
(* execution of the machine for it; the claim's timestamp is the attempt's *)
(* token, and every write of the attempt is conditioned on it.  No two     *)
(* claims win with the same count, so the count stands for the token.      *)
(* Requests, machine and handler calls interleave step by step; a call     *)
(* that the machine stopped waiting for may go on running.                 *)
(***************************************************************************)
EXTENDS Integers, FiniteSets

CONSTANTS
    Request,               \* describe requests: taps, retries, other tabs
    MaxAttempts,           \* PICTURE_DESCRIBE_MAX_ATTEMPTS (3 in the code)
    MaxRetry,              \* bound: retries of a task (max_attempts, 3)
    MaxFaults              \* bound: faults of the infrastructure

ASSUME PictureAssumption ==
    MaxAttempts \in Nat \ {0} /\ MaxRetry \in Nat /\ MaxFaults \in Nat

VARIABLES
    status,                \* PictureStatus of the item
    attempts,              \* its describe_attempts
    token,                 \* its describe_started_at: an attempt, 0 if unset
    stale,                 \* is that claim older than the machine's timeout?
    reading,               \* its keywords and summary: whose they are
    uploaded,              \* has the browser's POST to S3 landed?
    request,               \* progress of each describe request
    machine,               \* state of each attempt's execution
    retry,                 \* retries spent in that state
    calls,                 \* handler invocations that still run
    faults,                \* bound: faults so far
    spent,                 \* history: vision calls made
    orphaned,              \* history: attempts that lost who would settle them
    disowned               \* history: attempts taken over, or given back

itemVars == <<status, attempts, token, stale, reading>>
runVars  == <<machine, retry, calls>>
history     == <<spent, orphaned, disowned>>
pictureVars == <<itemVars, uploaded, request, runVars, faults, history>>

Attempt == 1..MaxAttempts
NoReading == [attempt |-> 0, retry |-> 0]

\* A handler call: DescribePictureTask, or MarkPictureFailed's mode of it.
Call(a, n, s) == [attempt |-> a, retry |-> n, step |-> s]

\* Does the execution still wait for this call?
Live(c) ==
    /\ machine[c.attempt] = (IF c.step = "writeOff" THEN "MarkPictureFailed"
                                                    ELSE "DescribePictureTask")
    /\ retry[c.attempt] = c.retry

PictureInit ==
    /\ status = "PENDING"
    /\ attempts = 0
    /\ token = 0
    /\ stale = FALSE
    /\ reading = NoReading
    /\ uploaded = FALSE
    /\ request = [r \in Request |-> [step |-> "idle", attempt |-> 0]]
    /\ machine = [a \in Attempt |-> "NotStarted"]
    /\ retry = [a \in Attempt |-> 0]
    /\ calls = {}
    /\ faults = 0
    /\ spent = 0
    /\ orphaned = {}
    /\ disowned = {}

(***************************************************************************)
(* The item's conditional writes.                                          *)
(***************************************************************************)
\* Faulty: any claim in progress can be taken over.
ClaimableWhileDescribing ==
    attempts < MaxAttempts /\ status \in {"PENDING", "FAILED", "DESCRIBING"}

\* mark_picture_describing's condition.
Claimable ==
    /\ attempts < MaxAttempts
    /\ \/ status \in {"PENDING", "FAILED"}
       \/ status = "DESCRIBING" /\ stale

\* Faulty: a reading lands whoever the item now waits for.
MayRecordAny(a) == status \in {"DESCRIBING", "FAILED", "DESCRIBED"}

\* set_picture_description's condition, and mark_picture_failed's.
MayRecord(a) == token = a /\ status \in {"DESCRIBING", "FAILED", "DESCRIBED"}
MayFail(a)   == token = a /\ status = "DESCRIBING"

MarkFailed(a) ==
    /\ status' = IF MayFail(a) THEN "FAILED" ELSE status
    /\ UNCHANGED <<attempts, token, stale, reading>>

Exhausted == status = "FAILED" /\ attempts >= MaxAttempts

(***************************************************************************)
(* POST /pictures/{id}/describe.                                           *)
(***************************************************************************)
GoTo(r, s, a) == request' = [request EXCEPT ![r] = [step |-> s, attempt |-> a]]

At(r, s) == request[r].step = s

\* Read the item: a picture described already, or tried too often, is answered
\* at once.
Look(r) ==
    /\ At(r, "idle")
    /\ status # "DESCRIBED" /\ ~Exhausted
    /\ GoTo(r, "claim", 0)
    /\ UNCHANGED <<itemVars, uploaded, runVars, faults, history>>

\* Claim the next attempt; whoever loses the claim reports the item's status.
Claim(r) ==
    /\ At(r, "claim")
    /\ IF Claimable
       THEN /\ status' = "DESCRIBING"
            /\ attempts' = attempts + 1
            /\ token' = attempts + 1
            /\ stale' = FALSE
            /\ UNCHANGED reading
            /\ GoTo(r, "start", attempts + 1)
            /\ disowned' = IF status = "DESCRIBING" /\ stale
                           THEN disowned \union {token} ELSE disowned
       ELSE GoTo(r, "idle", 0) /\ UNCHANGED <<itemVars, disowned>>
    /\ UNCHANGED <<uploaded, runVars, faults, spent, orphaned>>

Enter(a, state, others) ==
    /\ machine' = [machine EXCEPT ![a] = state]
    /\ retry' = [retry EXCEPT ![a] = 0]
    /\ calls' = others \union
          (CASE state = "DescribePictureTask" -> {Call(a, 0, "fetch")}
             [] state = "MarkPictureFailed"   -> {Call(a, 0, "writeOff")}
             [] OTHER                         -> {})

\* start_execution answers; or it does not, having started one all the same.
StartExecution(r) ==
    /\ At(r, "start")
    /\ Enter(request[r].attempt, "DescribePictureTask", calls)
    /\ \/ GoTo(r, "idle", 0) /\ UNCHANGED faults
       \/ /\ GoTo(r, "release", request[r].attempt)
          /\ faults < MaxFaults /\ faults' = faults + 1
    /\ UNCHANGED <<itemVars, uploaded, history>>

\* It fails, whatever the reason: the claim is given back, and a 503.
StartFails(r) ==
    /\ At(r, "start")
    /\ faults < MaxFaults /\ faults' = faults + 1
    /\ GoTo(r, "release", request[r].attempt)
    /\ UNCHANGED <<itemVars, uploaded, runVars, history>>

Release(r) ==
    /\ At(r, "release")
    /\ MarkFailed(request[r].attempt)
    /\ GoTo(r, "idle", 0)
    /\ disowned' = disowned \union {request[r].attempt}
    /\ UNCHANGED <<uploaded, runVars, faults, spent, orphaned>>

\* The API's Lambda dies, or cannot reach the table for the release.
RequestDies(r) ==
    /\ request[r].step \in {"start", "release"}
    /\ faults < MaxFaults /\ faults' = faults + 1
    /\ GoTo(r, "idle", 0)
    /\ orphaned' = orphaned \union {request[r].attempt}
    /\ UNCHANGED <<itemVars, uploaded, runVars, spent, disowned>>

(***************************************************************************)
(* The machine.  A transient error and a Lambda service error retry a      *)
(* task; any other failure of the description, and the last retry, is      *)
(* caught into MarkPictureFailed, and that one's into the Fail state.      *)
(***************************************************************************)
\* Faulty: the description's failures caught straight into the Fail state.
CatchStateUnmarked(state) == "PictureDescriptionFailed"

CatchState(state) ==
    IF state = "DescribePictureTask" THEN "MarkPictureFailed"
                                     ELSE "PictureDescriptionFailed"

FirstStep(c) == IF c.step = "writeOff" THEN "writeOff" ELSE "fetch"

Retry(c, others) ==
    IF c.retry < MaxRetry
    THEN /\ retry' = [retry EXCEPT ![c.attempt] = c.retry + 1]
         /\ calls' = others \union {Call(c.attempt, c.retry + 1, FirstStep(c))}
         /\ UNCHANGED machine
    ELSE Enter(c.attempt, CatchState(machine[c.attempt]), others)

\* The execution hears of the call only if it still waits for it.
Answer(c, state) ==
    IF Live(c) THEN Enter(c.attempt, state, calls \ {c})
               ELSE calls' = calls \ {c} /\ UNCHANGED <<machine, retry>>

Raise(c)          == Answer(c, CatchState(machine[c.attempt]))
RaiseTransient(c) == IF Live(c) THEN Retry(c, calls \ {c})
                     ELSE calls' = calls \ {c} /\ UNCHANGED <<machine, retry>>

GoOn(c, s) ==
    /\ calls' = (calls \ {c}) \union {[c EXCEPT !.step = s]}
    /\ UNCHANGED <<machine, retry>>

(***************************************************************************)
(* The handler, one remote operation at a time.                            *)
(***************************************************************************)
\* _fetch: the object, or a permanent failure if it never landed.
Fetch(c) ==
    /\ c.step = "fetch"
    /\ GoOn(c, IF uploaded THEN "converse" ELSE "refuse")
    /\ UNCHANGED <<itemVars, uploaded, request, faults, history>>

\* _describe and _parse: a reading, an answer off the contract or a permanent
\* error of Bedrock, or a transient one, which no handler code catches.
Converse(c) ==
    /\ c.step = "converse"
    /\ spent' = spent + 1
    /\ GoOn(c, "record") \/ GoOn(c, "refuse") \/ RaiseTransient(c)
    /\ UNCHANGED <<itemVars, uploaded, request, faults, orphaned, disowned>>

\* A failure the handler can name is recorded at once.
Refuse(c) ==
    /\ c.step = "refuse"
    /\ MarkFailed(c.attempt)
    /\ Raise(c)
    /\ disowned' = IF Live(c) THEN disowned ELSE disowned \union {c.attempt}
    /\ UNCHANGED <<uploaded, request, faults, spent, orphaned>>

\* set_picture_description; a rejected one is an attempt superseded.
Record(c) ==
    /\ c.step = "record"
    /\ IF MayRecord(c.attempt)
       THEN /\ status' = "DESCRIBED"
            /\ reading' = [attempt |-> c.attempt, retry |-> c.retry]
            /\ UNCHANGED <<attempts, token, stale>>
            /\ Answer(c, "PictureDescribed")
       ELSE Raise(c) /\ UNCHANGED itemVars
    /\ UNCHANGED <<uploaded, request, faults, history>>

\* The mark_failed mode, invoked by the machine's Catch.
WriteOff(c) ==
    /\ c.step = "writeOff"
    /\ MarkFailed(c.attempt)
    /\ Answer(c, "PictureDescriptionFailed")
    /\ UNCHANGED <<uploaded, request, faults, history>>

HandlerStep(c) ==
    Fetch(c) \/ Converse(c) \/ Refuse(c) \/ Record(c) \/ WriteOff(c)

(***************************************************************************)
(* Faults, and the world around.                                           *)
(***************************************************************************)
Fault ==
    /\ faults < MaxFaults /\ faults' = faults + 1
    /\ UNCHANGED <<itemVars, uploaded, request, spent, disowned>>

\* A Lambda service error: the call is retried, and may run all the same.
CallLost(c) ==
    /\ Live(c)
    /\ Fault
    /\ Retry(c, calls) \/ Retry(c, calls \ {c})
    /\ orphaned' = IF c.step = "writeOff" /\ c.retry = MaxRetry
                   THEN orphaned \union {c.attempt} ELSE orphaned

\* A task's timeout is not retried; the call may go on.
CallTimesOut(c) ==
    /\ Live(c)
    /\ Fault
    /\ Enter(c.attempt, CatchState(machine[c.attempt]), calls)
    /\ orphaned' = IF c.step = "writeOff" THEN orphaned \union {c.attempt}
                                          ELSE orphaned

\* The execution's own timeout: no Catch runs.
ExecutionTimesOut(a) ==
    /\ machine[a] \in {"DescribePictureTask", "MarkPictureFailed"}
    /\ Fault
    /\ Enter(a, "TimedOut", calls)
    /\ orphaned' = orphaned \union {a}

Upload ==
    /\ ~uploaded
    /\ uploaded' = TRUE
    /\ UNCHANGED <<itemVars, request, runVars, faults, history>>

\* PICTURE_DESCRIBE_TIMEOUT_SECONDS pass.  Nothing is assumed to be over by
\* then: a request may be slow to start its execution.
ClaimGoesStale ==
    /\ status = "DESCRIBING" /\ ~stale
    /\ stale' = TRUE
    /\ UNCHANGED <<status, attempts, token, reading, uploaded, request, runVars,
                   faults, history>>

Serve(r) == Claim(r) \/ StartExecution(r) \/ StartFails(r) \/ Release(r)

PictureNext ==
    \/ \E r \in Request : Look(r) \/ Serve(r) \/ RequestDies(r)
    \/ \E c \in calls : HandlerStep(c) \/ CallLost(c) \/ CallTimesOut(c)
    \/ \E a \in Attempt : ExecutionTimesOut(a)
    \/ Upload
    \/ ClaimGoesStale

PictureSpec == PictureInit /\ [][PictureNext]_pictureVars

\* A request that was accepted goes on, and so does a call that an execution
\* waits for.  Nothing is assumed of an abandoned call, a fault or the user.
Progress(a) == \E c \in calls : c.attempt = a /\ Live(c) /\ HandlerStep(c)

FairPictureSpec ==
    /\ PictureSpec
    /\ \A r \in Request : WF_pictureVars(Serve(r))
    /\ \A a \in Attempt : WF_pictureVars(Progress(a))

(***************************************************************************)
(* Properties.                                                             *)
(***************************************************************************)

Step == {"fetch", "converse", "refuse", "record", "writeOff"}

\* The item, the requests and the executions are what the code can make them.
PictureTypeOK ==
    /\ status \in {"PENDING", "DESCRIBING", "DESCRIBED", "FAILED"}
    /\ attempts \in 0..MaxAttempts /\ token = attempts
    /\ stale \in BOOLEAN /\ uploaded \in BOOLEAN
    /\ reading \in [attempt : 0..MaxAttempts, retry : 0..MaxRetry]
    /\ request \in [Request -> [step : {"idle", "claim", "start", "release"},
                                attempt : 0..MaxAttempts]]
    /\ machine \in [Attempt -> {"NotStarted", "DescribePictureTask", "MarkPictureFailed",
                                "PictureDescribed", "PictureDescriptionFailed", "TimedOut"}]
    /\ retry \in [Attempt -> 0..MaxRetry]
    /\ calls \subseteq [attempt : Attempt, retry : 0..MaxRetry, step : Step]
    /\ faults \in 0..MaxFaults
    /\ spent \in Nat
    /\ orphaned \subseteq Attempt /\ disowned \subseteq Attempt

Running(a) == machine[a] \in {"DescribePictureTask", "MarkPictureFailed"}

\* An item that says DESCRIBING has somebody who will settle it - the request
\* that claimed it or its execution - unless that one died: "an attempt that
\* ends in Step Functions never returns to the handler, so the Catch" marks it.
DescribingIsOwned ==
    status = "DESCRIBING" =>
        \/ Running(token)
        \/ \E r \in Request : request[r].attempt = token
        \/ token \in orphaned

\* "two quick taps cannot start two executions": two executions have calls on
\* their way to the model only if the older claim was taken over as stale, was
\* given back by a request that wrongly saw its start fail, or was marked failed
\* by a call its execution had abandoned and retried.
Reader(c) == Live(c) /\ c.step \in {"fetch", "converse", "record"}

OneReaderAtATime ==
    \A c, d \in calls :
        Reader(c) /\ Reader(d) /\ c.attempt < d.attempt => c.attempt \in disowned

\* Vision calls are spent before any credit is: no order of taps, failures and
\* take-overs makes more of them than the cap on attempts, times the retries.
SpendIsBounded == spent <= MaxAttempts * (MaxRetry + 1)

\* What holds of the item whatever is tapped, retried, killed or taken over.
PictureInv == PictureTypeOK /\ DescribingIsOwned /\ SpendIsBounded

\* The keywords screen stops waiting: a claim is settled, unless its request
\* died, its execution timed out or the failure itself could not be written.
ClaimSettles ==
    \A a \in Attempt :
        status = "DESCRIBING" /\ token = a
            ~> status # "DESCRIBING" \/ token # a \/ a \in orphaned

\* The item promises what PictureItem says.
Promise == INSTANCE PictureItem WITH
    NoTry <- 0,
    tries <- attempts,
    waiting <- status = "DESCRIBING",
    readBy <- reading.attempt

ImplementsPictureItem == Promise!ItemSpec
=============================================================================
