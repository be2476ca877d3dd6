------------------------ MODULE PictureReadingProofs ------------------------
(***************************************************************************)
(* Proofs about the reading of a picture, for any number of requests,      *)
(* attempts, retries and faults.                                           *)
(***************************************************************************)
EXTENDS PictureReading, FiniteSetTheorems, TLAPS

CallRecord == [attempt : Attempt, retry : 0..MaxRetry, step : Step]

\* The machine has made the n-th call of the task for attempt a.
Begun(a, n) ==
    \/ machine[a] \notin {"NotStarted", "DescribePictureTask"}
    \/ machine[a] = "DescribePictureTask" /\ n <= retry[a]

BeforeVision(c) == c.step \in {"fetch", "converse"}

\* The calls that are past their visit to the model, or never made it.
Visits ==
    {p \in Attempt \X (0..MaxRetry) :
        /\ Begun(p[1], p[2])
        /\ \A c \in calls :
               c.attempt = p[1] /\ c.retry = p[2] => ~BeforeVision(c)}

CallsOK ==
    /\ \A c \in calls :
           /\ machine[c.attempt] # "NotStarted"
           /\ IF c.step = "writeOff" THEN machine[c.attempt] # "DescribePictureTask"
                                     ELSE Begun(c.attempt, c.retry)
    /\ \A c, d \in calls :
           /\ c.attempt = d.attempt /\ c.retry = d.retry
           /\ c.step # "writeOff" /\ d.step # "writeOff"
           => c = d

\* A claim is held by one request, which has not started it before.
RequestsOK ==
    /\ \A r \in Request :
           /\ request[r].step \in {"idle", "claim"} <=> request[r].attempt = 0
           /\ request[r].attempt <= attempts
           /\ request[r].step = "start" =>
                  machine[request[r].attempt] = "NotStarted"
    /\ \A q, r \in Request :
           request[q].attempt = request[r].attempt /\ request[q].attempt # 0
               => q = r

\* An attempt that no longer counts has an execution past its reading, unless
\* it was disowned.
Passed(a) == a \in disowned \/ machine[a] \notin {"NotStarted", "DescribePictureTask"}

AttemptsOK ==
    \A a \in Attempt :
        /\ a > attempts => machine[a] = "NotStarted"
        /\ a < attempts => Passed(a)
        /\ a = attempts /\ status = "FAILED" => Passed(a)

ItemOK ==
    /\ status = "PENDING" <=> attempts = 0
    /\ reading.attempt # 0 => status = "DESCRIBED"

IInv ==
    /\ PictureTypeOK /\ DescribingIsOwned
    /\ CallsOK /\ RequestsOK /\ AttemptsOK /\ ItemOK
    /\ spent <= Cardinality(Visits)

----------------------------------------------------------------------------
(* The executions and their calls. *)

\* The items' types that only the machine and its calls have.
RunsTyped ==
    /\ machine \in [Attempt -> {"NotStarted", "DescribePictureTask", "MarkPictureFailed",
                                "PictureDescribed", "PictureDescriptionFailed", "TimedOut"}]
    /\ retry \in [Attempt -> 0..MaxRetry]
    /\ calls \subseteq CallRecord

\* An execution moves on from a task that it runs, never back to its first.
Onward ==
    \A a \in Attempt :
        \/ machine'[a] = machine[a]
        \/ Running(a) /\ machine'[a] \notin {"NotStarted", "DescribePictureTask"}

\* A step of the executions keeps their invariant, and unmakes no visit.
RunsKept == RunsTyped' /\ CallsOK' /\ Visits \subseteq Visits'

\* No visit is unmade when what was begun stays begun, and a call before its
\* visit is a call that was there, or of a retry that had not begun.
LEMMA VisitsStay ==
    ASSUME \A a \in Attempt, n \in 0..MaxRetry : Begun(a, n) => Begun(a, n)',
           \A d \in calls' :
               BeforeVision(d) =>
                   \/ ~Begun(d.attempt, d.retry)
                   \/ \E c \in calls : /\ c.attempt = d.attempt /\ c.retry = d.retry
                                       /\ BeforeVision(c)
    PROVE  Visits \subseteq Visits'
<1> SUFFICES ASSUME NEW p \in Visits PROVE p \in Visits'
  OBVIOUS
<1>1. p \in Attempt \X (0..MaxRetry) /\ Begun(p[1], p[2]) BY DEF Visits
<1>2. Begun(p[1], p[2])' BY <1>1
<1>3. \A d \in calls' : d.attempt = p[1] /\ d.retry = p[2] => ~BeforeVision(d)
  BY <1>1 DEF Visits
<1> QED BY <1>1, <1>2, <1>3 DEF Visits, BeforeVision

\* Nothing happens to the executions.
LEMMA RunsUntouched ==
    ASSUME RunsTyped, CallsOK, UNCHANGED runVars
    PROVE  RunsKept /\ Onward
BY DEF RunsTyped, CallsOK, runVars, RunsKept, Visits, Begun, BeforeVision, Onward

\* An abandoned call ends, and nobody hears of it.
LEMMA CallEnds ==
    ASSUME RunsTyped, CallsOK, NEW others \in SUBSET calls, calls' = others,
           UNCHANGED <<machine, retry>>
    PROVE  RunsKept /\ Onward
<1>1. RunsTyped' BY DEF RunsTyped
<1>2. CallsOK' BY DEF CallsOK, Begun
<1>3. Visits \subseteq Visits' BY VisitsStay DEF Begun
<1> QED BY <1>1, <1>2, <1>3 DEF RunsKept, Onward

\* An execution starts.
LEMMA RunStarts ==
    ASSUME RunsTyped, CallsOK, NEW a \in Attempt, machine[a] = "NotStarted",
           Enter(a, "DescribePictureTask", calls)
    PROVE  /\ RunsKept
           /\ machine' = [machine EXCEPT ![a] = "DescribePictureTask"]
<1> DEFINE first == Call(a, 0, "fetch")
<1>0. MaxRetry \in Nat BY PictureAssumption
<1>1. /\ machine' = [machine EXCEPT ![a] = "DescribePictureTask"]
      /\ retry' = [retry EXCEPT ![a] = 0]
      /\ calls' = calls \union {first}
  BY DEF Enter
<1>2. /\ first \in CallRecord /\ first.attempt = a /\ first.retry = 0
      /\ first.step = "fetch"
  BY <1>0 DEF Call, CallRecord, Step
<1> HIDE DEF first
<1>3. RunsTyped' BY <1>0, <1>1, <1>2 DEF RunsTyped
<1>4. \A d \in calls : d.attempt # a BY DEF CallsOK
<1>5. \A b \in Attempt, n \in 0..MaxRetry : Begun(b, n) => Begun(b, n)'
  BY <1>1 DEF Begun, RunsTyped
<1>6. ~Begun(a, 0) /\ Begun(a, 0)' BY <1>1 DEF Begun, RunsTyped
<1>7. CallsOK'
  <2>1. \A d \in calls : d \in CallRecord BY DEF RunsTyped
  <2>2. ASSUME NEW d \in calls'
        PROVE /\ machine'[d.attempt] # "NotStarted"
              /\ IF d.step = "writeOff" THEN machine'[d.attempt] # "DescribePictureTask"
                                        ELSE Begun(d.attempt, d.retry)'
    <3>1. CASE d = first BY <1>1, <1>2, <1>6, <3>1 DEF RunsTyped
    <3>2. CASE d \in calls
      BY <1>1, <1>4, <1>5, <2>1, <3>2 DEF CallsOK, RunsTyped, CallRecord
    <3> QED BY <1>1, <3>1, <3>2
  <2>3. ASSUME NEW c \in calls', NEW d \in calls',
               c.attempt = d.attempt, c.retry = d.retry,
               c.step # "writeOff", d.step # "writeOff"
        PROVE  c = d
    BY <1>1, <1>2, <1>4, <2>3 DEF CallsOK
  <2> QED BY <2>2, <2>3 DEF CallsOK, Begun
<1>8. Visits \subseteq Visits'
  BY <1>1, <1>2, <1>5, <1>6, VisitsStay
<1> QED BY <1>1, <1>3, <1>7, <1>8 DEF RunsKept

\* An execution leaves a task for a state that is not its first.
LEMMA RunMovesOn ==
    ASSUME RunsTyped, CallsOK, NEW a \in Attempt, Running(a),
           NEW state \in {"MarkPictureFailed", "PictureDescribed",
                          "PictureDescriptionFailed", "TimedOut"},
           NEW others \in SUBSET calls, Enter(a, state, others)
    PROVE  /\ RunsKept /\ Onward
           /\ machine' = [machine EXCEPT ![a] = state]
           /\ \A n \in 0..MaxRetry : Begun(a, n)'
           /\ \A d \in calls' : d \in others \/ d.step = "writeOff"
<1> DEFINE first == Call(a, 0, "writeOff")
<1>0. MaxRetry \in Nat BY PictureAssumption
<1>1. /\ machine' = [machine EXCEPT ![a] = state]
      /\ retry' = [retry EXCEPT ![a] = 0]
      /\ calls' \subseteq others \union {first}
  BY DEF Enter
<1>2. /\ first \in CallRecord /\ first.attempt = a /\ first.retry = 0
      /\ first.step = "writeOff"
  BY <1>0 DEF Call, CallRecord, Step
<1> HIDE DEF first
<1>3. RunsTyped' BY <1>0, <1>1, <1>2 DEF RunsTyped
<1>4. machine'[a] = state /\ state \notin {"NotStarted", "DescribePictureTask"}
  BY <1>1 DEF RunsTyped
<1>5. \A b \in Attempt, n \in 0..MaxRetry : Begun(b, n) => Begun(b, n)'
  BY <1>1 DEF Begun, RunsTyped
<1>6. \A n \in 0..MaxRetry : Begun(a, n)' BY <1>4 DEF Begun
<1>7. CallsOK'
  <2>1. \A d \in calls : d \in CallRecord BY DEF RunsTyped
  <2>2. ASSUME NEW d \in calls'
        PROVE /\ machine'[d.attempt] # "NotStarted"
              /\ IF d.step = "writeOff" THEN machine'[d.attempt] # "DescribePictureTask"
                                        ELSE Begun(d.attempt, d.retry)'
    <3>1. CASE d = first BY <1>2, <1>4, <3>1
    <3>2. CASE d \in calls
      BY <1>1, <1>4, <1>5, <2>1, <3>2 DEF CallsOK, RunsTyped, CallRecord
    <3> QED BY <1>1, <3>1, <3>2
  <2>3. ASSUME NEW c \in calls', NEW d \in calls',
               c.attempt = d.attempt, c.retry = d.retry,
               c.step # "writeOff", d.step # "writeOff"
        PROVE  c = d
    BY <1>1, <1>2, <2>3 DEF CallsOK
  <2> QED BY <2>2, <2>3 DEF CallsOK, Begun
<1>8. Visits \subseteq Visits'
  BY <1>1, <1>2, <1>5, VisitsStay DEF BeforeVision
<1>9. Onward BY <1>1, <1>4 DEF Onward, RunsTyped
<1> QED BY <1>1, <1>2, <1>3, <1>6, <1>7, <1>8, <1>9 DEF RunsKept

\* The task of a call is tried again, or is left for the state of its Catch.
LEMMA RunRetries ==
    ASSUME RunsTyped, CallsOK, NEW c \in calls, Live(c),
           NEW others \in SUBSET calls, Retry(c, others)
    PROVE  /\ RunsKept /\ Onward
           /\ Begun(c.attempt, c.retry)'
           /\ \A d \in calls' :
                  d \in others \/ d.step = "writeOff" \/ d.retry # c.retry
           /\ \/ machine' = machine
              \/ machine' = [machine EXCEPT ![c.attempt] =
                                 CatchState(machine[c.attempt])]
           /\ machine'[c.attempt] = "PictureDescriptionFailed" =>
                  c.step = "writeOff" /\ c.retry = MaxRetry
<1> DEFINE a == c.attempt
           next == Call(a, c.retry + 1, FirstStep(c))
<1>0. /\ MaxRetry \in Nat /\ c \in CallRecord /\ a \in Attempt
      /\ c.retry \in 0..MaxRetry /\ c.step \in Step
  BY PictureAssumption DEF RunsTyped, CallRecord
<1>1. /\ machine[a] = (IF c.step = "writeOff" THEN "MarkPictureFailed"
                                              ELSE "DescribePictureTask")
      /\ retry[a] = c.retry /\ Running(a)
  BY DEF Live, Running
<1>2. CASE c.retry < MaxRetry
  <2>1. /\ machine' = machine
        /\ retry' = [retry EXCEPT ![a] = c.retry + 1]
        /\ calls' = others \union {next}
    BY <1>2 DEF Retry
  <2>2. /\ next \in CallRecord /\ next.attempt = a /\ next.retry = c.retry + 1
        /\ next.step = IF c.step = "writeOff" THEN "writeOff" ELSE "fetch"
    BY <1>0, <1>2 DEF Call, CallRecord, Step, FirstStep
  <2> HIDE DEF next
  <2>3. RunsTyped' BY <1>0, <1>2, <2>1, <2>2 DEF RunsTyped
  <2>4. \A b \in Attempt, n \in 0..MaxRetry : Begun(b, n) => Begun(b, n)'
    BY <1>0, <1>1, <2>1 DEF Begun, RunsTyped
  <2>5. /\ c.step # "writeOff" => ~Begun(a, next.retry) /\ Begun(a, next.retry)'
        /\ Begun(a, c.retry)'
    BY <1>0, <1>1, <2>1, <2>2 DEF Begun, RunsTyped
  <2>6. CallsOK'
    <3>1. \A d \in calls : d \in CallRecord BY DEF RunsTyped
    <3>2. ASSUME NEW d \in calls'
          PROVE /\ machine'[d.attempt] # "NotStarted"
                /\ IF d.step = "writeOff" THEN machine'[d.attempt] # "DescribePictureTask"
                                          ELSE Begun(d.attempt, d.retry)'
      <4>1. CASE d = next BY <1>1, <2>1, <2>2, <2>5, <4>1
      <4>2. CASE d \in calls
        BY <2>1, <2>4, <3>1, <4>2 DEF CallsOK, RunsTyped, CallRecord
      <4> QED BY <2>1, <4>1, <4>2
    <3>3. \A d \in calls :
             d.step # "writeOff" /\ d.attempt = a /\ d.retry = next.retry =>
                 c.step = "writeOff"
      BY <1>0, <2>5 DEF CallsOK
    <3>4. ASSUME NEW d \in calls', NEW e \in calls',
                 d.attempt = e.attempt, d.retry = e.retry,
                 d.step # "writeOff", e.step # "writeOff"
          PROVE  d = e
      BY <2>1, <2>2, <3>3, <3>4 DEF CallsOK
    <3> QED BY <3>2, <3>4 DEF CallsOK, Begun
  <2>7. Visits \subseteq Visits'
    BY <2>1, <2>2, <2>4, <2>5, VisitsStay DEF BeforeVision
  <2> QED BY <1>0, <1>1, <2>1, <2>2, <2>3, <2>5, <2>6, <2>7 DEF RunsKept, Onward
<1>3. CASE ~(c.retry < MaxRetry)
  <2>1. Enter(a, CatchState(machine[a]), others) BY <1>3 DEF Retry
  <2>2. CatchState(machine[a]) \in {"MarkPictureFailed", "PictureDescriptionFailed"}
    BY DEF CatchState
  <2>3. /\ RunsKept /\ Onward
        /\ machine' = [machine EXCEPT ![a] = CatchState(machine[a])]
        /\ \A n \in 0..MaxRetry : Begun(a, n)'
        /\ \A d \in calls' : d \in others \/ d.step = "writeOff"
    <3> HIDE DEF a
    <3> QED BY <1>0, <1>1, <2>1, <2>2, RunMovesOn
  <2> QED BY <1>0, <1>1, <1>3, <2>3 DEF CatchState, RunsTyped
<1> QED BY <1>2, <1>3

\* A call goes on to its next step: if that is past its visit, it stays so.
LEMMA CallGoesOn ==
    ASSUME RunsTyped, CallsOK, NEW c \in calls, c.step # "writeOff",
           NEW s \in Step, s \in {"converse", "record", "refuse"},
           s = "converse" => BeforeVision(c), GoOn(c, s)
    PROVE  /\ RunsKept /\ Onward /\ machine' = machine
           /\ Begun(c.attempt, c.retry)'
           /\ s # "converse" =>
                  \A d \in calls' : d \in calls \ {c} \/ ~BeforeVision(d)
<1> DEFINE next == [c EXCEPT !.step = s]
<1>0. c \in CallRecord BY DEF RunsTyped
<1>1. /\ UNCHANGED <<machine, retry>>
      /\ calls' = (calls \ {c}) \union {next}
  BY DEF GoOn
<1>2. /\ next \in CallRecord /\ next.attempt = c.attempt /\ next.retry = c.retry
      /\ next.step = s
  BY <1>0 DEF CallRecord
<1> HIDE DEF next
<1>3. RunsTyped' BY <1>1, <1>2 DEF RunsTyped
<1>4. CallsOK' BY <1>1, <1>2 DEF CallsOK, Begun
<1>5. Visits \subseteq Visits'
  <2>1. \A b \in Attempt, n \in 0..MaxRetry : Begun(b, n) => Begun(b, n)'
    BY <1>1 DEF Begun
  <2>2. ASSUME NEW d \in calls', BeforeVision(d)
        PROVE  \E e \in calls : /\ e.attempt = d.attempt /\ e.retry = d.retry
                                /\ BeforeVision(e)
    <3>1. CASE d = next BY <1>2, <2>2, <3>1 DEF BeforeVision
    <3>2. CASE d \in calls BY <2>2, <3>2
    <3> QED BY <1>1, <3>1, <3>2
  <2> QED BY <2>1, <2>2, VisitsStay
<1>6. Begun(c.attempt, c.retry)' BY <1>1 DEF CallsOK, Begun
<1> QED BY <1>1, <1>2, <1>3, <1>4, <1>5, <1>6 DEF RunsKept, Onward, BeforeVision

----------------------------------------------------------------------------
(* Counting visits. *)

\* There are no more visits than attempts times the calls of each.
LEMMA VisitsAreFew ==
    /\ IsFiniteSet(Visits)
    /\ Cardinality(Visits) \in Nat
    /\ Cardinality(Visits) <= MaxAttempts * (MaxRetry + 1)
<1>0. MaxAttempts \in Nat /\ MaxRetry \in Nat /\ MaxAttempts > 0
  BY PictureAssumption
<1>1. IsFiniteSet(Attempt) /\ Cardinality(Attempt) = MaxAttempts
  BY <1>0, FS_Interval DEF Attempt
<1>2. IsFiniteSet(0..MaxRetry) /\ Cardinality(0..MaxRetry) = MaxRetry + 1
  BY <1>0, FS_Interval
<1>3. /\ IsFiniteSet(Attempt \X (0..MaxRetry))
      /\ Cardinality(Attempt \X (0..MaxRetry)) = MaxAttempts * (MaxRetry + 1)
  BY <1>1, <1>2, FS_Product
<1>4. Visits \in SUBSET (Attempt \X (0..MaxRetry)) BY DEF Visits
<1>5. IsFiniteSet(Visits) /\ Cardinality(Visits) <= MaxAttempts * (MaxRetry + 1)
  BY <1>3, <1>4, FS_Subset
<1> QED BY <1>5, FS_CardinalityType

\* The number of visits never falls.
LEMMA VisitsOnlyGrow ==
    ASSUME Visits \subseteq Visits'
    PROVE  /\ Cardinality(Visits) \in Nat /\ Cardinality(Visits)' \in Nat
           /\ Cardinality(Visits) <= Cardinality(Visits)'
<1>1. Cardinality(Visits) \in Nat BY VisitsAreFew
<1>2. (IsFiniteSet(Visits) /\ Cardinality(Visits) \in Nat)'
  BY VisitsAreFew, PTL
<1>3. IsFiniteSet(Visits') /\ Cardinality(Visits') \in Nat BY <1>2
<1>4. Cardinality(Visits) <= Cardinality(Visits')
  BY <1>3, FS_Subset
<1> QED BY <1>1, <1>3, <1>4

\* It rises when a call that had not made its visit is done with it.
LEMMA OneMoreVisit ==
    ASSUME Visits \subseteq Visits',
           NEW p, p \notin Visits, p \in Visits'
    PROVE  Cardinality(Visits) + 1 <= Cardinality(Visits)'
<1>1. IsFiniteSet(Visits) /\ Cardinality(Visits) \in Nat BY VisitsAreFew
<1>2. (IsFiniteSet(Visits) /\ Cardinality(Visits) \in Nat)'
  BY VisitsAreFew, PTL
<1>3. IsFiniteSet(Visits') BY <1>2
<1>4. Cardinality(Visits \union {p}) = Cardinality(Visits) + 1
  BY <1>1, FS_AddElement
<1>5. (Visits \union {p}) \in SUBSET Visits' OBVIOUS
<1>6. Cardinality(Visits \union {p}) <= Cardinality(Visits') BY <1>3, <1>5, FS_Subset
<1> QED BY <1>4, <1>6

----------------------------------------------------------------------------
(* The item and its requests. *)

\* The rest of the type invariant.
RestTyped ==
    /\ status \in {"PENDING", "DESCRIBING", "DESCRIBED", "FAILED"}
    /\ attempts \in 0..MaxAttempts /\ token = attempts
    /\ stale \in BOOLEAN /\ uploaded \in BOOLEAN
    /\ reading \in [attempt : 0..MaxAttempts, retry : 0..MaxRetry]
    /\ request \in [Request -> [step : {"idle", "claim", "start", "release"},
                                attempt : 0..MaxAttempts]]
    /\ faults \in 0..MaxFaults
    /\ orphaned \subseteq Attempt /\ disowned \subseteq Attempt

\* The part of the invariant that is about the item and its requests.
Rest == RestTyped /\ DescribingIsOwned /\ RequestsOK /\ AttemptsOK /\ ItemOK

\* What the invariant consists of.
LEMMA Parts ==
    ASSUME IInv
    PROVE  /\ RunsTyped /\ CallsOK /\ Rest
           /\ spent \in Nat /\ spent <= Cardinality(Visits)
           /\ MaxAttempts \in Nat \ {0} /\ MaxRetry \in Nat /\ MaxFaults \in Nat
           /\ Attempt = 1..MaxAttempts
BY PictureAssumption
DEF IInv, PictureTypeOK, RunsTyped, Rest, RestTyped, CallRecord, Attempt

\* A step that makes no visit keeps the invariant if it keeps its two parts.
LEMMA Assembled ==
    ASSUME IInv, RunsKept, Rest', spent' = spent
    PROVE  IInv'
<1>1. spent' \in Nat /\ spent' <= Cardinality(Visits)'
  <2>1. Visits \subseteq Visits' BY DEF RunsKept
  <2>2. spent \in Nat /\ spent <= Cardinality(Visits) BY Parts
  <2> QED BY <2>1, <2>2, VisitsOnlyGrow
<1>2. PictureTypeOK'
  BY <1>1 DEF RunsKept, RunsTyped, Rest, RestTyped, CallRecord, PictureTypeOK
<1> QED BY <1>1, <1>2 DEF IInv, RunsKept, Rest

\* Executions that move on leave the requests their claims.
LEMMA OnwardRequests ==
    ASSUME RestTyped, RequestsOK, Onward, UNCHANGED <<request, attempts>>
    PROVE  RequestsOK'
<1>1. MaxAttempts \in Nat /\ Attempt = 1..MaxAttempts
  BY PictureAssumption DEF Attempt
<1>2. \A r \in Request : request[r].step = "start" => request[r].attempt \in Attempt
  BY <1>1 DEF RestTyped, RequestsOK
<1>3. \A a \in Attempt : machine[a] = "NotStarted" => machine'[a] = "NotStarted"
  BY DEF Onward, Running
<1> QED BY <1>2, <1>3 DEF RequestsOK

\* Executions move on; the item and its requests stay as they are.
LEMMA RunStepKeepsRest ==
    ASSUME IInv, Onward, UNCHANGED <<itemVars, uploaded, request>>,
           faults' \in 0..MaxFaults,
           orphaned \subseteq orphaned', orphaned' \subseteq Attempt,
           disowned \subseteq disowned', disowned' \subseteq Attempt,
           \A a \in Attempt : Running(a) => Running(a)' \/ a \in orphaned'
    PROVE  Rest'
<1>0. Rest BY Parts
<1>1. /\ status' = status /\ attempts' = attempts /\ token' = token
      /\ stale' = stale /\ reading' = reading /\ request' = request
      /\ uploaded' = uploaded
  BY DEF itemVars
<1>2. RestTyped' BY <1>0, <1>1 DEF Rest, RestTyped
<1>3. RequestsOK' BY <1>0, <1>1, OnwardRequests DEF Rest
<1>4. AttemptsOK'
  BY <1>0, <1>1 DEF Rest, AttemptsOK, Passed, Onward, Running
<1>5. DescribingIsOwned'
  <2> SUFFICES ASSUME status = "DESCRIBING" PROVE DescribingIsOwned' BY <1>1 DEF DescribingIsOwned
  <2>1. token \in Attempt BY <1>0, Parts DEF Rest, RestTyped, ItemOK
  <2> QED BY <1>0, <1>1, <2>1 DEF Rest, DescribingIsOwned
<1>6. ItemOK' BY <1>0, <1>1 DEF Rest, ItemOK
<1> QED BY <1>2, <1>3, <1>4, <1>5, <1>6 DEF Rest

\* An attempt is marked failed, past its reading or disowned.
LEMMA MarkFailedKeepsRest ==
    ASSUME IInv, NEW a \in Attempt, MarkFailed(a), Onward,
           \A b \in Attempt \ {a} : machine'[b] = machine[b],
           Passed(a)',
           RequestsOK',
           request' \in [Request -> [step : {"idle", "claim", "start", "release"},
                                     attempt : 0..MaxAttempts]],
           \A r \in Request : request[r].attempt # a => request'[r] = request[r],
           disowned \subseteq disowned', disowned' \subseteq Attempt,
           UNCHANGED <<uploaded, faults, orphaned>>
    PROVE  Rest'
<1>0. Rest BY Parts
<1>1. /\ attempts' = attempts /\ token' = token
      /\ stale' = stale /\ reading' = reading
      /\ status' = IF token = a /\ status = "DESCRIBING" THEN "FAILED" ELSE status
  BY DEF MarkFailed, MayFail
<1>2. RestTyped' BY <1>0, <1>1 DEF Rest, RestTyped
<1>3. AttemptsOK'
  BY <1>0, <1>1 DEF Rest, RestTyped, AttemptsOK, Passed, Onward, Running
<1>4. DescribingIsOwned'
  <2> SUFFICES ASSUME status' = "DESCRIBING" PROVE DescribingIsOwned' BY DEF DescribingIsOwned
  <2>1. status = "DESCRIBING" /\ token # a BY <1>1
  <2>2. token \in Attempt BY <1>0, <2>1, Parts DEF Rest, RestTyped, ItemOK
  <2>3. machine'[token] = machine[token] BY <2>1, <2>2
  <2> QED BY <1>0, <1>1, <2>1, <2>2, <2>3 DEF Rest, DescribingIsOwned, Running
<1>5. ItemOK' BY <1>0, <1>1 DEF Rest, RestTyped, ItemOK
<1> QED BY <1>2, <1>3, <1>4, <1>5 DEF Rest

----------------------------------------------------------------------------
(* The describe request. *)

\* One request moves on; what it leaves alone stays.
LEMMA GoToEffect ==
    ASSUME RestTyped, NEW r \in Request, NEW s \in {"idle", "claim", "start", "release"},
           NEW a \in 0..MaxAttempts, GoTo(r, s, a)
    PROVE  /\ request' \in [Request -> [step : {"idle", "claim", "start", "release"},
                                        attempt : 0..MaxAttempts]]
           /\ request'[r].step = s /\ request'[r].attempt = a
           /\ \A q \in Request \ {r} : request'[q] = request[q]
BY DEF RestTyped, GoTo

\* A request that holds no claim any more, or none yet, leaves the others theirs.
LEMMA RequestLetsGo ==
    ASSUME RestTyped, RequestsOK, NEW r \in Request,
           request'[r].step \in {"idle", "claim"}, request'[r].attempt = 0,
           \A q \in Request \ {r} : request'[q] = request[q],
           UNCHANGED <<machine, attempts>>
    PROVE  RequestsOK'
<1>1. ASSUME NEW q \in Request
      PROVE  /\ request'[q].step \in {"idle", "claim"} <=> request'[q].attempt = 0
             /\ request'[q].attempt <= attempts
             /\ request'[q].step = "start" =>
                    machine[request'[q].attempt] = "NotStarted"
  <2>1. CASE q = r BY <2>1 DEF RestTyped
  <2>2. CASE q # r BY <2>2 DEF RequestsOK
  <2> QED BY <2>1, <2>2
<1>2. ASSUME NEW p \in Request, NEW q \in Request,
             request'[p].attempt = request'[q].attempt, request'[p].attempt # 0
      PROVE  p = q
  BY <1>2 DEF RequestsOK
<1> QED BY <1>1, <1>2 DEF RequestsOK

\* Looking changes nothing but the request.
LEMMA LookKeeps == ASSUME IInv, NEW r \in Request, Look(r) PROVE IInv'
<1>0. /\ Rest /\ RunsTyped /\ CallsOK /\ RestTyped /\ MaxAttempts \in Nat
      /\ Attempt = 1..MaxAttempts
  BY Parts DEF Rest
<1>1. /\ request[r].step = "idle" /\ GoTo(r, "claim", 0)
      /\ UNCHANGED <<itemVars, uploaded, runVars, faults, history>>
  BY DEF Look, At
<1>2. /\ request' \in [Request -> [step : {"idle", "claim", "start", "release"},
                                        attempt : 0..MaxAttempts]]
      /\ request'[r].step = "claim" /\ request'[r].attempt = 0
      /\ \A q \in Request \ {r} : request'[q] = request[q]
  BY <1>0, <1>1, GoToEffect
<1>3. RunsKept /\ Onward BY <1>0, <1>1, RunsUntouched
<1>4. UNCHANGED <<itemVars, uploaded, machine, faults, history>>
  BY <1>1 DEF runVars
<1>5. RestTyped' BY <1>0, <1>2, <1>4 DEF RestTyped, itemVars, history
<1>6. RequestsOK' BY <1>0, <1>2, <1>4, RequestLetsGo DEF Rest, itemVars
<1>7. DescribingIsOwned'
  <2>1. request[r].attempt = 0 BY <1>0, <1>1 DEF Rest, RequestsOK
  <2>2. status = "DESCRIBING" => token # 0
    BY <1>0 DEF Rest, RestTyped, ItemOK
  <2> QED BY <1>0, <1>2, <1>4, <2>1, <2>2
          DEF Rest, DescribingIsOwned, Running, itemVars, history
<1>8. AttemptsOK' /\ ItemOK'
  BY <1>0, <1>4 DEF Rest, AttemptsOK, Passed, ItemOK, itemVars, history
<1> QED BY <1>3, <1>4, <1>5, <1>6, <1>7, <1>8, Assembled DEF Rest, history

\* A claim that is lost changes nothing but the request; one that is won
\* counts from now on, and a claim taken over is disowned.
LEMMA ClaimKeeps == ASSUME IInv, NEW r \in Request, Claim(r) PROVE IInv'
<1>0. /\ Rest /\ RunsTyped /\ CallsOK /\ RestTyped /\ MaxAttempts \in Nat
      /\ Attempt = 1..MaxAttempts
  BY Parts DEF Rest
<1>1. /\ request[r].step = "claim" /\ request[r].attempt = 0
      /\ UNCHANGED <<uploaded, runVars, faults, spent, orphaned>>
  BY <1>0 DEF Claim, At, Rest, RequestsOK
<1>2. RunsKept /\ Onward BY <1>0, <1>1, RunsUntouched
<1>3. machine' = machine BY <1>1 DEF runVars
<1>4. status = "DESCRIBING" => token # 0
  BY <1>0 DEF Rest, RestTyped, ItemOK
<1>5. CASE ~Claimable
  <2>1. GoTo(r, "idle", 0) /\ UNCHANGED <<itemVars, disowned>> BY <1>5 DEF Claim
  <2>2. /\ request' \in [Request -> [step : {"idle", "claim", "start", "release"},
                                     attempt : 0..MaxAttempts]]
        /\ request'[r].step = "idle" /\ request'[r].attempt = 0
        /\ \A q \in Request \ {r} : request'[q] = request[q]
    BY <1>0, <2>1, GoToEffect
  <2>3. RestTyped' BY <1>0, <1>1, <2>1, <2>2 DEF RestTyped, itemVars
  <2>4. RequestsOK' BY <1>0, <1>3, <2>1, <2>2, RequestLetsGo DEF Rest, itemVars
  <2>5. DescribingIsOwned'
    BY <1>0, <1>1, <1>3, <1>4, <2>1, <2>2
    DEF Rest, DescribingIsOwned, Running, itemVars
  <2>6. AttemptsOK' /\ ItemOK'
    BY <1>0, <1>3, <2>1 DEF Rest, AttemptsOK, Passed, ItemOK, itemVars
  <2> QED BY <1>1, <1>2, <2>3, <2>4, <2>5, <2>6, Assembled DEF Rest
<1>6. CASE Claimable
  <2> DEFINE n == attempts + 1
  <2>1. /\ status' = "DESCRIBING" /\ attempts' = n /\ token' = n
        /\ stale' = FALSE /\ reading' = reading /\ GoTo(r, "start", n)
        /\ disowned' = IF status = "DESCRIBING" /\ stale
                       THEN disowned \union {token} ELSE disowned
    BY <1>6 DEF Claim
  <2>2. /\ n \in Attempt /\ n \in 0..MaxAttempts /\ attempts \in Nat
        /\ token = attempts
        /\ \/ status \in {"PENDING", "FAILED"}
           \/ status = "DESCRIBING" /\ stale
    BY <1>0, <1>6 DEF RestTyped, Claimable
  <2> HIDE DEF n
  <2>3. /\ request' \in [Request -> [step : {"idle", "claim", "start", "release"},
                                     attempt : 0..MaxAttempts]]
        /\ request'[r].step = "start" /\ request'[r].attempt = n
        /\ \A q \in Request \ {r} : request'[q] = request[q]
    BY <1>0, <2>1, <2>2, GoToEffect
  <2>4. disowned \subseteq disowned' /\ disowned' \subseteq Attempt
    BY <1>0, <1>4, <2>1, <2>2 DEF RestTyped
  <2>5. RestTyped' BY <1>0, <1>1, <2>1, <2>2, <2>3, <2>4 DEF RestTyped
  <2>6. machine[n] = "NotStarted" /\ n # 0 /\ n > attempts /\ n = attempts + 1
    BY <1>0, <2>2 DEF Rest, AttemptsOK, n
  <2>7. RequestsOK'
    <3>1. \A q \in Request : request[q].attempt <= attempts
      BY <1>0 DEF Rest, RequestsOK
    <3>2. \A q \in Request : request[q].attempt \in Nat
      BY <1>0 DEF RestTyped
    <3> QED
      BY <1>0, <1>3, <2>1, <2>2, <2>3, <2>6, <3>1, <3>2 DEF Rest, RequestsOK
  <2>8. DescribingIsOwned' BY <2>1, <2>3 DEF DescribingIsOwned
  <2>9. AttemptsOK'
    <3> SUFFICES ASSUME NEW a \in Attempt
                 PROVE  /\ a > n => machine[a] = "NotStarted"
                        /\ a < n => Passed(a)'
      BY <1>3, <2>1 DEF AttemptsOK
    <3>1. a > n => machine[a] = "NotStarted"
      BY <1>0, <2>2, <2>6 DEF Rest, AttemptsOK
    <3>2. a < attempts => Passed(a)'
      BY <1>0, <1>3, <2>2, <2>4 DEF Rest, AttemptsOK, Passed
    <3>3. a = attempts => Passed(a)'
      BY <1>0, <1>3, <2>1, <2>2, <2>4 DEF Rest, AttemptsOK, Passed, ItemOK
    <3> QED BY <1>0, <2>2, <2>6, <3>1, <3>2, <3>3
  <2>10. ItemOK' BY <1>0, <2>1, <2>2, <2>6 DEF Rest, ItemOK
  <2> QED BY <1>1, <1>2, <2>5, <2>7, <2>8, <2>9, <2>10, Assembled DEF Rest
<1> QED BY <1>5, <1>6

\* The claim's execution starts, and the request hears of it or does not.
LEMMA StartExecutionKeeps ==
    ASSUME IInv, NEW r \in Request, StartExecution(r) PROVE IInv'
<1> DEFINE a == request[r].attempt
<1>0. /\ Rest /\ RunsTyped /\ CallsOK /\ RestTyped /\ MaxAttempts \in Nat
      /\ Attempt = 1..MaxAttempts /\ MaxFaults \in Nat
  BY Parts DEF Rest
<1>1. /\ request[r].step = "start"
      /\ Enter(a, "DescribePictureTask", calls)
      /\ UNCHANGED <<itemVars, uploaded, history>>
  BY DEF StartExecution, At
<1>2. /\ a \in Attempt /\ a # 0 /\ machine[a] = "NotStarted" /\ a <= attempts
      /\ a \in 0..MaxAttempts
  BY <1>0, <1>1 DEF Rest, RestTyped, RequestsOK
<1> HIDE DEF a
<1>3. /\ RunsKept
      /\ machine' = [machine EXCEPT ![a] = "DescribePictureTask"]
  BY <1>0, <1>1, <1>2, RunStarts
<1>4. /\ faults' \in 0..MaxFaults
      /\ GoTo(r, "idle", 0) \/ GoTo(r, "release", a)
  BY <1>0 DEF StartExecution, RestTyped, a
<1>5. /\ request' \in [Request -> [step : {"idle", "claim", "start", "release"},
                                   attempt : 0..MaxAttempts]]
      /\ \/ request'[r].step = "idle" /\ request'[r].attempt = 0
         \/ request'[r].step = "release" /\ request'[r].attempt = a
      /\ \A q \in Request \ {r} : request'[q] = request[q]
  <2>1. CASE GoTo(r, "idle", 0) BY <1>0, <2>1, GoToEffect
  <2>2. CASE GoTo(r, "release", a) BY <1>0, <1>2, <2>2, GoToEffect
  <2> QED BY <1>4, <2>1, <2>2
<1>6. RestTyped' BY <1>0, <1>1, <1>4, <1>5 DEF RestTyped, itemVars, history
<1>7. /\ machine'[a] = "DescribePictureTask"
      /\ \A b \in Attempt \ {a} : machine'[b] = machine[b]
  BY <1>0, <1>2, <1>3 DEF RunsTyped
<1>8. \A q \in Request \ {r} : request[q].attempt # a
  BY <1>0, <1>2 DEF Rest, RequestsOK, a
<1>9. RequestsOK'
  <2>1. \A q \in Request \ {r} :
           request[q].step = "start" => request[q].attempt \in Attempt \ {a}
    BY <1>0, <1>8 DEF Rest, RestTyped, RequestsOK
  <2>2. ASSUME NEW q \in Request
        PROVE  /\ request'[q].step \in {"idle", "claim"} <=> request'[q].attempt = 0
               /\ request'[q].attempt <= attempts
               /\ request'[q].step = "start" =>
                      machine'[request'[q].attempt] = "NotStarted"
    <3>1. attempts \in Nat BY <1>0 DEF RestTyped
    <3>2. CASE q = r BY <1>2, <1>5, <3>1, <3>2
    <3>3. CASE q # r BY <1>0, <1>5, <1>7, <2>1, <3>3 DEF Rest, RequestsOK
    <3> QED BY <3>2, <3>3
  <2>3. ASSUME NEW p \in Request, NEW q \in Request,
               request'[p].attempt = request'[q].attempt, request'[p].attempt # 0
        PROVE  p = q
    BY <1>0, <1>5, <1>8, <2>3 DEF Rest, RequestsOK
  <2> QED BY <1>1, <2>2, <2>3 DEF RequestsOK, itemVars
<1>10. DescribingIsOwned'
  <2> SUFFICES ASSUME status = "DESCRIBING" PROVE DescribingIsOwned'
    BY <1>1 DEF DescribingIsOwned, itemVars
  <2>1. token' = token /\ orphaned' = orphaned BY <1>1 DEF itemVars, history
  <2>2. token \in Attempt BY <1>0 DEF Rest, RestTyped, ItemOK
  <2>3. CASE token = a BY <1>7, <2>1, <2>3 DEF DescribingIsOwned, Running
  <2>4. CASE token # a
    <3>1. machine'[token] = machine[token] BY <1>7, <2>2, <2>4
    <3>2. \A q \in Request : request[q].attempt = token => request'[q].attempt = token
      BY <1>5, <2>4 DEF a
    <3> QED BY <1>0, <2>1, <3>1, <3>2 DEF Rest, DescribingIsOwned, Running
  <2> QED BY <2>3, <2>4
<1>11. AttemptsOK'
  <2>1. a < attempts => a \in disowned
    BY <1>0, <1>2 DEF Rest, AttemptsOK, Passed
  <2>2. a = attempts /\ status = "FAILED" => a \in disowned
    BY <1>0, <1>2 DEF Rest, AttemptsOK, Passed
  <2>3. UNCHANGED <<attempts, status, disowned>> BY <1>1 DEF itemVars, history
  <2>4. ASSUME NEW b \in Attempt
        PROVE  /\ b > attempts => machine'[b] = "NotStarted"
               /\ b < attempts => Passed(b)'
               /\ b = attempts /\ status = "FAILED" => Passed(b)'
    <3>1. CASE b = a BY <1>0, <1>2, <2>1, <2>2, <2>3, <3>1 DEF RestTyped, Passed
    <3>2. CASE b # a BY <1>0, <1>7, <2>3, <3>2 DEF Rest, AttemptsOK, Passed
    <3> QED BY <3>1, <3>2
  <2> QED BY <2>3, <2>4 DEF AttemptsOK
<1>12. ItemOK' BY <1>0, <1>1 DEF Rest, ItemOK, itemVars
<1> QED BY <1>1, <1>3, <1>6, <1>9, <1>10, <1>11, <1>12, Assembled DEF Rest, history

\* The start fails: the request holds on to its claim to give it back.
LEMMA StartFailsKeeps ==
    ASSUME IInv, NEW r \in Request, StartFails(r) PROVE IInv'
<1> DEFINE a == request[r].attempt
<1>0. /\ Rest /\ RunsTyped /\ CallsOK /\ RestTyped /\ MaxAttempts \in Nat
      /\ Attempt = 1..MaxAttempts /\ MaxFaults \in Nat
  BY Parts DEF Rest
<1>1. /\ request[r].step = "start" /\ GoTo(r, "release", a)
      /\ UNCHANGED <<itemVars, uploaded, runVars, history>>
      /\ faults' \in 0..MaxFaults
  BY <1>0 DEF StartFails, At, RestTyped
<1>2. a \in 0..MaxAttempts BY <1>0 DEF RestTyped
<1>3. /\ request' \in [Request -> [step : {"idle", "claim", "start", "release"},
                                   attempt : 0..MaxAttempts]]
      /\ request'[r].step = "release" /\ request'[r].attempt = a
      /\ \A q \in Request \ {r} : request'[q] = request[q]
  BY <1>0, <1>1, <1>2, GoToEffect
<1>4. RunsKept BY <1>0, <1>1, RunsUntouched
<1>5. /\ machine' = machine /\ attempts' = attempts /\ status' = status
      /\ token' = token /\ reading' = reading /\ stale' = stale
      /\ orphaned' = orphaned /\ disowned' = disowned /\ spent' = spent
  BY <1>1 DEF runVars, itemVars, history
<1>6. RestTyped' BY <1>0, <1>1, <1>3, <1>5 DEF RestTyped
<1>7. \A q \in Request : request'[q].attempt = request[q].attempt BY <1>3
<1>8. RequestsOK'
  <2>1. ASSUME NEW q \in Request
        PROVE  /\ request'[q].step \in {"idle", "claim"} <=> request'[q].attempt = 0
               /\ request'[q].attempt <= attempts
               /\ request'[q].step = "start" =>
                      machine[request'[q].attempt] = "NotStarted"
    <3>1. CASE q = r BY <1>0, <1>1, <1>3, <3>1 DEF Rest, RequestsOK
    <3>2. CASE q # r BY <1>0, <1>3, <3>2 DEF Rest, RequestsOK
    <3> QED BY <3>1, <3>2
  <2> QED BY <1>0, <1>5, <1>7, <2>1 DEF Rest, RequestsOK
<1>9. DescribingIsOwned'
  BY <1>0, <1>5, <1>7 DEF Rest, DescribingIsOwned, Running
<1>10. AttemptsOK' /\ ItemOK'
  BY <1>0, <1>5 DEF Rest, AttemptsOK, Passed, ItemOK
<1> QED BY <1>4, <1>5, <1>6, <1>8, <1>9, <1>10, Assembled DEF Rest

\* The claim is given back, and with that disowned.
LEMMA ReleaseKeeps ==
    ASSUME IInv, NEW r \in Request, Release(r) PROVE IInv'
<1> PICK a : a = request[r].attempt OBVIOUS
<1>0. /\ Rest /\ RunsTyped /\ CallsOK /\ RestTyped /\ MaxAttempts \in Nat
      /\ Attempt = 1..MaxAttempts
  BY Parts DEF Rest
<1>1. /\ request[r].step = "release" /\ GoTo(r, "idle", 0) /\ MarkFailed(a)
      /\ disowned' = disowned \union {a}
      /\ UNCHANGED <<uploaded, runVars, faults, spent, orphaned>>
  BY DEF Release, At
<1>2. a \in Attempt BY <1>0, <1>1 DEF Rest, RestTyped, RequestsOK
<1>3. /\ request' \in [Request -> [step : {"idle", "claim", "start", "release"},
                                   attempt : 0..MaxAttempts]]
      /\ request'[r].step = "idle" /\ request'[r].attempt = 0
      /\ \A q \in Request \ {r} : request'[q] = request[q]
  BY <1>0, <1>1, GoToEffect
<1>4. RunsKept /\ Onward BY <1>0, <1>1, RunsUntouched
<1>5. machine' = machine /\ attempts' = attempts BY <1>1 DEF runVars, MarkFailed
<1>6. RequestsOK' BY <1>0, <1>3, <1>5, RequestLetsGo DEF Rest
<1>7. Passed(a)' BY <1>1 DEF Passed
<1>8. /\ \A q \in Request : request[q].attempt # a => request'[q] = request[q]
      /\ disowned \subseteq disowned' /\ disowned' \subseteq Attempt
  BY <1>0, <1>1, <1>2, <1>3 DEF RestTyped
<1>9. Rest'
  BY <1>1, <1>2, <1>3, <1>4, <1>5, <1>6, <1>7, <1>8, MarkFailedKeepsRest
<1> QED BY <1>1, <1>4, <1>9, Assembled

\* The request dies, and its claim loses who would have settled it.
LEMMA RequestDiesKeeps ==
    ASSUME IInv, NEW r \in Request, RequestDies(r) PROVE IInv'
<1> DEFINE a == request[r].attempt
<1>0. /\ Rest /\ RunsTyped /\ CallsOK /\ RestTyped /\ MaxAttempts \in Nat
      /\ Attempt = 1..MaxAttempts /\ MaxFaults \in Nat
  BY Parts DEF Rest
<1>1. /\ request[r].step \in {"start", "release"} /\ GoTo(r, "idle", 0)
      /\ orphaned' = orphaned \union {a}
      /\ UNCHANGED <<itemVars, uploaded, runVars, spent, disowned>>
      /\ faults' \in 0..MaxFaults
  BY <1>0 DEF RequestDies, RestTyped
<1>2. a \in Attempt BY <1>0, <1>1 DEF Rest, RestTyped, RequestsOK
<1>3. /\ request' \in [Request -> [step : {"idle", "claim", "start", "release"},
                                   attempt : 0..MaxAttempts]]
      /\ request'[r].step = "idle" /\ request'[r].attempt = 0
      /\ \A q \in Request \ {r} : request'[q] = request[q]
  BY <1>0, <1>1, GoToEffect
<1>4. RunsKept BY <1>0, <1>1, RunsUntouched
<1>5. /\ machine' = machine /\ attempts' = attempts /\ status' = status
      /\ token' = token /\ reading' = reading /\ stale' = stale
  BY <1>1 DEF runVars, itemVars
<1>6. RequestsOK' BY <1>0, <1>3, <1>5, RequestLetsGo DEF Rest
<1>7. RestTyped' BY <1>0, <1>1, <1>2, <1>3, <1>5 DEF RestTyped
<1>8. DescribingIsOwned'
  <2>1. \A q \in Request :
           request[q].attempt = token =>
               request'[q].attempt = token \/ token \in orphaned'
    BY <1>1, <1>3
  <2> QED BY <1>0, <1>1, <1>5, <2>1 DEF Rest, DescribingIsOwned, Running
<1>9. AttemptsOK' /\ ItemOK'
  BY <1>0, <1>1, <1>5 DEF Rest, AttemptsOK, Passed, ItemOK
<1> QED BY <1>1, <1>4, <1>6, <1>7, <1>8, <1>9, Assembled DEF Rest

----------------------------------------------------------------------------
(* The handler's calls. *)

\* What is known of a call.
LEMMA CallFacts ==
    ASSUME IInv, NEW c \in calls
    PROVE  /\ c.attempt \in Attempt /\ c.retry \in 0..MaxRetry /\ c.step \in Step
           /\ machine[c.attempt] # "NotStarted"
           /\ c.step = "writeOff" => machine[c.attempt] # "DescribePictureTask"
           /\ c.step # "writeOff" => Begun(c.attempt, c.retry)
           /\ Live(c) => Running(c.attempt)
<1>1. c \in CallRecord /\ CallsOK BY Parts DEF RunsTyped
<1> QED BY <1>1 DEF CallRecord, CallsOK, Live, Running

\* An answer takes the execution out of the call's task, or is not heard.
LEMMA AnswerEffect ==
    ASSUME IInv, NEW c \in calls,
           NEW state \in {"MarkPictureFailed", "PictureDescribed",
                          "PictureDescriptionFailed"},
           Answer(c, state)
    PROVE  /\ RunsKept /\ Onward
           /\ \A b \in Attempt \ {c.attempt} : machine'[b] = machine[b]
           /\ IF Live(c) THEN machine'[c.attempt] = state
                         ELSE machine' = machine
<1>0. RunsTyped /\ CallsOK BY Parts
<1>1. CASE Live(c)
  <2> PICK a \in Attempt : a = c.attempt /\ Running(a) BY <1>1, CallFacts
  <2> PICK others \in SUBSET calls : others = calls \ {c} OBVIOUS
  <2>1. Enter(a, state, others) BY <1>1 DEF Answer
  <2>2. /\ RunsKept /\ Onward
        /\ machine' = [machine EXCEPT ![a] = state]
    BY <1>0, <2>1, RunMovesOn
  <2> QED BY <1>0, <1>1, <2>2 DEF RunsTyped
<1>2. CASE ~Live(c)
  <2>1. calls' = calls \ {c} /\ UNCHANGED <<machine, retry>> BY <1>2 DEF Answer
  <2>2. RunsKept /\ Onward BY <1>0, <2>1, CallEnds
  <2> QED BY <1>2, <2>1, <2>2
<1> QED BY <1>1, <1>2

\* Fetching decides where the call goes on.
LEMMA FetchKeeps == ASSUME IInv, NEW c \in calls, Fetch(c) PROVE IInv'
<1>0. Rest /\ RunsTyped /\ CallsOK /\ RestTyped BY Parts DEF Rest
<1>1. /\ c.step = "fetch"
      /\ GoOn(c, "converse") \/ GoOn(c, "refuse")
      /\ UNCHANGED <<itemVars, uploaded, request, faults, history>>
  BY DEF Fetch
<1>2. RunsKept /\ Onward /\ machine' = machine
  <2>1. CASE GoOn(c, "converse")
    BY <1>0, <1>1, <2>1, CallGoesOn DEF Step, BeforeVision
  <2>2. CASE GoOn(c, "refuse") BY <1>0, <1>1, <2>2, CallGoesOn DEF Step
  <2> QED BY <1>1, <2>1, <2>2
<1>3. Rest'
  BY <1>0, <1>1, <1>2, RunStepKeepsRest DEF RestTyped, history, Running
<1> QED BY <1>1, <1>2, <1>3, Assembled DEF history

\* A visit to the model is counted, and is the only one of its call.
LEMMA ConverseKeeps == ASSUME IInv, NEW c \in calls, Converse(c) PROVE IInv'
<1>0. Rest /\ RunsTyped /\ CallsOK /\ RestTyped BY Parts DEF Rest
<1>1. /\ c.step = "converse" /\ spent' = spent + 1
      /\ GoOn(c, "record") \/ GoOn(c, "refuse") \/ RaiseTransient(c)
      /\ UNCHANGED <<itemVars, uploaded, request, faults, orphaned, disowned>>
  BY DEF Converse
<1>2. /\ c.attempt \in Attempt /\ c.retry \in 0..MaxRetry
      /\ Begun(c.attempt, c.retry)
  BY <1>1, CallFacts
<1>3. /\ RunsKept /\ Onward
      /\ Begun(c.attempt, c.retry)'
      /\ \A d \in calls' : \/ d \in calls \ {c} \/ ~BeforeVision(d)
                           \/ d.retry # c.retry
      /\ \A a \in Attempt : Running(a) => Running(a)'
  <2>1. CASE GoOn(c, "record")
    BY <1>0, <1>1, <2>1, CallGoesOn DEF Step, Running
  <2>2. CASE GoOn(c, "refuse")
    BY <1>0, <1>1, <2>2, CallGoesOn DEF Step, Running
  <2>3. CASE RaiseTransient(c) /\ Live(c)
    <3>1. Retry(c, calls \ {c}) BY <2>3 DEF RaiseTransient
    <3>2. /\ RunsKept /\ Onward
          /\ Begun(c.attempt, c.retry)'
          /\ \A d \in calls' :
                d \in calls \ {c} \/ d.step = "writeOff" \/ d.retry # c.retry
          /\ \/ machine' = machine
             \/ machine' = [machine EXCEPT ![c.attempt] =
                                CatchState(machine[c.attempt])]
      BY <1>0, <2>3, <3>1, RunRetries
    <3>3. CatchState(machine[c.attempt]) = "MarkPictureFailed"
      BY <1>1, <2>3 DEF Live, CatchState
    <3> QED BY <1>0, <1>2, <3>2, <3>3 DEF BeforeVision, Running, RunsTyped
  <2>4. CASE RaiseTransient(c) /\ ~Live(c)
    <3>1. calls' = calls \ {c} /\ UNCHANGED <<machine, retry>>
      BY <2>4 DEF RaiseTransient
    <3>2. RunsKept /\ Onward BY <1>0, <3>1, CallEnds
    <3> QED BY <1>2, <3>1, <3>2 DEF Begun, Running
  <2> QED BY <1>1, <2>1, <2>2, <2>3, <2>4
<1>4. Cardinality(Visits) + 1 <= Cardinality(Visits)'
  <2> PICK p : p = <<c.attempt, c.retry>> OBVIOUS
  <2>1. p \notin Visits BY <1>1 DEF Visits, BeforeVision
  <2>2. \A d \in calls' :
           d.attempt = c.attempt /\ d.retry = c.retry => ~BeforeVision(d)
    BY <1>0, <1>1, <1>3 DEF CallsOK, BeforeVision
  <2>3. p \in Visits' BY <1>2, <1>3, <2>2 DEF Visits, BeforeVision
  <2> QED BY <1>3, <2>1, <2>3, OneMoreVisit DEF RunsKept
<1>5. Rest' BY <1>0, <1>1, <1>3, RunStepKeepsRest DEF RestTyped
<1>6. spent' \in Nat /\ spent' <= Cardinality(Visits)'
  <2>1. /\ Cardinality(Visits) \in Nat /\ Cardinality(Visits)' \in Nat
    BY <1>3, VisitsOnlyGrow DEF RunsKept
  <2>2. spent \in Nat /\ spent <= Cardinality(Visits) BY Parts
  <2> QED BY <1>1, <1>4, <2>1, <2>2
<1>7. PictureTypeOK'
  BY <1>3, <1>5, <1>6
  DEF RunsKept, RunsTyped, Rest, RestTyped, CallRecord, PictureTypeOK
<1> QED BY <1>3, <1>5, <1>6, <1>7 DEF IInv, RunsKept, Rest

\* A refusal marks the attempt failed, and takes its execution to the Catch;
\* of a call that is not heard any more, it disowns the attempt.
LEMMA RefuseKeeps == ASSUME IInv, NEW c \in calls, Refuse(c) PROVE IInv'
<1> PICK a \in Attempt : a = c.attempt BY CallFacts
<1>0. Rest /\ RunsTyped /\ CallsOK /\ RestTyped BY Parts DEF Rest
<1>1. /\ MarkFailed(a) /\ Answer(c, CatchState(machine[a]))
      /\ disowned' = IF Live(c) THEN disowned ELSE disowned \union {a}
      /\ UNCHANGED <<uploaded, request, faults, spent, orphaned>>
  BY DEF Refuse, Raise
<1>2. CatchState(machine[a]) \in {"MarkPictureFailed", "PictureDescriptionFailed"}
  BY DEF CatchState
<1>3. /\ RunsKept /\ Onward
      /\ \A b \in Attempt \ {a} : machine'[b] = machine[b]
      /\ Live(c) => machine'[a] = CatchState(machine[a])
  BY <1>1, <1>2, AnswerEffect
<1>4. Passed(a)' BY <1>1, <1>2, <1>3 DEF Passed
<1>5. attempts' = attempts BY <1>1 DEF MarkFailed
<1>6. RequestsOK' /\ RestTyped BY <1>0, <1>1, <1>3, <1>5, OnwardRequests DEF Rest
<1>7. disowned \subseteq disowned' /\ disowned' \subseteq Attempt
  BY <1>1, <1>6 DEF RestTyped
<1>8. Rest'
  BY <1>1, <1>3, <1>4, <1>6, <1>7, MarkFailedKeepsRest DEF RestTyped
<1> QED BY <1>1, <1>3, <1>8, Assembled

\* So does the mark_failed mode.
LEMMA WriteOffKeeps == ASSUME IInv, NEW c \in calls, WriteOff(c) PROVE IInv'
<1> PICK a \in Attempt : a = c.attempt BY CallFacts
<1>0. Rest /\ RunsTyped /\ CallsOK /\ RestTyped BY Parts DEF Rest
<1>1. /\ c.step = "writeOff"
      /\ MarkFailed(a) /\ Answer(c, "PictureDescriptionFailed")
      /\ UNCHANGED <<uploaded, request, faults, history>>
  BY DEF WriteOff
<1>2. /\ RunsKept /\ Onward
      /\ \A b \in Attempt \ {a} : machine'[b] = machine[b]
      /\ IF Live(c) THEN machine'[a] = "PictureDescriptionFailed"
                    ELSE machine' = machine
  BY <1>1, AnswerEffect
<1>3. machine[a] \notin {"NotStarted", "DescribePictureTask"}
  BY <1>1, CallFacts
<1>4. Passed(a)' BY <1>2, <1>3 DEF Passed
<1>5. attempts' = attempts BY <1>1 DEF MarkFailed
<1>6. RequestsOK' /\ RestTyped BY <1>0, <1>1, <1>2, <1>5, OnwardRequests DEF Rest
<1>7. /\ disowned \subseteq disowned' /\ disowned' \subseteq Attempt
      /\ orphaned' = orphaned /\ spent' = spent
  BY <1>1, <1>6 DEF RestTyped, history
<1>8. Rest'
  BY <1>1, <1>2, <1>4, <1>6, <1>7, MarkFailedKeepsRest DEF RestTyped
<1> QED BY <1>2, <1>7, <1>8, Assembled

\* A reading that may be recorded describes the picture; another is refused.
LEMMA RecordKeeps == ASSUME IInv, NEW c \in calls, Record(c) PROVE IInv'
<1> PICK a \in Attempt : a = c.attempt /\ c.retry \in 0..MaxRetry BY CallFacts
<1>0. /\ Rest /\ RunsTyped /\ CallsOK /\ RestTyped /\ Attempt = 1..MaxAttempts
      /\ MaxAttempts \in Nat
  BY Parts DEF Rest
<1>1. c.step = "record" /\ UNCHANGED <<uploaded, request, faults, history>>
  BY DEF Record
<1>2. CASE MayRecord(a)
  <2>1. /\ status' = "DESCRIBED" /\ reading' = [attempt |-> a, retry |-> c.retry]
        /\ UNCHANGED <<attempts, token, stale>>
        /\ Answer(c, "PictureDescribed") /\ token = a
    BY <1>2 DEF Record, MayRecord
  <2>2. RunsKept /\ Onward BY <2>1, AnswerEffect
  <2>3. RestTyped' BY <1>0, <1>1, <2>1 DEF RestTyped, history
  <2>4. RequestsOK' BY <1>0, <1>1, <2>1, <2>2, OnwardRequests DEF Rest
  <2>5. AttemptsOK'
    BY <1>0, <1>1, <2>1, <2>2 DEF Rest, AttemptsOK, Passed, Onward, Running, history
  <2>6. DescribingIsOwned' /\ ItemOK'
    BY <1>0, <2>1 DEF Rest, RestTyped, DescribingIsOwned, ItemOK
  <2> QED BY <1>1, <2>2, <2>3, <2>4, <2>5, <2>6, Assembled DEF Rest, history
<1>3. CASE ~MayRecord(a)
  <2>1. Answer(c, CatchState(machine[a])) /\ UNCHANGED itemVars
    BY <1>3 DEF Record, Raise
  <2>2. CatchState(machine[a]) \in {"MarkPictureFailed", "PictureDescriptionFailed"}
    BY DEF CatchState
  <2>3. /\ RunsKept /\ Onward
        /\ \A b \in Attempt \ {a} : machine'[b] = machine[b]
        /\ IF Live(c) THEN machine'[a] = CatchState(machine[a])
                      ELSE machine' = machine
    BY <2>1, <2>2, AnswerEffect
  <2>4. Live(c) => Running(a)' BY <1>1, <2>3 DEF Live, CatchState, Running
  <2>5. \A b \in Attempt : Running(b) => Running(b)'
    BY <2>3, <2>4 DEF Running
  <2>6. Rest'
    BY <1>0, <1>1, <2>1, <2>3, <2>5, RunStepKeepsRest DEF RestTyped, history
  <2> QED BY <1>1, <2>3, <2>6, Assembled DEF history
<1> QED BY <1>2, <1>3

----------------------------------------------------------------------------
(* Faults, and the world around. *)

\* A call is lost: its task is tried again, or given up.
LEMMA CallLostKeeps == ASSUME IInv, NEW c \in calls, CallLost(c) PROVE IInv'
<1> PICK a \in Attempt : a = c.attempt BY CallFacts
<1>0. /\ Rest /\ RunsTyped /\ CallsOK /\ RestTyped /\ MaxFaults \in Nat
  BY Parts DEF Rest
<1>1. /\ Live(c) /\ faults' \in 0..MaxFaults
      /\ UNCHANGED <<itemVars, uploaded, request, spent, disowned>>
      /\ Retry(c, calls) \/ Retry(c, calls \ {c})
      /\ orphaned' = IF c.step = "writeOff" /\ c.retry = MaxRetry
                     THEN orphaned \union {a} ELSE orphaned
  BY <1>0 DEF CallLost, Fault, RestTyped
<1>2. PICK others \in SUBSET calls : Retry(c, others) BY <1>1
<1>3. /\ RunsKept /\ Onward
      /\ \/ machine' = machine
         \/ machine' = [machine EXCEPT ![a] = CatchState(machine[a])]
      /\ machine'[a] = "PictureDescriptionFailed" =>
             c.step = "writeOff" /\ c.retry = MaxRetry
  BY <1>0, <1>1, <1>2, RunRetries
<1>4. Running(a)' \/ a \in orphaned'
  <2>1. Running(a) BY <1>1, CallFacts
  <2> QED BY <1>0, <1>1, <1>3, <2>1 DEF Running, CatchState, RunsTyped
<1>5. \A b \in Attempt : Running(b) => Running(b)' \/ b \in orphaned'
  BY <1>0, <1>3, <1>4 DEF Running, RunsTyped
<1>6. Rest' BY <1>0, <1>1, <1>3, <1>5, RunStepKeepsRest DEF RestTyped
<1> QED BY <1>1, <1>3, <1>6, Assembled

\* A task's execution is left for another state; if that is the end of the
\* execution, the attempt is orphaned.
LEMMA LeavesTask ==
    ASSUME IInv, NEW a \in Attempt, Running(a), Fault,
           NEW state \in {"MarkPictureFailed", "PictureDescriptionFailed", "TimedOut"},
           Enter(a, state, calls),
           orphaned \subseteq orphaned', orphaned' \subseteq Attempt,
           state = "MarkPictureFailed" \/ a \in orphaned'
    PROVE  IInv'
<1>0. /\ Rest /\ RunsTyped /\ CallsOK /\ RestTyped /\ MaxFaults \in Nat
  BY Parts DEF Rest
<1>1. /\ faults' \in 0..MaxFaults
      /\ UNCHANGED <<itemVars, uploaded, request, spent, disowned>>
  BY <1>0 DEF Fault, RestTyped
<1> PICK others \in SUBSET calls : others = calls OBVIOUS
<1>2. RunsKept /\ Onward /\ machine' = [machine EXCEPT ![a] = state]
  BY <1>0, RunMovesOn
<1>3. \A b \in Attempt : Running(b) => Running(b)' \/ b \in orphaned'
  BY <1>0, <1>2 DEF Running, RunsTyped
<1>4. Rest' BY <1>0, <1>1, <1>2, <1>3, RunStepKeepsRest DEF RestTyped
<1> QED BY <1>1, <1>2, <1>4, Assembled

\* A task times out.
LEMMA CallTimesOutKeeps ==
    ASSUME IInv, NEW c \in calls, CallTimesOut(c) PROVE IInv'
<1> PICK a \in Attempt : a = c.attempt BY CallFacts
<1> PICK state : state = CatchState(machine[a]) OBVIOUS
<1>1. /\ Live(c) /\ Fault /\ Enter(a, state, calls)
      /\ orphaned' = IF c.step = "writeOff" THEN orphaned \union {a} ELSE orphaned
  BY DEF CallTimesOut
<1>2. Running(a) BY <1>1, CallFacts
<1>3. /\ state \in {"MarkPictureFailed", "PictureDescriptionFailed"}
      /\ c.step # "writeOff" => state = "MarkPictureFailed"
  BY <1>1 DEF CatchState, Live
<1>4. orphaned \subseteq Attempt BY Parts DEF Rest, RestTyped
<1> QED BY <1>1, <1>2, <1>3, <1>4, LeavesTask

\* An execution times out.
LEMMA ExecutionTimesOutKeeps ==
    ASSUME IInv, NEW a \in Attempt, ExecutionTimesOut(a) PROVE IInv'
<1>1. /\ Running(a) /\ Fault /\ Enter(a, "TimedOut", calls)
      /\ orphaned' = orphaned \union {a}
  BY DEF ExecutionTimesOut, Running
<1>2. orphaned \subseteq Attempt BY Parts DEF Rest, RestTyped
<1> QED BY <1>1, <1>2, LeavesTask

\* The upload lands, or the claim gets old.
LEMMA WorldKeeps == ASSUME IInv, Upload \/ ClaimGoesStale PROVE IInv'
<1>0. /\ Rest /\ RunsTyped /\ CallsOK /\ RestTyped BY Parts DEF Rest
<1>1. /\ UNCHANGED <<status, attempts, token, reading, request, runVars, faults, history>>
      /\ stale' \in BOOLEAN /\ uploaded' \in BOOLEAN
  BY <1>0 DEF Upload, ClaimGoesStale, itemVars, RestTyped
<1>2. /\ status' = status /\ attempts' = attempts /\ token' = token
      /\ reading' = reading /\ request' = request /\ machine' = machine
      /\ faults' = faults /\ spent' = spent /\ orphaned' = orphaned
      /\ disowned' = disowned
  BY <1>1 DEF runVars, history
<1>3. RunsKept BY <1>0, <1>1, RunsUntouched
<1>4. Rest'
  <2>1. RestTyped' BY <1>0, <1>1, <1>2 DEF RestTyped
  <2>2. DescribingIsOwned' /\ RequestsOK'
    BY <1>0, <1>2 DEF Rest, DescribingIsOwned, RequestsOK, Running
  <2>3. AttemptsOK' /\ ItemOK'
    BY <1>0, <1>2 DEF Rest, AttemptsOK, ItemOK, Passed
  <2> QED BY <2>1, <2>2, <2>3 DEF Rest
<1> QED BY <1>2, <1>3, <1>4, Assembled

----------------------------------------------------------------------------
(* The invariant, and what follows from it. *)

\* It holds at first.
LEMMA InitHolds == PictureInit => IInv
<1> SUFFICES ASSUME PictureInit PROVE IInv OBVIOUS
<1>0. MaxAttempts \in Nat \ {0} /\ MaxRetry \in Nat /\ MaxFaults \in Nat
  BY PictureAssumption
<1>1. PictureTypeOK
  <2>1. /\ status = "PENDING" /\ attempts = 0 /\ token = 0
        /\ faults = 0 /\ spent = 0 /\ orphaned = {} /\ disowned = {}
    BY DEF PictureInit
  <2>2. stale \in BOOLEAN /\ uploaded \in BOOLEAN BY DEF PictureInit
  <2>3. reading \in [attempt : 0..MaxAttempts, retry : 0..MaxRetry]
    BY <1>0 DEF PictureInit, NoReading
  <2>4. /\ request \in [Request -> [step : {"idle", "claim", "start", "release"},
                                    attempt : 0..MaxAttempts]]
    BY <1>0 DEF PictureInit
  <2>5. RunsTyped
    BY <1>0 DEF PictureInit, RunsTyped
  <2>6. RestTyped BY <1>0, <2>1, <2>3, <2>4, <2>2 DEF RestTyped
  <2> QED BY <2>1, <2>5, <2>6, <2>2 DEF PictureTypeOK, CallRecord, RunsTyped, RestTyped
<1>2. DescribingIsOwned /\ CallsOK BY DEF PictureInit, DescribingIsOwned, CallsOK
<1>3. RequestsOK BY DEF PictureInit, RequestsOK
<1>4. AttemptsOK /\ ItemOK
  BY <1>0 DEF PictureInit, AttemptsOK, ItemOK, NoReading, Attempt
<1>5. spent <= Cardinality(Visits)
  <2>1. Cardinality(Visits) \in Nat BY VisitsAreFew
  <2> QED BY <2>1 DEF PictureInit
<1> QED BY <1>1, <1>2, <1>3, <1>4, <1>5 DEF IInv

\* Every step keeps it.
LEMMA StepKeeps == IInv /\ [PictureNext]_pictureVars => IInv'
<1> SUFFICES ASSUME IInv, [PictureNext]_pictureVars PROVE IInv' OBVIOUS
<1>1. ASSUME NEW r \in Request, Look(r) \/ Serve(r) \/ RequestDies(r) PROVE IInv'
  BY <1>1, LookKeeps, ClaimKeeps, StartExecutionKeeps, StartFailsKeeps,
     ReleaseKeeps, RequestDiesKeeps
  DEF Serve
<1>2. ASSUME NEW c \in calls, HandlerStep(c) PROVE IInv'
  BY <1>2, FetchKeeps, ConverseKeeps, RefuseKeeps, RecordKeeps, WriteOffKeeps
  DEF HandlerStep
<1>3. ASSUME NEW c \in calls, CallLost(c) \/ CallTimesOut(c) PROVE IInv'
  BY <1>3, CallLostKeeps, CallTimesOutKeeps
<1>4. ASSUME NEW a \in Attempt, ExecutionTimesOut(a) PROVE IInv'
  BY <1>4, ExecutionTimesOutKeeps
<1>5. CASE Upload \/ ClaimGoesStale BY <1>5, WorldKeeps
<1>6. CASE UNCHANGED pictureVars
  <2>1. /\ UNCHANGED <<itemVars, uploaded, request, runVars, faults, history>>
    BY <1>6 DEF pictureVars
  <2>2. RunsKept /\ Onward BY <2>1, RunsUntouched, Parts
  <2>3. Rest'
    BY <2>1, <2>2, RunStepKeepsRest, Parts DEF Rest, RestTyped, runVars, history, Running
  <2> QED BY <2>1, <2>2, <2>3, Assembled DEF history
<1> QED BY <1>1, <1>2, <1>3, <1>4, <1>5, <1>6 DEF PictureNext

\* The reading of a picture keeps its invariant.
THEOREM PictureInvariant == PictureSpec => []IInv
BY InitHolds, StepKeeps, PTL DEF PictureSpec

\* The items keep their types; an item that says DESCRIBING has somebody who
\* will settle it, unless that one died; and no order of taps, take-overs,
\* failures and retries visits the model more often than the caps allow.
THEOREM PictureSafe == PictureSpec => []PictureInv
<1>1. IInv => PictureInv
  <2> SUFFICES ASSUME IInv PROVE PictureInv OBVIOUS
  <2>1. SpendIsBounded
    <3>1. Cardinality(Visits) \in Nat /\ Cardinality(Visits) <= MaxAttempts * (MaxRetry + 1)
      BY VisitsAreFew
    <3>2. spent \in Nat /\ spent <= Cardinality(Visits) BY Parts
    <3>3. MaxAttempts * (MaxRetry + 1) \in Nat BY PictureAssumption
    <3> QED BY <3>1, <3>2, <3>3 DEF SpendIsBounded
  <2> QED BY <2>1 DEF IInv, PictureInv
<1> QED BY <1>1, PictureInvariant, PTL

\* Two executions have calls on their way to the model only if the older
\* attempt was disowned before.
THEOREM OneReader == PictureSpec => []OneReaderAtATime
<1>1. IInv => OneReaderAtATime
  <2> SUFFICES ASSUME IInv, NEW c \in calls, NEW d \in calls,
                      Reader(c), Reader(d), c.attempt < d.attempt
               PROVE  c.attempt \in disowned
    BY DEF OneReaderAtATime
  <2>1. /\ c.attempt \in Attempt /\ d.attempt \in Attempt
        /\ machine[d.attempt] # "NotStarted"
    BY CallFacts
  <2>2. machine[c.attempt] = "DescribePictureTask" BY DEF Reader, Live
  <2>3. AttemptsOK /\ attempts \in Nat /\ Attempt = 1..MaxAttempts /\ MaxAttempts \in Nat
    BY Parts DEF Rest, RestTyped
  <2>4. d.attempt <= attempts BY <2>1, <2>3 DEF AttemptsOK
  <2> QED BY <2>1, <2>2, <2>3, <2>4 DEF AttemptsOK, Passed
<1> QED BY <1>1, PictureInvariant, PTL

\* At first the item promises what PictureItem does.
LEMMA InitPromises == PictureInit => Promise!ItemInit
BY DEF PictureInit, NoReading, Promise!ItemInit

\* Every step of the item is one of PictureItem's, or none: a claim is a try,
\* a recorded reading is that of the try that counts, and giving a claim back
\* or marking it failed gives it up.
LEMMA StepPromises ==
    IInv /\ [PictureNext]_pictureVars => [Promise!ItemNext]_(Promise!itemVars)
<1> SUFFICES ASSUME IInv, [PictureNext]_pictureVars
             PROVE  [Promise!ItemNext]_(Promise!itemVars)
  OBVIOUS
<1> USE DEF Promise!ItemNext, Promise!itemVars
<1>0. RestTyped /\ ItemOK BY Parts DEF Rest
<1>1. UNCHANGED <<status, attempts, reading>> => UNCHANGED Promise!itemVars
  OBVIOUS
<1>2. ASSUME NEW a, MarkFailed(a) PROVE [Promise!ItemNext]_(Promise!itemVars)
  BY <1>2 DEF MarkFailed, MayFail, Promise!GiveUp
<1>3. ASSUME NEW r \in Request, Claim(r) PROVE [Promise!ItemNext]_(Promise!itemVars)
  BY <1>0, <1>3 DEF Claim, Claimable, RestTyped, ItemOK, itemVars, Promise!Try
<1>4. ASSUME NEW c \in calls, Record(c) PROVE [Promise!ItemNext]_(Promise!itemVars)
  <2>1. CASE MayRecord(c.attempt)
    <3>1. /\ status' = "DESCRIBED" /\ reading'.attempt = c.attempt
          /\ attempts' = attempts /\ token = c.attempt
      BY <1>4, <2>1 DEF Record, MayRecord
    <3>2. c.attempt = attempts /\ attempts > 0
      BY <1>0, <3>1, CallFacts, Parts DEF RestTyped
    <3> QED BY <3>1, <3>2 DEF Promise!Read
  <2>2. CASE ~MayRecord(c.attempt)
    BY <1>1, <1>4, <2>2 DEF Record, itemVars
  <2> QED BY <2>1, <2>2
<1>5. ASSUME NEW r \in Request, Look(r) \/ Serve(r) \/ RequestDies(r)
      PROVE  [Promise!ItemNext]_(Promise!itemVars)
  BY <1>1, <1>2, <1>3, <1>5
  DEF Serve, Look, StartExecution, StartFails, Release, RequestDies, itemVars
<1>6. ASSUME NEW c \in calls, HandlerStep(c) \/ CallLost(c) \/ CallTimesOut(c)
      PROVE  [Promise!ItemNext]_(Promise!itemVars)
  BY <1>1, <1>2, <1>4, <1>6
  DEF HandlerStep, Fetch, Converse, Refuse, WriteOff, CallLost, CallTimesOut,
      Fault, itemVars
<1>7. CASE (\E a \in Attempt : ExecutionTimesOut(a)) \/ Upload \/ ClaimGoesStale
  BY <1>1, <1>7 DEF ExecutionTimesOut, Fault, Upload, ClaimGoesStale, itemVars
<1>8. CASE UNCHANGED pictureVars BY <1>1, <1>8 DEF pictureVars, itemVars
<1> QED BY <1>5, <1>6, <1>7, <1>8 DEF PictureNext

\* The item implements what PictureItem promises of it.
THEOREM PictureImplementsItem == PictureSpec => ImplementsPictureItem
BY InitPromises, StepPromises, PictureInvariant, PTL
DEF PictureSpec, ImplementsPictureItem, Promise!ItemSpec
=============================================================================
