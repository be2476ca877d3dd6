-------------------------- MODULE CompanionSession --------------------------
(***************************************************************************)
(* One companion session: the AGENT# header item, its turn items, and the  *)
(* runner invocations that serve messages, confirmations and abandonments  *)
(* of it.  Invocations overlap: a client may resend, a second tab may act, *)
(* Lambda may kill an invocation at any point.  What keeps them apart is   *)
(* the claim (in_flight) and the turn counter, tested by the conditional   *)
(* writes of the store.                                                    *)
(*                                                                         *)
(* Sources: backend/agent_runner/{turns,routes}.py, the companion part of  *)
(* backend/shared/db.py, backend/agent/tools/finalize.py and, for the job  *)
(* a confirmation starts, backend/shared/jobs.py.                          *)
(*                                                                         *)
(* Each remote write or read of an invocation is a step of its own.  A     *)
(* brief is named by the message whose turn proposed it.  The session runs *)
(* on one engine; its creation, its TTL and the usage counters are left    *)
(* out, and so is commit_turn's finalized_job_id, which no tool sets.      *)
(***************************************************************************)
EXTENDS Integers, FiniteSets

CONSTANTS
    Request,           \* the requests that may ever arrive for the session
    MaxTurns,          \* MAX_TURNS: 12 in the code
    LifetimeBounded    \* may no invocation outlive the stale-claim window?
                       \* TRUE on Lambda, whose 120 s end before the 180 s;
                       \* FALSE for a runner on a laptop

Nobody == "nobody"     \* an absent in_flight or pending_brief

ASSUME SessionAssumption ==
    /\ Nobody \notin Request
    /\ MaxTurns \in Nat \ {0}
    /\ LifetimeBounded \in BOOLEAN

VARIABLES
    status,            \* of the session
    turn,              \* committed turns
    inFlight,          \* in_flight: whose claim the session carries
    claimStale,        \* is that claim older than the stale-claim window?
    pendingBrief,      \* pending_brief: whose proposal awaits confirmation
    transcript,        \* the T-items, with the turns each was run on
    job,               \* status of the JOB item the session's id names
    jobBrief,          \* its mood_text
    execution,         \* the Step Functions execution of that name
    request,           \* the invocations: their locals and where they are
    withdrawer         \* history: the last message to withdraw a proposal

headerVars == <<status, turn, inFlight, claimStale>>
jobVars == <<job, jobBrief, execution>>
sessionVars == <<headerVars, pendingBrief, transcript, jobVars, request,
                 withdrawer>>

(***************************************************************************)
(* An invocation: "idle" before it arrives, "ended" once it has answered   *)
(* or died.  The other steps are the remote operations it does next.       *)
(***************************************************************************)
MessageStep == {"withdraw", "list", "engine", "commit", "exhausted"}
ConfirmStep == {"gate", "create", "lookup", "start", "close"}
Step == MessageStep \union ConfirmStep \union {"idle", "release", "look",
                                               "mark", "ended"}

Outcome == {"none", "done", "busy", "exhausted", "failed",
            "confirmed", "nothing", "refused", "start_failed", "taken",
            "rejected", "abandoned", "already_finalized",
            "died", "unreleased"}

Invocation ==
    [step : Step, outcome : Outcome, turn : 0..MaxTurns,
     brief : Request \union {Nobody}, history : SUBSET (0..MaxTurns-1),
     proposal : BOOLEAN]

Unborn == [step |-> "idle", outcome |-> "none", turn |-> 0, brief |-> Nobody,
           history |-> {}, proposal |-> FALSE]

At(r, s) == request[r].step = s

GoTo(r, s) == request' = [request EXCEPT ![r] = [@ EXCEPT !.step = s]]

End(r, outcome) ==
    request' = [request EXCEPT ![r] =
                   [@ EXCEPT !.step = "ended", !.outcome = outcome]]

\* Give the claim back, then answer.
ReleaseThen(r, outcome) ==
    request' = [request EXCEPT ![r] =
                   [@ EXCEPT !.step = "release", !.outcome = outcome]]

Alive(r) == ~At(r, "idle") /\ ~At(r, "ended")

SessionInit ==
    /\ status = "ACTIVE"
    /\ turn = 0
    /\ inFlight = Nobody
    /\ claimStale = FALSE
    /\ pendingBrief = Nobody
    /\ transcript = {}
    /\ job = "ABSENT"
    /\ jobBrief = Nobody
    /\ execution = "none"
    /\ request = [r \in Request |-> Unborn]
    /\ withdrawer = Nobody

(***************************************************************************)
(* The store's conditional writes.                                         *)
(***************************************************************************)
\* Faulty: no takeover; a claim on a closed session; a fence of one condition.
ClaimableIfFree == status = "ACTIVE" /\ inFlight = Nobody
ClaimableIfClosed == inFlight = Nobody \/ claimStale
FencedByClaim(r) == inFlight # Nobody

\* claim_turn's condition: open, and free or taken over.
Claimable == status = "ACTIVE" /\ (inFlight = Nobody \/ claimStale)

DropClaim == inFlight' = Nobody /\ claimStale' = FALSE

\* The fencing condition of commit_turn, release_turn and confirm_session:
\* the turn is still mine and a claim is held - by whom is not asked.
Fenced(r) == turn = request[r].turn /\ inFlight # Nobody

\* claim_turn, and the locals an invocation takes from the claimed header.
Claim(r, next, outcome) ==
    /\ Claimable
    /\ inFlight' = r
    /\ claimStale' = FALSE
    /\ request' = [request EXCEPT ![r] =
          [Unborn EXCEPT !.step = next, !.outcome = outcome,
                         !.turn = turn, !.brief = pendingBrief]]
    /\ UNCHANGED <<status, turn, pendingBrief, transcript, jobVars, withdrawer>>

\* A claim that is rejected tells its invocation nothing but that.
Rejected(r, answer) ==
    /\ ~Claimable
    /\ answer
    /\ UNCHANGED <<headerVars, pendingBrief, transcript, jobVars, withdrawer>>

\* mark_agent_session: ACTIVE -> ABANDONED, again and again; drops any claim.
MarkAbandoned(r, outcome) ==
    /\ IF status \in {"ACTIVE", "ABANDONED"}
       THEN status' = "ABANDONED" /\ DropClaim
       ELSE UNCHANGED <<status, inFlight, claimStale>>
    /\ End(r, outcome)
    /\ UNCHANGED <<turn, pendingBrief, transcript, jobVars, withdrawer>>

(***************************************************************************)
(* POST /turns.  claim_turn, which also ends a session that has no turn    *)
(* left, unless a proposal is still to be confirmed; then run_claimed.     *)
(***************************************************************************)
PostTurn(r) ==
    /\ At(r, "idle")
    /\ \/ turn < MaxTurns /\ Claim(r, "withdraw", "none")
       \/ /\ turn >= MaxTurns
          /\ IF pendingBrief # Nobody THEN Claim(r, "release", "exhausted")
                                      ELSE Claim(r, "exhausted", "none")
       \/ Rejected(r, End(r, "busy"))

AbandonExhausted(r) == At(r, "exhausted") /\ MarkAbandoned(r, "exhausted")

\* Faulty: the proposal left for the model to replace.
KeepBrief(r) ==
    /\ At(r, "withdraw")
    /\ withdrawer' = r
    /\ GoTo(r, "list")
    /\ UNCHANGED <<headerVars, pendingBrief, transcript, jobVars>>

\* clear_pending_brief: the listener kept talking, whatever was proposed.
WithdrawBrief(r) ==
    /\ At(r, "withdraw")
    /\ pendingBrief' = Nobody
    /\ withdrawer' = r
    /\ GoTo(r, "list")
    /\ UNCHANGED <<headerVars, transcript, jobVars>>

ListTurns(r) ==
    /\ At(r, "list")
    /\ request' = [request EXCEPT ![r] =
          [@ EXCEPT !.step = "engine",
                    !.history = {past.turn : past \in transcript}]]
    /\ UNCHANGED <<headerVars, pendingBrief, transcript, jobVars, withdrawer>>

\* finalize_meditation_brief, when the gate lets it: set_pending_brief.  A
\* gate that refuses, or a closed session, is an answer to the model alone;
\* so is a write that applied and whose answer was lost.
ProposeBrief(r) ==
    /\ At(r, "engine")
    /\ status = "ACTIVE"
    /\ pendingBrief' = r
    /\ \/ request' = [request EXCEPT ![r] = [@ EXCEPT !.proposal = TRUE]]
       \/ UNCHANGED request
    /\ UNCHANGED <<headerVars, transcript, jobVars, withdrawer>>

\* The engine returns the turn's result.  That of a refusal is built anew and
\* carries no proposal, even if a round before the refusal made one.
EngineAnswers(r) ==
    /\ At(r, "engine")
    /\ \/ GoTo(r, "commit")
       \/ request' = [request EXCEPT ![r] =
                         [@ EXCEPT !.step = "commit", !.proposal = FALSE]]
    /\ UNCHANGED <<headerVars, pendingBrief, transcript, jobVars, withdrawer>>

\* commit_turn: the T-item and the header, or neither.  When the answer is
\* lost the turn is committed and the invocation takes it for a failure.
CommitTurn(r) ==
    /\ At(r, "commit")
    /\ \/ /\ Fenced(r)
          /\ request[r].turn \notin {past.turn : past \in transcript}
          /\ transcript' = transcript \union {[turn |-> request[r].turn,
                                               history |-> request[r].history]}
          /\ turn' = turn + 1
          /\ DropClaim
          /\ End(r, "done") \/ ReleaseThen(r, "failed")
       \/ /\ ~(Fenced(r)
               /\ request[r].turn \notin {past.turn : past \in transcript})
          /\ ReleaseThen(r, "failed")
          /\ UNCHANGED <<turn, inFlight, claimStale, transcript>>
    /\ UNCHANGED <<status, pendingBrief, jobVars, withdrawer>>

\* Any exception of run_claimed - the store, the model, the engine.
FailTurn(r) ==
    /\ request[r].step \in {"withdraw", "list", "engine", "commit"}
    /\ ReleaseThen(r, "failed")
    /\ UNCHANGED <<headerVars, pendingBrief, transcript, jobVars, withdrawer>>

\* release_turn.
ReleaseTurn(r) ==
    /\ At(r, "release")
    /\ IF Fenced(r) THEN DropClaim ELSE UNCHANGED <<inFlight, claimStale>>
    /\ End(r, request[r].outcome)
    /\ UNCHANGED <<status, turn, pendingBrief, transcript, jobVars, withdrawer>>

\* A release that raises is logged, and the invocation answers all the same.
ReleaseFails(r) ==
    /\ At(r, "release")
    /\ End(r, "unreleased")
    /\ UNCHANGED <<headerVars, pendingBrief, transcript, jobVars, withdrawer>>

(***************************************************************************)
(* POST /confirm: confirm_session.                                         *)
(***************************************************************************)
Confirm(r) ==
    /\ At(r, "idle")
    /\ \/ pendingBrief # Nobody /\ Claim(r, "gate", "none")
       \/ pendingBrief = Nobody /\ Claim(r, "release", "nothing")
       \/ Rejected(r, GoTo(r, "look"))

\* A closed session answers with the job it was closed with.
LookAtClosed(r) ==
    /\ At(r, "look")
    /\ End(r, IF status = "FINALIZED" THEN "confirmed" ELSE "busy")
    /\ UNCHANGED <<headerVars, pendingBrief, transcript, jobVars, withdrawer>>

\* Faulty: a refusal that forgets the claim.
RefuseAndKeep(r) ==
    /\ At(r, "gate")
    /\ \/ job # "FROZEN" /\ GoTo(r, "create")
       \/ End(r, "refused")
    /\ UNCHANGED <<headerVars, pendingBrief, transcript, jobVars, withdrawer>>

\* generation_gate: refuses while the user has a credit frozen, and may for
\* want of one.
PassGate(r) ==
    /\ At(r, "gate")
    /\ \/ job # "FROZEN" /\ GoTo(r, "create")
       \/ ReleaseThen(r, "refused")
    /\ UNCHANGED <<headerVars, pendingBrief, transcript, jobVars, withdrawer>>

\* create_job writes the row only if there is none.
CreateJob(r) ==
    /\ At(r, "create")
    /\ IF job = "ABSENT"
       THEN job' = "PENDING" /\ jobBrief' = request[r].brief /\ GoTo(r, "start")
       ELSE GoTo(r, "lookup") /\ UNCHANGED <<job, jobBrief>>
    /\ UNCHANGED <<headerVars, pendingBrief, transcript, execution, withdrawer>>

\* _is_own_pending_job: the row of an earlier confirmation, still PENDING, is
\* started again; past PENDING it counts as somebody else's.
LookUpJob(r) ==
    /\ At(r, "lookup")
    /\ IF job = "PENDING" THEN GoTo(r, "start") ELSE ReleaseThen(r, "taken")
    /\ UNCHANGED <<headerVars, pendingBrief, transcript, jobVars, withdrawer>>

\* ExecutionAlreadyExists is taken for success.
StartExecution(r) ==
    /\ At(r, "start")
    /\ execution' = IF execution = "none" THEN "running" ELSE execution
    /\ GoTo(r, "close")
    /\ UNCHANGED <<headerVars, pendingBrief, transcript, job, jobBrief,
                   withdrawer>>

\* Faulty: an error taken for a start.
StartFailureSwallowed(r) ==
    /\ At(r, "start")
    /\ GoTo(r, "close")
    /\ UNCHANGED <<headerVars, pendingBrief, transcript, jobVars, withdrawer>>

\* StartExecution reports an error, having started the execution or not.
StartFails(r) ==
    /\ At(r, "start")
    /\ execution' \in {execution, IF execution = "none" THEN "running"
                                                         ELSE execution}
    /\ ReleaseThen(r, "start_failed")
    /\ UNCHANGED <<headerVars, pendingBrief, transcript, job, jobBrief,
                   withdrawer>>

\* The store's confirm_session; rejected, it raises with nothing released.
CloseSession(r) ==
    /\ At(r, "close")
    /\ IF status = "ACTIVE" /\ Fenced(r) /\ pendingBrief # Nobody
       THEN /\ status' = "FINALIZED"
            /\ DropClaim
            /\ pendingBrief' = Nobody
            /\ End(r, "confirmed")
       ELSE /\ End(r, "rejected")
            /\ UNCHANGED <<status, inFlight, claimStale, pendingBrief>>
    /\ UNCHANGED <<turn, transcript, jobVars, withdrawer>>

(***************************************************************************)
(* POST /abandon: reads the session, then marks it, and answers 204        *)
(* whatever the mark found.                                                *)
(***************************************************************************)
Abandon(r) ==
    /\ At(r, "idle")
    /\ IF status = "FINALIZED" THEN End(r, "already_finalized")
                               ELSE GoTo(r, "mark")
    /\ UNCHANGED <<headerVars, pendingBrief, transcript, jobVars, withdrawer>>

AbandonSession(r) == At(r, "mark") /\ MarkAbandoned(r, "abandoned")

(***************************************************************************)
(* The world around an invocation.                                         *)
(***************************************************************************)
\* Lambda kills it, or an exception no handler catches ends it.
Die(r) ==
    /\ Alive(r)
    /\ End(r, "died")
    /\ UNCHANGED <<headerVars, pendingBrief, transcript, jobVars, withdrawer>>

\* The claim passes the stale-claim window.
ClaimGoesStale ==
    /\ inFlight # Nobody /\ ~claimStale
    /\ LifetimeBounded => ~Alive(inFlight)
    /\ claimStale' = TRUE
    /\ UNCHANGED <<status, turn, inFlight, pendingBrief, transcript, jobVars,
                   request, withdrawer>>

\* The execution freezes a credit for its job, or ends without one; it settles
\* the job it froze for.
ExecutionStep ==
    /\ execution = "running"
    /\ \/ job = "PENDING" /\ job' = "FROZEN" /\ UNCHANGED execution
       \/ job = "PENDING" /\ execution' = "ended" /\ UNCHANGED job
       \/ job = "FROZEN" /\ job' = "SETTLED" /\ execution' = "ended"
    /\ UNCHANGED <<headerVars, pendingBrief, transcript, jobBrief, request,
                   withdrawer>>

Arrive(r) == PostTurn(r) \/ Confirm(r) \/ Abandon(r)

Invoked(r) ==
    \/ WithdrawBrief(r) \/ ListTurns(r) \/ ProposeBrief(r) \/ EngineAnswers(r)
    \/ CommitTurn(r) \/ FailTurn(r) \/ ReleaseTurn(r) \/ ReleaseFails(r)
    \/ AbandonExhausted(r)
    \/ LookAtClosed(r) \/ PassGate(r) \/ CreateJob(r) \/ LookUpJob(r)
    \/ StartExecution(r) \/ StartFails(r) \/ CloseSession(r)
    \/ AbandonSession(r)

SessionNext ==
    \/ \E r \in Request : Arrive(r) \/ Invoked(r) \/ Die(r)
    \/ ClaimGoesStale
    \/ ExecutionStep

SessionSpec == SessionInit /\ [][SessionNext]_sessionVars

\* An invocation goes on until it ends, and time passes.  No request has to
\* arrive, nothing has to die, and no execution has to make progress.
FairSessionSpec ==
    /\ SessionSpec
    /\ \A r \in Request : WF_sessionVars(Invoked(r))
    /\ WF_sessionVars(ClaimGoesStale)

(***************************************************************************)
(* Properties.                                                             *)
(***************************************************************************)

\* The header, the job and every invocation are what the code can make them.
SessionTypeOK ==
    /\ status \in {"ACTIVE", "FINALIZED", "ABANDONED"}
    /\ turn \in 0..MaxTurns
    /\ inFlight \in Request \union {Nobody}
    /\ claimStale \in BOOLEAN
    /\ pendingBrief \in Request \union {Nobody}
    /\ transcript \subseteq [turn : 0..MaxTurns-1, history : SUBSET (0..MaxTurns-1)]
    /\ job \in {"ABSENT", "PENDING", "FROZEN", "SETTLED"}
    /\ jobBrief \in Request \union {Nobody}
    /\ execution \in {"none", "running", "ended"}
    /\ request \in [Request -> Invocation]
    /\ withdrawer \in Request \union {Nobody}

Working(r) == request[r].step \in MessageStep \union ConfirmStep \union {"release"}

\* No two invocations ever work on the same turn of an open session: the one
\* that does is the one whose claim the session carries, through resends,
\* takeovers, lost answers and late releases (turns.py: "a confirmation and a
\* message cannot run at once").
WorkerHoldsClaim ==
    \A r \in Request :
        Working(r) /\ request[r].turn = turn /\ status = "ACTIVE"
            => inFlight = r

\* A claim outlives its invocation only if that died or could not release it:
\* every answer of a message or a confirmation leaves the session open to the
\* next one ("with it, the user can resend immediately").
NoLeakedClaim ==
    \A r \in Request :
        inFlight = r => Working(r) \/ request[r].outcome \in {"died", "unreleased"}

\* "A new message withdraws any earlier proposal": what a confirmation can
\* find pending was proposed by the last message that got to withdraw one.
PendingIsLatest == pendingBrief \in {Nobody, withdrawer}

\* A confirmation that answered with the job's id, at once or from the closed
\* session, answered for an execution that was started.
ConfirmedIsStarted ==
    \A r \in Request :
        request[r].outcome = "confirmed" =>
            status = "FINALIZED" /\ execution # "none"

\* The listener sees one conversation: each committed turn was run on all the
\* committed turns before it, and a session that ended stays as it ended.
Promise == INSTANCE Conversation
ImplementsConversation == Promise!ConversationSpec

\* The session is never blocked for good by a claim: it becomes claimable, or
\* it is closed.
NeverWedged == []<>(Claimable \/ status # "ACTIVE")

(***************************************************************************)
(* The inductive invariants behind these.  Fencing is what the conditional *)
(* writes give by themselves; Claiming adds what they give only because no *)
(* invocation outlives the stale-claim window.                             *)
(***************************************************************************)
Past == {past.turn : past \in transcript}

\* An invocation never knows a turn the session has not reached, has read all
\* of the conversation when it commits, and closes only what was started.
FencedInvocation(r) ==
    /\ request[r].turn <= turn
    /\ request[r].step \in {"withdraw", "list", "engine", "commit"}
          => request[r].turn < MaxTurns
    /\ request[r].step \in {"engine", "commit"} /\ request[r].turn = turn
          => request[r].history = 0..turn-1
    /\ At(r, "close") => execution # "none"
    /\ request[r].outcome = "confirmed" => status = "FINALIZED"

Fencing ==
    /\ SessionTypeOK
    /\ Past = 0..turn-1
    /\ inFlight # Nobody => status = "ACTIVE"
    /\ status = "FINALIZED" => execution # "none"
    /\ \A r \in Request : FencedInvocation(r)

\* The claim is the working invocation's, and fresh; a dead one's claim may
\* linger; and only the last message to withdraw a proposal goes on to make one.
ClaimingInvocation(r) ==
    /\ status = "ACTIVE" /\ Working(r) /\ (At(r, "release") => request[r].turn = turn)
          => inFlight = r
    /\ inFlight = r =>
          /\ request[r].turn = turn
          /\ \/ Working(r) /\ ~claimStale
             \/ At(r, "ended") /\ request[r].outcome \in {"died", "unreleased"}
          /\ request[r].step \in ConfirmStep => pendingBrief # Nobody
    /\ status = "ACTIVE" /\ request[r].step \in {"list", "engine", "commit"}
          => withdrawer = r

Claiming ==
    /\ \A r \in Request : ClaimingInvocation(r)
    /\ pendingBrief \in {Nobody, withdrawer}
=============================================================================
