--------------------------- MODULE CompanionProofs ---------------------------
(***************************************************************************)
(* Proofs about the companion: CompanionSession, for any set of requests   *)
(* and any number of turns, and CompanionMemory, for any number of calls,  *)
(* texts, attempts, clears and resent writes, and any cap.  The two share  *)
(* no state.                                                               *)
(***************************************************************************)
EXTENDS CompanionSession, CompanionMemory, SequenceTheorems, TLAPS

(***************************************************************************)
(* The session.                                                            *)
(***************************************************************************)

\* What ending does to an invocation's record, and that it leaves every other
\* invocation alone.
LEMMA EndFacts ==
    ASSUME request \in [Request -> Invocation], NEW r \in Request,
           NEW o \in Outcome, End(r, o)
    PROVE  /\ request' \in [Request -> Invocation]
           /\ \A q \in Request : q # r => request'[q] = request[q]
           /\ request'[r].step = "ended" /\ request'[r].outcome = o
           /\ request'[r].turn = request[r].turn
           /\ request'[r].brief = request[r].brief
           /\ request'[r].history = request[r].history
           /\ request'[r].proposal = request[r].proposal
  BY DEF End, Invocation, Step

\* The same when it goes on to release its claim,
LEMMA ReleaseFacts ==
    ASSUME request \in [Request -> Invocation], NEW r \in Request,
           NEW o \in Outcome, ReleaseThen(r, o)
    PROVE  /\ request' \in [Request -> Invocation]
           /\ \A q \in Request : q # r => request'[q] = request[q]
           /\ request'[r].step = "release" /\ request'[r].outcome = o
           /\ request'[r].turn = request[r].turn
           /\ request'[r].brief = request[r].brief
           /\ request'[r].history = request[r].history
           /\ request'[r].proposal = request[r].proposal
  BY DEF ReleaseThen, Invocation, Step

\* when it goes on to its next operation,
LEMMA GoToFacts ==
    ASSUME request \in [Request -> Invocation], NEW r \in Request,
           NEW s \in Step, GoTo(r, s)
    PROVE  /\ request' \in [Request -> Invocation]
           /\ \A q \in Request : q # r => request'[q] = request[q]
           /\ request'[r].step = s
           /\ request'[r].outcome = request[r].outcome
           /\ request'[r].turn = request[r].turn
           /\ request'[r].brief = request[r].brief
           /\ request'[r].history = request[r].history
           /\ request'[r].proposal = request[r].proposal
  BY DEF GoTo, Invocation

\* and when it has taken the claim.
LEMMA ClaimFacts ==
    ASSUME request \in [Request -> Invocation], NEW r \in Request,
           NEW s \in Step, NEW o \in Outcome, Claim(r, s, o),
           turn \in 0..MaxTurns, pendingBrief \in Request \union {Nobody}
    PROVE  /\ request' \in [Request -> Invocation]
           /\ \A q \in Request : q # r => request'[q] = request[q]
           /\ request'[r].step = s
           /\ request'[r].outcome = o
           /\ request'[r].turn = turn
           /\ request'[r].brief = pendingBrief
           /\ request'[r].history = {}
           /\ request'[r].proposal = FALSE
           /\ Claimable /\ inFlight' = r /\ claimStale' = FALSE
           /\ UNCHANGED <<status, turn, pendingBrief, transcript, job, jobBrief,
                          execution, withdrawer>>
  BY DEF Claim, Invocation, Unborn, jobVars

\* What a message's turn reads is what has been committed.
LEMMA ListFacts ==
    ASSUME request \in [Request -> Invocation], NEW r \in Request,
           Past \subseteq 0..MaxTurns-1, ListTurns(r)
    PROVE  /\ request' \in [Request -> Invocation]
           /\ \A q \in Request : q # r => request'[q] = request[q]
           /\ request'[r].step = "engine"
           /\ request'[r].history = Past
           /\ request'[r].outcome = request[r].outcome
           /\ request'[r].turn = request[r].turn
           /\ request[r].step = "list"
           /\ UNCHANGED <<headerVars, pendingBrief, transcript, jobVars, withdrawer>>
  <1>1. [request[r] EXCEPT !.step = "engine", !.history = Past] \in Invocation
    BY DEF Invocation, Step, MessageStep
  <1>2. request' = [request EXCEPT ![r] =
                       [request[r] EXCEPT !.step = "engine", !.history = Past]]
    BY DEF ListTurns, Past
  <1>3. /\ request' \in [Request -> Invocation]
        /\ \A q \in Request : q # r => request'[q] = request[q]
    BY <1>1, <1>2
  <1>4. request'[r] = [request[r] EXCEPT !.step = "engine", !.history = Past]
    BY <1>2
  <1>5. QED
    BY <1>3, <1>4 DEF Invocation, ListTurns, At

\* A proposal, reported or not.
LEMMA ProposeFacts ==
    ASSUME request \in [Request -> Invocation], NEW r \in Request, ProposeBrief(r)
    PROVE  /\ request' \in [Request -> Invocation]
           /\ \A q \in Request : q # r => request'[q] = request[q]
           /\ request'[r].step = "engine"
           /\ request'[r].outcome = request[r].outcome
           /\ request'[r].turn = request[r].turn
           /\ request'[r].history = request[r].history
           /\ request[r].step = "engine" /\ status = "ACTIVE"
           /\ pendingBrief' = r
           /\ UNCHANGED <<headerVars, transcript, jobVars, withdrawer>>
  <1>1. CASE UNCHANGED request
    BY <1>1 DEF ProposeBrief, At
  <1>2. CASE request' = [request EXCEPT ![r] = [@ EXCEPT !.proposal = TRUE]]
    BY <1>2 DEF ProposeBrief, At, Invocation
  <1>3. QED
    BY <1>1, <1>2 DEF ProposeBrief

\* The end of the engine's work.
LEMMA AnswerFacts ==
    ASSUME request \in [Request -> Invocation], NEW r \in Request, EngineAnswers(r)
    PROVE  /\ request' \in [Request -> Invocation]
           /\ \A q \in Request : q # r => request'[q] = request[q]
           /\ request[r].step = "engine" /\ request'[r].step = "commit"
           /\ request'[r].outcome = request[r].outcome
           /\ request'[r].turn = request[r].turn
           /\ request'[r].history = request[r].history
           /\ UNCHANGED <<headerVars, pendingBrief, transcript, jobVars, withdrawer>>
  <1>1. CASE GoTo(r, "commit")
    BY <1>1, GoToFacts DEF EngineAnswers, At, Step, MessageStep
  <1>2. CASE request' = [request EXCEPT ![r] =
                            [@ EXCEPT !.step = "commit", !.proposal = FALSE]]
    BY <1>2, ZenonT(40) DEF EngineAnswers, At, Invocation, Step, MessageStep
  <1>3. QED
    BY <1>1, <1>2 DEF EngineAnswers

\* Every step of an invocation keeps the types.
LEMMA TypeStep ==
    ASSUME Fencing, NEW r \in Request, Arrive(r) \/ Invoked(r) \/ Die(r)
    PROVE  SessionTypeOK'
  <1> USE SessionAssumption DEF DropClaim, headerVars, jobVars
  <1>0. /\ SessionTypeOK /\ Past \subseteq 0..MaxTurns-1
        /\ request[r].outcome \in Outcome
        /\ request[r].brief \in Request \union {Nobody}
        /\ request[r].history \in SUBSET (0..MaxTurns-1)
        /\ At(r, "commit") => request[r].turn \in 0..MaxTurns-1
    BY DEF Fencing, FencedInvocation, SessionTypeOK, At, Invocation
  <1>1. ASSUME PostTurn(r) PROVE SessionTypeOK'
    <2>1. CASE turn < MaxTurns /\ Claim(r, "withdraw", "none")
      BY <1>0, <1>1, <2>1, ClaimFacts, ZenonT(40) DEF Claimable, SessionTypeOK, Step, MessageStep, ConfirmStep, Outcome
    <2>2. CASE turn >= MaxTurns /\ Claim(r, "release", "exhausted")
      BY <1>0, <1>1, <2>2, ClaimFacts, ZenonT(40) DEF Claimable, SessionTypeOK, Step, MessageStep, ConfirmStep, Outcome
    <2>3. CASE turn >= MaxTurns /\ Claim(r, "exhausted", "none")
      BY <1>0, <1>1, <2>3, ClaimFacts, ZenonT(40) DEF Claimable, SessionTypeOK, Step, MessageStep, ConfirmStep, Outcome
    <2>4. CASE Rejected(r, End(r, "busy"))
      BY <1>0, <1>1, <2>4, EndFacts DEF Rejected, SessionTypeOK, Step, MessageStep, ConfirmStep, Outcome
    <2>5. QED
      BY <1>1, <2>1, <2>2, <2>3, <2>4 DEF PostTurn
  <1>2. ASSUME Confirm(r) PROVE SessionTypeOK'
    <2>1. CASE pendingBrief # Nobody /\ Claim(r, "gate", "none")
      BY <1>0, <1>2, <2>1, ClaimFacts, ZenonT(40) DEF Claimable, SessionTypeOK, Step, MessageStep, ConfirmStep, Outcome
    <2>2. CASE Claim(r, "release", "nothing")
      BY <1>0, <1>2, <2>2, ClaimFacts, ZenonT(40) DEF Claimable, SessionTypeOK, Step, MessageStep, ConfirmStep, Outcome
    <2>3. CASE Rejected(r, GoTo(r, "look"))
      BY <1>0, <1>2, <2>3, GoToFacts DEF Rejected, SessionTypeOK, Step, MessageStep, ConfirmStep
    <2>4. QED
      BY <1>2, <2>1, <2>2, <2>3 DEF Confirm
  <1>3. ASSUME Abandon(r) PROVE SessionTypeOK'
    <2>1. CASE End(r, "already_finalized")
      BY <1>0, <1>3, <2>1, EndFacts DEF Abandon, SessionTypeOK, Step, MessageStep, ConfirmStep, Outcome
    <2>2. CASE GoTo(r, "mark")
      BY <1>0, <1>3, <2>2, GoToFacts DEF Abandon, SessionTypeOK, Step, MessageStep, ConfirmStep
    <2>3. QED
      BY <1>3, <2>1, <2>2 DEF Abandon
  <1>4. ASSUME WithdrawBrief(r) PROVE SessionTypeOK'
    BY <1>0, <1>4, GoToFacts DEF WithdrawBrief, SessionTypeOK, Step, MessageStep, ConfirmStep
  <1>5. ASSUME ListTurns(r) PROVE SessionTypeOK'
    BY <1>0, <1>5, ListFacts DEF SessionTypeOK, Step, MessageStep, ConfirmStep
  <1>6. ASSUME ProposeBrief(r) PROVE SessionTypeOK'
    BY <1>0, <1>6, ProposeFacts DEF SessionTypeOK, Step, MessageStep, ConfirmStep
  <1>7. ASSUME EngineAnswers(r) PROVE SessionTypeOK'
    BY <1>0, <1>7, AnswerFacts DEF SessionTypeOK, Step, MessageStep, ConfirmStep
  <1>8. ASSUME CommitTurn(r) PROVE SessionTypeOK'
    <2>1. request' \in [Request -> Invocation]
      BY <1>0, <1>8, EndFacts, ReleaseFacts DEF CommitTurn, SessionTypeOK, Outcome
    <2>2. /\ turn' \in 0..MaxTurns
          /\ transcript' \subseteq [turn : 0..MaxTurns-1, history : SUBSET (0..MaxTurns-1)]
      <3>1. CASE UNCHANGED <<turn, transcript>>
        BY <1>0, <3>1 DEF SessionTypeOK
      <3>2. CASE /\ turn' = turn + 1 /\ turn = request[r].turn
                 /\ transcript' = transcript \union {[turn |-> request[r].turn,
                                                      history |-> request[r].history]}
        BY <1>0, <1>8, <3>2 DEF SessionTypeOK, CommitTurn
      <3>3. QED
        BY <1>8, <3>1, <3>2 DEF CommitTurn, Fenced
    <2>3. inFlight' \in Request \union {Nobody} /\ claimStale' \in BOOLEAN
      BY <1>0, <1>8 DEF CommitTurn, SessionTypeOK
    <2>4. QED
      BY <1>0, <1>8, <2>1, <2>2, <2>3 DEF CommitTurn, SessionTypeOK
  <1>9. ASSUME FailTurn(r) PROVE SessionTypeOK'
    BY <1>0, <1>9, ReleaseFacts DEF FailTurn, SessionTypeOK, Step, MessageStep, ConfirmStep, Outcome
  <1>10. ASSUME ReleaseTurn(r) PROVE SessionTypeOK'
    BY <1>0, <1>10, EndFacts, ZenonT(40) DEF ReleaseTurn, Fenced, SessionTypeOK, Step, MessageStep, ConfirmStep, Outcome
  <1>11. ASSUME ReleaseFails(r) PROVE SessionTypeOK'
    BY <1>0, <1>11, EndFacts DEF ReleaseFails, SessionTypeOK, Step, MessageStep, ConfirmStep, Outcome
  <1>12. ASSUME AbandonExhausted(r) PROVE SessionTypeOK'
    BY <1>0, <1>12, EndFacts, ZenonT(40) DEF AbandonExhausted, MarkAbandoned, SessionTypeOK, Step, MessageStep, ConfirmStep, Outcome
  <1>13. ASSUME LookAtClosed(r) PROVE SessionTypeOK'
    BY <1>0, <1>13, EndFacts DEF LookAtClosed, SessionTypeOK, Step, MessageStep, ConfirmStep, Outcome
  <1>14. ASSUME PassGate(r) PROVE SessionTypeOK'
    <2>1. CASE GoTo(r, "create")
      BY <1>0, <1>14, <2>1, GoToFacts DEF PassGate, SessionTypeOK, Step, MessageStep, ConfirmStep
    <2>2. CASE ReleaseThen(r, "refused")
      BY <1>0, <1>14, <2>2, ReleaseFacts DEF PassGate, SessionTypeOK, Step, MessageStep, ConfirmStep, Outcome
    <2>3. QED
      BY <1>14, <2>1, <2>2 DEF PassGate
  <1>15. ASSUME CreateJob(r) PROVE SessionTypeOK'
    <2>1. CASE GoTo(r, "start")
      BY <1>0, <1>15, <2>1, GoToFacts DEF CreateJob, SessionTypeOK, Step, MessageStep, ConfirmStep
    <2>2. CASE GoTo(r, "lookup")
      BY <1>0, <1>15, <2>2, GoToFacts DEF CreateJob, SessionTypeOK, Step, MessageStep, ConfirmStep
    <2>3. QED
      BY <1>15, <2>1, <2>2 DEF CreateJob
  <1>16. ASSUME LookUpJob(r) PROVE SessionTypeOK'
    <2>1. CASE GoTo(r, "start")
      BY <1>0, <1>16, <2>1, GoToFacts DEF LookUpJob, SessionTypeOK, Step, MessageStep, ConfirmStep
    <2>2. CASE ReleaseThen(r, "taken")
      BY <1>0, <1>16, <2>2, ReleaseFacts DEF LookUpJob, SessionTypeOK, Step, MessageStep, ConfirmStep, Outcome
    <2>3. QED
      BY <1>16, <2>1, <2>2 DEF LookUpJob
  <1>17. ASSUME StartExecution(r) PROVE SessionTypeOK'
    BY <1>0, <1>17, GoToFacts DEF StartExecution, SessionTypeOK, Step, MessageStep, ConfirmStep
  <1>18. ASSUME StartFails(r) PROVE SessionTypeOK'
    BY <1>0, <1>18, ReleaseFacts DEF StartFails, SessionTypeOK, Step, MessageStep, ConfirmStep, Outcome
  <1>19. ASSUME CloseSession(r) PROVE SessionTypeOK'
    <2>1. CASE End(r, "confirmed")
      BY <1>0, <1>19, <2>1, EndFacts DEF CloseSession, Fenced, SessionTypeOK, Step, MessageStep, ConfirmStep, Outcome
    <2>2. CASE End(r, "rejected")
      BY <1>0, <1>19, <2>2, EndFacts DEF CloseSession, Fenced, SessionTypeOK, Step, MessageStep, ConfirmStep, Outcome
    <2>3. QED
      BY <1>19, <2>1, <2>2 DEF CloseSession
  <1>20. ASSUME AbandonSession(r) PROVE SessionTypeOK'
    BY <1>0, <1>20, EndFacts, ZenonT(40) DEF AbandonSession, MarkAbandoned, SessionTypeOK, Step, MessageStep, ConfirmStep, Outcome
  <1>21. ASSUME Die(r) PROVE SessionTypeOK'
    BY <1>0, <1>21, EndFacts DEF Die, SessionTypeOK, Step, MessageStep, ConfirmStep, Outcome
  <1> QED
    BY <1>1, <1>2, <1>3, <1>4, <1>5, <1>6, <1>7, <1>8, <1>9, <1>10, <1>11, <1>12, <1>13, <1>14, <1>15, <1>16, <1>17, <1>18, <1>19, <1>20, <1>21 DEF Arrive, Invoked

\* What a step of invocation r leaves as it was, and the rest of Fencing.
Frame(r) ==
    /\ \A q \in Request : q # r => request'[q] = request[q]
    /\ turn' \in {turn, turn + 1}
    /\ Past' = 0..turn'-1
    /\ inFlight' # Nobody => status' = "ACTIVE"
    /\ status = "FINALIZED" => status' = "FINALIZED"
    /\ execution # "none" => execution' # "none"
    /\ status' = "FINALIZED" => execution' # "none"

\* Such a step keeps the fencing invariant if r's own part of it holds after.
LEMMA FencingFramed ==
    ASSUME Fencing, NEW r \in Request, SessionTypeOK', Frame(r),
           FencedInvocation(r)'
    PROVE  Fencing'
  <1>1. ASSUME NEW q \in Request, q # r PROVE FencedInvocation(q)'
    <2>1. request'[q] = request[q] /\ request[q].turn \in Nat /\ turn \in Nat
          /\ FencedInvocation(q)
      BY <1>1, SessionAssumption DEF Frame, Fencing, SessionTypeOK, Invocation
    <2>2. QED
      BY <2>1 DEF Frame, FencedInvocation, At
  <1>2. \A q \in Request : FencedInvocation(q)'
    BY <1>1
  <1>3. QED
    BY <1>2 DEF Fencing, Frame

\* Taking the claim keeps the fencing invariant.
LEMMA ClaimFencing ==
    ASSUME Fencing, NEW r \in Request, SessionTypeOK',
           NEW s \in {"withdraw", "exhausted", "release", "gate"},
           NEW o \in {"none", "exhausted", "nothing"}, Claim(r, s, o),
           s = "withdraw" => turn < MaxTurns
    PROVE  Fencing'
  <1>1. /\ SessionTypeOK /\ Past = 0..turn-1
        /\ inFlight # Nobody => status = "ACTIVE"
        /\ status = "FINALIZED" => execution # "none"
    BY DEF Fencing
  <1>2. s \in Step /\ o \in Outcome
    BY DEF Step, MessageStep, ConfirmStep, Outcome
  <1>3. /\ \A q \in Request : q # r => request'[q] = request[q]
        /\ request'[r].step = s /\ request'[r].outcome = o
        /\ request'[r].turn = turn
        /\ Claimable
        /\ UNCHANGED <<status, turn, transcript, execution>>
    BY <1>1, <1>2, ClaimFacts DEF SessionTypeOK
  <1>4. FencedInvocation(r)'
    BY <1>1, <1>3 DEF FencedInvocation, At, SessionTypeOK
  <1>5. Past' = Past
    BY <1>3 DEF Past
  <1>6. Frame(r)
    BY <1>1, <1>3, <1>5 DEF Frame, Claimable
  <1>7. QED
    BY <1>4, <1>6, FencingFramed

\* Every step of an invocation keeps the fencing invariant.
LEMMA FencingStep ==
    ASSUME Fencing, NEW r \in Request, Arrive(r) \/ Invoked(r) \/ Die(r)
    PROVE  Fencing'
  <1> USE SessionAssumption DEF DropClaim, headerVars, jobVars, At
  <1>0. /\ Fencing /\ SessionTypeOK'
        /\ request \in [Request -> Invocation]
        /\ turn \in 0..MaxTurns
        /\ pendingBrief \in Request \union {Nobody}
        /\ Past \subseteq 0..MaxTurns-1 /\ Past = 0..turn-1
        /\ request[r].outcome \in Outcome
        /\ request[r].turn \in 0..MaxTurns
        /\ FencedInvocation(r)
        /\ transcript' = transcript => Past' = Past
    BY TypeStep DEF Fencing, SessionTypeOK, Invocation, Past
  <1>1. ASSUME PostTurn(r) PROVE Fencing'
    <2>1. CASE turn < MaxTurns /\ Claim(r, "withdraw", "none")
      BY <1>0, <2>1, ClaimFencing
    <2>2. CASE turn >= MaxTurns /\ Claim(r, "release", "exhausted")
      BY <1>0, <2>2, ClaimFencing
    <2>3. CASE turn >= MaxTurns /\ Claim(r, "exhausted", "none")
      BY <1>0, <2>3, ClaimFencing
    <2>4. CASE Rejected(r, End(r, "busy"))
      <3>1. FencedInvocation(r)'
        BY <1>0, <1>1, <2>4, EndFacts DEF Rejected, FencedInvocation, Step, MessageStep, ConfirmStep, Outcome
      <3>2. Frame(r)
        BY <1>0, <1>1, <2>4, EndFacts DEF Rejected, Frame, Fencing, Step, MessageStep, ConfirmStep, Outcome
      <3>3. QED
        BY <1>0, <3>1, <3>2, FencingFramed
    <2>5. QED
      BY <1>1, <2>1, <2>2, <2>3, <2>4 DEF PostTurn
  <1>2. ASSUME Confirm(r) PROVE Fencing'
    <2>1. CASE pendingBrief # Nobody /\ Claim(r, "gate", "none")
      BY <1>0, <2>1, ClaimFencing
    <2>2. CASE Claim(r, "release", "nothing")
      BY <1>0, <2>2, ClaimFencing
    <2>3. CASE Rejected(r, GoTo(r, "look"))
      <3>1. FencedInvocation(r)'
        BY <1>0, <1>2, <2>3, GoToFacts DEF Rejected, FencedInvocation, Step, MessageStep, ConfirmStep
      <3>2. Frame(r)
        BY <1>0, <1>2, <2>3, GoToFacts DEF Rejected, Frame, Fencing, Step, MessageStep, ConfirmStep
      <3>3. QED
        BY <1>0, <3>1, <3>2, FencingFramed
    <2>4. QED
      BY <1>2, <2>1, <2>2, <2>3 DEF Confirm
  <1>3. ASSUME Abandon(r) PROVE Fencing'
    <2>1. CASE End(r, "already_finalized")
      <3>1. FencedInvocation(r)'
        BY <1>0, <1>3, <2>1, EndFacts DEF Abandon, FencedInvocation, Step, MessageStep, ConfirmStep, Outcome
      <3>2. Frame(r)
        BY <1>0, <1>3, <2>1, EndFacts DEF Abandon, Frame, Fencing, Step, MessageStep, ConfirmStep, Outcome
      <3>3. QED
        BY <1>0, <3>1, <3>2, FencingFramed
    <2>2. CASE GoTo(r, "mark")
      <3>1. FencedInvocation(r)'
        BY <1>0, <1>3, <2>2, GoToFacts DEF Abandon, FencedInvocation, Step, MessageStep, ConfirmStep
      <3>2. Frame(r)
        BY <1>0, <1>3, <2>2, GoToFacts DEF Abandon, Frame, Fencing, Step, MessageStep, ConfirmStep
      <3>3. QED
        BY <1>0, <3>1, <3>2, FencingFramed
    <2>3. QED
      BY <1>3, <2>1, <2>2 DEF Abandon
  <1>4. ASSUME WithdrawBrief(r) PROVE Fencing'
    <2>1. FencedInvocation(r)'
      BY <1>0, <1>4, GoToFacts DEF WithdrawBrief, FencedInvocation, Step, MessageStep, ConfirmStep
    <2>2. Frame(r)
      BY <1>0, <1>4, GoToFacts DEF WithdrawBrief, Frame, Fencing, Step, MessageStep, ConfirmStep
    <2>3. QED
      BY <1>0, <2>1, <2>2, FencingFramed
  <1>5. ASSUME ListTurns(r) PROVE Fencing'
    <2>1. FencedInvocation(r)'
      BY <1>0, <1>5, ListFacts DEF FencedInvocation, Step, MessageStep, ConfirmStep
    <2>2. Frame(r)
      BY <1>0, <1>5, ListFacts DEF Frame, Fencing, Step, MessageStep, ConfirmStep
    <2>3. QED
      BY <1>0, <2>1, <2>2, FencingFramed
  <1>6. ASSUME ProposeBrief(r) PROVE Fencing'
    <2>1. FencedInvocation(r)'
      BY <1>0, <1>6, ProposeFacts DEF FencedInvocation, Step, MessageStep, ConfirmStep
    <2>2. Frame(r)
      BY <1>0, <1>6, ProposeFacts DEF Frame, Fencing, Step, MessageStep, ConfirmStep
    <2>3. QED
      BY <1>0, <2>1, <2>2, FencingFramed
  <1>7. ASSUME EngineAnswers(r) PROVE Fencing'
    <2>1. FencedInvocation(r)'
      BY <1>0, <1>7, AnswerFacts DEF FencedInvocation, Step, MessageStep, ConfirmStep
    <2>2. Frame(r)
      BY <1>0, <1>7, AnswerFacts DEF Frame, Fencing, Step, MessageStep, ConfirmStep
    <2>3. QED
      BY <1>0, <2>1, <2>2, FencingFramed
  <1>8. ASSUME CommitTurn(r) PROVE Fencing'
    <2>1. /\ \A q \in Request : q # r => request'[q] = request[q]
          /\ request'[r].step \in {"ended", "release"}
          /\ request'[r].turn = request[r].turn
          /\ request'[r].outcome \in {"done", "failed"}
      BY <1>0, <1>8, EndFacts, ReleaseFacts DEF CommitTurn, Outcome
    <2>2. UNCHANGED <<status, execution>>
      BY <1>8 DEF CommitTurn
    <2>3. CASE UNCHANGED <<turn, inFlight, transcript>>
      <3>1. FencedInvocation(r)'
        BY <1>0, <2>1, <2>2, <2>3 DEF FencedInvocation
      <3>2. Frame(r)
        BY <1>0, <2>1, <2>2, <2>3 DEF Frame, Fencing
      <3>3. QED
        BY <1>0, <3>1, <3>2, FencingFramed
    <2>4. CASE /\ turn' = turn + 1 /\ inFlight' = Nobody
               /\ transcript' = transcript \union {[turn |-> turn,
                                                    history |-> request[r].history]}
      <3>1. Past' = Past \union {turn}
        <4> DEFINE new == [turn |-> turn, history |-> request[r].history]
        <4>1. new.turn = turn /\ transcript' = transcript \union {new}
          BY <2>4
        <4>2. Past' = {past.turn : past \in transcript \union {new}}
          BY <4>1 DEF Past
        <4> HIDE DEF new
        <4>3. QED
          BY <4>1, <4>2 DEF Past
      <3>2. Past' = 0..turn'-1
        <4>1. turn \in Nat /\ turn' = turn + 1 /\ Past = 0..turn-1
          BY <1>0, <2>4
        <4>2. QED
          BY <4>1, <3>1
      <3>3. FencedInvocation(r)'
        BY <1>0, <2>1, <2>2, <2>4 DEF FencedInvocation
      <3>4. Frame(r)
        BY <1>0, <2>1, <2>2, <2>4, <3>2 DEF Frame, Fencing
      <3>5. QED
        BY <1>0, <3>3, <3>4, FencingFramed
    <2>5. QED
      BY <1>8, <2>3, <2>4 DEF CommitTurn, Fenced
  <1>9. ASSUME FailTurn(r) PROVE Fencing'
    <2>1. FencedInvocation(r)'
      BY <1>0, <1>9, ReleaseFacts DEF FailTurn, FencedInvocation, Step, MessageStep, ConfirmStep, Outcome
    <2>2. Frame(r)
      BY <1>0, <1>9, ReleaseFacts DEF FailTurn, Frame, Fencing, Step, MessageStep, ConfirmStep, Outcome
    <2>3. QED
      BY <1>0, <2>1, <2>2, FencingFramed
  <1>10. ASSUME ReleaseTurn(r) PROVE Fencing'
    <2>1. FencedInvocation(r)'
      BY <1>0, <1>10, EndFacts DEF ReleaseTurn, Fenced, FencedInvocation, Step, MessageStep, ConfirmStep, Outcome
    <2>2. Frame(r)
      BY <1>0, <1>10, EndFacts DEF ReleaseTurn, Fenced, Frame, Fencing, Step, MessageStep, ConfirmStep, Outcome
    <2>3. QED
      BY <1>0, <2>1, <2>2, FencingFramed
  <1>11. ASSUME ReleaseFails(r) PROVE Fencing'
    <2>1. FencedInvocation(r)'
      BY <1>0, <1>11, EndFacts DEF ReleaseFails, FencedInvocation, Step, MessageStep, ConfirmStep, Outcome
    <2>2. Frame(r)
      BY <1>0, <1>11, EndFacts DEF ReleaseFails, Frame, Fencing, Step, MessageStep, ConfirmStep, Outcome
    <2>3. QED
      BY <1>0, <2>1, <2>2, FencingFramed
  <1>12. ASSUME AbandonExhausted(r) PROVE Fencing'
    <2>1. FencedInvocation(r)'
      BY <1>0, <1>12, EndFacts DEF AbandonExhausted, MarkAbandoned, FencedInvocation, Step, MessageStep, ConfirmStep, Outcome
    <2>2. Frame(r)
      BY <1>0, <1>12, EndFacts DEF AbandonExhausted, MarkAbandoned, Frame, Fencing, Step, MessageStep, ConfirmStep, Outcome
    <2>3. QED
      BY <1>0, <2>1, <2>2, FencingFramed
  <1>13. ASSUME LookAtClosed(r) PROVE Fencing'
    <2>1. FencedInvocation(r)'
      BY <1>0, <1>13, EndFacts DEF LookAtClosed, FencedInvocation, Step, MessageStep, ConfirmStep, Outcome
    <2>2. Frame(r)
      BY <1>0, <1>13, EndFacts DEF LookAtClosed, Frame, Fencing, Step, MessageStep, ConfirmStep, Outcome
    <2>3. QED
      BY <1>0, <2>1, <2>2, FencingFramed
  <1>14. ASSUME PassGate(r) PROVE Fencing'
    <2>1. CASE GoTo(r, "create")
      <3>1. FencedInvocation(r)'
        BY <1>0, <1>14, <2>1, GoToFacts DEF PassGate, FencedInvocation, Step, MessageStep, ConfirmStep
      <3>2. Frame(r)
        BY <1>0, <1>14, <2>1, GoToFacts DEF PassGate, Frame, Fencing, Step, MessageStep, ConfirmStep
      <3>3. QED
        BY <1>0, <3>1, <3>2, FencingFramed
    <2>2. CASE ReleaseThen(r, "refused")
      <3>1. FencedInvocation(r)'
        BY <1>0, <1>14, <2>2, ReleaseFacts DEF PassGate, FencedInvocation, Step, MessageStep, ConfirmStep, Outcome
      <3>2. Frame(r)
        BY <1>0, <1>14, <2>2, ReleaseFacts DEF PassGate, Frame, Fencing, Step, MessageStep, ConfirmStep, Outcome
      <3>3. QED
        BY <1>0, <3>1, <3>2, FencingFramed
    <2>3. QED
      BY <1>14, <2>1, <2>2 DEF PassGate
  <1>15. ASSUME CreateJob(r) PROVE Fencing'
    <2>1. CASE GoTo(r, "start")
      <3>1. FencedInvocation(r)'
        BY <1>0, <1>15, <2>1, GoToFacts DEF CreateJob, FencedInvocation, Step, MessageStep, ConfirmStep
      <3>2. Frame(r)
        BY <1>0, <1>15, <2>1, GoToFacts DEF CreateJob, Frame, Fencing, Step, MessageStep, ConfirmStep
      <3>3. QED
        BY <1>0, <3>1, <3>2, FencingFramed
    <2>2. CASE GoTo(r, "lookup")
      <3>1. FencedInvocation(r)'
        BY <1>0, <1>15, <2>2, GoToFacts DEF CreateJob, FencedInvocation, Step, MessageStep, ConfirmStep
      <3>2. Frame(r)
        BY <1>0, <1>15, <2>2, GoToFacts DEF CreateJob, Frame, Fencing, Step, MessageStep, ConfirmStep
      <3>3. QED
        BY <1>0, <3>1, <3>2, FencingFramed
    <2>3. QED
      BY <1>15, <2>1, <2>2 DEF CreateJob
  <1>16. ASSUME LookUpJob(r) PROVE Fencing'
    <2>1. CASE GoTo(r, "start")
      <3>1. FencedInvocation(r)'
        BY <1>0, <1>16, <2>1, GoToFacts DEF LookUpJob, FencedInvocation, Step, MessageStep, ConfirmStep
      <3>2. Frame(r)
        BY <1>0, <1>16, <2>1, GoToFacts DEF LookUpJob, Frame, Fencing, Step, MessageStep, ConfirmStep
      <3>3. QED
        BY <1>0, <3>1, <3>2, FencingFramed
    <2>2. CASE ReleaseThen(r, "taken")
      <3>1. FencedInvocation(r)'
        BY <1>0, <1>16, <2>2, ReleaseFacts DEF LookUpJob, FencedInvocation, Step, MessageStep, ConfirmStep, Outcome
      <3>2. Frame(r)
        BY <1>0, <1>16, <2>2, ReleaseFacts DEF LookUpJob, Frame, Fencing, Step, MessageStep, ConfirmStep, Outcome
      <3>3. QED
        BY <1>0, <3>1, <3>2, FencingFramed
    <2>3. QED
      BY <1>16, <2>1, <2>2 DEF LookUpJob
  <1>17. ASSUME StartExecution(r) PROVE Fencing'
    <2>1. FencedInvocation(r)'
      BY <1>0, <1>17, GoToFacts DEF StartExecution, FencedInvocation, Step, MessageStep, ConfirmStep
    <2>2. Frame(r)
      BY <1>0, <1>17, GoToFacts DEF StartExecution, Frame, Fencing, Step, MessageStep, ConfirmStep
    <2>3. QED
      BY <1>0, <2>1, <2>2, FencingFramed
  <1>18. ASSUME StartFails(r) PROVE Fencing'
    <2>1. FencedInvocation(r)'
      BY <1>0, <1>18, ReleaseFacts DEF StartFails, FencedInvocation, Step, MessageStep, ConfirmStep, Outcome
    <2>2. Frame(r)
      BY <1>0, <1>18, ReleaseFacts DEF StartFails, Frame, Fencing, Step, MessageStep, ConfirmStep, Outcome
    <2>3. QED
      BY <1>0, <2>1, <2>2, FencingFramed
  <1>19. ASSUME CloseSession(r) PROVE Fencing'
    <2>1. CASE End(r, "confirmed") /\ status' = "FINALIZED" /\ inFlight' = Nobody
      <3>1. /\ \A q \in Request : q # r => request'[q] = request[q]
            /\ request'[r].step = "ended" /\ request'[r].outcome = "confirmed"
            /\ request'[r].turn = request[r].turn
        BY <1>0, <2>1, EndFacts DEF Outcome
      <3>2. /\ request[r].step = "close"
            /\ UNCHANGED <<turn, transcript, execution>>
        BY <1>19 DEF CloseSession
      <3>3. FencedInvocation(r)'
        BY <1>0, <2>1, <3>1, <3>2 DEF FencedInvocation
      <3>4. execution # "none" /\ Past' = 0..turn'-1
        BY <1>0, <3>2 DEF FencedInvocation
      <3>5. Frame(r)
        BY <2>1, <3>1, <3>2, <3>4 DEF Frame
      <3>6. QED
        BY <1>0, <3>3, <3>5, FencingFramed
    <2>2. CASE End(r, "rejected")
      <3>1. FencedInvocation(r)'
        BY <1>0, <1>19, <2>2, EndFacts DEF CloseSession, Fenced, FencedInvocation, Step, MessageStep, ConfirmStep, Outcome
      <3>2. Frame(r)
        BY <1>0, <1>19, <2>2, EndFacts DEF CloseSession, Fenced, Frame, Fencing, Step, MessageStep, ConfirmStep, Outcome
      <3>3. QED
        BY <1>0, <3>1, <3>2, FencingFramed
    <2>3. QED
      BY <1>19, <2>1, <2>2 DEF CloseSession
  <1>20. ASSUME AbandonSession(r) PROVE Fencing'
    <2>1. FencedInvocation(r)'
      BY <1>0, <1>20, EndFacts DEF AbandonSession, MarkAbandoned, FencedInvocation, Step, MessageStep, ConfirmStep, Outcome
    <2>2. Frame(r)
      BY <1>0, <1>20, EndFacts DEF AbandonSession, MarkAbandoned, Frame, Fencing, Step, MessageStep, ConfirmStep, Outcome
    <2>3. QED
      BY <1>0, <2>1, <2>2, FencingFramed
  <1>21. ASSUME Die(r) PROVE Fencing'
    <2>1. FencedInvocation(r)'
      BY <1>0, <1>21, EndFacts DEF Die, FencedInvocation, Step, MessageStep, ConfirmStep, Outcome
    <2>2. Frame(r)
      BY <1>0, <1>21, EndFacts DEF Die, Frame, Fencing, Step, MessageStep, ConfirmStep, Outcome
    <2>3. QED
      BY <1>0, <2>1, <2>2, FencingFramed
  <1> QED
    BY <1>1, <1>2, <1>3, <1>4, <1>5, <1>6, <1>7, <1>8, <1>9, <1>10, <1>11, <1>12, <1>13, <1>14, <1>15, <1>16, <1>17, <1>18, <1>19, <1>20, <1>21 DEF Arrive, Invoked

\* A session that was just opened.
LEMMA FencingInit ==
    ASSUME SessionInit
    PROVE  Fencing
  <1> USE SessionAssumption DEF SessionInit
  <1>1. Unborn \in Invocation
    BY DEF Unborn, Invocation, Step, Outcome
  <1>2. SessionTypeOK
    <2>1. [r \in Request |-> Unborn] \in [Request -> Invocation]
      BY <1>1
    <2>2. 0 \in 0..MaxTurns
      OBVIOUS
    <2>3. QED
      BY <2>1, <2>2 DEF SessionTypeOK
  <1>3. Past = 0..turn-1
    BY DEF Past
  <1>4. ASSUME NEW r \in Request PROVE FencedInvocation(r)
    <2>1. request[r] = Unborn
      BY <1>4
    <2>2. QED
      BY <2>1 DEF FencedInvocation, Unborn, At
  <1>5. QED
    BY <1>2, <1>3, <1>4 DEF Fencing

\* The two steps that are no invocation's, and the stuttering step.
LEMMA FencingElsewhere ==
    ASSUME Fencing,
           ClaimGoesStale \/ ExecutionStep \/ UNCHANGED sessionVars
    PROVE  Fencing'
  <1> USE SessionAssumption DEF headerVars, jobVars, sessionVars
  <1>1. /\ UNCHANGED <<status, turn, inFlight, transcript, request>>
        /\ execution # "none" => execution' # "none"
    BY DEF ClaimGoesStale, ExecutionStep
  <1>2. SessionTypeOK'
    <2>1. SessionTypeOK
      BY DEF Fencing
    <2>2. CASE ClaimGoesStale
      BY <2>1, <2>2 DEF SessionTypeOK, ClaimGoesStale
    <2>3. CASE ExecutionStep
      BY <2>1, <2>3 DEF SessionTypeOK, ExecutionStep
    <2>4. CASE UNCHANGED sessionVars
      BY <2>1, <2>4 DEF SessionTypeOK
    <2>5. QED
      BY <2>2, <2>3, <2>4
  <1>3. Past' = Past
    BY <1>1 DEF Past
  <1>4. ASSUME NEW r \in Request PROVE FencedInvocation(r)'
    <2>1. FencedInvocation(r)
      BY DEF Fencing
    <2>2. QED
      BY <1>1, <2>1 DEF FencedInvocation, At
  <1>5. QED
    BY <1>1, <1>2, <1>3, <1>4 DEF Fencing, SessionTypeOK

\* Whatever an invocation's lifetime: the types, the committed turns without a
\* gap, and no confirmed session without an execution.
THEOREM FencingInvariant == SessionSpec => []Fencing
  <1>1. SessionInit => Fencing
    BY FencingInit
  <1>2. Fencing /\ [SessionNext]_sessionVars => Fencing'
    BY FencingStep, FencingElsewhere DEF SessionNext
  <1>3. QED
    BY <1>1, <1>2, PTL DEF SessionSpec

\* The header, the job and every invocation are what the code can make them.
THEOREM SessionTyped == SessionSpec => []SessionTypeOK
  <1>1. Fencing => SessionTypeOK
    BY DEF Fencing
  <1>2. QED
    BY <1>1, FencingInvariant, PTL

\* A confirmation that answered with the job's id answered for an execution
\* that was started, even by an invocation whose claim was taken over.
THEOREM ConfirmationStarted == SessionSpec => []ConfirmedIsStarted
  <1>1. Fencing => ConfirmedIsStarted
    BY DEF Fencing, FencedInvocation, ConfirmedIsStarted
  <1>2. QED
    BY <1>1, FencingInvariant, PTL

(***************************************************************************)
(* The refinement: what a listener sees is one conversation.               *)
(***************************************************************************)

\* A commit is a turn spoken, on all the turns before it, or nothing.
LEMMA CommitSpeaks ==
    ASSUME Fencing, NEW r \in Request, CommitTurn(r)
    PROVE  Promise!Speak \/ UNCHANGED <<status, turn, transcript>>
  <1> USE SessionAssumption
  <1>1. /\ Past = 0..turn-1 /\ turn \in 0..MaxTurns
        /\ inFlight # Nobody => status = "ACTIVE"
        /\ request[r].step = "commit"
        /\ request[r].turn < MaxTurns
        /\ request[r].turn = turn => request[r].history = 0..turn-1
    BY DEF Fencing, SessionTypeOK, FencedInvocation, CommitTurn, At
  <1>2. CASE /\ Fenced(r) /\ turn' = turn + 1
             /\ transcript' = transcript \union {[turn |-> request[r].turn,
                                                  history |-> request[r].history]}
    <2>1. /\ status = "ACTIVE" /\ turn < MaxTurns /\ request[r].turn = turn
          /\ request[r].history = Past
      BY <1>1, <1>2 DEF Fenced
    <2>2. UNCHANGED status
      BY DEF CommitTurn
    <2>3. QED
      BY <1>2, <2>1, <2>2 DEF Promise!Speak, Past
  <1>3. CASE UNCHANGED <<turn, transcript>>
    BY <1>3 DEF CommitTurn
  <1>4. QED
    BY <1>2, <1>3 DEF CommitTurn

\* Every step is one of the conversation, or nothing the listener sees.
LEMMA ConversationStep ==
    ASSUME Fencing, [SessionNext]_sessionVars
    PROVE  [Promise!Speak \/ Promise!Close]_(Promise!conversationVars)
  <1> USE DEF headerVars, jobVars, Promise!conversationVars
  <1>1. ASSUME NEW r \in Request, Arrive(r)
        PROVE  UNCHANGED <<status, turn, transcript>>
    BY <1>1 DEF Arrive, PostTurn, Confirm, Abandon, Claim, Rejected
  <1>2. ASSUME NEW r \in Request, Invoked(r)
        PROVE  \/ Promise!Speak \/ Promise!Close
               \/ UNCHANGED <<status, turn, transcript>>
    <2>1. CASE CommitTurn(r)
      BY <2>1, CommitSpeaks
    <2>2. CASE AbandonExhausted(r) \/ AbandonSession(r)
      BY <2>2 DEF AbandonExhausted, AbandonSession, MarkAbandoned, Promise!Close
    <2>3. CASE CloseSession(r)
      BY <2>3 DEF CloseSession, Promise!Close
    <2>4. CASE \/ WithdrawBrief(r) \/ ListTurns(r) \/ ProposeBrief(r)
               \/ EngineAnswers(r) \/ FailTurn(r)
      BY <2>4 DEF WithdrawBrief, ListTurns, ProposeBrief, EngineAnswers, FailTurn
    <2>5. CASE ReleaseTurn(r) \/ ReleaseFails(r) \/ LookAtClosed(r)
      BY <2>5 DEF ReleaseTurn, ReleaseFails, LookAtClosed
    <2>6. CASE \/ PassGate(r) \/ CreateJob(r) \/ LookUpJob(r)
               \/ StartExecution(r) \/ StartFails(r)
      BY <2>6 DEF PassGate, CreateJob, LookUpJob, StartExecution, StartFails
    <2>7. QED
      BY <1>2, <2>1, <2>2, <2>3, <2>4, <2>5, <2>6 DEF Invoked
  <1>3. ASSUME NEW r \in Request, Die(r)
        PROVE  UNCHANGED <<status, turn, transcript>>
    BY <1>3 DEF Die
  <1>4. CASE ClaimGoesStale \/ ExecutionStep \/ UNCHANGED sessionVars
    BY <1>4 DEF ClaimGoesStale, ExecutionStep, sessionVars
  <1>5. QED
    BY <1>1, <1>2, <1>3, <1>4 DEF SessionNext

\* The listener sees one conversation, whatever is resent, taken over, killed
\* or answered late.
THEOREM SessionImplementsConversation == SessionSpec => ImplementsConversation
  <1>1. SessionInit => Promise!ConversationInit
    BY DEF SessionInit, Promise!ConversationInit
  <1>2. Fencing /\ [SessionNext]_sessionVars
            => [Promise!Speak \/ Promise!Close]_(Promise!conversationVars)
    BY ConversationStep
  <1>3. QED
    BY <1>1, <1>2, FencingInvariant, PTL
       DEF SessionSpec, ImplementsConversation, Promise!ConversationSpec

(***************************************************************************)
(* Where no invocation outlives the stale-claim window, the claim is that  *)
(* of the one invocation at work.                                          *)
(***************************************************************************)

\* Steps that leave the header and the proposal alone.
LEMMA ClaimingKept ==
    ASSUME Claiming, NEW r \in Request,
           \A q \in Request : q # r => request'[q] = request[q],
           UNCHANGED <<headerVars, pendingBrief, withdrawer>>,
           ClaimingInvocation(r)'
    PROVE  Claiming'
  <1>1. ASSUME NEW q \in Request, q # r PROVE ClaimingInvocation(q)'
    <2>1. ClaimingInvocation(q) /\ request'[q] = request[q]
      BY <1>1 DEF Claiming
    <2>2. QED
      BY <2>1 DEF ClaimingInvocation, Working, At, headerVars
  <1>2. QED
    BY <1>1 DEF Claiming

\* Steps that end the session, or give up a claim that is their own.
LEMMA ClaimingDropped ==
    ASSUME Fencing, Claiming, NEW r \in Request,
           \A q \in Request : q # r => request'[q] = request[q],
           inFlight = r \/ status' # "ACTIVE",
           inFlight' = Nobody, turn' \in {turn, turn + 1},
           status' = "ACTIVE" => status = "ACTIVE",
           pendingBrief' \in {pendingBrief, Nobody}, UNCHANGED withdrawer,
           \/ request'[r].step = "ended"
           \/ request'[r].step = "release" /\ request'[r].turn # turn'
    PROVE  Claiming'
  <1> USE SessionAssumption
  <1>1. ASSUME NEW q \in Request, q # r, status' = "ACTIVE"
        PROVE  ~(Working(q) /\ (At(q, "release") => request[q].turn = turn))'
    <2>1. /\ ClaimingInvocation(q) /\ inFlight = r /\ status = "ACTIVE"
          /\ request'[q] = request[q]
      BY <1>1 DEF Claiming
    <2>2. ~Working(q) \/ (At(q, "release") /\ request[q].turn # turn)
      BY <1>1, <2>1 DEF ClaimingInvocation
    <2>3. request[q].turn \in Nat /\ turn \in Nat /\ request[q].turn <= turn
      BY DEF Fencing, FencedInvocation, SessionTypeOK, Invocation
    <2>4. QED
      BY <2>1, <2>2, <2>3 DEF Working, At
  <1>2. ASSUME NEW q \in Request PROVE ClaimingInvocation(q)'
    <2>1. CASE q = r
      BY <2>1 DEF ClaimingInvocation, Working, At, MessageStep, ConfirmStep
    <2>2. CASE q # r
      BY <1>1, <2>2 DEF ClaimingInvocation, Working, At, MessageStep
    <2>3. QED
      BY <2>1, <2>2
  <1>3. pendingBrief' \in {Nobody, withdrawer'}
    BY DEF Claiming
  <1>4. QED
    BY <1>2, <1>3 DEF Claiming

\* Taking a claim that nobody works under.
LEMMA ClaimingTaken ==
    ASSUME Fencing, Claiming, NEW r \in Request,
           NEW s \in {"withdraw", "exhausted", "release", "gate"},
           NEW o \in {"none", "exhausted", "nothing"}, Claim(r, s, o),
           s = "gate" => pendingBrief # Nobody
    PROVE  Claiming'
  <1> USE SessionAssumption
  <1>1. s \in Step /\ o \in Outcome
    BY DEF Step, MessageStep, ConfirmStep, Outcome
  <1>2. /\ \A q \in Request : q # r => request'[q] = request[q]
        /\ request'[r].step = s /\ request'[r].turn = turn
        /\ Claimable /\ inFlight' = r /\ claimStale' = FALSE
        /\ UNCHANGED <<status, turn, pendingBrief, withdrawer>>
    BY <1>1, ClaimFacts DEF Fencing, SessionTypeOK
  <1>3. ClaimingInvocation(r)'
    BY <1>2 DEF ClaimingInvocation, Working, At, MessageStep, ConfirmStep
  <1>4. ASSUME NEW q \in Request, q # r PROVE ClaimingInvocation(q)'
    <2>1. ClaimingInvocation(q) /\ request'[q] = request[q]
      BY <1>2, <1>4 DEF Claiming
    <2>2. /\ ~(Working(q) /\ (At(q, "release") => request[q].turn = turn))
          /\ status = "ACTIVE"
      BY <1>2, <2>1 DEF ClaimingInvocation, Claimable, Working, At,
                        MessageStep, ConfirmStep
    <2>3. request[q].step \notin {"list", "engine", "commit"}
      BY <2>2 DEF Working, At, MessageStep
    <2>4. QED
      BY <1>2, <1>4, <2>1, <2>2, <2>3 DEF ClaimingInvocation, Working, At
  <1>5. QED
    BY <1>2, <1>3, <1>4 DEF Claiming

\* Every step of an invocation keeps the claiming invariant.
LEMMA ClaimingStep ==
    ASSUME Fencing, Claiming, NEW r \in Request, Arrive(r) \/ Invoked(r) \/ Die(r)
    PROVE  Claiming'
  <1> USE SessionAssumption DEF DropClaim, headerVars, At
  <1>0. /\ Fencing /\ Claiming /\ ClaimingInvocation(r)
        /\ request \in [Request -> Invocation]
        /\ request[r].outcome \in Outcome
        /\ turn \in 0..MaxTurns /\ Past \subseteq 0..MaxTurns-1
        /\ inFlight # Nobody => status = "ACTIVE"
        /\ claimStale \in BOOLEAN
    BY DEF Fencing, Claiming, SessionTypeOK, Invocation
  <1>1. ASSUME PostTurn(r) PROVE Claiming'
    <2>1. CASE turn < MaxTurns /\ Claim(r, "withdraw", "none")
      BY <1>0, <2>1, ClaimingTaken
    <2>2. CASE Claim(r, "release", "exhausted")
      BY <1>0, <2>2, ClaimingTaken
    <2>3. CASE Claim(r, "exhausted", "none")
      BY <1>0, <2>3, ClaimingTaken
    <2>4. CASE Rejected(r, End(r, "busy"))
      <3>1. /\ \A q \in Request : q # r => request'[q] = request[q]
            /\ request'[r].step = "ended" /\ request'[r].outcome = "busy"
            /\ request'[r].turn = request[r].turn
        BY <1>0, <1>1, <2>4, EndFacts DEF Outcome, PostTurn, Rejected
      <3>2. request[r].step = "idle" /\ UNCHANGED <<headerVars, pendingBrief, withdrawer>>
        BY <1>0, <1>1, <2>4 DEF PostTurn, Rejected
      <3>3. ClaimingInvocation(r)'
        BY <1>0, <3>1, <3>2 DEF ClaimingInvocation, Working, MessageStep, ConfirmStep
      <3>4. QED
        BY <1>0, <3>1, <3>2, <3>3, ClaimingKept
    <2>5. QED
      BY <1>1, <2>1, <2>2, <2>3, <2>4 DEF PostTurn
  <1>2. ASSUME Confirm(r) PROVE Claiming'
    <2>1. CASE pendingBrief # Nobody /\ Claim(r, "gate", "none")
      BY <1>0, <2>1, ClaimingTaken
    <2>2. CASE Claim(r, "release", "nothing")
      BY <1>0, <2>2, ClaimingTaken
    <2>3. CASE Rejected(r, GoTo(r, "look"))
      <3>1. /\ \A q \in Request : q # r => request'[q] = request[q]
            /\ request'[r].step = "look"
            /\ request'[r].turn = request[r].turn
        BY <1>0, <1>2, <2>3, GoToFacts DEF Step, MessageStep, ConfirmStep, Confirm, Rejected
      <3>2. request[r].step = "idle" /\ UNCHANGED <<headerVars, pendingBrief, withdrawer>>
        BY <1>0, <1>2, <2>3 DEF Confirm, Rejected
      <3>3. ClaimingInvocation(r)'
        BY <1>0, <3>1, <3>2 DEF ClaimingInvocation, Working, MessageStep, ConfirmStep
      <3>4. QED
        BY <1>0, <3>1, <3>2, <3>3, ClaimingKept
    <2>4. QED
      BY <1>2, <2>1, <2>2, <2>3 DEF Confirm
  <1>3. ASSUME Abandon(r) PROVE Claiming'
    <2>1. CASE End(r, "already_finalized")
      <3>1. /\ \A q \in Request : q # r => request'[q] = request[q]
            /\ request'[r].step = "ended" /\ request'[r].outcome = "already_finalized"
            /\ request'[r].turn = request[r].turn
        BY <1>0, <1>3, <2>1, EndFacts DEF Outcome, Abandon
      <3>2. request[r].step = "idle" /\ UNCHANGED <<headerVars, pendingBrief, withdrawer>>
        BY <1>0, <1>3, <2>1 DEF Abandon
      <3>3. ClaimingInvocation(r)'
        BY <1>0, <3>1, <3>2 DEF ClaimingInvocation, Working, MessageStep, ConfirmStep
      <3>4. QED
        BY <1>0, <3>1, <3>2, <3>3, ClaimingKept
    <2>2. CASE GoTo(r, "mark")
      <3>1. /\ \A q \in Request : q # r => request'[q] = request[q]
            /\ request'[r].step = "mark"
            /\ request'[r].turn = request[r].turn
        BY <1>0, <1>3, <2>2, GoToFacts DEF Step, MessageStep, ConfirmStep, Abandon
      <3>2. request[r].step = "idle" /\ UNCHANGED <<headerVars, pendingBrief, withdrawer>>
        BY <1>0, <1>3, <2>2 DEF Abandon
      <3>3. ClaimingInvocation(r)'
        BY <1>0, <3>1, <3>2 DEF ClaimingInvocation, Working, MessageStep, ConfirmStep
      <3>4. QED
        BY <1>0, <3>1, <3>2, <3>3, ClaimingKept
    <2>3. QED
      BY <1>3, <2>1, <2>2 DEF Abandon
  <1>4. ASSUME WithdrawBrief(r) PROVE Claiming'
    <2>1. /\ \A q \in Request : q # r => request'[q] = request[q]
          /\ request'[r].step = "list" /\ request'[r].turn = request[r].turn
      BY <1>0, <1>4, GoToFacts DEF WithdrawBrief, Step, MessageStep
    <2>2. /\ request[r].step = "withdraw" /\ pendingBrief' = Nobody
          /\ withdrawer' = r /\ UNCHANGED headerVars
      BY <1>4 DEF WithdrawBrief
    <2>3. ASSUME NEW q \in Request PROVE ClaimingInvocation(q)'
      <3>1. ClaimingInvocation(q) /\ (status = "ACTIVE" => inFlight = r)
        BY <1>0, <2>2 DEF Claiming, ClaimingInvocation, Working, MessageStep
      <3>2. CASE q = r
        BY <1>0, <2>1, <2>2, <3>2 DEF ClaimingInvocation, Working, MessageStep, ConfirmStep
      <3>3. CASE q # r
        <4>1. request'[q] = request[q]
          BY <2>1, <3>3
        <4>2. inFlight # q
          BY <1>0, <3>1, <3>3
        <4>3. status = "ACTIVE" => request[q].step \notin {"list", "engine", "commit"}
          BY <3>1, <4>2 DEF ClaimingInvocation, Working, MessageStep
        <4>4. QED
          BY <2>2, <3>1, <4>1, <4>2, <4>3 DEF ClaimingInvocation, Working
      <3>4. QED
        BY <3>2, <3>3
    <2>4. QED
      BY <2>2, <2>3 DEF Claiming
  <1>5. ASSUME ListTurns(r) PROVE Claiming'
    <2>1. /\ \A q \in Request : q # r => request'[q] = request[q]
          /\ request'[r].step = "engine"
          /\ request'[r].turn = request[r].turn
      BY <1>0, <1>5, ListFacts
    <2>2. request[r].step = "list" /\ UNCHANGED <<headerVars, pendingBrief, withdrawer>>
      BY <1>0, <1>5, ListFacts DEF jobVars
    <2>3. ClaimingInvocation(r)'
      BY <1>0, <2>1, <2>2 DEF ClaimingInvocation, Working, MessageStep, ConfirmStep
    <2>4. QED
      BY <1>0, <2>1, <2>2, <2>3, ClaimingKept
  <1>6. ASSUME ProposeBrief(r) PROVE Claiming'
    <2>1. /\ \A q \in Request : q # r => request'[q] = request[q]
          /\ request[r].step = "engine" /\ request'[r].step = "engine"
          /\ request'[r].turn = request[r].turn
          /\ status = "ACTIVE" /\ pendingBrief' = r
          /\ UNCHANGED <<headerVars, withdrawer>>
      BY <1>0, <1>6, ProposeFacts
    <2>2. withdrawer = r
      BY <1>0, <2>1 DEF ClaimingInvocation
    <2>3. ASSUME NEW q \in Request PROVE ClaimingInvocation(q)'
      <3>1. CASE q = r
        BY <1>0, <2>1, <3>1 DEF ClaimingInvocation, Working, MessageStep, ConfirmStep
      <3>2. CASE q # r
        <4>1. ClaimingInvocation(q) /\ request'[q] = request[q]
          BY <1>0, <2>1, <3>2 DEF Claiming
        <4>2. QED
          BY <2>1, <4>1 DEF ClaimingInvocation, Working
      <3>3. QED
        BY <3>1, <3>2
    <2>4. QED
      BY <2>1, <2>2, <2>3 DEF Claiming
  <1>7. ASSUME EngineAnswers(r) PROVE Claiming'
    <2>1. /\ \A q \in Request : q # r => request'[q] = request[q]
          /\ request'[r].step = "commit"
          /\ request'[r].turn = request[r].turn
      BY <1>0, <1>7, AnswerFacts
    <2>2. request[r].step = "engine" /\ UNCHANGED <<headerVars, pendingBrief, withdrawer>>
      BY <1>0, <1>7, AnswerFacts DEF jobVars
    <2>3. ClaimingInvocation(r)'
      BY <1>0, <2>1, <2>2 DEF ClaimingInvocation, Working, MessageStep, ConfirmStep
    <2>4. QED
      BY <1>0, <2>1, <2>2, <2>3, ClaimingKept
  <1>8. ASSUME CommitTurn(r) PROVE Claiming'
    <2>1. /\ \A q \in Request : q # r => request'[q] = request[q]
          /\ request'[r].step \in {"ended", "release"}
          /\ request'[r].turn = request[r].turn
      BY <1>0, <1>8, EndFacts, ReleaseFacts DEF CommitTurn, Outcome
    <2>2. request[r].step = "commit" /\ UNCHANGED <<status, pendingBrief, withdrawer>>
      BY <1>8 DEF CommitTurn
    <2>3. CASE Fenced(r) /\ turn' = turn + 1 /\ inFlight' = Nobody
      <3>1. inFlight = r
        BY <1>0, <2>2, <2>3 DEF Fenced, ClaimingInvocation, Working, MessageStep
      <3>2. turn \in Nat /\ request'[r].turn # turn'
        BY <1>0, <2>1, <2>3 DEF Fenced
      <3>3. QED
        BY <1>0, <2>1, <2>2, <2>3, <3>1, <3>2, ClaimingDropped
    <2>4. CASE ReleaseThen(r, "failed") /\ UNCHANGED <<turn, inFlight, claimStale>>
      <3>1. request'[r].step = "release"
        BY <1>0, <2>4, ReleaseFacts DEF Outcome
      <3>2. ClaimingInvocation(r)'
        BY <1>0, <2>1, <2>2, <2>4, <3>1 DEF ClaimingInvocation, Working,
                                            MessageStep, ConfirmStep
      <3>3. QED
        BY <1>0, <2>1, <2>2, <2>4, <3>2, ClaimingKept
    <2>5. QED
      BY <1>8, <2>3, <2>4 DEF CommitTurn
  <1>9. ASSUME FailTurn(r) PROVE Claiming'
    <2>1. /\ \A q \in Request : q # r => request'[q] = request[q]
          /\ request'[r].step = "release"
          /\ request'[r].turn = request[r].turn
      BY <1>0, <1>9, ReleaseFacts DEF Outcome, FailTurn
    <2>2. request[r].step \in {"withdraw", "list", "engine", "commit"} /\ UNCHANGED <<headerVars, pendingBrief, withdrawer>>
      BY <1>0, <1>9 DEF FailTurn
    <2>3. ClaimingInvocation(r)'
      BY <1>0, <2>1, <2>2 DEF ClaimingInvocation, Working, MessageStep, ConfirmStep
    <2>4. QED
      BY <1>0, <2>1, <2>2, <2>3, ClaimingKept
  <1>10. ASSUME ReleaseTurn(r) PROVE Claiming'
    <2>1. /\ \A q \in Request : q # r => request'[q] = request[q]
          /\ request'[r].step = "ended" /\ request'[r].turn = request[r].turn
      BY <1>0, <1>10, EndFacts DEF ReleaseTurn
    <2>2. /\ request[r].step = "release"
          /\ UNCHANGED <<status, turn, pendingBrief, withdrawer>>
      BY <1>10 DEF ReleaseTurn
    <2>3. CASE Fenced(r) /\ inFlight' = Nobody
      <3>1. inFlight = r
        BY <1>0, <2>2, <2>3 DEF Fenced, ClaimingInvocation, Working
      <3>2. QED
        BY <1>0, <2>1, <2>2, <2>3, <3>1, ClaimingDropped
    <2>4. CASE ~Fenced(r) /\ UNCHANGED <<inFlight, claimStale>>
      <3>1. inFlight # r
        BY <1>0, <2>4 DEF Fenced, ClaimingInvocation
      <3>2. ClaimingInvocation(r)'
        BY <2>1, <2>2, <2>4, <3>1 DEF ClaimingInvocation, Working,
                                       MessageStep, ConfirmStep
      <3>3. QED
        BY <1>0, <2>1, <2>2, <2>4, <3>2, ClaimingKept
    <2>5. QED
      BY <1>10, <2>3, <2>4 DEF ReleaseTurn
  <1>11. ASSUME ReleaseFails(r) PROVE Claiming'
    <2>1. /\ \A q \in Request : q # r => request'[q] = request[q]
          /\ request'[r].step = "ended" /\ request'[r].outcome = "unreleased"
          /\ request'[r].turn = request[r].turn
      BY <1>0, <1>11, EndFacts DEF Outcome, ReleaseFails
    <2>2. request[r].step = "release" /\ UNCHANGED <<headerVars, pendingBrief, withdrawer>>
      BY <1>0, <1>11 DEF ReleaseFails
    <2>3. ClaimingInvocation(r)'
      BY <1>0, <2>1, <2>2 DEF ClaimingInvocation, Working, MessageStep, ConfirmStep
    <2>4. QED
      BY <1>0, <2>1, <2>2, <2>3, ClaimingKept
  <1>12. ASSUME AbandonExhausted(r) PROVE Claiming'
    <2>1. /\ \A q \in Request : q # r => request'[q] = request[q]
          /\ request'[r].step = "ended" /\ request'[r].turn = request[r].turn
      BY <1>0, <1>12, EndFacts DEF AbandonExhausted, MarkAbandoned, Outcome
    <2>2. UNCHANGED <<turn, pendingBrief, withdrawer>>
      BY <1>12 DEF AbandonExhausted, MarkAbandoned
    <2>3. CASE status' = "ABANDONED" /\ inFlight' = Nobody
      BY <1>0, <2>1, <2>2, <2>3, ClaimingDropped
    <2>4. CASE status # "ACTIVE" /\ UNCHANGED <<status, inFlight, claimStale>>
      <3>1. ClaimingInvocation(r)'
        BY <1>0, <2>1, <2>2, <2>4 DEF ClaimingInvocation
      <3>2. QED
        BY <1>0, <2>1, <2>2, <2>4, <3>1, ClaimingKept
    <2>5. QED
      BY <1>12, <2>3, <2>4 DEF AbandonExhausted, MarkAbandoned
  <1>13. ASSUME LookAtClosed(r) PROVE Claiming'
    <2>1. /\ \A q \in Request : q # r => request'[q] = request[q]
          /\ request'[r].step = "ended"
          /\ request'[r].turn = request[r].turn
      BY <1>0, <1>13, EndFacts DEF Outcome, LookAtClosed
    <2>2. request[r].step = "look" /\ UNCHANGED <<headerVars, pendingBrief, withdrawer>>
      BY <1>0, <1>13 DEF LookAtClosed
    <2>3. ClaimingInvocation(r)'
      BY <1>0, <2>1, <2>2 DEF ClaimingInvocation, Working, MessageStep, ConfirmStep
    <2>4. QED
      BY <1>0, <2>1, <2>2, <2>3, ClaimingKept
  <1>14. ASSUME PassGate(r) PROVE Claiming'
    <2>1. CASE GoTo(r, "create")
      <3>1. /\ \A q \in Request : q # r => request'[q] = request[q]
            /\ request'[r].step = "create"
            /\ request'[r].turn = request[r].turn
        BY <1>0, <1>14, <2>1, GoToFacts DEF Step, MessageStep, ConfirmStep, PassGate
      <3>2. request[r].step = "gate" /\ UNCHANGED <<headerVars, pendingBrief, withdrawer>>
        BY <1>0, <1>14, <2>1 DEF PassGate
      <3>3. ClaimingInvocation(r)'
        BY <1>0, <3>1, <3>2 DEF ClaimingInvocation, Working, MessageStep, ConfirmStep
      <3>4. QED
        BY <1>0, <3>1, <3>2, <3>3, ClaimingKept
    <2>2. CASE ReleaseThen(r, "refused")
      <3>1. /\ \A q \in Request : q # r => request'[q] = request[q]
            /\ request'[r].step = "release"
            /\ request'[r].turn = request[r].turn
        BY <1>0, <1>14, <2>2, ReleaseFacts DEF Outcome, PassGate
      <3>2. request[r].step = "gate" /\ UNCHANGED <<headerVars, pendingBrief, withdrawer>>
        BY <1>0, <1>14, <2>2 DEF PassGate
      <3>3. ClaimingInvocation(r)'
        BY <1>0, <3>1, <3>2 DEF ClaimingInvocation, Working, MessageStep, ConfirmStep
      <3>4. QED
        BY <1>0, <3>1, <3>2, <3>3, ClaimingKept
    <2>3. QED
      BY <1>14, <2>1, <2>2 DEF PassGate
  <1>15. ASSUME CreateJob(r) PROVE Claiming'
    <2>1. CASE GoTo(r, "start")
      <3>1. /\ \A q \in Request : q # r => request'[q] = request[q]
            /\ request'[r].step = "start"
            /\ request'[r].turn = request[r].turn
        BY <1>0, <1>15, <2>1, GoToFacts DEF Step, MessageStep, ConfirmStep, CreateJob
      <3>2. request[r].step = "create" /\ UNCHANGED <<headerVars, pendingBrief, withdrawer>>
        BY <1>0, <1>15, <2>1 DEF CreateJob
      <3>3. ClaimingInvocation(r)'
        BY <1>0, <3>1, <3>2 DEF ClaimingInvocation, Working, MessageStep, ConfirmStep
      <3>4. QED
        BY <1>0, <3>1, <3>2, <3>3, ClaimingKept
    <2>2. CASE GoTo(r, "lookup")
      <3>1. /\ \A q \in Request : q # r => request'[q] = request[q]
            /\ request'[r].step = "lookup"
            /\ request'[r].turn = request[r].turn
        BY <1>0, <1>15, <2>2, GoToFacts DEF Step, MessageStep, ConfirmStep, CreateJob
      <3>2. request[r].step = "create" /\ UNCHANGED <<headerVars, pendingBrief, withdrawer>>
        BY <1>0, <1>15, <2>2 DEF CreateJob
      <3>3. ClaimingInvocation(r)'
        BY <1>0, <3>1, <3>2 DEF ClaimingInvocation, Working, MessageStep, ConfirmStep
      <3>4. QED
        BY <1>0, <3>1, <3>2, <3>3, ClaimingKept
    <2>3. QED
      BY <1>15, <2>1, <2>2 DEF CreateJob
  <1>16. ASSUME LookUpJob(r) PROVE Claiming'
    <2>1. CASE GoTo(r, "start")
      <3>1. /\ \A q \in Request : q # r => request'[q] = request[q]
            /\ request'[r].step = "start"
            /\ request'[r].turn = request[r].turn
        BY <1>0, <1>16, <2>1, GoToFacts DEF Step, MessageStep, ConfirmStep, LookUpJob
      <3>2. request[r].step = "lookup" /\ UNCHANGED <<headerVars, pendingBrief, withdrawer>>
        BY <1>0, <1>16, <2>1 DEF LookUpJob
      <3>3. ClaimingInvocation(r)'
        BY <1>0, <3>1, <3>2 DEF ClaimingInvocation, Working, MessageStep, ConfirmStep
      <3>4. QED
        BY <1>0, <3>1, <3>2, <3>3, ClaimingKept
    <2>2. CASE ReleaseThen(r, "taken")
      <3>1. /\ \A q \in Request : q # r => request'[q] = request[q]
            /\ request'[r].step = "release"
            /\ request'[r].turn = request[r].turn
        BY <1>0, <1>16, <2>2, ReleaseFacts DEF Outcome, LookUpJob
      <3>2. request[r].step = "lookup" /\ UNCHANGED <<headerVars, pendingBrief, withdrawer>>
        BY <1>0, <1>16, <2>2 DEF LookUpJob
      <3>3. ClaimingInvocation(r)'
        BY <1>0, <3>1, <3>2 DEF ClaimingInvocation, Working, MessageStep, ConfirmStep
      <3>4. QED
        BY <1>0, <3>1, <3>2, <3>3, ClaimingKept
    <2>3. QED
      BY <1>16, <2>1, <2>2 DEF LookUpJob
  <1>17. ASSUME StartExecution(r) PROVE Claiming'
    <2>1. /\ \A q \in Request : q # r => request'[q] = request[q]
          /\ request'[r].step = "close"
          /\ request'[r].turn = request[r].turn
      BY <1>0, <1>17, GoToFacts DEF Step, MessageStep, ConfirmStep, StartExecution
    <2>2. request[r].step = "start" /\ UNCHANGED <<headerVars, pendingBrief, withdrawer>>
      BY <1>0, <1>17 DEF StartExecution
    <2>3. ClaimingInvocation(r)'
      BY <1>0, <2>1, <2>2 DEF ClaimingInvocation, Working, MessageStep, ConfirmStep
    <2>4. QED
      BY <1>0, <2>1, <2>2, <2>3, ClaimingKept
  <1>18. ASSUME StartFails(r) PROVE Claiming'
    <2>1. /\ \A q \in Request : q # r => request'[q] = request[q]
          /\ request'[r].step = "release"
          /\ request'[r].turn = request[r].turn
      BY <1>0, <1>18, ReleaseFacts DEF Outcome, StartFails
    <2>2. request[r].step = "start" /\ UNCHANGED <<headerVars, pendingBrief, withdrawer>>
      BY <1>0, <1>18 DEF StartFails
    <2>3. ClaimingInvocation(r)'
      BY <1>0, <2>1, <2>2 DEF ClaimingInvocation, Working, MessageStep, ConfirmStep
    <2>4. QED
      BY <1>0, <2>1, <2>2, <2>3, ClaimingKept
  <1>19. ASSUME CloseSession(r) PROVE Claiming'
    <2>1. /\ \A q \in Request : q # r => request'[q] = request[q]
          /\ request'[r].step = "ended" /\ request'[r].turn = request[r].turn
      BY <1>0, <1>19, EndFacts DEF CloseSession, Outcome
    <2>2. request[r].step = "close" /\ UNCHANGED <<turn, withdrawer>>
      BY <1>19 DEF CloseSession
    <2>3. CASE status' = "FINALIZED" /\ inFlight' = Nobody /\ pendingBrief' = Nobody
      BY <1>0, <2>1, <2>2, <2>3, ClaimingDropped
    <2>4. CASE /\ ~(status = "ACTIVE" /\ Fenced(r) /\ pendingBrief # Nobody)
               /\ UNCHANGED <<status, inFlight, claimStale, pendingBrief>>
      <3>1. inFlight # r
        BY <1>0, <2>2, <2>4 DEF Fenced, ClaimingInvocation, ConfirmStep
      <3>2. ClaimingInvocation(r)'
        BY <2>1, <2>2, <2>4, <3>1 DEF ClaimingInvocation, Working,
                                       MessageStep, ConfirmStep
      <3>3. QED
        BY <1>0, <2>1, <2>2, <2>4, <3>2, ClaimingKept
    <2>5. QED
      BY <1>19, <2>3, <2>4 DEF CloseSession
  <1>20. ASSUME AbandonSession(r) PROVE Claiming'
    <2>1. /\ \A q \in Request : q # r => request'[q] = request[q]
          /\ request'[r].step = "ended" /\ request'[r].turn = request[r].turn
      BY <1>0, <1>20, EndFacts DEF AbandonSession, MarkAbandoned, Outcome
    <2>2. UNCHANGED <<turn, pendingBrief, withdrawer>>
      BY <1>20 DEF AbandonSession, MarkAbandoned
    <2>3. CASE status' = "ABANDONED" /\ inFlight' = Nobody
      BY <1>0, <2>1, <2>2, <2>3, ClaimingDropped
    <2>4. CASE status # "ACTIVE" /\ UNCHANGED <<status, inFlight, claimStale>>
      <3>1. ClaimingInvocation(r)'
        BY <1>0, <2>1, <2>2, <2>4 DEF ClaimingInvocation
      <3>2. QED
        BY <1>0, <2>1, <2>2, <2>4, <3>1, ClaimingKept
    <2>5. QED
      BY <1>20, <2>3, <2>4 DEF AbandonSession, MarkAbandoned
  <1>21. ASSUME Die(r) PROVE Claiming'
    <2>1. /\ \A q \in Request : q # r => request'[q] = request[q]
          /\ request'[r].step = "ended" /\ request'[r].outcome = "died"
          /\ request'[r].turn = request[r].turn
      BY <1>0, <1>21, EndFacts DEF Outcome, Die
    <2>2. request[r].step \notin {"idle", "ended"} /\ UNCHANGED <<headerVars, pendingBrief, withdrawer>>
      BY <1>0, <1>21 DEF Die, Alive
    <2>3. ClaimingInvocation(r)'
      BY <1>0, <2>1, <2>2 DEF ClaimingInvocation, Working, MessageStep, ConfirmStep
    <2>4. QED
      BY <1>0, <2>1, <2>2, <2>3, ClaimingKept
  <1> QED
    BY <1>1, <1>2, <1>3, <1>4, <1>5, <1>6, <1>7, <1>8, <1>9, <1>10, <1>11, <1>12, <1>13, <1>14, <1>15, <1>16, <1>17, <1>18, <1>19, <1>20, <1>21 DEF Arrive, Invoked

\* Time passes only for the claim of an invocation that is gone.
LEMMA ClaimingElsewhere ==
    ASSUME LifetimeBounded, Fencing, Claiming,
           ClaimGoesStale \/ ExecutionStep \/ UNCHANGED sessionVars
    PROVE  Claiming'
  <1> USE SessionAssumption DEF headerVars, jobVars, sessionVars
  <1>1. UNCHANGED <<status, turn, inFlight, pendingBrief, request, withdrawer>>
    BY DEF ClaimGoesStale, ExecutionStep
  <1>2. claimStale' = claimStale \/ ~Alive(inFlight)
    BY DEF ClaimGoesStale, ExecutionStep
  <1>3. ASSUME NEW r \in Request PROVE ClaimingInvocation(r)'
    <2>1. ClaimingInvocation(r)
      BY DEF Claiming
    <2>2. inFlight = r /\ Working(r) => Alive(r)
      BY DEF Working, Alive, At, MessageStep, ConfirmStep
    <2>3. QED
      BY <1>1, <1>2, <2>1, <2>2 DEF ClaimingInvocation, Working, At
  <1>4. QED
    BY <1>1, <1>3 DEF Claiming

\* A session that was just opened has no claim.
LEMMA ClaimingInit ==
    ASSUME SessionInit
    PROVE  Claiming
  <1>1. ASSUME NEW r \in Request PROVE ClaimingInvocation(r)
    <2>1. request[r].step = "idle" /\ inFlight # r
      BY SessionAssumption DEF SessionInit, Unborn
    <2>2. QED
      BY <2>1 DEF ClaimingInvocation, Working, At, MessageStep, ConfirmStep
  <1>2. QED
    BY <1>1 DEF Claiming, SessionInit

\* Where no invocation outlives the stale-claim window.
THEOREM ClaimingInvariant ==
    ASSUME LifetimeBounded
    PROVE  SessionSpec => []Claiming
  <1>1. SessionInit => Claiming
    BY ClaimingInit
  <1>2. Fencing /\ Claiming /\ [SessionNext]_sessionVars => Claiming'
    BY ClaimingStep, ClaimingElsewhere DEF SessionNext
  <1>3. QED
    BY <1>1, <1>2, FencingInvariant, PTL DEF SessionSpec

\* No two invocations ever work on the same turn of an open session.
THEOREM WorkerHoldsTheClaim ==
    ASSUME LifetimeBounded
    PROVE  SessionSpec => []WorkerHoldsClaim
  <1>1. Claiming => WorkerHoldsClaim
    BY DEF Claiming, ClaimingInvocation, WorkerHoldsClaim
  <1>2. QED
    BY <1>1, ClaimingInvariant, PTL

\* Every claim is a working invocation's, or was left by one that died or
\* could not release it.
THEOREM ClaimNeverLeaks ==
    ASSUME LifetimeBounded
    PROVE  SessionSpec => []NoLeakedClaim
  <1>1. Claiming => NoLeakedClaim
    BY DEF Claiming, ClaimingInvocation, NoLeakedClaim
  <1>2. QED
    BY <1>1, ClaimingInvariant, PTL

\* What a confirmation can find pending was proposed by the last message that
\* withdrew a proposal.
THEOREM PendingIsTheLatest ==
    ASSUME LifetimeBounded
    PROVE  SessionSpec => []PendingIsLatest
  <1>1. Claiming => PendingIsLatest
    BY DEF Claiming, PendingIsLatest
  <1>2. QED
    BY <1>1, ClaimingInvariant, PTL

(***************************************************************************)
(* The memory.                                                             *)
(***************************************************************************)

CallRecord ==
    [at : {"new", "read", "write"} \union Returned, text : Text,
     tries : 0..(Attempts - 1), seen : Call \union {Absent}, draft : Seq(Insight)]

\* What call c saves.
Saving(c) == [text |-> call[c].text, by |-> c]

\* A list within the cap that holds nothing twice.
GoodList(list) ==
    /\ list \in Seq(Insight)
    /\ Len(list) <= Cap
    /\ \A i, j \in DOMAIN list :
           Folded[list[i].text] = Folded[list[j].text] => i = j

\* The call has put its insight in the item.
Vouched(c) == call[c].at = "saved" \/ c \in resent

Typed ==
    /\ GoodList(insights)
    /\ updated_at \in Call \union {Absent}
    /\ updated_at = Absent <=> insights = << >>
    /\ call \in [Call -> CallRecord]
    /\ resent \subseteq Call
    /\ clears \in 0..MaxClears
    /\ forgotten \subseteq Call

\* A draft is a good list that ends in what its call saves, after insights
\* that have all been in the item; read from no item, it is nothing else.
GoodDraft(c) ==
    /\ GoodList(call[c].draft)
    /\ call[c].draft # << >>
    /\ call[c].draft[Len(call[c].draft)] = Saving(c)
    /\ \A i \in DOMAIN call[c].draft :
           call[c].draft[i].by = c \/ Vouched(call[c].draft[i].by)
    /\ call[c].seen = Absent => call[c].draft = <<Saving(c)>>

Drafts == \A c \in Call : call[c].at = "write" => GoodDraft(c)

Written ==
    /\ \A i \in DOMAIN insights : Vouched(insights[i].by)
    /\ \A c \in Call :
           call[c].at = "saved" /\ updated_at = c =>
               \E i \in DOMAIN insights : insights[i].by = c

\* A draft that the lock would let through was made of the list as it is.
Current(c) ==
    /\ call[c].draft = Capped(Append(insights, Saving(c)))
    /\ ~Remembers(insights, call[c].text)

\* What the lock on updated_at gives while no write is sent again: a stamp is
\* that of a call that is over, and is never set twice.
Locked ==
    /\ updated_at # Absent => call[updated_at].at = "saved"
    /\ \A c \in Call :
           call[c].at = "write" =>
               /\ call[c].seen # Absent => call[call[c].seen].at = "saved"
               /\ call[c].seen = updated_at => Current(c)

ForgottenAreOver == \A c \in forgotten : call[c].at \in Returned
NoneForgotten == \A i \in DOMAIN insights : insights[i].by \notin forgotten

\* The inductive invariant of the memory.
IInv ==
    /\ Typed /\ Drafts /\ Written
    /\ ForgottenAreOver
    /\ resent = {} => Locked /\ NoneForgotten

----------------------------------------------------------------------------
(* Lists. *)

\* The entries of a good list are insights.
LEMMA GoodEntries ==
    ASSUME NEW s, GoodList(s)
    PROVE  \A i \in DOMAIN s : s[i] \in Insight /\ s[i].by \in Call
<1>1. s \in Seq(Insight) BY DEF GoodList
<1>2. \A i \in DOMAIN s : s[i] \in Insight BY <1>1
<1> QED BY <1>2 DEF Insight

\* The cap drops the oldest insight, or none.
LEMMA CappedShape ==
    ASSUME NEW s \in Seq(Insight), Len(s) <= Cap, NEW x \in Insight
    PROVE  /\ Capped(Append(s, x)) \in Seq(Insight)
           /\ Len(Capped(Append(s, x))) \in 1..Cap
           /\ \E k \in {0, 1} :
                 /\ Len(Capped(Append(s, x))) = Len(s) + 1 - k
                 /\ \A i \in 1..Len(Capped(Append(s, x))) :
                       Capped(Append(s, x))[i] = Append(s, x)[i + k]
<1> DEFINE a == Append(s, x)
<1>0. Cap \in Nat \ {0} BY MemoryAssumption
<1>1. a \in Seq(Insight) /\ Len(a) = Len(s) + 1 /\ Len(s) \in Nat
  OBVIOUS
<1>2. CASE Len(a) <= Cap
  <2>1. Capped(a) = a BY <1>2 DEF Capped
  <2> QED BY <1>0, <1>1, <1>2, <2>1
<1>3. CASE ~(Len(a) <= Cap)
  <2>1. Len(s) = Cap /\ Len(a) = Cap + 1 BY <1>0, <1>1, <1>3
  <2>2. Capped(a) = SubSeq(a, 2, Cap + 1) BY <1>0, <1>3, <2>1 DEF Capped
  <2>3. /\ SubSeq(a, 2, Cap + 1) \in Seq(Insight)
        /\ Len(SubSeq(a, 2, Cap + 1)) = Cap
        /\ \A i \in 1..Cap : SubSeq(a, 2, Cap + 1)[i] = a[i + 1]
    BY <1>0, <1>1, <2>1
  <2> QED BY <1>0, <1>1, <2>1, <2>2, <2>3
<1> QED BY <1>2, <1>3

\* A new insight joins the list at its end: what was there stays, but for the
\* oldest, and nothing is there twice.
LEMMA CappedAppend ==
    ASSUME NEW s, GoodList(s), NEW x \in Insight, ~Remembers(s, x.text)
    PROVE  /\ GoodList(Capped(Append(s, x)))
           /\ Capped(Append(s, x)) # << >>
           /\ Capped(Append(s, x))[Len(Capped(Append(s, x)))] = x
           /\ \A i \in DOMAIN Capped(Append(s, x)) :
                 \/ Capped(Append(s, x))[i] = x
                 \/ \E j \in DOMAIN s : Capped(Append(s, x))[i] = s[j]
<1> DEFINE r == Capped(Append(s, x))
<1>1. s \in Seq(Insight) /\ Len(s) <= Cap /\ Len(s) \in Nat /\ DOMAIN s = 1..Len(s)
  BY DEF GoodList
<1>2. r \in Seq(Insight) /\ Len(r) \in 1..Cap
  BY <1>1, CappedShape
<1>3. PICK k \in {0, 1} :
          /\ Len(r) = Len(s) + 1 - k
          /\ \A i \in 1..Len(r) : r[i] = Append(s, x)[i + k]
  BY <1>1, CappedShape
<1> HIDE DEF r
<1>4. DOMAIN r = 1..Len(r) /\ Cap \in Nat BY <1>2, MemoryAssumption
<1>5. \A i \in DOMAIN r :
          \/ i = Len(r) /\ r[i] = x
          \/ i < Len(r) /\ i + k \in DOMAIN s /\ r[i] = s[i + k]
  <2> SUFFICES ASSUME NEW i \in DOMAIN r
               PROVE  \/ i = Len(r) /\ r[i] = x
                      \/ i < Len(r) /\ i + k \in DOMAIN s /\ r[i] = s[i + k]
    OBVIOUS
  <2>1. /\ i \in 1..Len(r) /\ k \in Nat /\ Len(r) \in Nat
        /\ Len(r) + k = Len(s) + 1
        /\ r[i] = Append(s, x)[i + k]
    <3>1. i \in 1..Len(r) BY <1>4
    <3>2. k \in Nat OBVIOUS
    <3>3. Len(r) \in Nat BY <1>2
    <3>4. Len(r) + k = Len(s) + 1 BY <1>1, <1>3, <3>2, <3>3
    <3>5. r[i] = Append(s, x)[i + k] BY <1>3, <3>1, Zenon
    <3> QED BY <3>1, <3>2, <3>3, <3>4, <3>5
  <2>2. CASE i = Len(r)
    <3>1. r[i] = Append(s, x)[Len(s) + 1] BY <2>1, <2>2
    <3>2. Append(s, x)[Len(s) + 1] = x BY <1>1
    <3> QED BY <2>2, <3>1, <3>2
  <2>3. CASE i < Len(r)
    <3>1. i + k \in 1..Len(s) BY <1>1, <2>1, <2>3
    <3>2. Append(s, x)[i + k] = s[i + k] BY <1>1, <3>1
    <3> QED BY <1>1, <2>1, <2>3, <3>1, <3>2
  <2>4. i = Len(r) \/ i < Len(r) BY <2>1
  <2> QED BY <2>2, <2>3, <2>4
<1>6. \A j \in DOMAIN s : Folded[s[j].text] # Folded[x.text]
  BY DEF Remembers
<1>7. \A i, j \in DOMAIN r : Folded[r[i].text] = Folded[r[j].text] => i = j
  <2> SUFFICES ASSUME NEW i \in DOMAIN r, NEW j \in DOMAIN r,
                      Folded[r[i].text] = Folded[r[j].text]
               PROVE  i = j
    OBVIOUS
  <2>1. i \in Nat /\ j \in Nat /\ k \in Nat /\ Len(r) \in Nat BY <1>2, <1>4
  <2>2. CASE i = Len(r) /\ r[i] = x /\ j < Len(r) BY <1>5, <1>6, <2>1, <2>2
  <2>3. CASE j = Len(r) /\ r[j] = x /\ i < Len(r) BY <1>5, <1>6, <2>1, <2>3
  <2>4. CASE i < Len(r) /\ j < Len(r)
    <3>1. i + k \in DOMAIN s /\ j + k \in DOMAIN s /\ r[i] = s[i + k] /\ r[j] = s[j + k]
      BY <1>5, <2>1, <2>4
    <3>2. i + k = j + k BY <3>1 DEF GoodList
    <3> QED BY <2>1, <3>2
  <2> QED BY <1>5, <2>1, <2>2, <2>3, <2>4
<1>8. GoodList(r) BY <1>2, <1>4, <1>7 DEF GoodList
<1>9. r # << >> /\ r[Len(r)] = x
  <2>1. Len(r) # 0 /\ Len(r) \in DOMAIN r BY <1>2, <1>4
  <2> QED BY <1>2, <1>5, <2>1
<1>10. \A i \in DOMAIN r : r[i] = x \/ \E j \in DOMAIN s : r[i] = s[j]
  BY <1>5
<1> QED BY <1>8, <1>9, <1>10 DEF r

\* Of no list at all, only the new insight is left.
LEMMA CappedFirst ==
    ASSUME NEW x \in Insight
    PROVE  /\ Capped(Append(<< >>, x)) = <<x>>
           /\ \A t : ~Remembers(<< >>, t)
<1>1. Append(<< >>, x) = <<x>> /\ Len(<<x>>) = 1 OBVIOUS
<1> QED BY <1>1, MemoryAssumption DEF Capped, Remembers

----------------------------------------------------------------------------
(* One call moves at a time, and one that has returned never again. *)

\* The record of one call changes.
LEMMA CallMoves ==
    ASSUME Typed, NEW c \in Call, NEW r \in CallRecord,
           call' = [call EXCEPT ![c] = r]
    PROVE  /\ call' \in [Call -> CallRecord]
           /\ call'[c] = r
           /\ \A d \in Call : d # c => call'[d] = call[d]
BY DEF Typed

\* A call that returns keeps a record of its own type.
LEMMA ReturnedRecord ==
    ASSUME NEW a \in Returned
    PROVE  /\ [Fresh EXCEPT !.at = a] \in CallRecord
           /\ [Fresh EXCEPT !.at = a].at = a
           /\ Fresh \in CallRecord /\ Fresh.at = "new"
<1>1. (CHOOSE t \in Text : TRUE) \in Text BY MemoryAssumption
<1>2. 0 \in 0..(Attempts - 1) BY MemoryAssumption
<1>3. << >> \in Seq(Insight) OBVIOUS
<1> QED BY <1>1, <1>2, <1>3 DEF Fresh, CallRecord, Returned

\* The memory itself untouched, a call that was under way moves to a record
\* with which the invariant agrees.
LEMMA MoveOnly ==
    ASSUME IInv, NEW c \in Call, NEW r \in CallRecord,
           call' = [call EXCEPT ![c] = r],
           call[c].at \in {"new", "read", "write"},
           r.at # "saved",
           r.at = "write" => GoodDraft(c)',
           r.at = "write" /\ resent = {} =>
               /\ r.seen # Absent => call[r.seen].at = "saved"
               /\ r.seen = updated_at => Current(c)',
           r.seen \in Call \union {Absent},
           UNCHANGED <<memory, resent, clears, forgotten>>
    PROVE  IInv'
<1>1. /\ call' \in [Call -> CallRecord]
      /\ call'[c] = r
      /\ \A d \in Call : d # c => call'[d] = call[d]
  BY CallMoves DEF IInv
<1>2. UNCHANGED <<insights, updated_at, resent, clears, forgotten>>
  BY DEF memory
<1>3. \A d \in Call : call[d].at \in Returned => call'[d] = call[d]
  BY <1>1 DEF Returned
<1>4. resent \subseteq Call /\ forgotten \subseteq Call /\ DOMAIN call = Call
  BY DEF IInv, Typed
<1>5. \A d \in Call : Vouched(d) => Vouched(d)'
  BY <1>2, <1>3, <1>4 DEF Vouched, Returned
<1>6. Typed' BY <1>1, <1>2 DEF IInv, Typed, GoodList
<1>7. Drafts'
  <2> SUFFICES ASSUME NEW d \in Call, call'[d].at = "write" PROVE GoodDraft(d)'
    BY DEF Drafts
  <2>1. CASE d = c BY <1>1, <2>1
  <2>2. CASE d # c
    <3>1. call'[d] = call[d] /\ GoodDraft(d) BY <1>1, <2>2 DEF IInv, Drafts
    <3>2. \A i \in DOMAIN call[d].draft : call[d].draft[i].by \in Call
      BY <3>1, GoodEntries DEF GoodDraft
    <3> QED BY <1>5, <3>1, <3>2 DEF GoodDraft, Saving, GoodList
  <2> QED BY <2>1, <2>2
<1>8. Written'
  <2>1. \A i \in DOMAIN insights : insights[i].by \in Call /\ Vouched(insights[i].by)
    BY GoodEntries DEF IInv, Written, Typed
  <2>2. \A d \in Call : call'[d].at = "saved" => call[d].at = "saved"
    BY <1>1
  <2> QED BY <1>2, <1>5, <2>1, <2>2 DEF IInv, Written
<1>9. ForgottenAreOver' BY <1>2, <1>3, <1>4 DEF IInv, ForgottenAreOver
<1>10. ASSUME resent' = {} PROVE Locked' /\ NoneForgotten'
  <2>1. resent = {} /\ Locked /\ NoneForgotten BY <1>2, <1>10 DEF IInv
  <2>2. NoneForgotten' BY <1>2, <2>1 DEF NoneForgotten
  <2>3. updated_at \in Call \union {Absent} BY DEF IInv, Typed
  <2>4. \A d \in Call : call[d].at = "saved" => call'[d].at = "saved"
    BY <1>3 DEF Returned
  <2>5. updated_at' # Absent => call'[updated_at'].at = "saved"
    BY <1>2, <2>1, <2>3, <2>4 DEF Locked
  <2>6. ASSUME NEW d \in Call, call'[d].at = "write"
        PROVE  /\ call'[d].seen # Absent => call'[call'[d].seen].at = "saved"
               /\ call'[d].seen = updated_at' => Current(d)'
    <3>1. CASE d = c BY <1>1, <1>2, <2>1, <2>4, <2>6, <3>1
    <3>2. CASE d # c
      <4>1. call'[d] = call[d] /\ call[d].seen \in Call \union {Absent}
        BY <1>1, <3>2 DEF IInv, Typed, CallRecord
      <4>2. Current(d) => Current(d)'
        BY <1>2, <4>1 DEF Current, Saving, Remembers
      <4> QED BY <1>2, <2>1, <2>4, <2>6, <4>1, <4>2 DEF Locked
    <3> QED BY <3>1, <3>2
  <2> QED BY <2>2, <2>5, <2>6 DEF Locked
<1> QED BY <1>6, <1>7, <1>8, <1>9, <1>10 DEF IInv

----------------------------------------------------------------------------
(* One lemma per operation. *)

\* A read that finds no such insight drafts the list with it at the end.
LEMMA ReadKeeps ==
    ASSUME IInv, NEW c \in Call, NEW t \in Text, ReadFor(c, t),
           call[c].at \in {"new", "read"}
    PROVE  IInv'
<1>1. UNCHANGED <<insights, updated_at, resent, clears, forgotten>>
  BY DEF ReadFor, memory
<1>2. UNCHANGED <<memory, resent, clears, forgotten>> BY DEF ReadFor
<1>3. CASE Return(c, "already_remembered")
  <2> DEFINE r == [Fresh EXCEPT !.at = "already_remembered"]
  <2>1. r \in CallRecord /\ r.at = "already_remembered"
    BY ReturnedRecord DEF Returned
  <2>2. call' = [call EXCEPT ![c] = r] BY <1>3 DEF Return
  <2>3. r.seen \in Call \union {Absent} BY <2>1 DEF CallRecord
  <2> HIDE DEF r
  <2> QED BY <1>2, <2>1, <2>2, <2>3, MoveOnly
<1>4. CASE ~Return(c, "already_remembered")
  <2> DEFINE x == [text |-> t, by |-> c]
  <2>0. PICK r : r = [at |-> "write", text |-> t, tries |-> call[c].tries,
                      seen |-> updated_at, draft |-> Capped(Append(insights, x))]
    OBVIOUS
  <2>1. ~Remembers(insights, t) /\ call' = [call EXCEPT ![c] = r]
    BY <1>4, <2>0 DEF ReadFor
  <2>2. x \in Insight /\ x.text = t /\ x.by = c BY DEF Insight
  <2>3. GoodList(insights) /\ updated_at \in Call \union {Absent}
    BY DEF IInv, Typed
  <2>4. insights \in Seq(Insight) BY <2>3 DEF GoodList
  <2> HIDE DEF x
  <2>5. /\ GoodList(r.draft)
        /\ r.draft # << >>
        /\ r.draft[Len(r.draft)] = x
        /\ \A i \in DOMAIN r.draft :
              r.draft[i] = x \/ \E j \in DOMAIN insights : r.draft[i] = insights[j]
    BY <2>0, <2>1, <2>2, <2>3, CappedAppend
  <2>6. call[c].tries \in 0..(Attempts - 1) BY DEF IInv, Typed, CallRecord
  <2>7. r \in CallRecord BY <2>0, <2>3, <2>5, <2>6 DEF CallRecord, GoodList
  <2>8. /\ r.at = "write" /\ r.seen = updated_at /\ r.text = t
        /\ r.draft = Capped(Append(insights, x))
    BY <2>0
  <2>9. call'[c] = r /\ \A d \in Call : d # c => call'[d] = call[d]
    BY <2>1, <2>7, CallMoves DEF IInv
  <2>10. Saving(c)' = x BY <2>8, <2>9 DEF Saving, x
  <2>11. \A d \in Call : Vouched(d) => Vouched(d)'
    BY <1>1, <2>9 DEF Vouched
  <2>12. \A j \in DOMAIN insights : insights[j].by \in Call /\ Vouched(insights[j].by)
    BY <2>3, GoodEntries DEF IInv, Written
  <2>13. \A i \in DOMAIN r.draft : r.draft[i].by = c \/ Vouched(r.draft[i].by)'
    BY <2>2, <2>5, <2>11, <2>12
  <2>14. r.seen = Absent => r.draft = <<x>>
    BY <2>2, <2>8, CappedFirst DEF IInv, Typed
  <2>15. GoodDraft(c)'
    <3>1. GoodList(r.draft)' BY <2>5 DEF GoodList
    <3> QED BY <2>5, <2>9, <2>10, <2>13, <2>14, <3>1 DEF GoodDraft
  <2>16. Current(c)' BY <1>1, <2>1, <2>8, <2>9, <2>10 DEF Current, Remembers
  <2>17. resent = {} /\ updated_at # Absent => call[updated_at].at = "saved"
    BY DEF IInv, Locked
  <2> QED BY <1>2, <2>1, <2>3, <2>7, <2>8, <2>15, <2>16, <2>17, MoveOnly
<1> QED BY <1>3, <1>4

\* A refused write reads again, or gives up.
LEMMA PutRefusedKeeps ==
    ASSUME IInv, NEW c \in Call, PutRefused(c)
    PROVE  IInv'
<1>1. call[c].at = "write" /\ UNCHANGED <<memory, resent, clears, forgotten>>
  BY DEF PutRefused
<1>2. call \in [Call -> CallRecord] /\ call[c] \in CallRecord BY DEF IInv, Typed
<1>3. CASE Return(c, "contention")
  <2> DEFINE r == [Fresh EXCEPT !.at = "contention"]
  <2>1. r \in CallRecord /\ r.at = "contention" BY ReturnedRecord DEF Returned
  <2>2. call' = [call EXCEPT ![c] = r] BY <1>3 DEF Return
  <2>3. r.seen \in Call \union {Absent} BY <2>1 DEF CallRecord
  <2> HIDE DEF r
  <2> QED BY <1>1, <2>1, <2>2, <2>3, MoveOnly
<1>4. CASE ~Return(c, "contention")
  <2> DEFINE r == [call[c] EXCEPT !.tries = @ + 1, !.at = "read",
                                  !.seen = Absent, !.draft = << >>]
  <2>1. /\ call[c].tries + 1 < Attempts
        /\ call' = [call EXCEPT ![c].tries = @ + 1, ![c].at = "read",
                                ![c].seen = Absent, ![c].draft = << >>]
    BY <1>4 DEF PutRefused
  <2>2. call' = [call EXCEPT ![c] = r] BY <1>2, <2>1
  <2>3. call[c].tries \in 0..(Attempts - 1) BY <1>2 DEF CallRecord
  <2>4. call[c].tries + 1 \in 0..(Attempts - 1)
    BY <2>1, <2>3, MemoryAssumption
  <2>5. << >> \in Seq(Insight) OBVIOUS
  <2>6. r \in CallRecord /\ r.at = "read" /\ r.seen = Absent
    BY <1>2, <2>4, <2>5 DEF CallRecord
  <2> HIDE DEF r
  <2> QED BY <1>1, <2>2, <2>6, MoveOnly
<1> QED BY <1>3, <1>4

\* A write that the lock lets through makes the draft the list; its answer
\* may be lost, and the write sent again.
LEMMA PutKeeps ==
    ASSUME IInv, NEW c \in Call, Put(c)
    PROVE  IInv'
<1>1. /\ call[c].at = "write" /\ updated_at = call[c].seen
      /\ insights' = call[c].draft /\ updated_at' = c
      /\ UNCHANGED <<clears, forgotten>>
  BY DEF Put, Unchanged
<1>2. /\ call \in [Call -> CallRecord] /\ resent \subseteq Call
      /\ forgotten \subseteq Call
  BY DEF IInv, Typed
<1>3. GoodDraft(c) BY <1>1 DEF IInv, Drafts
<1>4. c # Absent BY MemoryAssumption
\* What either outcome does to the calls.
<1>5. /\ call' \in [Call -> CallRecord] /\ resent' \subseteq Call
      /\ \A d \in Call : d # c => call'[d] = call[d]
      /\ Vouched(c)'
      /\ resent' \in {resent, resent \union {c}}
      /\ call'[c].at = "saved" \/ (call' = call /\ resent' = resent \union {c})
  <2>1. CASE Return(c, "saved") /\ UNCHANGED resent
    <3> DEFINE r == [Fresh EXCEPT !.at = "saved"]
    <3>1. r \in CallRecord /\ r.at = "saved" BY ReturnedRecord DEF Returned
    <3>2. call' = [call EXCEPT ![c] = r] BY <2>1 DEF Return
    <3> HIDE DEF r
    <3>3. /\ call' \in [Call -> CallRecord] /\ call'[c] = r
          /\ \A d \in Call : d # c => call'[d] = call[d]
      BY <3>1, <3>2, CallMoves DEF IInv
    <3> QED BY <1>2, <2>1, <3>1, <3>3 DEF Vouched
  <2>2. CASE resent' = resent \union {c} /\ UNCHANGED call
    BY <1>2, <2>2 DEF Vouched
  <2> QED BY <2>1, <2>2 DEF Put
<1>6. \A d \in Call : call'[d].at = "write" => call[d].at = "write" /\ call'[d] = call[d]
  BY <1>1, <1>5
<1>7. \A d \in Call : call[d].at \in Returned => d # c /\ call'[d] = call[d]
  BY <1>1, <1>5 DEF Returned
<1>8. \A d \in Call : Vouched(d) => Vouched(d)'
  BY <1>5, <1>7 DEF Vouched, Returned
<1>9. /\ GoodList(insights)' /\ insights' # << >>
      /\ insights'[Len(insights')] = Saving(c) /\ Len(insights') \in DOMAIN insights'
  <2>1. call[c].draft \in Seq(Insight) /\ call[c].draft # << >>
    BY <1>3 DEF GoodDraft, GoodList
  <2>2. Len(call[c].draft) \in DOMAIN call[c].draft BY <2>1
  <2>3. GoodList(insights)' BY <1>1, <1>3 DEF GoodDraft, GoodList
  <2> QED BY <1>1, <1>3, <2>2, <2>3 DEF GoodDraft
<1>10. Typed' BY <1>1, <1>2, <1>4, <1>5, <1>9 DEF IInv, Typed
<1>11. Drafts'
  <2> SUFFICES ASSUME NEW d \in Call, call'[d].at = "write" PROVE GoodDraft(d)'
    BY DEF Drafts
  <2>1. GoodDraft(d) /\ call'[d] = call[d] BY <1>6 DEF IInv, Drafts
  <2>2. \A i \in DOMAIN call[d].draft : call[d].draft[i].by \in Call
    BY <2>1, GoodEntries DEF GoodDraft
  <2> QED BY <1>8, <2>1, <2>2 DEF GoodDraft, Saving, GoodList
<1>12. Written'
  <2>1. (\A i \in DOMAIN insights : Vouched(insights[i].by))'
    <3>1. PICK list : list = call[c].draft OBVIOUS
    <3>2. \A i \in DOMAIN list :
             list[i].by \in Call /\ (list[i].by = c \/ Vouched(list[i].by))
      BY <1>3, <3>1, GoodEntries DEF GoodDraft
    <3>3. \A i \in DOMAIN list : Vouched(list[i].by)' BY <1>5, <1>8, <3>2
    <3> QED BY <1>1, <3>1, <3>3
  <2>2. \E i \in DOMAIN insights' : insights'[i].by = c
    BY <1>9 DEF Saving
  <2> QED BY <1>1, <2>1, <2>2 DEF Written
<1>13. ForgottenAreOver' BY <1>1, <1>2, <1>7 DEF IInv, ForgottenAreOver
<1>14. ASSUME resent' = {} PROVE Locked' /\ NoneForgotten'
  <2>1. /\ resent = {} /\ Locked /\ NoneForgotten /\ call'[c].at = "saved"
        /\ Current(c)
    <3>1. resent = {} /\ call'[c].at = "saved" BY <1>5, <1>14
    <3> QED BY <1>1, <3>1 DEF IInv, Locked
  <2>2. Locked'
    <3>1. ASSUME NEW d \in Call, call'[d].at = "write"
          PROVE  /\ call'[d].seen # Absent => call'[call'[d].seen].at = "saved"
                 /\ call'[d].seen # updated_at'
      <4>1. call'[d] = call[d] /\ call[d].at = "write" BY <1>6, <3>1
      <4>2. call[d].seen # Absent => call[call[d].seen].at = "saved"
        BY <2>1, <4>1 DEF Locked
      <4>3. call[d].seen \in Call \union {Absent} BY <1>2 DEF CallRecord
      <4> QED BY <1>1, <1>4, <1>7, <4>1, <4>2, <4>3 DEF Returned
    <3> QED BY <1>1, <2>1, <3>1 DEF Locked
  <2>3. NoneForgotten'
    <3>1. c \notin forgotten BY <1>1 DEF IInv, ForgottenAreOver, Returned
    <3>2. ~Remembers(insights, call[c].text) /\ insights' = Capped(Append(insights, Saving(c)))
      BY <1>1, <2>1 DEF Current
    <3>3. Saving(c) \in Insight /\ Saving(c).text = call[c].text /\ Saving(c).by = c
      BY <1>2 DEF Saving, Insight, CallRecord
    <3>4. \A i \in DOMAIN insights' :
             insights'[i] = Saving(c) \/ \E j \in DOMAIN insights : insights'[i] = insights[j]
      BY <3>2, <3>3, CappedAppend DEF IInv, Typed
    <3> QED BY <1>1, <2>1, <3>1, <3>3, <3>4 DEF NoneForgotten
  <2> QED BY <2>2, <2>3
<1> QED BY <1>10, <1>11, <1>12, <1>13, <1>14 DEF IInv

\* Forgetting leaves no item, and a draft made of no item holds only what its
\* own call saves: nothing of a call that had returned.
LEMMA ClearKeeps ==
    ASSUME IInv, Clear
    PROVE  IInv'
<1>1. /\ insights' = << >> /\ updated_at' = Absent
      /\ clears < MaxClears /\ clears' = clears + 1
      /\ forgotten' = {c \in Call : call[c].at \in Returned}
      /\ UNCHANGED <<call, resent>>
  BY DEF Clear
<1>2. clears' \in 0..MaxClears BY <1>1, MemoryAssumption DEF IInv, Typed
<1>3. GoodList(<< >>) BY MemoryAssumption DEF GoodList
<1>4. Typed' BY <1>1, <1>2, <1>3 DEF IInv, Typed, GoodList
<1>5. Drafts' BY <1>1 DEF IInv, Drafts, GoodDraft, Vouched, Saving, GoodList
<1>6. Written'
  <2>1. DOMAIN insights' = {} BY <1>1
  <2>2. Absent \notin Call BY MemoryAssumption
  <2> QED BY <1>1, <2>1, <2>2 DEF Written
<1>7. ForgottenAreOver' BY <1>1 DEF ForgottenAreOver
<1>8. NoneForgotten'
  <2>1. DOMAIN insights' = {} BY <1>1
  <2> QED BY <2>1 DEF NoneForgotten
<1>9. ASSUME resent' = {} PROVE Locked'
  <2>1. resent = {} /\ Locked BY <1>1, <1>9 DEF IInv
  <2>2. ASSUME NEW c \in Call, call[c].at = "write", call[c].seen = Absent
        PROVE  Current(c)'
    <3>1. call[c].draft = <<Saving(c)>> BY <2>2 DEF IInv, Drafts, GoodDraft
    <3>2. Saving(c) \in Insight BY DEF IInv, Typed, CallRecord, Saving, Insight
    <3>3. /\ Capped(Append(<< >>, Saving(c))) = <<Saving(c)>>
          /\ ~Remembers(<< >>, call[c].text)
      BY <3>2, CappedFirst
    <3> QED BY <1>1, <3>1, <3>3 DEF Current, Saving
  <2> QED BY <1>1, <2>1, <2>2 DEF Locked
<1> QED BY <1>4, <1>5, <1>6, <1>7, <1>8, <1>9 DEF IInv

----------------------------------------------------------------------------
(* The theorems. *)

\* The invariant holds at first.
LEMMA InitHolds == MemoryInit => IInv
<1> SUFFICES ASSUME MemoryInit PROVE IInv OBVIOUS
<1>1. \A c \in Call : call[c] = Fresh BY DEF MemoryInit
<1>2. Fresh \in CallRecord /\ Fresh.at = "new" BY ReturnedRecord DEF Returned
<1>3. DOMAIN insights = {} /\ GoodList(insights)
  BY MemoryAssumption DEF MemoryInit, GoodList
<1>4. Typed
  BY <1>2, <1>3, MemoryAssumption DEF MemoryInit, Typed
<1>5. Drafts /\ Written /\ ForgottenAreOver /\ Locked /\ NoneForgotten
  BY <1>1, <1>2, <1>3, MemoryAssumption
  DEF MemoryInit, Drafts, Written, ForgottenAreOver, Locked, NoneForgotten
<1> QED BY <1>4, <1>5 DEF IInv

\* Every step keeps the invariant.
LEMMA StepKeeps == IInv /\ [MemoryNext]_vars => IInv'
<1> SUFFICES ASSUME IInv, [MemoryNext]_vars PROVE IInv' OBVIOUS
<1>1. ASSUME NEW c \in Call, Invoke(c) PROVE IInv'
  BY <1>1, ReadKeeps DEF Invoke
<1>2. ASSUME NEW c \in Call, Reread(c) PROVE IInv'
  <2>1. call[c].text \in Text BY DEF IInv, Typed, CallRecord
  <2> QED BY <1>2, <2>1, ReadKeeps DEF Reread
<1>3. ASSUME NEW c \in Call, Put(c) PROVE IInv' BY <1>3, PutKeeps
<1>4. ASSUME NEW c \in Call, PutRefused(c) PROVE IInv' BY <1>4, PutRefusedKeeps
<1>5. CASE Clear BY <1>5, ClearKeeps
<1>6. CASE UNCHANGED vars
  BY <1>6
  DEF vars, memory, IInv, Typed, GoodList, Drafts, GoodDraft, Saving, Vouched,
      Written, ForgottenAreOver, Locked, Current, Remembers, NoneForgotten
<1> QED BY <1>1, <1>2, <1>3, <1>4, <1>5, <1>6 DEF MemoryNext

\* The memory keeps its invariant.
THEOREM MemoryInvariant == MemorySpec => []IInv
BY InitHolds, StepKeeps, PTL DEF MemorySpec

\* The list is never over its cap and holds nothing twice, and what the tool
\* answers about it is true, whatever is sent again or cleared meanwhile.
THEOREM MemoryCorrect == MemorySpec => []MemoryInv
<1>1. IInv => MemoryInv
  <2> SUFFICES ASSUME IInv PROVE MemoryInv OBVIOUS
  <2>1. MemoryTypeOK
    BY DEF IInv, Typed, GoodList, CallRecord, MemoryTypeOK
  <2>2. AnswersAreTrue
    BY DEF IInv, Written, Vouched, AnswersAreTrue, Wrote
  <2> QED BY <2>1, <2>2 DEF MemoryInv
<1> QED BY <1>1, MemoryInvariant, PTL

\* While no write is sent again, what the listener has had forgotten does not
\* come back with a call that read it before.
THEOREM ForgettingHolds == MemorySpec => []ForgottenStaysForgotten
<1>1. IInv => ForgottenStaysForgotten
  BY DEF IInv, NoneForgotten, ForgottenStaysForgotten
<1> QED BY <1>1, MemoryInvariant, PTL

\* While no write is sent again, no update is lost: a step adds one insight
\* that was not there, or forgets them all.
THEOREM NoLostUpdate == MemorySpec => OnlyGrowsOrForgets
<1> DEFINE Grows ==
      resent' = {} =>
          \/ insights' = << >>
          \/ \E c \in Call :
                 /\ ~Remembers(insights, call[c].text)
                 /\ insights' = Capped(Append(insights,
                                              [text |-> call[c].text, by |-> c]))
<1>1. IInv /\ [MemoryNext]_vars => [Grows]_insights
  <2> SUFFICES ASSUME IInv, [MemoryNext]_vars, resent' = {}, insights' # insights
               PROVE  Grows
    OBVIOUS
  <2>1. ASSUME NEW c \in Call, Put(c) PROVE Grows
    <3>1. /\ call[c].at = "write" /\ updated_at = call[c].seen
          /\ insights' = call[c].draft /\ resent = {}
      BY <2>1 DEF Put, Unchanged
    <3>2. Current(c) BY <3>1 DEF IInv, Locked
    <3> QED BY <3>1, <3>2 DEF Current, Saving
  <2>2. CASE Clear BY <2>2 DEF Clear
  <2>3. ASSUME NEW c \in Call, Invoke(c) \/ Reread(c) \/ PutRefused(c) PROVE FALSE
    BY <2>3 DEF Invoke, Reread, PutRefused, ReadFor, memory
  <2>4. CASE UNCHANGED vars BY <2>4 DEF vars, memory
  <2> QED BY <2>1, <2>2, <2>3, <2>4 DEF MemoryNext
<1> QED BY <1>1, MemoryInvariant, PTL DEF MemorySpec, OnlyGrowsOrForgets
=============================================================================
