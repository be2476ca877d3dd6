# A formal model of the AI meditation app

TLA+ modules for the behaviour of this repository that is hard to test: who
owns a credit while a meditation is being made, what retries, timeouts and
abandoned Lambda invocations can do to it, what is left in S3 and DynamoDB
when something fails half-way, what overlapping requests, redelivered webhooks
and resent writes can do to a companion session, a picture, a plan or a memory,
and what a listener reads and hears while promises land late. TLC checks the
modules on small instances; TLAPS proves the most important results for every
instance.

All source paths below are relative to the repository (`src/`).

## The system

A user signs up (Cognito), gets one free credit, may buy more (Stripe), and
spends one per generated meditation. `POST /generate`, or the companion's
confirmation, writes a JOB item and starts a Step Functions execution named
after the job: freeze a credit, write a script with Bedrock, speak it, commit
the credit. Everything a user owns lives in one partition of one DynamoDB
table; audio lives in one S3 bucket.

### Components

| Component | State | Operations | Talks to |
|---|---|---|---|
| Credit ledger (`backend/shared/db.py`) | ENTITLEMENT (available, frozen, plan, period_end), JOB status, EVENT# markers | initialize_user, create_job, mark_job_generating, mark_job_deleted, freeze/commit/rollback_credit, apply_stripe_credit, apply_subscription_update | DynamoDB: one conditional write or transaction per operation |
| Generation pipeline (`infra/stacks/pipeline_stack.py`, `backend/functions/*`) | the execution: state, attempt; invocations; objects under `jobs/{id}/`; script_key, audio_key | five tasks with Retry and Catch; execution timeout | ledger, S3, Bedrock, TTS |
| Starting a meditation (`backend/shared/jobs.py`, `backend/api/routers/generate.py`) | none of its own | generation_gate, start_generation, GET /jobs | ledger, Step Functions |
| Dreamscapes (`backend/api/routers/dreamscapes.py`) | the DONE jobs | list by cursor, delete | ledger, S3 |
| Stripe billing (`backend/api/routers/billing.py`, `products.py`) | plan, period_end, SUB# items | checkout, webhook (three event types) | Stripe, ledger |
| Picture reading (`backend/api/routers/pictures.py`, `functions/describe_picture`) | PICTURE item: status, describe_started_at, describe_attempts | upload, describe (claim), set/mark failed | second state machine, Bedrock |
| Companion session (`backend/agent_runner/turns.py`, `routes.py`) | AGENT session header: status, turn, in_flight, pending brief; T-items; monthly quota | create, claim, commit, release, confirm, abandon | engines, start_generation |
| Companion engines (`backend/agent/native`, `backend/agent/langgraph`) | messages, tool iterations of one turn | run_turn | Bedrock, tools |
| Companion memory (`backend/agent/tools/memory.py`, `shared/db.py`) | MEMORY item: insights, updated_at | append_insight, clear_memory | DynamoDB |
| Bedrock provider (`backend/agent/native/llm/converse.py`, `agent/thinking.py`) | the attempt, its parser, the thinking filter | stream a reply, retry | Bedrock Converse |
| Streaming (`backend/agent_runner/sse.py`) | queue between a turn and its response | emit, heartbeat, close | ASGI |
| Text to speech (`backend/shared/tts`) | none | chunk, call, join | Volcano, Polly |
| Companion page (`frontend/src/companion`) | thread, streamed text, proposal card | respond, resume, confirm | the runner |
| Player and music (`frontend/src/audio/mixer.ts`, three pages) | audio graph, promises under way | begin, arrive, play, switch, leave | S3 URLs |
| API client (`frontend/src/api/client.ts`) | poll deadline | poll a job or a picture | the API |
| Deployment (`infra/`) | none | resource definitions | |

### What is hard here

* **Two items, one fact.** A job in flight is a JOB status *and* a unit of
  ENTITLEMENT.frozen. Only the conditions of separate transactions keep them
  in step, whatever order they run in and however often.
* **Giving up is not stopping.** Step Functions can stop waiting for a Lambda
  (a lost answer, a task timeout) that goes on to write its status, its
  objects or its transaction after a retry, or after the rollback.
* **Gate and freeze are apart.** The API reads the balance; another process
  spends it later.
* **Cleaning up.** The rollback sweeps S3, the user's deletion sweeps S3, and
  a late writer can write again; a sweep may fail half-way.
* **Claims with timeouts** on pictures and companion sessions; **webhooks**
  redelivered and out of order; **writes sent again** by boto3.
* **A history that must replay.** Every way a companion turn can end is stored
  and sent to Converse again with the next one; two engines must agree on it.
* **Text that arrives in pieces**: hidden thoughts cut anywhere, an attempt that
  breaks and is retried, a listener who leaves.
* **Awaits in the browser** that land after the page, the track or the session
  they were for has gone.

`PROJECT.json` lists each of these hazards at the line where it bites, with the
properties that watch it.

## What is modelled

### CreditAccount: what a user is promised

The abstract specification: credits are granted into a balance; each job may
hold one, once; a held credit is charged or returned, once.

### CreditLedger: what the store does

One action per operation of `EntitlementStore` that changes credits or a job's
status. The guard is the operation's ConditionExpression (both, for a
transaction) and a call whose condition fails changes nothing. The module says
nothing of who calls: any operation may run at any time, for any job, again
and again. So its properties hold for every caller, and for every retried or
late call.

| Model | Code |
|---|---|
| `provisioned`, `available`, `frozen` | the ENTITLEMENT item and its counters |
| `status[j]` | JOB#j's status, `"ABSENT"` while there is no item |
| `markers` | EVENT# items |
| `granted` | history: no counterpart |
| `Freezable`, `Committable`, `Refundable` | the JOB condition of each credit transaction |
| `HasAvailable`, `HasFrozen` | its ENTITLEMENT condition |

Abstractions: one user (partitions share nothing); PROFILE and timestamps are
left out, plan and period_end are StripeBilling's; a marker does not expire
here (in StripeBilling it does).

### GenerationPipeline: how a meditation is made

Composes with the ledger (`EXTENDS CreditLedger`) and adds the state machine,
the Lambda invocations, the bucket, the API's start of a job and the user's
deletion.

| Model | Code |
|---|---|
| `machine[j]`, `attempt[j]` | the state and retry count of execution `j` |
| `calls` | Lambda invocations still running: job, task, attempt, and the next remote write of the handler |
| `Live(c)` | the execution still waits for `c`; a call that is not live is abandoned and may go on, or stop, at any time |
| `objects[j]`, `keys[j]` | what lies under `jobs/j/`, and script_key / audio_key |
| `request[j]` | how far `POST /generate` or a confirmation has got |
| `deletion[j]` | how far `DELETE /dreamscapes/j` has got |
| `faults`, `lateFreeze` | a bound and a history variable: no counterpart |

Each handler's remote writes are separate steps: the transaction and the read
that follows it, the sweep, the status update, the put of an object, the update
of its key. `Fault` covers a lost answer (Lambda service errors, retried), a
task timeout and any unlisted error (caught at once), and the execution timeout
(ends the execution and runs no Catch). Bedrock's and the TTS provider's
transient and permanent errors are ordinary outcomes of their steps and cost no
fault.

Abstractions: the model call and the synthesis are one step with the put that
follows them; listing and deleting objects is one step that leaves any subset;
backoff and the arithmetic of timeouts are left out (a timeout may happen at
any time). GET routes only read.

### Conversation: what a listener is promised

The abstract specification: one conversation, in which each turn answers all
the turns before it, and which is closed once.

### CompanionSession: who may act on a session

The AGENT# header, its T-items, the job its id names, and any number of
overlapping runner invocations, each a message, a confirmation or an
abandonment.

| Model | Code |
|---|---|
| `status`, `turn`, `inFlight`, `pendingBrief` | the header's status, turn, in_flight, pending_brief |
| `claimStale` | in_flight is older than AGENT_IN_FLIGHT_TIMEOUT_SECONDS |
| `transcript` | the T-items; `history` is which turns the engine was given |
| `job`, `jobBrief`, `execution` | JOB status and mood_text; the execution named after it |
| `request[r]` | one invocation: the remote operation it does next, its `session.turn` and `session.pending_brief`, its answer |
| `inFlight = r` | the code stores a time stamp: whose it is is not recorded, and no guard of the model asks it |
| `Claimable`, `Fenced` | the conditions of claim_turn and of the other three writes |
| `withdrawer` | history: no counterpart |

Every remote read or write is a step of its own, so that invocations
interleave between any two. An invocation may die at any step (Lambda's kill,
or an exception no handler catches: `Die`), a transaction's or a tool's answer
may be lost after it applied, a release may fail, StartExecution may fail with
or without having started. `LifetimeBounded` says whether a claim can go stale
under a living invocation: not on Lambda, which ends it after 120 s
(`infra/stacks/agent_stack.py:64`) while the window is 180 s; but the runner
also runs outside Lambda.

Abstractions: a brief is named by the message that proposed it; the engine is what
it does to the session (any number of proposals, a result with or without one, an
error); JOB status GENERATING is counted as FROZEN and DONE or ROLLED_BACK as
SETTLED; the gate's refusal for want of credit, or for another job, may happen at
any time; a claim whose answer is lost is a death right after it (the SDK's own
resend of a write is left out here, CompanionMemory has it); creation, quota, TTL
and usage counters are left out. `finalized_job_id` of `commit_turn` is set by no
tool, and its path is left out; so the docstring of `mark_agent_session`
(`db.py:1465`), for which only `commit_turn` writes FINALIZED, is out of date:
`confirm_session` is what writes it.

### StripeBilling: which events reach the account

Stripe raises events as the user buys, renews and cancels, and delivers each at
least once, in any order, until it is answered; the webhook turns some into a
billing transaction. Composes with the ledger: its credits are CreditLedger's,
with `markers` mapped to the events ever applied.

| Model | Code |
|---|---|
| `plan`, `periodEnd`, `available`, `provisioned` | the ENTITLEMENT item |
| `subItem[s]`, `markers` | SUB# items; EVENT# markers not reaped yet |
| `CompletePack`, `CompleteSubscription`, `InvoicePaid`, `SubscriptionDeleted` | the three handlers of `routers/billing.py` with `_run_billing_transaction` |
| `Transacts`, `HasUser`, `InCatalogue`, `GrantsInvoice` | the early returns that answer 200 with nothing granted: no user, no product of the catalogue, an invoice of no subscription or of its opening period |
| `ReapMarker`, `Deliverable` | the marker's TTL; Stripe stops redelivering long before it |
| `raised`, `applied`, `earlier`, `reordered`, `overlapped` | Stripe's side, and history; `Backlog` is the plan events raised and not applied, in the order raised |

Abstractions: a period is a number; which events lack a user or a product is a
constant; an opening invoice always says `subscription_create` (one without a
billing_reason would be granted beside its checkout, by the choice of
`billing.py:224-227`); a delivery that fails before its transaction changes
nothing; the signature check and the redirect URLs are left out. A completed
checkout carries no `current_period_end`, so `PeriodEndOf` is 0 for it, as in the
code.

### PictureItem, PictureReading: describing a picture

PictureItem is the promise: a bounded number of tries, one of which counts at a
time. PictureReading is the API request (look, claim, start, release), the
PICTURE item's conditional writes, the second state machine with Retry, Catch
and timeouts, and its handler, one remote operation at a time.

| Model | Code |
|---|---|
| `status`, `attempts`, `token`, `reading` | status, describe_attempts, describe_started_at, keywords and summary |
| `stale` | describe_started_at is older than PICTURE_DESCRIBE_TIMEOUT_SECONDS |
| `Claimable`, `MayRecord`, `MayFail` | conditions of mark_picture_describing, set_picture_description, mark_picture_failed |
| `machine`, `retry`, `calls`, `Live` | executions, and Lambda invocations that they wait for or have abandoned |
| `spent`, `orphaned`, `disowned` | history: vision calls; attempts whose owner died; attempts taken over or given back |

Abstractions: the attempt's number stands for its time stamp (no two claims win
with the same count); the upload is one step of the listener; the credit gate of
the routes is left out (it only refuses).

### AgentTurn: one turn, two engines

The same turn given to `agent/native/loop.py` and then to
`agent/langgraph/`: the same replies of the model, tool answers and deadline.

| Model | Code |
|---|---|
| `NativeLoop`, `NativeWrapUp`, `NativeAnswer`, `NativeFallback`, `NativeNudge` | NativeEngine.run_turn: the loop, its `else`, what follows it |
| `GraphAgent`, `GraphTools`, `AfterAgent`, `GraphAnswer`, `GraphNudge` | the nodes and edges of build_graph, and LangGraphEngine.run_turn |
| `Late(e)` | Deadline.exhausted() at the engine's next call |
| `asked` | every request: tool choice, hint, and whether Converse takes its messages (`ConverseAccepts`: alternating roles, every tool use answered) |
| `Rebuilt(e)` | rebuild_messages on the committed turn: what the next turn sends |

Abstractions: a message is its role and whether it holds tool uses or results;
a reply is its stop reason, whether it has no text, white space only or words
(`Text`; Nova's text is stripped, so never blank), and its calls; a tool answers
"other", "refused" or "placed" (only finalize_meditation_brief places a brief),
and an error to a "garbled" call, whose input is not an object: the loop's parser
makes it {}, and LangChain's tool_calls leaves it out (`Parsed`). Token counts
and the texts of hints are left out.

### TurnStream: what the listener sees of a turn

From Converse's event stream through the retry rule and the thinking filter,
the engine's emit and the SSE queue, to `respond()` in the companion page - next
to what the turn stores. Text is a sequence of symbols in which a thinking tag
is two symbols, so that a delta can end inside one.

| Model | Code |
|---|---|
| `Call`, `Delta`, `ToolStart`, `TransientFailure` | stream_turn of the provider, `MayRetry` its "nothing has gone out" |
| `filter`, `Scan`, `Clean` | ThinkingFilter's state, `delta` and `clean` |
| `ModelRefuses`, `RunTool`, `Settle` | the engine on a Final, in two calls |
| `Commit`, `CommitFails` | run_claimed's commit, then `done`; or `error`, for a commit that failed and for one that applied and whose answer was lost (`stage = "unheard"`) |
| `queue`, `Pump`, `Disconnect`, `TaskRuns` | sse.py: the queue, the generator, a client that leaves, the shielded task |
| `client` | phase, streamed text, thread and proposal card of the hook |

Abstractions: the claim is CompanionSession's and the budget AgentTurn's; the
heartbeat's comment line, which the client's parser drops, the request built for
Converse and the fragments of a tool's JSON are left out.

### CompanionMemory: what is remembered of a listener

The MEMORY item under concurrent `save_user_insight` calls and deletions.

| Model | Code |
|---|---|
| `insights`, `updated_at` | the item; no item is an empty list and `Absent` |
| `Invoke`, `Reread`, `Put`, `PutRefused` | append_insight's read, its conditional put, its retries, MemoryContentionError |
| `Capped` | `insights[-AGENT_INSIGHTS_MAX:]` |
| `Folded` | casefold() of a text |
| `resent` | calls whose put boto3 sent again after a lost answer, once each |
| `Clear` | clear_memory |

A stamp is the call that wrote it (the code's `now` is distinct for distinct
calls, up to the clock); texts that normalise alike are `Folded` alike.

### DreamscapeListing: cards and pages

GET and DELETE /dreamscapes over an eventually consistent query, and the hook
`useDreamscapes.ts` with its optimistic removals. A job is its place in the sort
order, a cursor is the job it was made of; `Views` is what one query may find, of
each job that has been DONE independently and with no memory of the query before,
and `seen` what every page's query could have listed; `Serve` is the router's
filter, sort, `_after_cursor` and slice; `PutBack` restores a refused card.

### PlayerMixer: promises that land late

`audio/mixer.ts` under the three pages that share it. Every `await` of the mixer,
and the player's for a signed URL, is a step (`tasks`), and between any two the
listener may tap, switch or leave. A narration is loaded at once from the URL
handed over (`n = 0`); a revisit, or a hand-over that has expired, first awaits
`freshNarrationUrl` (`n = 1`), and the mixer stops its voice only when the URL is
there (`NarrationSigned`), with no look at the page. `slips` names the races of
the code that do happen; every property says which slips it does not survive, so
a new race, or the loss of an existing check, violates it. A visit is one mount of
the player or of the waiting screen. One track, as in BGM_TRACKS, and "voice
only"; volume, position and seek() are left out.

A GET of the poll that is in flight when the waiting screen is left still arms
the navigation (`ArriveLate`). It is modelled from the home screen; from the page
of another session, which it takes the listener away from, it is not.

## Checks

| Run | Instance | Shows |
|---|---|---|
| `pipeline` | 2 jobs, one the companion's; 1 retry, 1 fault of any kind | credits are conserved, nothing is made without a frozen credit, success is charged, only abandoned calls write after a settlement, the pipeline implements the ledger and the account |
| `pipeline_faults` | 1 job, 1 retry, 3 faults of any kind, fair | executions end, frozen credits settle, a credit is stranded in three ways only, delivered narrations survive |
| `session` | 3 requests, 2 turns, Lambda, fair | one invocation works at a time; no answer leaks a claim; only the last message's proposal is confirmed; confirmed means started; no death blocks the session for good; the session implements the conversation |
| `billing` | 2 packs (one bought without naming the user), 2 subscriptions to two plans (one renewing at a price outside the catalogue, and cancelled without naming the user), 1 renewal each, fair | each period is granted once, and in the end if the one event that grants it names a user and a product; the plan follows the subscription unless events overtook one another, subscriptions overlapped, or a start or an end was answered with nothing done; the grants implement the ledger |
| `picture` | 2 requests (each as often as it likes), 2 attempts, 1 retry, 2 faults, fair | a claim is owned and settles, one attempt reads at a time, vision calls are bounded, the item keeps PictureItem's promise |
| `turn` | 2 iterations, replies with one or two calls, any deadline | the engines ask, place and answer alike but for four named cases; the budget holds; the conversation replays unless a reply was cut at max_tokens or the graph left calls unanswered |
| `stream` | 7 texts, 3 retries, deltas of 1 or 2 symbols, fair | thoughts stay hidden however they are cut; the live reply is the stored one; `done` means committed, `error` that nothing is stored unless the commit's answer was lost; everybody is told the end |
| `memory` | 3 calls, cap 2, 2 attempts, 2 clears, 4 texts (two fold alike) | no update is lost and nothing forgotten comes back unless a write was sent again; the answers are true whatever was |
| `listing` | 4 jobs, 2 to a page | nothing is skipped, repeated or out of order; what was removed stays away |
| `player` | 2 visits, 2 track switches | the right narration, once, over the chosen track; music unbroken, and stopped on leaving - but for the named races |
| `generation_failed`, `history_replays` | as their passing runs, smaller | the two disagreements below |

**Bounds, and why they are enough.** Two jobs meet only in the ledger and the
gate; two credits let two freeze together. Three faults let one job lose an
answer, time out and fail a rollback; one retry is where a live call and its
abandoned twin overlap (the code has three, which repeat it). Three requests are a
victim, the one that takes over, and one that profits or looks at the result; two
turns let a late answer meet the next turn and reach the exhausted session. Two
subscriptions can follow or overlap one another, and one renewal is enough to be
overtaken by a cancellation. Two attempts and two tappers meet the take-over, the
wrong release and the cap. Two iterations have a first, which may be forced, and a
last, and reach the wrap-up and the nudge; a turn's deadline may come before any
call. A tag of two symbols is cut in every way by deltas of one and two, and the
texts have no thought, a closed one, two, one left open and a stray "<". Three
memory calls are a reader, a writer between, and one after a clear; a cap of two
drops the oldest. Four jobs on two pages leave cards on both sides of a cursor.
Two visits are what a late promise needs to meet the wrong session. A property
that a bound made vacuous would survive its mutant; none does.

Deadlock is not checked where the system may rest: in every run, once the
bounded requests, events and faults are used up.

**Fairness.** `FairPipelineSpec` and `FairPictureSpec` ask, per job or attempt,
that a call the execution waits for carries on, and of a request that it goes
on: that is what Step Functions and Lambda do short of a fault, and the handlers
have no wait of their own. Nothing is assumed of an abandoned call, of the user
or of a fault: `ClaimSettles` excuses attempts whose request died or whose
execution timed out (`orphaned`), `FrozenCreditSettles` a rollback that itself
failed, an execution timeout and a freeze that landed late. `FairSessionSpec`
asks that an invocation goes on until it ends or dies and that time passes: no
request has to arrive for `NeverWedged`. `FairBillingSpec` asks that an event
that can be delivered is, once: Stripe retries for days. `FairStreamSpec` asks
that the event loop runs the turn on and the response its queue. The turn,
memory, listing and player specifications assume none and have safety only.

### Where the code disagrees with its text

Two runs end in a violation:

* `generation_failed`: the cause of `GenerationFailed` says the frozen credit has
  been refunded (`pipeline_stack.py:403`). It has not when the commit applied and
  then timed out (the job is DONE, and is kept), nor when an abandoned freeze
  lands after the rollback (the credit stays frozen and the gate closed).
* `history_replays`: a reply cut at max_tokens inside a tool call is committed
  with the call unanswered, by both engines, though `loop.py:117-119` says an
  unanswered tool use would poison the next turn's history. It does: every later
  turn of the session is refused by Converse.

Read while modelling, each reachable in a model or left out of it where noted;
no run singles them out:

* *Starting.* `jobs.py:65-67` says of two starts that pass the gate together that
  the second freeze fails. With two credits both freeze and both generate; no
  credit is lost (`LedgerInv`, `SpendNeedsCredit`). `README.md:667-668`: the
  confirmed brief becomes the job's mood_text; not when an earlier confirmation of
  another brief wrote the row and failed to start it. `README.md:639`: abandoning
  charges nothing; it takes no claim, and overlaps a confirmation that goes on to
  start the job.
* *Session.* A confirmation can meet its own job past PENDING, because an earlier
  one started it and died before closing (`turns.py:317` calls this "a guard, not
  a path"). A turn can commit as having proposed nothing with its brief pending,
  after a refusal that follows a proposal, a failure after placing it, or a tool
  call whose answer was lost (`turns.py:75-76`). A confirmation can close the
  session over an execution that ended without a credit (`jobs.py:30-32`). Outside
  Lambda only, a commit can land on a successor's claim (`db.py:1253-1255`);
  `ImplementsConversation` holds all the same.
* *Engines.* The native loop drops the stop reason before it asks whether a
  wrapped-up or nudged model refused (`loop.py:153-154`, `loop.py:172-174`), so the
  check is dead and the refusal becomes the fallback line; the graph detects it.
  A reply given when time was up keeps "max_tokens" natively and becomes
  "end_turn" in the graph. After a wrap-up of blank text that calls a tool, the
  loop drops the call and nudges (`loop.py:152`, `loop.py:158-170`); the graph
  sends the reply back as it came, with a call nobody answers, and the turn fails
  (`engine.py:126-145`). When LangChain parsed none of a round's inputs, the loop
  answers with errors and goes on, and the graph ends (`graph.py:139`), with the
  calls on what it stores or sends back. `SameAnswer` names all four.
* *Stream.* When `commit_turn` applies and its answer is lost, or boto3's own resend
  of it finds its condition spent, run_claimed releases the claim and the page is told
  `error` of a turn that is committed: not the "nothing committed" of `sse.py:50-51`
  and `turns.py:152-153`, and a resend repeats it. `ToldWhatHappened` names the case.
  The refusal and fallback lines are stored and never streamed: the page
  shows no reply until the session is resumed. What a model said before a tool round
  is streamed but not stored. An unclosed `<thinking>` is hidden live and kept in
  the stored text, and a trailing "<" is never flushed. `detectCrisis.ts` says the
  Lifeline number appears in no other reply; the refusal text has it.
* *Companion page* (not modelled). A message sent again after a disconnect can
  repeat one that was committed; the read that fills the proposal card can put up
  a withdrawn proposal.
* *Memory.* A put sent again after a clear finds no item, as its first read did,
  and brings the forgotten insight back: hence `resent = {}` in two properties.
* *Pictures.* `pictures.py:10-11`, "described at most once": a take-over or a
  retried task may describe it again (`PictureItem` says what does hold). After
  the last attempt a picture whose owner died stays DESCRIBING.
* *Dreamscapes.* The query of a later page may lag behind that of an earlier one,
  and leave out a meditation it has passed (`seen`). Two refused removals that
  overlap can restore their cards out of order; `NewestFirst` says so.
* *Player.* Cancelling in the arrival beat leaves the music playing
  (`GeneratingPage.tsx:104`); a play still resuming when the page is left starts
  its sources afterwards; a narration or track that lands late replaces the newer
  one; a load whose URL is signed only after its page was left stops the voice of
  the next page, which still shows it as playing (`PlayerPage.tsx:115`,
  `mixer.ts:81`). `slips` names each.

## Proofs

Eight modules for every value of the constants. The ledger's proofs open those of
the pipeline, and the companion's session and memory share a module. The only
assumptions are the modules' own, and, where a theorem says so, `LifetimeBounded`.

| Proof module | For any | From |
|---|---|---|
| `GenerationPipelineProofs` (ledger first) | jobs (infinitely many too), events, grants, retries, faults | `LedgerAssumption`, `PipelineAssumption` |
| `CompanionProofs` (session, then memory) | requests, number of turns; calls, texts, cap, attempts, clears | `SessionAssumption`, `MemoryAssumption` |
| `StripeBillingProofs` | packs, subscriptions, plans, renewals | `BillingAssumption` |
| `PictureReadingProofs` | requests, attempts, retries, faults | `PictureAssumption` |
| `AgentTurnProofs` | iterations, tool calls of a reply | `TurnAssumption` |
| `TurnStreamProofs` | texts of any length, deltas, retries | `StreamAssumption` |
| `PlayerMixerProofs` | visits, switches | `MixerAssumption` |
| `DreamscapeListingProofs` | meditations, page size | `ListingAssumption` |

* **LedgerInvariant.** `CreditsConserved` and `FrozenCountsInFlight` are not
  inductive alone: a rollback of a FAILED job would break the count, and the
  grant that creates ENTITLEMENT needs its counters at zero. `LedgerInv` adds
  that no job is ever FAILED (nothing writes it, though rollback accepts it) and
  that an absent item holds nothing. The step lemmas say what each operation
  does to the sets InFlight and Charged, then to their cardinalities.
* `LedgerTypeCorrect`, `FrozenIsInFlight`, `Conservation`, `NeverStarves`,
  `SettlementFinal` follow.
* **LedgerImplementsAccount.** By the refinement mapping of
  `CreditLedger!Account`, each operation is one abstract step or a stutter.
* **PipelineImplementsLedger.** Each pipeline step is one ledger operation or
  leaves the ledger alone; so `PipelineConservation`.
* **SpendIsPaid, SuccessIsPaid.** `SpendNeedsCredit` needs the invariant
  `PaidCalls` on the calls in flight: a call past the freeze, live or abandoned,
  exists only for a job that has frozen. `Earned` says what each handler step
  may start; `PaidForGood` that the ledger never takes it back.
* **PipelineTyped, StrandedThreeWays, DeliveredIsThere, OnlyStraysWrite.** What a
  job's ending left behind follows from who may still act on it: while a
  meditation is being made nothing settles its job, and a commit on its way finds
  its narration in the bucket (`RunInv`, next to `SpendInv` and `LedgerInv` in
  `SpendInvariant`). So only a stray writes after settlement, a rollback sweeps
  before anything was delivered, and a credit is stranded by a timeout, a failed
  rollback or a freeze that landed late, and by nothing else.
* **SessionImplementsConversation**, for invocations of any lifetime. The
  invariant `Fencing` is what the conditional writes give by themselves: the
  committed turns are 0..turn-1, an invocation never knows a turn the session
  has not reached, and one about to commit the current turn has read all the
  turns before it; a claim exists only on an open session. From it follow
  `SessionTyped` and `ConfirmationStarted` too. `FencingFramed` reduces each
  step to the record of the one invocation that takes it.
* **WorkerHoldsTheClaim, ClaimNeverLeaks, PendingIsTheLatest** need
  `LifetimeBounded`. None is inductive: `Claiming` ties the claim to the one
  invocation at work, says a stale claim is a dead one's, that a confirmation's
  proposal stays pending under its claim, and that only the last message to
  withdraw a proposal goes on to make one.
* **MemoryCorrect, ForgettingHolds, NoLostUpdate.** What a call writes was
  drafted from what it read, so the invariant is about drafts: `Drafts` says each
  is a list within the cap, without duplicates, of insights whose calls have
  written (`Vouched`), ending in its own. That gives `MemoryInv` whatever is sent
  again. The other two need the lock, which a resent write defeats: while nothing
  is resent, `Locked` says that a stamp is that of a call that has returned, so it
  is never set twice, and a draft whose stamp still matches was made of the list
  as it is. A draft read from no item holds nothing but its own insight, which
  is why a clear that meets it forgets nothing it should keep.

* **BillingCorrect, PlanIsThatOfSubscription, BillingImplementsLedger.** The plan
  follows from what is still to come: `BillingInvariant` says that the events
  raised and not applied, taken in the order raised, lead from the account's plan
  to the plan of the live subscription, until two overtake one another or one that
  starts or ends a subscription cannot be acted on. Hence
  the history `earlier` beside each event. That the credits are the sum of the
  grants applied is an induction over finite sets, done without an operator
  parameter: the smallest set the statement fails for (`SmallestSet`) has none.
* **PictureSafe, OneReader, PictureImplementsItem.** `PictureInvariant` is about
  ownership: each attempt counted belongs to one request, execution or invocation
  that can still act on it, or its owner's death or disowning is on record, and
  the token on the item is that of the last attempt. Two readers then need a
  take-over, a release or a late failure between them, and every step is a step
  of PictureItem or leaves it alone.
* **TurnWithinBudget, EnginesAgree, HistoryKept.** `TurnInvariant` makes each
  engine a function of the model's replies: how many lead to a round of tools
  fixes every request (`RequestIs`), and the one after them the result
  (`NativeResult`, `GraphResult`); and the graph, which runs second, needs no
  reply the loop did not get. So the two are compared as functions, and differ
  in the four cases `SameAnswer` names alone. What a turn stores replays, because
  a reply that still calls tools is never its result, unless it was cut short or
  the graph ended on calls LangChain did not parse.
* **NothingHidden.** The state of the filter after any deltas is a function of the
  text that has arrived: whether it ends inside a thought, and the "<" it ends in
  (`Filtered`, of `StreamInvariant`). One call of `delta` keeps that (`ScanFilters`):
  its loop, from tag to tag, lets out the symbols that are outside and certain to
  stay so, wherever the buffer begins. `Inside` and `View` read a text symbol by
  symbol. What the loop gives from a position is shown from what it gives further
  on, by a greatest position it fails for, which needs no operator parameter.
* **LiveAsStored.** `clean`, on the whole text, leaves out the same thoughts
  (`CleanIsVisible`), unless the text ends inside one. `Live` says that the page
  will have read the text of this attempt, after that of the calls before, when it
  has read the queue; so the retry rule must show that an attempt made again has
  let nothing out (`Attempt`).
* **ToldTheTruth.** `done` and `error` are last on the wire, and of the stage they
  tell, `error` of a failed turn or of a commit nobody heard of; a proposal on the
  wire stands on a brief (`OnWire`, `Told`).
* **MusicStops, HeardIsChosen, MusicUnbroken.** `MixerInvariant` lists, page by
  page, the promises that may be under way (one load of its narration for a
  session, `OneLoad`), which voice is held, which sources
  sound and which tracks are decoded. Every exception in the properties is a
  promise of a page already left.
* **NoneSkipped, CardsKeepOrder.** A cursor splits the meditations: those that
  ever had a card are at it or before it, those still to be listed after it
  (`ListingInvariant`). So a page that lands adds only what comes after every
  card there is, and a removal never changes what the next page holds. A card
  taken off remembers the place at which it still fits (`Fits`), which a page
  appended in between leaves alone and a second removal does not: hence
  `overlapped`. That the listing of a set holds all of it, in order
  (`SortedLists`), is shown by counting how many come before each meditation.

Only model-checked: the liveness properties, which the prover does not reach. Every
invariant and action property of the passing runs is a theorem.

## Plan

Done: every module listed above, with its proofs. Left, in this order:

1. The companion page's resume and resend.
2. Opening a session. Its monthly quota is one conditional update, which needs no
   model of its own.

## Not modelled

* *Text to speech, script length, prompts.* Chunking, stream assembly and length
  budgets compute on strings and numbers without state; the pipeline has their
  outcomes: audio, a transient error, an error. (`volcano.py` accepts a stream that
  breaks off without its END_OF_STREAM as a whole one.)
* *API client.* Polling is a loop of GETs with a deadline that changes nothing; what
  it reads is modelled where it changes. Its picture deadline (180 s) is shorter
  than the machine's longest run.
* *Opening a session, its monthly quota, resuming a stored session, sending
  again.* In the plan.
* *Server-side mixing* is not deployed; *deployment stacks* declare resources, and
  only the two state machines and the timeouts of `pipeline_stack.py` and
  `agent_stack.py` have behaviour, which the models have.
* *Cognito, API Gateway, CloudFront, Stripe, Bedrock* are services: they are in the
  models as what they may answer. Token verification, log and metric lines,
  markup, styles and scenes have no state that a property is about.

`PROJECT.json` has each part's status.
