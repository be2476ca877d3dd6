----------------------------- MODULE TurnStream -----------------------------
(***************************************************************************)
(* What the listener sees of one turn while it runs: the model's reply     *)
(* from Bedrock's event stream (agent/native/llm/converse.py), through the *)
(* filter of Nova's thinking tags (agent/thinking.py) and the engine's     *)
(* emit, over the server-sent events of agent_runner/sse.py, to the hook   *)
(* of the companion page (frontend/src/companion/useCompanion.ts) - next   *)
(* to what is stored of it.  The claim and the transactions are            *)
(* CompanionSession's; the engine's budget is AgentTurn's, of which this   *)
(* module keeps a first call and a last one.                               *)
(*                                                                         *)
(* Text is a sequence of symbols: "w" stands for words, and a thinking tag *)
(* is two symbols, so that a delta may end inside one.                     *)
(***************************************************************************)
EXTENDS Integers, SequencesExt

CONSTANTS
    Text,                  \* the texts a reply of the model may be
    MaxRetries             \* max_retries of BedrockConverseProvider

Symbol == {"<", "thinking>", "/thinking>", "w"}

ASSUME StreamAssumption ==
    /\ \A t \in Text : t \in Seq(Symbol)
    /\ MaxRetries \in Nat

OpenTag == <<"<", "thinking>">>        \* THINKING_OPEN
CloseTag == <<"<", "/thinking>">>      \* THINKING_CLOSE

\* A reply: its text, whether it then calls finalize_meditation_brief, and
\* its stop reason.
Reply ==
    [text : Text, tool : {FALSE}, stop : {"end_turn", "refusal"}]
    \union [text : Text, tool : {TRUE}, stop : {"tool_use"}]

NoReply == [text |-> << >>, tool |-> FALSE, stop |-> "end_turn"]

VARIABLES
    stage,                 \* where run_claimed stands
    calls,                 \* model calls of the turn
    attempt,               \* attempts of the current call
    reply,                 \* what the model is saying
    sent,                  \* how much of its text has arrived
    announced,             \* has its tool call started?
    yielded,               \* did the provider yield anything of this attempt?
    filter,                \* the ThinkingFilter
    shown,                 \* history: the text emitted for this attempt
    brief,                 \* is a brief pending on the session?
    proposed,              \* did a tool of this turn propose?
    nudged,                \* was the model asked again for a reply one can read?
    stored,                \* the reply of the TurnResult, and then of the T-item
    queue,                 \* the events emitted and not yet on the wire
    connected,             \* is the response still being read?
    client                 \* respond() in the hook

server == <<stage, calls, attempt, reply, sent, announced, yielded, filter,
            shown, brief, proposed, nudged, stored>>
vars == <<server, queue, connected, client>>

FreshFilter == [inside |-> FALSE, pending |-> << >>]
RefusalText == <<"refusal">>
FallbackText == <<"fallback">>
NotStored == [kind |-> "none", text |-> << >>]

StreamInit ==
    /\ stage = "calling"
    /\ calls = 1
    /\ attempt = 0
    /\ reply = NoReply
    /\ sent = 0
    /\ announced = FALSE /\ yielded = FALSE
    /\ filter = FreshFilter
    /\ shown = << >>
    /\ brief = FALSE /\ proposed = FALSE /\ nudged = FALSE
    /\ stored = NotStored
    /\ queue = << >>
    /\ connected = TRUE
    /\ client = [phase |-> "reading", streamed |-> << >>, proposal |-> FALSE,
                 saw |-> "nothing", thread |-> << >>, card |-> FALSE]

----------------------------------------------------------------------------
(***************************************************************************)
(* The thinking filter.                                                    *)
(***************************************************************************)

\* Where tag first begins in buf from position from on, 0 if nowhere (str.find).
Find(buf, tag, from) ==
    LET at == {i \in from..(Len(buf) - 1) : SubSeq(buf, i, i + 1) = tag}
    IN  IF at = {} THEN 0 ELSE CHOOSE i \in at : \A k \in at : i <= k

\* Faulty: nothing is held back, so a tag split over two deltas gets through.
PartialSuffixIgnored(buf, tag) == << >>

\* The longest suffix of buf that is a proper prefix of tag.
PartialSuffix(buf, tag) ==
    IF buf # << >> /\ buf[Len(buf)] = tag[1] THEN <<tag[1]>> ELSE << >>

\* ThinkingFilter.delta on what was pending and the chunk: what it lets out,
\* and the state it is left in.  The loop goes on from behind each tag found.
Scan(buf, inside) ==
    LET scan[from \in 1..(Len(buf) + 1)] == [within \in BOOLEAN |->
            LET tag == IF within THEN CloseTag ELSE OpenTag
                at == Find(buf, tag, from)
                kept == PartialSuffix(SubSeq(buf, from, Len(buf)), tag)
                rest == scan[at + 2][~within]
                Out(to) == IF within THEN << >> ELSE SubSeq(buf, from, to)
            IN  IF at = 0
                THEN [inside |-> within, pending |-> kept,
                      out |-> Out(Len(buf) - Len(kept))]
                ELSE [rest EXCEPT !.out = Out(at - 1) \o @]]
    IN  scan[1][inside]

\* ThinkingFilter.clean on a whole text: every closed span is taken out.
Clean(text) ==
    LET clean[from \in 1..(Len(text) + 1)] ==
            LET open == Find(text, OpenTag, from)
                close == Find(text, CloseTag, open + 2)
            IN  IF open = 0 \/ close = 0 THEN SubSeq(text, from, Len(text))
                ELSE SubSeq(text, from, open - 1) \o clean[close + 2]
    IN  clean[1]

Cleaned == [t \in Text |-> Clean(t)]

----------------------------------------------------------------------------
(***************************************************************************)
(* The provider.                                                           *)
(***************************************************************************)

LastCall == 2

Emit(e) == queue' = Append(queue, e)

\* stream_turn opens an attempt: a fresh parser and a fresh filter.
Call ==
    /\ stage = "calling"
    /\ \E r \in Reply : reply' = r
    /\ stage' = "streaming"
    /\ sent' = 0
    /\ announced' = FALSE /\ yielded' = FALSE
    /\ filter' = FreshFilter
    /\ shown' = << >>
    /\ UNCHANGED <<calls, attempt, brief, proposed, nudged, stored, queue,
                   connected, client>>

\* A text delta arrives, of one symbol or two, and what the filter lets out
\* of it is emitted; a delta that is all thinking yields nothing.
Delta(n) ==
    /\ stage = "streaming"
    /\ sent + n <= Len(reply.text)
    /\ \E scan \in {Scan(filter.pending \o SubSeq(reply.text, sent + 1, sent + n),
                         filter.inside)} :
           /\ filter' = [inside |-> scan.inside, pending |-> scan.pending]
           /\ shown' = shown \o scan.out
           /\ yielded' = (yielded \/ scan.out # << >>)
           /\ IF scan.out = << >> THEN UNCHANGED queue
              ELSE Emit([type |-> "delta", text |-> scan.out])
    /\ sent' = sent + n
    /\ UNCHANGED <<stage, calls, attempt, reply, announced, brief, proposed,
                   nudged, stored, connected, client>>

\* The block of a tool call starts, after the text.
ToolStart ==
    /\ stage = "streaming"
    /\ reply.tool /\ ~announced
    /\ sent = Len(reply.text)
    /\ announced' = TRUE /\ yielded' = TRUE
    /\ Emit([type |-> "tool"])
    /\ UNCHANGED <<stage, calls, attempt, reply, sent, filter, shown, brief,
                   proposed, nudged, stored, connected, client>>

\* run_claimed's handlers, and the runner's Finished: the turn is not
\* committed, and the client is told so.
Fail ==
    /\ stage' = "failed"
    /\ stored' = NotStored
    /\ Emit([type |-> "error"])

\* Faulty: the attempt is made again whatever it has sent.
MayRetryAnything == attempt < MaxRetries

\* "Once anything has gone out, a retry would replay text the client has
\* already shown."
MayRetry == ~yielded /\ attempt < MaxRetries

\* A transient failure of the call or of its stream.
TransientFailure ==
    /\ stage = "streaming"
    /\ IF MayRetry
       THEN /\ attempt' = attempt + 1
            /\ stage' = "calling"
            /\ UNCHANGED <<stored, queue>>
       ELSE Fail /\ UNCHANGED attempt
    /\ UNCHANGED <<calls, reply, sent, announced, yielded, filter, shown, brief,
                   proposed, nudged, connected, client>>

\* Any other failure of it, or of a read or write the turn makes.
OtherFailure ==
    /\ stage \in {"calling", "streaming"}
    /\ Fail
    /\ UNCHANGED <<calls, attempt, reply, sent, announced, yielded, filter, shown,
                   brief, proposed, nudged, connected, client>>

----------------------------------------------------------------------------
(***************************************************************************)
(* The engine, on the Final of a call.                                     *)
(***************************************************************************)

Finished ==
    /\ stage = "streaming"
    /\ sent = Len(reply.text)
    /\ reply.tool => announced

NextCall ==
    /\ stage' = "calling"
    /\ calls' = calls + 1
    /\ attempt' = 0

\* The turn has its result, and run_claimed goes on to commit it.
Answer(kind, text) ==
    /\ stage' = "committing"
    /\ stored' = [kind |-> kind, text |-> text]
    /\ UNCHANGED <<calls, attempt>>

spoken == <<reply, sent, announced, yielded, filter, shown>>

\* A refusal ends the turn: REFUSAL_TEXT takes the place of the reply, and
\* a proposal of this turn is not reported.  The native loop overlooks one
\* given to its wrap-up or its nudge (AgentTurn!RefusedAfterWrapUp), the graph
\* does not.
ModelRefuses ==
    /\ Finished
    /\ reply.stop = "refusal"
    /\ Answer("refusal", RefusalText)
    /\ proposed' = FALSE
    /\ UNCHANGED <<spoken, brief, nudged, queue, connected, client>>

\* finalize_meditation_brief on the first call: the registry runs it, and the
\* engine emits the proposal it places; or it is refused with an error.
RunTool ==
    /\ Finished
    /\ reply.tool /\ calls < LastCall
    /\ NextCall
    /\ \/ /\ brief' = TRUE /\ proposed' = TRUE
          /\ Emit([type |-> "proposal"])
       \/ UNCHANGED <<brief, proposed, queue>>
    /\ UNCHANGED <<spoken, nudged, stored, connected, client>>

\* Any other reply is the answer, without the tool calls time does not allow
\* for.  One without text is asked for again, once, and the line the engine
\* keeps for it stands in for the second.
Settle ==
    /\ Finished
    /\ ~(reply.tool /\ calls < LastCall)
    /\ reply.stop # "refusal" \/ calls = LastCall
    /\ LET text == Cleaned[reply.text] IN
       \/ /\ text # << >>
          /\ Answer("reply", text)
          /\ UNCHANGED nudged
       \/ /\ text = << >> /\ calls < LastCall
          /\ NextCall
          /\ nudged' = TRUE
          /\ UNCHANGED stored
       \/ /\ text = << >> /\ calls = LastCall
          /\ Answer("fallback", FallbackText)
          /\ UNCHANGED nudged
    /\ UNCHANGED <<spoken, brief, proposed, queue, connected, client>>

----------------------------------------------------------------------------
(***************************************************************************)
(* The commit, the wire and the page.                                      *)
(***************************************************************************)

turn == <<calls, attempt, spoken, brief, proposed, nudged>>

\* Faulty: done goes out before the commit, which may still fail.
CommitAfterDone ==
    /\ stage = "committing"
    /\ stage' \in {"committed", "failed"}
    /\ Emit([type |-> "done", awaiting |-> proposed])
    /\ UNCHANGED <<turn, stored, connected, client>>

\* commit_turn, and only then done.
Commit ==
    /\ stage = "committing"
    /\ stage' = "committed"
    /\ Emit([type |-> "done", awaiting |-> proposed])
    /\ UNCHANGED <<turn, stored, connected, client>>

\* It fails, or is refused because the claim was taken over.  Or it applied and
\* its answer was lost: run_claimed takes that for a failure ("unheard"), though
\* the turn is in the transcript.
CommitFails ==
    /\ stage = "committing"
    /\ \/ Fail
       \/ /\ stage' = "unheard"
          /\ Emit([type |-> "error"])
          /\ UNCHANGED stored
    /\ UNCHANGED <<turn, connected, client>>

\* respond()'s handler of one event: done and error are the last.
Handled(e) ==
    CASE e.type = "delta" -> [client EXCEPT !.streamed = @ \o e.text]
      [] e.type = "tool" -> client
      [] e.type = "proposal" -> [client EXCEPT !.proposal = TRUE]
      [] e.type = "error" -> [client EXCEPT !.phase = "ended", !.saw = "error"]
      [] e.type = "done" ->
           [client EXCEPT !.phase = "ended", !.saw = "done",
                          !.thread = client.streamed,
                          !.card = e.awaiting /\ client.proposal]

\* stream_turn takes the next event off its queue and the hook handles it.
Pump ==
    /\ queue # << >> /\ connected
    /\ queue' = Tail(queue)
    /\ client' = Handled(Head(queue))
    /\ connected' = (client'.phase = "reading")
    /\ UNCHANGED server

\* The connection breaks, or the listener leaves the page.
Disconnect ==
    /\ connected
    /\ connected' = FALSE
    /\ \E saw \in {"failure", "nothing"} :
           client' = [client EXCEPT !.phase = "ended", !.saw = saw]
    /\ UNCHANGED <<server, queue>>

\* Faulty: the task is cancelled with the response.
TaskRunsWhileRead == connected

\* The runner's task is shielded from the response that reads it.
TaskRuns == TRUE

Provider ==
    \/ Call \/ Delta(1) \/ Delta(2) \/ ToolStart
Engine ==
    \/ ModelRefuses \/ RunTool \/ Settle
    \/ Commit \/ CommitFails
Failure == TransientFailure \/ OtherFailure

StreamNext ==
    \/ TaskRuns /\ (Provider \/ Engine \/ Failure)
    \/ Pump
    \/ Disconnect

StreamSpec == StreamInit /\ [][StreamNext]_vars

\* The event loop runs the turn on, and the response its queue.
FairStreamSpec ==
    /\ StreamSpec
    /\ WF_vars(TaskRuns /\ (Provider \/ Engine))
    /\ WF_vars(Pump)

----------------------------------------------------------------------------
(***************************************************************************)
(* Properties.                                                             *)
(***************************************************************************)

Event ==
    [type : {"delta"}, text : Seq(Symbol)]
    \union [type : {"tool", "proposal", "error"}]
    \union [type : {"done"}, awaiting : BOOLEAN]

\* The stages in which nothing is left to run.
Over == {"committed", "unheard", "failed"}

\* The types of the variables; the queue closes with the runner's Finished,
\* once, when the turn has been committed or has failed.
StreamTypeOK ==
    /\ stage \in {"calling", "streaming", "committing"} \union Over
    /\ calls \in 1..LastCall
    /\ attempt \in 0..MaxRetries
    /\ reply \in Reply \union {NoReply}
    /\ sent \in 0..Len(reply.text)
    /\ {announced, yielded, brief, proposed, nudged, connected} \subseteq BOOLEAN
    /\ filter.inside \in BOOLEAN
    /\ filter.pending \in {<< >>, <<"<">>}
    /\ shown \in Seq(Symbol)
    /\ stored.kind \in {"none", "reply", "refusal", "fallback"}
    /\ queue \in Seq(Event)
    /\ client.phase \in {"reading", "ended"}
    /\ client.saw \in {"nothing", "done", "error", "failure"}
    /\ \A i \in DOMAIN queue :
           queue[i].type \in {"done", "error"} =>
               i = Len(queue) /\ stage \in Over

\* Is symbol i of s part of a thinking tag, or between an opening one and
\* the first closing one after it?
Hidden(s, i) ==
    LET Opens == {k \in 1..(Len(s) - 1) : SubSeq(s, k, k + 1) = OpenTag}
        Closes == {k \in 1..(Len(s) - 1) : SubSeq(s, k, k + 1) = CloseTag}
    IN  \E k \in Opens :
            k <= i /\ ~\E c \in Closes : k + 2 <= c /\ c + 1 < i

\* The symbols of s that are not hidden, in order.
Visible(s) ==
    LET visible[n \in 0..Len(s)] ==
            IF n = 0 THEN << >>
            ELSE IF Hidden(s, n) THEN visible[n - 1]
            ELSE Append(visible[n - 1], s[n])
    IN  visible[Len(s)]

\* agent/thinking.py: however a text is cut into deltas, and a tag over
\* them, what has been shown is exactly what is outside the tags so far, but
\* for the start of what may yet turn out to be one.
NothingHiddenIsShown ==
    LET held == IF filter.inside THEN << >> ELSE filter.pending
    IN  shown \o held = Visible(SubSeq(reply.text, 1, sent))

\* The reply the listener watched being written is the one the transcript
\* keeps: all of it after one call, its end after several - no piece twice,
\* missing or out of order - unless the text ends inside a thinking tag.
LiveIsStored ==
    client.saw = "done" /\ stored.kind = "reply" /\ filter = FreshFilter =>
        /\ IsSuffix(stored.text, client.thread)
        /\ calls = 1 => client.thread = stored.text

\* agent_runner/sse.py: "done" only once the turn is committed, and "error" only
\* when it was not - or when nobody can tell: the answer of the commit was lost.
\* Of that turn sse.py:50-51 ("nothing committed") is wrong.  And a proposal card
\* stands on a brief that can be confirmed.
ToldWhatHappened ==
    /\ StreamTypeOK
    /\ client.saw = "done" => stage = "committed"
    /\ client.saw = "error" =>
           \/ stage = "failed" /\ stored = NotStored
           \/ stage = "unheard"
    /\ client.card => brief

\* agent_runner/sse.py: a client that disconnects does not cancel the turn, which
\* goes on until it is committed or has failed.
TurnSettles == <>(stage \in Over)

\* The page is told of the end of every turn it waits for.
ClientIsTold == <>(client.phase = "ended")

\* A turn ends for everyone: for the session, and for the listener.
TurnEnds == TurnSettles /\ ClientIsTold
=============================================================================
