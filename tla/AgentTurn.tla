------------------------------ MODULE AgentTurn ------------------------------
(***************************************************************************)
(* One turn of the companion, as its two engines run it:                   *)
(* agent/native/loop.py, a loop around the model, and agent/langgraph/, a  *)
(* graph of an "agent" and a "tools" node.  Both are given the same turn - *)
(* the same replies of the model, the same answers of the tools, the same  *)
(* moment at which the deadline comes near - the graph after the loop, so  *)
(* that what they make of it can be compared.                              *)
(*                                                                         *)
(* A reply of the model is what agent/contracts.py's Final keeps of it: a  *)
(* stop reason, whether it holds no text, only white space or words the    *)
(* listener can read, and the tools it calls, each with the answer the     *)
(* tool gives.  The listener's words, the model's, and the token counts    *)
(* are left out.                                                           *)
(***************************************************************************)
EXTENDS Integers, Sequences, FiniteSets

CONSTANTS
    MaxIterations,         \* MAX_TOOL_ITERATIONS_PER_TURN
    Calls                  \* the sequences of tool calls a reply may make

Engine == {"native", "langgraph"}

\* A tool call and its answer: only finalize_meditation_brief, when the gate
\* is open and the session active, places a brief on the session.  The input
\* of a "garbled" call is not an object: the loop's parser and content_blocks
\* make it {}, which no tool takes, and LangChain's tool_calls leaves it out.
ToolCall == {"other", "refused", "placed", "garbled"}

\* The text of a reply: none, blank (a block of white space, which is content
\* the listener cannot read) or words.  Nova's is stripped, so never blank.
Text == {"none", "blank", "words"}

ASSUME TurnAssumption ==
    /\ MaxIterations \in Nat \ {0}
    /\ \A c \in Calls : c \in Seq(ToolCall) /\ c # << >>

(***************************************************************************)
(* The replies of a model call (StopReason of contracts.py, as             *)
(* stop_reasons.py maps Converse's).  A reply cut at max_tokens may be cut *)
(* inside a tool call: the parser then keeps the call, with the input {}.  *)
(* "broken" is a call that raises instead of answering.                    *)
(***************************************************************************)
Reply ==
    [stop : {"end_turn", "refusal"}, text : Text, uses : {<< >>}]
    \union [stop : {"tool_use"}, text : Text, uses : Calls]
    \union [stop : {"max_tokens"}, text : Text, uses : {<< >>, <<"garbled">>}]
    \union [stop : {"broken"}, text : {"none"}, uses : {<< >>}]

NoProposal == <<0, 0>>

VARIABLES
    forced,                \* is this the turn whose first call is forced?
    lateFrom,              \* the first call by which the deadline is near
    said,                  \* the model's replies so far, the same for both
    pc,                    \* where each engine stands
    iterations,            \* model calls of the loop proper
    wrapUp,                \* state["wrap_up"] of the graph
    steps,                 \* node executions of the graph's current drive
    last,                  \* the last reply (final; the last AIMessage)
    messages,              \* the roles and kinds of the messages so far
    asked,                 \* each request made: its tool choice, its hint and
                           \* whether Converse takes it
    rounds,                \* the tool rounds, each its calls
    proposal,              \* the last proposal of the turn
    brief,                 \* the session's pending brief, as the tools left it
    result                 \* the TurnResult

engineVars == <<pc, iterations, wrapUp, steps, last, messages, asked,
                rounds, proposal, brief, result>>
vars == <<forced, lateFrom, said, engineVars>>

\* The most calls a turn makes: its iterations, the wrap-up and the nudge.
MaxCalls == MaxIterations + 2
RecursionLimit == 2 * MaxIterations + 2

Unset == [outcome |-> "none"]

TurnInit ==
    /\ forced \in BOOLEAN
    /\ lateFrom \in 1..(MaxCalls + 1)
    /\ said = << >>
    /\ pc = [e \in Engine |-> "loop"]
    /\ iterations = [e \in Engine |-> 0]
    /\ wrapUp = FALSE
    /\ steps = 0
    /\ last = [e \in Engine |-> [stop |-> "end_turn", text |-> "none", uses |-> << >>]]
    /\ messages = [e \in Engine |-> <<"user">>]
    /\ asked = [e \in Engine |-> << >>]
    /\ rounds = [e \in Engine |-> << >>]
    /\ proposal = [e \in Engine |-> NoProposal]
    /\ brief = [e \in Engine |-> NoProposal]
    /\ result = [e \in Engine |-> Unset]

\* Deadline.exhausted() before the engine's next call.
Late(e) == Len(asked[e]) + 1 >= lateFrom

----------------------------------------------------------------------------
(***************************************************************************)
(* The wire.  Converse wants the roles to alternate and every tool use of  *)
(* an assistant message answered in the user message after it; it refuses  *)
(* any other request, and the provider then raises.                        *)
(***************************************************************************)
Role(m) == IF m \in {"assistant", "uses"} THEN "assistant" ELSE "user"

ConverseAccepts(ms) ==
    /\ Role(ms[1]) = "user" /\ Role(ms[Len(ms)]) = "user"
    /\ \A i \in 1..(Len(ms) - 1) :
          /\ Role(ms[i]) # Role(ms[i + 1])
          /\ ms[i] = "uses" <=> ms[i + 1] = "results"

\* The assistant message that holds a reply.
Assistant(r) == IF r.uses = << >> THEN "assistant" ELSE "uses"

\* Can the listener read any of it (_has_visible_text)?
Visible(r) == r.text = "words"

\* Is anything left of the reply to send back?
HasContent(r) == r.text # "none" \/ r.uses # << >>

(***************************************************************************)
(* One model call with these messages, tool choice and hint (a hint joins  *)
(* the user message it is appended to, and changes no role).  The n-th     *)
(* call of either engine is answered by the n-th reply.                    *)
(***************************************************************************)
Asks(e, ms, choice, hint, r) ==
    LET n == Len(asked[e]) + 1
    IN  /\ asked' = [asked EXCEPT ![e] = Append(@, [choice |-> choice, hint |-> hint,
                                                      valid |-> ConverseAccepts(ms)])]
        /\ IF ~ConverseAccepts(ms)
           THEN r = [stop |-> "broken", text |-> "none", uses |-> << >>] /\ UNCHANGED said
           ELSE IF n <= Len(said)
           THEN r = said[n] /\ UNCHANGED said
           ELSE said' = Append(said, r)
        /\ last' = [last EXCEPT ![e] = r]

\* The proposals among the calls of the n-th reply, the last one winning.
LastPlaced(n, uses, before) ==
    LET placed == {i \in DOMAIN uses : uses[i] = "placed"}
    IN  IF placed = {} THEN before
        ELSE <<n, CHOOSE i \in placed : \A k \in placed : k <= i>>

(***************************************************************************)
(* Every tool the reply calls, in parallel, recorded as one round and      *)
(* answered in one message.  ToolRegistry.execute never raises.            *)
(***************************************************************************)
RunTools(e, r, n) ==
    /\ rounds' = [rounds EXCEPT ![e] = Append(@, r.uses)]
    /\ proposal' = [proposal EXCEPT ![e] = LastPlaced(n, r.uses, @)]
    /\ brief' = [brief EXCEPT ![e] = LastPlaced(n, r.uses, @)]

NoTools == UNCHANGED <<rounds, proposal, brief>>

----------------------------------------------------------------------------
(* How a turn ends. *)

\* The turn is answered: text is the model's own or one of the fixed lines,
\* uses the tool calls left on the message that is stored.
Answers(e, stop, text, uses) ==
    /\ pc' = [pc EXCEPT ![e] = "done"]
    /\ result' = [result EXCEPT ![e] =
          [outcome |-> "reply", stop |-> stop, text |-> text, uses |-> uses,
           rounds |-> rounds[e], proposal |-> proposal[e]]]

\* The fixed refusal: the proposal is not carried over.
Refused(e) ==
    /\ pc' = [pc EXCEPT ![e] = "done"]
    /\ result' = [result EXCEPT ![e] =
          [outcome |-> "reply", stop |-> "refusal", text |-> "refusal", uses |-> << >>,
           rounds |-> rounds[e], proposal |-> NoProposal]]

\* The call raised: the harness releases the claim and commits nothing.
Fails(e) ==
    /\ pc' = [pc EXCEPT ![e] = "done"]
    /\ result' = [result EXCEPT ![e] = [outcome |-> "failed"]]

\* The text of an answer from which the tool uses were dropped: the model's
\* if it can be read, else the fixed line, in place of blank text too.
TextWithoutUses(r) == IF Visible(r) THEN "model" ELSE "fallback"

----------------------------------------------------------------------------
(***************************************************************************)
(* NativeEngine.run_turn.                                                  *)
(***************************************************************************)

\* Faulty: the calls of a late reply stay on the message that is stored.
LateUsesKept(r) == r.uses

\* The calls of a late reply that the stored message keeps: none.
LateUses(r) == << >>

\* One pass of the for loop: the deadline, the call, and what it asked for.
NativeLoop(r) ==
    LET e == "native"  late == Late("native")
    IN  /\ pc[e] = "loop" /\ iterations[e] < MaxIterations
        /\ Asks(e, messages[e],
                IF forced /\ iterations[e] = 0 /\ ~late THEN "forced" ELSE "auto",
                IF late THEN "no_more_tools" ELSE "none", r)
        /\ iterations' = [iterations EXCEPT ![e] = @ + 1]
        /\ \/ r.stop = "broken" /\ Fails(e) /\ NoTools /\ UNCHANGED messages
           \/ r.stop = "refusal" /\ Refused(e) /\ NoTools /\ UNCHANGED messages
           \/ /\ r.stop \in {"end_turn", "max_tokens"}
              /\ pc' = [pc EXCEPT ![e] = "answered"]
              /\ NoTools /\ UNCHANGED <<messages, result>>
           \/ /\ r.stop = "tool_use" /\ late
              /\ Answers(e, "end_turn", TextWithoutUses(r), LateUses(r))
              /\ NoTools /\ UNCHANGED messages
           \/ /\ r.stop = "tool_use" /\ ~late
              /\ RunTools(e, r, Len(asked[e]) + 1)
              /\ messages' = [messages EXCEPT ![e] = @ \o <<"uses", "results">>]
              /\ UNCHANGED <<pc, result>>
        /\ UNCHANGED <<forced, lateFrom, wrapUp, steps>>

\* The loop's else: every iteration ended in tool calls.  The reply loses its
\* tool uses, and its stop reason before it is asked whether it was a refusal;
\* nothing to send back leaves the fixed line, blank text is still to be read.
NativeWrapUp(r) ==
    LET e == "native"
    IN  /\ pc[e] = "loop" /\ iterations[e] = MaxIterations
        /\ Asks(e, messages[e], "auto", "no_more_tools", r)
        /\ \/ r.stop = "broken" /\ Fails(e)
           \/ /\ r.stop # "broken" /\ r.text # "blank"
              /\ Answers(e, "end_turn", TextWithoutUses(r), << >>)
           \/ /\ r.stop # "broken" /\ r.text = "blank"
              /\ pc' = [pc EXCEPT ![e] = "wrapped"] /\ UNCHANGED result
        /\ NoTools
        /\ UNCHANGED <<forced, lateFrom, iterations, wrapUp, steps, messages>>

\* The loop was left with a reply the listener can read.
NativeAnswer ==
    LET e == "native"
    IN  /\ pc[e] = "answered" /\ Visible(last[e])
        /\ Answers(e, last[e].stop, "model", last[e].uses)
        /\ UNCHANGED <<forced, lateFrom, said, iterations, wrapUp, steps, last,
                       messages, asked, rounds, proposal, brief>>

\* It was left with none, and there is no time for the nudge.
NativeFallback ==
    LET e == "native"
    IN  /\ pc[e] \in {"answered", "wrapped"} /\ ~Visible(last[e]) /\ Late(e)
        /\ Answers(e, "end_turn", "fallback", << >>)
        /\ UNCHANGED <<forced, lateFrom, said, iterations, wrapUp, steps, last,
                       messages, asked, rounds, proposal, brief>>

\* The messages of the nudge: what came back, then the nudge; or, when
\* nothing did, the nudge joins the last user message.
Nudged(ms, r) == IF HasContent(r) THEN ms \o <<Assistant(r), "user">> ELSE ms

\* What _without_tool_uses makes of a reply that has text.
WithoutToolUses(r) == [stop |-> "end_turn", text |-> r.text, uses |-> << >>]

\* It was left with none: one nudge, then the fixed line.  The message of a
\* wrap-up is sent back without the calls it made.
NativeNudge(r) ==
    LET e == "native"
        final == IF pc["native"] = "wrapped" THEN WithoutToolUses(last["native"])
                 ELSE last["native"]
        ms == Nudged(messages[e], final)
    IN  /\ pc[e] \in {"answered", "wrapped"} /\ ~Visible(last[e]) /\ ~Late(e)
        /\ Asks(e, ms, "auto", "empty_reply", r)
        /\ messages' = [messages EXCEPT ![e] = ms]
        /\ IF r.stop = "broken" THEN Fails(e)
           ELSE Answers(e, "end_turn", TextWithoutUses(r), << >>)
        /\ NoTools
        /\ UNCHANGED <<forced, lateFrom, iterations, wrapUp, steps>>

----------------------------------------------------------------------------
(***************************************************************************)
(* LangGraphEngine.run_turn and the nodes of build_graph.                  *)
(***************************************************************************)

\* Faulty: the wrap-up is due one iteration too late.
WrapUpDueLate(e) == Late(e) \/ iterations[e] > MaxIterations

\* The agent node is to ask for a plain answer.
WrapUpDue(e) == Late(e) \/ iterations[e] >= MaxIterations

\* last.tool_calls: does any call have an input LangChain parsed?
Parsed(uses) == \E i \in DOMAIN uses : uses[i] # "garbled"

\* Faulty: a tool call made after the wrap-up hint is honoured.
AfterAgentHonoured(r, wrap) ==
    IF r.stop = "tool_use" /\ Parsed(r.uses) THEN "tools" ELSE "ended"

\* after_agent: where the conditional edge goes.
AfterAgent(r, wrap) ==
    IF r.stop = "tool_use" /\ Parsed(r.uses) /\ ~wrap THEN "tools" ELSE "ended"

\* The agent node, and the edge after it.
GraphAgent(r) ==
    LET e == "langgraph"  wrap == WrapUpDue("langgraph")
    IN  /\ pc[e] = "loop" /\ pc["native"] = "done"
        /\ Asks(e, messages[e],
                IF forced /\ iterations[e] = 0 /\ ~Late(e) THEN "forced" ELSE "auto",
                IF wrap THEN "no_more_tools" ELSE "none", r)
        /\ steps' = steps + 1
        /\ IF r.stop = "broken"
           THEN Fails(e) /\ UNCHANGED <<iterations, wrapUp, messages>>
           ELSE /\ iterations' = [iterations EXCEPT ![e] = @ + 1]
                /\ wrapUp' = wrap
                /\ messages' = [messages EXCEPT ![e] = Append(@, Assistant(r))]
                /\ pc' = [pc EXCEPT ![e] = AfterAgent(r, wrap)]
                /\ UNCHANGED result
        /\ NoTools
        /\ UNCHANGED <<forced, lateFrom>>

\* The tools node, and the edge back: no tool of the registry is terminal.
GraphTools ==
    LET e == "langgraph"
    IN  /\ pc[e] = "tools"
        /\ RunTools(e, last[e], Len(asked[e]))
        /\ messages' = [messages EXCEPT ![e] = Append(@, "results")]
        /\ steps' = steps + 1
        /\ pc' = [pc EXCEPT ![e] = "loop"]
        /\ UNCHANGED <<forced, lateFrom, said, iterations, wrapUp, last, asked, result>>

\* The graph left something to read: words, or in wrap-up mode the fixed line
\* in place of a reply that held nothing but its tool uses.
Readable ==
    \/ Visible(last["langgraph"])
    \/ wrapUp /\ last["langgraph"].text = "none"

\* The graph ended on the model's last word.
GraphAnswer ==
    LET e == "langgraph"  r == last["langgraph"]
    IN  /\ pc[e] = "ended"
        /\ \/ r.stop = "refusal" /\ Refused(e)
           \/ r.stop # "refusal" /\ wrapUp /\ Readable
              /\ Answers(e, "end_turn", TextWithoutUses(r), << >>)
           \/ r.stop # "refusal" /\ ~wrapUp /\ Readable
              /\ Answers(e, r.stop, "model", r.uses)
           \/ r.stop # "refusal" /\ ~Readable /\ Late(e)
              /\ Answers(e, "end_turn", "fallback", << >>)
        /\ UNCHANGED <<forced, lateFrom, said, iterations, wrapUp, steps, last,
                       messages, asked, rounds, proposal, brief>>

\* It ended on nothing to read: a second drive, already in wrap-up mode.  The
\* message goes back as the model sent it, with the calls it made.
GraphNudge(r) ==
    LET e == "langgraph"
        ended == messages[e]
        ms == IF HasContent(last[e]) THEN Append(ended, "user")
              ELSE SubSeq(ended, 1, Len(ended) - 1)
    IN  /\ pc[e] = "ended" /\ last[e].stop # "refusal" /\ ~Readable /\ ~Late(e)
        /\ Asks(e, ms, "auto", "empty_reply", r)
        /\ messages' = [messages EXCEPT ![e] = ms]
        /\ steps' = 1
        /\ IF r.stop = "broken" THEN Fails(e)
           ELSE IF r.stop = "refusal" THEN Refused(e)
           ELSE Answers(e, "end_turn", TextWithoutUses(r), << >>)
        /\ NoTools
        /\ UNCHANGED <<forced, lateFrom, iterations, wrapUp>>

----------------------------------------------------------------------------
TurnNext ==
    \/ \E r \in Reply :
          NativeLoop(r) \/ NativeWrapUp(r) \/ NativeNudge(r)
          \/ GraphAgent(r) \/ GraphNudge(r)
    \/ NativeAnswer \/ NativeFallback \/ GraphTools \/ GraphAnswer

TurnSpec == TurnInit /\ [][TurnNext]_vars

----------------------------------------------------------------------------
(* Properties. *)

Answered(e) == result[e].outcome = "reply"

\* Type correctness of a turn.
TurnTypeOK ==
    /\ forced \in BOOLEAN /\ wrapUp \in BOOLEAN
    /\ lateFrom \in 1..(MaxCalls + 1)
    /\ \A i \in DOMAIN said : said[i] \in Reply
    /\ pc \in [Engine -> {"loop", "tools", "answered", "wrapped", "ended", "done"}]
    /\ iterations \in [Engine -> 0..(MaxIterations + 1)]
    /\ last \in [Engine -> Reply]
    /\ \A e \in Engine :
          /\ Len(rounds[e]) <= MaxIterations
          /\ \A i \in DOMAIN rounds[e] : rounds[e][i] \in Calls
          /\ result[e] # Unset <=> pc[e] = "done"

\* The types hold, and agent/budget.py bounds what a turn costs in both
\* engines: the graph's recursion limit is never what ends a turn, MAX
\* iterations, a wrap-up and a nudge at most, and 2 * MAX + 1 nodes in one
\* drive of the graph.
WithinBudget ==
    /\ TurnTypeOK
    /\ \A e \in Engine : Len(asked[e]) <= MaxCalls
    /\ steps <= RecursionLimit - 1

\* Where the engines part.  The loop asks whether a wrap-up or a nudge was
\* refused after dropping the stop reason.
RefusedAfterWrapUp ==
    /\ \E i \in DOMAIN said : said[i].stop = "refusal"
    /\ Answered("native") => result["native"].stop # "refusal"

\* It keeps "max_tokens" for a reply given when time was up.
CutWhenLate ==
    /\ Answered("native") /\ result["native"].stop = "max_tokens"
    /\ asked["native"][Len(asked["native"])].hint = "no_more_tools"

\* It drops the calls of a blank wrap-up before the nudge, where the graph
\* sends them back unanswered and fails.
BlankWrapUp ==
    LET n == MaxIterations + 1
    IN  /\ n < Len(asked["langgraph"])
        /\ said[n].text = "blank" /\ said[n].uses # << >>
        /\ result["langgraph"].outcome = "failed"

\* It answers a round of calls none of which LangChain parsed, where the
\* graph ends.
NoCallParsed == \E n \in DOMAIN rounds["native"] : ~Parsed(rounds["native"][n])

\* Given the same turn, the two engines make the same requests, place the
\* same brief and come to the same result, field by field - but for the four
\* cases above.
SameAnswer ==
    pc["native"] = "done" /\ pc["langgraph"] = "done" =>
        \/ RefusedAfterWrapUp \/ CutWhenLate \/ BlankWrapUp \/ NoCallParsed
        \/ /\ result["native"] = result["langgraph"]
           /\ asked["native"] = asked["langgraph"]
           /\ brief["native"] = brief["langgraph"]

\* The messages rebuild_messages makes of the turn once it is committed: an
\* assistant message without text is stood in for by the fixed line.
Rebuilt(e) ==
    LET n == Len(rounds[e])
    IN  [i \in 1..(2 * n + 2) |->
            IF i = 1 THEN "user"
            ELSE IF i = 2 * n + 2
                 THEN IF result[e].uses = << >> THEN "assistant" ELSE "uses"
            ELSE IF i % 2 = 0 THEN "uses" ELSE "results"]

\* The next turn can be asked on top of the committed one: every tool call
\* the checkpoint holds is answered on it.
NextTurnAccepted(e) == ConverseAccepts(Append(Rebuilt(e), "user"))

\* A committed turn never poisons the session's history (loop.py: "an
\* unanswered toolUse would poison the next turn's history").
HistoryReplays == \A e \in Engine : Answered(e) => NextTurnAccepted(e)

\* The graph's nudge sends this reply back with calls nobody answered: those
\* of a blank wrap-up, or those LangChain did not parse.
LeftUnanswered(n) ==
    /\ said[n].stop = "tool_use"
    /\ \/ n = MaxIterations + 1 /\ said[n].text = "blank"
       \/ ~Parsed(said[n].uses)

\* Every request either engine makes is one Converse takes - hints, nudges
\* and dropped replies included - unless it follows a call cut short, or is
\* the graph's and follows calls it left unanswered.
RequestsAreValid ==
    \A e \in Engine : \A i \in DOMAIN asked[e] :
        ~asked[e][i].valid =>
            /\ i > 1 /\ said[i - 1].uses # << >>
            /\ \/ said[i - 1].stop = "max_tokens"
               \/ e = "langgraph" /\ LeftUnanswered(i - 1)

\* The conversation stays one that Converse takes, within the turn and when
\* the next one replays it, as long as no reply was cut short at max_tokens
\* or ended the graph on calls LangChain did not parse: not when the deadline
\* passes mid-turn, the iterations run out or the model calls a tool it was
\* told not to.
HistoryReplaysUnlessCut ==
    /\ RequestsAreValid
    /\ \A e \in Engine :
          Answered(e) /\ result[e].stop \notin {"max_tokens", "tool_use"}
             => NextTurnAccepted(e)
=============================================================================
