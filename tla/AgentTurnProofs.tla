--------------------------- MODULE AgentTurnProofs ---------------------------
(***************************************************************************)
(* Proofs about AgentTurn, for any number of iterations and any tool calls *)
(* a reply may make.                                                       *)
(*                                                                         *)
(* Each engine is a function of the replies: how many of them lead to a    *)
(* round of tools (K below) fixes every request it makes, and the reply    *)
(* after them how it ends.  The invariant says where each engine stands in *)
(* that function, and that the graph, which runs second, needs no reply    *)
(* the loop did not get.                                                   *)
(***************************************************************************)
EXTENDS AgentTurn, SequenceTheorems, TLAPS

\* The kinds of a message, the hints of a request, the requests, and a call
\* that was refused on the wire.
Kind == {"user", "assistant", "uses", "results"}
Hint == {"none", "no_more_tools", "empty_reply"}
Request == [choice : {"forced", "auto"}, hint : Hint, valid : BOOLEAN]
Broken == [stop |-> "broken", text |-> "none", uses |-> << >>]

\* The rounds an engine has run.
K(e) == Len(rounds[e])

(***************************************************************************)
(* What the replies s make of a turn, as the engine e runs it.             *)
(***************************************************************************)

\* The i-th reply leads to a round of tools: of any calls in the loop, of calls
\* one of which was parsed in the graph.
Continues(e, s, i) ==
    /\ s[i].stop = "tool_use" /\ i < lateFrom /\ i <= MaxIterations
    /\ e = "langgraph" => Parsed(s[i].uses)

\* After k rounds the engine is to ask for a plain answer.
Wraps(k) == k + 1 >= lateFrom \/ k >= MaxIterations

\* The reply after k rounds has nothing to read, and there is time to say so.
\* A wrap-up without any text has the fixed line instead; and the loop does
\* not see that it was refused.
Nudges(e, s, k) ==
    /\ k + 2 < lateFrom /\ ~Continues(e, s, k + 1) /\ s[k + 1].stop # "broken"
    /\ IF k < MaxIterations
       THEN ~Visible(s[k + 1]) /\ s[k + 1].stop # "refusal"
       ELSE s[k + 1].text = "blank" /\ (e = "langgraph" => s[k + 1].stop # "refusal")

\* Converse takes the nudge: it follows no tool use.  The loop drops those of a
\* wrap-up.
NudgeTaken(e, s, k) ==
    s[k + 1].uses = << >> \/ (e = "native" /\ k >= MaxIterations)

\* q is the i-th request of an engine that has run k rounds.
RequestIs(q, e, s, k, i) ==
    /\ q.choice = IF forced /\ i = 1 /\ lateFrom > 1 THEN "forced" ELSE "auto"
    /\ q.hint = IF i = k + 2 THEN "empty_reply"
                ELSE IF i >= lateFrom \/ i > MaxIterations THEN "no_more_tools"
                ELSE "none"
    /\ q.valid <=> (i = k + 2 => NudgeTaken(e, s, k))

\* The last reply of a turn of k rounds.
LastReply(e, s, k) ==
    IF Nudges(e, s, k) THEN IF NudgeTaken(e, s, k) THEN s[k + 2] ELSE Broken
    ELSE s[k + 1]

\* The brief that rounds of tools leave: the last one placed.
Placed(uses) == {i \in DOMAIN uses : uses[i] = "placed"}
LastRounds(rs) ==
    {n \in DOMAIN rs : /\ Placed(rs[n]) # {}
                       /\ \A m \in DOMAIN rs : m > n => Placed(rs[m]) = {}}
BriefOf(rs) ==
    IF LastRounds(rs) = {} THEN NoProposal
    ELSE LET n == CHOOSE n \in LastRounds(rs) : TRUE
         IN  LastPlaced(n, rs[n], NoProposal)

\* The forms of a result.
ReplyOf(e, stop, text, uses) ==
    [outcome |-> "reply", stop |-> stop, text |-> text, uses |-> uses,
     rounds |-> rounds[e], proposal |-> proposal[e]]
Refusal(e) ==
    [outcome |-> "reply", stop |-> "refusal", text |-> "refusal", uses |-> << >>,
     rounds |-> rounds[e], proposal |-> NoProposal]
Failure == [outcome |-> "failed"]

\* How each engine ends on its last reply q.
NativeResult(s, k, q) ==
    LET e == "native"
        own == k < MaxIterations /\ ~Nudges(e, s, k)
    IN  IF q.stop = "broken" THEN Failure
        ELSE IF own /\ q.stop = "refusal" THEN Refusal(e)
        ELSE IF own /\ q.stop # "tool_use" /\ Visible(q)
        THEN ReplyOf(e, q.stop, "model", q.uses)
        ELSE ReplyOf(e, "end_turn", TextWithoutUses(q), << >>)

GraphResult(s, k, q) ==
    LET e == "langgraph"
    IN  IF q.stop = "broken" THEN Failure
        ELSE IF q.stop = "refusal" THEN Refusal(e)
        ELSE IF ~Wraps(k) /\ ~Nudges(e, s, k) /\ Visible(q)
        THEN ReplyOf(e, q.stop, "model", q.uses)
        ELSE ReplyOf(e, "end_turn", TextWithoutUses(q), << >>)

(***************************************************************************)
(* The inductive invariant.                                                *)
(***************************************************************************)

TurnTyped ==
    /\ forced \in BOOLEAN /\ wrapUp \in BOOLEAN
    /\ lateFrom \in Nat /\ lateFrom >= 1 /\ lateFrom <= MaxCalls + 1
    /\ said \in Seq(Reply)
    /\ pc \in [Engine -> {"loop", "tools", "answered", "wrapped", "ended", "done"}]
    /\ iterations \in [Engine -> Nat]
    /\ steps \in Nat
    /\ last \in [Engine -> Reply]
    /\ messages \in [Engine -> Seq(Kind)]
    /\ asked \in [Engine -> Seq(Request)]
    /\ rounds \in [Engine -> Seq(Calls)]
    /\ DOMAIN proposal = Engine /\ DOMAIN brief = Engine /\ DOMAIN result = Engine

\* What an engine has done is what the replies make of a turn.
Shape(e) ==
    /\ K(e) <= Len(said)
    /\ \A i \in 1..K(e) : Continues(e, said, i) /\ rounds[e][i] = said[i].uses
    /\ proposal[e] = BriefOf(rounds[e]) /\ brief[e] = proposal[e]
    /\ \A i \in 1..Len(asked[e]) : RequestIs(asked[e][i], e, said, K(e), i)

\* Messages that can be sent.
Sendable(ms) == ms # << >> /\ ConverseAccepts(ms)

\* The engine is about to ask, on top of the rounds it has run.
AtLoop(e) ==
    /\ Len(asked[e]) = K(e) /\ iterations[e] = K(e)
    /\ Sendable(messages[e])
    /\ result[e] = Unset

\* It holds the reply after them.
Holds(e) ==
    /\ Len(asked[e]) = K(e) + 1 /\ iterations[e] \in {K(e), K(e) + 1}
    /\ K(e) + 1 <= Len(said) /\ last[e] = said[K(e) + 1]
    /\ result[e] = Unset

\* It has ended.
AtEnd(e) ==
    /\ K(e) + 1 <= Len(said) /\ ~Continues(e, said, K(e) + 1)
    /\ Len(asked[e]) = IF Nudges(e, said, K(e)) THEN K(e) + 2 ELSE K(e) + 1
    /\ Nudges(e, said, K(e)) /\ NudgeTaken(e, said, K(e)) => K(e) + 2 <= Len(said)
    /\ last[e] = LastReply(e, said, K(e))
    /\ iterations[e] <= K(e) + 1

NativeInv ==
    /\ Shape("native")
    /\ \/ /\ pc["native"] = "loop"
          /\ AtLoop("native") /\ Len(said) = K("native")
       \/ /\ pc["native"] = "answered"
          /\ Holds("native") /\ Len(said) = K("native") + 1
          /\ K("native") < MaxIterations
          /\ Sendable(messages["native"])
          /\ last["native"].stop \in {"end_turn", "max_tokens"}
       \/ /\ pc["native"] = "wrapped"
          /\ Holds("native") /\ Len(said) = K("native") + 1
          /\ K("native") = MaxIterations
          /\ Sendable(messages["native"])
          /\ last["native"].text = "blank" /\ last["native"].stop # "broken"
       \/ /\ pc["native"] = "done"
          /\ AtEnd("native")
          /\ result["native"] = NativeResult(said, K("native"), last["native"])

\* The messages but the last one, which holds the reply.
Before == SubSeq(messages["langgraph"], 1, Len(messages["langgraph"]) - 1)
ReplyStored ==
    /\ messages["langgraph"] # << >>
    /\ Sendable(Before)
    /\ messages["langgraph"][Len(messages["langgraph"])] = Assistant(last["langgraph"])

GraphInv ==
    LET e == "langgraph"
    IN  /\ Shape(e)
        /\ pc["native"] # "done" =>
              pc[e] = "loop" /\ K(e) = 0
        /\ \/ pc[e] = "loop" /\ AtLoop(e) /\ steps = 2 * K(e)
           \/ /\ pc[e] = "tools" /\ Holds(e) /\ ReplyStored
              /\ iterations[e] = K(e) + 1
              /\ Continues(e, said, K(e) + 1) /\ steps = 2 * K(e) + 1
           \/ /\ pc[e] = "ended" /\ Holds(e) /\ ReplyStored
              /\ ~Continues(e, said, K(e) + 1) /\ steps = 2 * K(e) + 1
              /\ wrapUp <=> Wraps(K(e))
              /\ last[e].stop # "broken"
           \/ /\ pc[e] = "done" /\ AtEnd(e)
              /\ result[e] = GraphResult(said, K(e), last[e])
              /\ steps <= 2 * MaxIterations + 1

TurnInv == TurnTyped /\ NativeInv /\ GraphInv

-----------------------------------------------------------------------------
(***************************************************************************)
(* Replies, requests, messages and briefs.                                 *)
(***************************************************************************)

\* What a reply may hold.
LEMMA ReplyFields ==
    ASSUME NEW r \in Reply
    PROVE  /\ r.stop \in {"end_turn", "tool_use", "max_tokens", "refusal", "broken"}
           /\ r.text \in Text
           /\ r.stop \in {"end_turn", "refusal", "broken"} => r.uses = << >>
           /\ r.stop = "tool_use" => r.uses \in Calls
           /\ r.stop = "max_tokens" => r.uses \in {<< >>, <<"garbled">>}
<1>1. CASE r \in [stop : {"end_turn", "refusal"}, text : Text, uses : {<< >>}]
  BY <1>1
<1>2. CASE r \in [stop : {"tool_use"}, text : Text, uses : Calls]
  BY <1>2
<1>3. CASE r \in [stop : {"max_tokens"}, text : Text, uses : {<< >>, <<"garbled">>}]
  BY <1>3
<1>4. CASE r \in [stop : {"broken"}, text : {"none"}, uses : {<< >>}]
  BY <1>4 DEF Text
<1> QED
  BY <1>1, <1>2, <1>3, <1>4 DEF Reply

\* A call that raised, as a reply.
LEMMA BrokenReply == Broken \in Reply
BY DEF Broken, Reply

\* A message, and the two that answer it, can follow messages that can be sent;
\* a tool use that is not answered can not.
LEMMA Sending ==
    ASSUME NEW ms \in Seq(Kind), Sendable(ms)
    PROVE  /\ Sendable(ms \o <<"uses", "results">>)
           /\ Sendable(ms \o <<"assistant", "user">>)
           /\ ~ConverseAccepts(ms \o <<"uses", "user">>)
<1> DEFINE n == Len(ms)
<1>1. /\ n \in Nat /\ n >= 1 /\ \A i \in 1..n : ms[i] \in Kind
      /\ Role(ms[1]) = "user" /\ Role(ms[n]) = "user"
      /\ \A i \in 1..(n - 1) : /\ Role(ms[i]) # Role(ms[i + 1])
                               /\ ms[i] = "uses" <=> ms[i + 1] = "results"
  BY DEF Sendable, ConverseAccepts
<1>2. ms[n] # "uses"
  BY <1>1 DEF Role
<1>3. ASSUME NEW x \in Kind, NEW y \in Kind
      PROVE  /\ Len(ms \o <<x, y>>) = n + 2 /\ ms \o <<x, y>> # << >>
             /\ \A i \in 1..n : (ms \o <<x, y>>)[i] = ms[i]
             /\ (ms \o <<x, y>>)[n + 1] = x /\ (ms \o <<x, y>>)[n + 2] = y
  OBVIOUS
<1>4. ASSUME NEW x \in {"uses", "assistant"}, NEW y \in {"results", "user"},
             x = "uses" <=> y = "results"
      PROVE  Sendable(ms \o <<x, y>>)
  <2> DEFINE m == ms \o <<x, y>>
  <2>1. /\ Len(m) = n + 2 /\ m # << >>
        /\ \A i \in 1..n : m[i] = ms[i]
        /\ m[n + 1] = x /\ m[n + 2] = y
    BY <1>3 DEF Kind
  <2> HIDE DEF m
  <2>2. Role(m[1]) = "user" /\ Role(m[Len(m)]) = "user"
    BY <1>1, <2>1 DEF Role
  <2>3. ASSUME NEW i \in 1..(n + 1)
        PROVE  Role(m[i]) # Role(m[i + 1]) /\ (m[i] = "uses" <=> m[i + 1] = "results")
    <3>1. CASE i < n
      BY <1>1, <2>1, <3>1
    <3>2. CASE i = n
      BY <1>1, <1>2, <2>1, <3>2 DEF Role
    <3>3. CASE i = n + 1
      BY <1>1, <1>4, <2>1, <3>3 DEF Role
    <3> QED
      BY <1>1, <3>1, <3>2, <3>3
  <2>4. Len(m) - 1 = n + 1
    BY <1>1, <2>1
  <2>5. Sendable(m)
    BY <2>1, <2>2, <2>3, <2>4 DEF Sendable, ConverseAccepts
  <2> QED
    BY <2>5 DEF m
<1>5. ~ConverseAccepts(ms \o <<"uses", "user">>)
  <2> DEFINE m == ms \o <<"uses", "user">>
  <2>1. Len(m) = n + 2 /\ m[n + 1] = "uses" /\ m[(n + 1) + 1] = "user"
    BY <1>1, <1>3 DEF Kind
  <2> HIDE DEF m
  <2>2. n + 1 \in 1..(Len(m) - 1)
    BY <1>1, <2>1
  <2>3. ~ConverseAccepts(m)
    BY <2>1, <2>2 DEF ConverseAccepts
  <2> QED
    BY <2>3 DEF m
<1> QED
  BY <1>4, <1>5

\* A reply is stored behind the messages.
LEMMA Stored ==
    ASSUME NEW ms \in Seq(Kind), NEW x \in Kind
    PROVE  /\ Append(ms, x) \in Seq(Kind) /\ Append(ms, x) # << >>
           /\ Len(Append(ms, x)) = Len(ms) + 1
           /\ Append(ms, x)[Len(ms) + 1] = x
           /\ SubSeq(Append(ms, x), 1, Len(ms)) = ms
<1>1. \A i \in 1..Len(ms) : SubSeq(Append(ms, x), 1, Len(ms))[i] = ms[i]
  OBVIOUS
<1>2. /\ SubSeq(Append(ms, x), 1, Len(ms)) \in Seq(Kind)
      /\ Len(SubSeq(Append(ms, x), 1, Len(ms))) = Len(ms)
  OBVIOUS
<1>3. SubSeq(Append(ms, x), 1, Len(ms)) = ms
  BY <1>1, <1>2, SeqEqual
<1>4. /\ Append(ms, x) \in Seq(Kind) /\ Append(ms, x) # << >>
      /\ Len(Append(ms, x)) = Len(ms) + 1
      /\ Append(ms, x)[Len(ms) + 1] = x
  OBVIOUS
<1> QED
  BY <1>3, <1>4

\* What is stored last, and what is before it, make the messages.
LEMMA Unstored ==
    ASSUME NEW ms \in Seq(Kind), ms # << >>, NEW y \in Kind
    PROVE  LET before == SubSeq(ms, 1, Len(ms) - 1)
           IN  /\ before \in Seq(Kind)
               /\ Append(ms, y) = before \o <<ms[Len(ms)], y>>
<1> DEFINE n == Len(ms)
           before == SubSeq(ms, 1, n - 1)
<1>1. /\ n \in Nat /\ n >= 1 /\ before \in Seq(Kind) /\ Len(before) = n - 1
      /\ \A i \in 1..(n - 1) : before[i] = ms[i]
  OBVIOUS
<1>2. /\ Append(ms, y) \in Seq(Kind) /\ Len(Append(ms, y)) = n + 1
      /\ \A i \in 1..n : Append(ms, y)[i] = ms[i]
      /\ Append(ms, y)[n + 1] = y
  OBVIOUS
<1> HIDE DEF before
<1>3. ms[n] \in Kind
  BY <1>1
<1>4. /\ before \o <<ms[n], y>> \in Seq(Kind)
      /\ Len(before \o <<ms[n], y>>) = n + 1
      /\ \A i \in 1..(n - 1) : (before \o <<ms[n], y>>)[i] = before[i]
      /\ (before \o <<ms[n], y>>)[n] = ms[n]
      /\ (before \o <<ms[n], y>>)[n + 1] = y
  <2> DEFINE two == <<ms[n], y>>
  <2>1. two \in Seq(Kind) /\ Len(two) = 2 /\ two[1] = ms[n] /\ two[2] = y
    BY <1>3
  <2> HIDE DEF two
  <2>2. /\ before \o two \in Seq(Kind)
        /\ Len(before \o two) = Len(before) + Len(two)
        /\ \A i \in 1..(Len(before) + Len(two)) :
              (before \o two)[i] = IF i <= Len(before) THEN before[i]
                                  ELSE two[i - Len(before)]
    BY <1>1, <2>1, ConcatProperties
  <2>3. Len(before \o two) = n + 1
    BY <1>1, <2>1, <2>2
  <2>4. /\ \A i \in 1..(n - 1) : (before \o two)[i] = before[i]
        /\ (before \o two)[n] = two[1] /\ (before \o two)[n + 1] = two[2]
    BY <1>1, <2>1, <2>2
  <2> QED
    BY <2>1, <2>2, <2>3, <2>4 DEF two
<1>5. \A i \in 1..(n + 1) : Append(ms, y)[i] = (before \o <<ms[n], y>>)[i]
  BY <1>1, <1>2, <1>4
<1>6. Append(ms, y) = before \o <<ms[n], y>>
  <2> DEFINE whole == Append(ms, y)
             joined == before \o <<ms[n], y>>
  <2>1. /\ whole \in Seq(Kind) /\ joined \in Seq(Kind)
        /\ Len(whole) = n + 1 /\ Len(joined) = n + 1
    BY <1>2, <1>4
  <2>2. \A i \in 1..(n + 1) : whole[i] = joined[i]
    BY <1>5
  <2> HIDE DEF whole, joined
  <2>3. whole = joined
    BY <2>1, <2>2
  <2> QED
    BY <2>3 DEF whole, joined
<1> QED
  BY <1>1, <1>6 DEF before

\* What the rounds have placed is what the tools have left on the session.
LEMMA BriefOfRound ==
    ASSUME NEW rs \in Seq(Calls), NEW uses \in Calls
    PROVE  BriefOf(Append(rs, uses)) = LastPlaced(Len(rs) + 1, uses, BriefOf(rs))
<1> DEFINE n == Len(rs)
           more == Append(rs, uses)
<1>1. /\ n \in Nat /\ DOMAIN rs = 1..n /\ DOMAIN more = 1..(n + 1)
      /\ \A i \in 1..n : more[i] = rs[i]
      /\ more[n + 1] = uses
  OBVIOUS
<1> HIDE DEF more
<1>2. CASE Placed(uses) = {}
  <2>1. LastRounds(more) = LastRounds(rs)
    <3>1. n + 1 \notin LastRounds(more) /\ LastRounds(more) \subseteq 1..n
      BY <1>1, <1>2 DEF LastRounds
    <3>2. LastRounds(rs) \subseteq 1..n
      BY <1>1 DEF LastRounds
    <3>3. ASSUME NEW i \in 1..n
          PROVE  i \in LastRounds(more) <=> i \in LastRounds(rs)
      <4>1. Placed(more[i]) = Placed(rs[i])
        BY <1>1
      <4>2. /\ \A m \in 1..n : Placed(more[m]) = Placed(rs[m])
            /\ Placed(more[n + 1]) = {}
        BY <1>1, <1>2
      <4>3. (\A m \in 1..(n + 1) : m > i => Placed(more[m]) = {})
              <=> (\A m \in 1..n : m > i => Placed(rs[m]) = {})
        BY <1>1, <4>2
      <4> QED
        BY <1>1, <4>1, <4>3 DEF LastRounds
    <3> QED
      BY <3>1, <3>2, <3>3
  <2>2. CASE LastRounds(rs) = {}
    <3>1. BriefOf(more) = NoProposal /\ BriefOf(rs) = NoProposal
      BY <2>1, <2>2 DEF BriefOf
    <3>2. LastPlaced(n + 1, uses, NoProposal) = NoProposal
      BY <1>2 DEF LastPlaced, Placed
    <3> QED
      BY <3>1, <3>2 DEF more
  <2>3. CASE LastRounds(rs) # {}
    <3> DEFINE m == CHOOSE m \in LastRounds(rs) : TRUE
    <3>1. m \in 1..n
      BY <1>1, <2>3 DEF LastRounds
    <3>2. BriefOf(more) = LastPlaced(m, more[m], NoProposal)
      BY <2>1, <2>3 DEF BriefOf
    <3>3. BriefOf(rs) = LastPlaced(m, rs[m], NoProposal)
      BY <2>3 DEF BriefOf
    <3>4. LastPlaced(n + 1, uses, BriefOf(rs)) = BriefOf(rs)
      BY <1>2 DEF LastPlaced, Placed
    <3> QED
      BY <1>1, <3>1, <3>2, <3>3, <3>4 DEF more
  <2> QED
    BY <2>2, <2>3 DEF more
<1>3. CASE Placed(uses) # {}
  <2>1. LastRounds(more) = {n + 1}
    <3>1. LastRounds(more) \subseteq 1..(n + 1)
      BY <1>1 DEF LastRounds
    <3>2. n + 1 \in LastRounds(more)
      BY <1>1, <1>3 DEF LastRounds
    <3>3. \A i \in 1..n : i \notin LastRounds(more)
      BY <1>1, <1>3 DEF LastRounds
    <3> QED
      BY <1>1, <3>1, <3>2, <3>3
  <2>2. BriefOf(more) = LastPlaced(n + 1, uses, NoProposal)
    BY <1>1, <2>1 DEF BriefOf
  <2>3. LastPlaced(n + 1, uses, NoProposal) = LastPlaced(n + 1, uses, BriefOf(rs))
    BY <1>3 DEF LastPlaced, Placed
  <2> QED
    BY <2>2, <2>3 DEF more
<1> QED
  BY <1>2, <1>3

-----------------------------------------------------------------------------
(***************************************************************************)
(* One model call.                                                         *)
(***************************************************************************)

\* Another request keeps what the first requests are.
LEMMA RequestKeeps ==
    ASSUME NEW q, NEW e, NEW s, NEW t, NEW k \in Nat, NEW m \in Nat, NEW i \in Nat,
           k <= m, i <= k + 1, RequestIs(q, e, s, k, i)
    PROVE  RequestIs(q, e, t, m, i)
<1>1. i # k + 2 /\ i # m + 2
  OBVIOUS
<1> QED
  BY <1>1 DEF RequestIs

\* So do more replies.
LEMMA RequestKeepsAll ==
    ASSUME NEW q, NEW e, NEW s, NEW t, NEW k \in Nat, NEW i, RequestIs(q, e, s, k, i),
           s[k + 1] = t[k + 1]
    PROVE  RequestIs(q, e, t, k, i)
BY DEF RequestIs, NudgeTaken

\* t holds the replies of s, and maybe more.
Extends(t, s) ==
    Len(s) <= Len(t) /\ \A i \in 1..Len(s) : t[i] = s[i]

\* One more request, and its reply r.
Asked(e, ms, choice, hint, r) ==
    LET n == Len(asked[e]) + 1
    IN  /\ Len(asked'[e]) = n
        /\ \A i \in 1..Len(asked[e]) : asked'[e][i] = asked[e][i]
        /\ asked'[e][n].choice = choice /\ asked'[e][n].hint = hint
        /\ asked'[e][n].valid <=> ConverseAccepts(ms)
        /\ last'[e] = r
        /\ Extends(said', said)
        /\ ConverseAccepts(ms) => n <= Len(said') /\ said'[n] = r
        /\ ConverseAccepts(ms) /\ n <= Len(said) => said' = said
        /\ ConverseAccepts(ms) /\ n = Len(said) + 1 => Len(said') = n
        /\ ~ConverseAccepts(ms) => said' = said /\ r = Broken

\* The types of what a request changes.
AskedTypes(e) ==
    /\ said' \in Seq(Reply)
    /\ asked' \in [Engine -> Seq(Request)] /\ last' \in [Engine -> Reply]
    /\ \A d \in Engine : d # e => asked'[d] = asked[d] /\ last'[d] = last[d]

\* What a model call does.
LEMMA AsksEffect ==
    ASSUME TurnTyped, NEW e \in Engine, NEW ms, NEW r \in Reply,
           NEW choice \in {"forced", "auto"}, NEW hint \in Hint,
           Len(asked[e]) <= Len(said), Asks(e, ms, choice, hint, r)
    PROVE  Asked(e, ms, choice, hint, r) /\ AskedTypes(e)
<1> DEFINE n == Len(asked[e]) + 1
           q == [choice |-> choice, hint |-> hint, valid |-> ConverseAccepts(ms)]
<1>0. /\ asked \in [Engine -> Seq(Request)] /\ last \in [Engine -> Reply]
      /\ said \in Seq(Reply) /\ asked[e] \in Seq(Request)
      /\ Len(asked[e]) \in Nat /\ Len(said) \in Nat
  BY DEF TurnTyped
<1>1. /\ q \in Request /\ q.choice = choice /\ q.hint = hint
      /\ q.valid <=> ConverseAccepts(ms)
  BY DEF Request, ConverseAccepts
<1>2. /\ asked' = [asked EXCEPT ![e] = Append(asked[e], q)]
      /\ last' = [last EXCEPT ![e] = r]
  BY DEF Asks
<1>3. /\ ~ConverseAccepts(ms) => said' = said /\ r = Broken
      /\ ConverseAccepts(ms) /\ n <= Len(said) => said' = said /\ r = said[n]
      /\ ConverseAccepts(ms) /\ ~(n <= Len(said)) => said' = Append(said, r)
  BY DEF Asks, Broken
<1> HIDE DEF q
<1>4. /\ Append(asked[e], q) \in Seq(Request)
      /\ Len(Append(asked[e], q)) = n
      /\ \A i \in 1..Len(asked[e]) : Append(asked[e], q)[i] = asked[e][i]
      /\ Append(asked[e], q)[n] = q
  BY <1>0, <1>1
<1>5. /\ asked' \in [Engine -> Seq(Request)] /\ asked'[e] = Append(asked[e], q)
      /\ \A d \in Engine : d # e => asked'[d] = asked[d]
  BY <1>0, <1>2, <1>4
<1>6. /\ last' \in [Engine -> Reply] /\ last'[e] = r
      /\ \A d \in Engine : d # e => last'[d] = last[d]
  BY <1>0, <1>2
<1>7. /\ said' \in Seq(Reply) /\ Extends(said', said)
      /\ ConverseAccepts(ms) => n <= Len(said') /\ said'[n] = r
      /\ ConverseAccepts(ms) /\ n <= Len(said) => said' = said
      /\ ConverseAccepts(ms) /\ n = Len(said) + 1 => Len(said') = n
  <2>1. CASE said' = said /\ ~(ConverseAccepts(ms) /\ ~(n <= Len(said)))
    BY <1>0, <1>3, <2>1 DEF Extends
  <2>2. CASE said' = Append(said, r) /\ ConverseAccepts(ms) /\ ~(n <= Len(said))
    <3>1. n = Len(said) + 1
      BY <1>0, <2>2
    <3>2. /\ Append(said, r) \in Seq(Reply) /\ Len(Append(said, r)) = Len(said) + 1
          /\ \A i \in 1..Len(said) : Append(said, r)[i] = said[i]
          /\ Append(said, r)[Len(said) + 1] = r
      BY <1>0
    <3> QED
      BY <1>0, <2>2, <3>1, <3>2 DEF Extends
  <2> QED
    BY <1>3, <2>1, <2>2
<1>8. AskedTypes(e)
  BY <1>5, <1>6, <1>7 DEF AskedTypes
<1>9. /\ Len(asked'[e]) = n
      /\ \A i \in 1..Len(asked[e]) : asked'[e][i] = asked[e][i]
      /\ asked'[e][n] = q
  BY <1>4, <1>5
<1> QED
  BY <1>1, <1>3, <1>6, <1>7, <1>8, <1>9 DEF Asked

\* A step that leaves what an engine has asked.
LEMMA NoMoreTypes ==
    ASSUME TurnTyped, UNCHANGED <<said, asked, last>>, NEW e
    PROVE  AskedTypes(e)
BY DEF AskedTypes, TurnTyped

-----------------------------------------------------------------------------
(***************************************************************************)
(* What the steps share.                                                   *)
(***************************************************************************)

\* The engine ends its turn with res.
EndsWith(e, res) ==
    /\ pc' \in [Engine -> {"loop", "tools", "answered", "wrapped", "ended", "done"}]
    /\ pc'[e] = "done" /\ DOMAIN result' = Engine /\ result'[e] = res
    /\ \A d \in Engine : d # e => pc'[d] = pc[d] /\ result'[d] = result[d]

\* The three ways a turn ends.
LEMMA EndEffect ==
    ASSUME TurnTyped, NEW e \in Engine
    PROVE  /\ \A stop, text, uses :
                 Answers(e, stop, text, uses) => EndsWith(e, ReplyOf(e, stop, text, uses))
           /\ Refused(e) => EndsWith(e, Refusal(e))
           /\ Fails(e) => EndsWith(e, Failure)
<1>1. ASSUME NEW res, pc' = [pc EXCEPT ![e] = "done"],
             result' = [result EXCEPT ![e] = res]
      PROVE  EndsWith(e, res)
  BY <1>1 DEF EndsWith, TurnTyped
<1> QED
  BY <1>1 DEF Answers, Refused, Fails, ReplyOf, Refusal, Failure

\* The engine stands at `at`, and the turn goes on.
StandsAt(e, at) ==
    /\ pc' \in [Engine -> {"loop", "tools", "answered", "wrapped", "ended", "done"}]
    /\ pc'[e] = at /\ result' = result
    /\ \A d \in Engine : d # e => pc'[d] = pc[d]

\* Moving on.
LEMMA StandEffect ==
    ASSUME TurnTyped, NEW e \in Engine,
           NEW at \in {"loop", "tools", "answered", "wrapped", "ended"},
           pc' = [pc EXCEPT ![e] = at], UNCHANGED result
    PROVE  StandsAt(e, at)
BY DEF StandsAt, TurnTyped

\* What a round of tools adds.
RoundAdded(e, uses) ==
    /\ rounds' \in [Engine -> Seq(Calls)]
    /\ rounds'[e] = Append(rounds[e], uses) /\ Len(rounds'[e]) = K(e) + 1
    /\ \A i \in 1..K(e) : rounds'[e][i] = rounds[e][i]
    /\ rounds'[e][K(e) + 1] = uses
    /\ DOMAIN proposal' = Engine /\ DOMAIN brief' = Engine
    /\ proposal'[e] = BriefOf(rounds'[e]) /\ brief'[e] = proposal'[e]
    /\ \A d \in Engine : d # e => /\ rounds'[d] = rounds[d]
                                  /\ proposal'[d] = proposal[d]
                                  /\ brief'[d] = brief[d]

\* Running the tools.
LEMMA ToolsEffect ==
    ASSUME TurnTyped, NEW e \in Engine, NEW r, r.uses \in Calls, Shape(e),
           RunTools(e, r, K(e) + 1)
    PROVE  RoundAdded(e, r.uses)
<1>0. /\ rounds \in [Engine -> Seq(Calls)] /\ rounds[e] \in Seq(Calls)
      /\ DOMAIN proposal = Engine /\ DOMAIN brief = Engine
      /\ proposal[e] = BriefOf(rounds[e]) /\ brief[e] = proposal[e]
  BY DEF TurnTyped, Shape
<1>1. /\ Append(rounds[e], r.uses) \in Seq(Calls)
      /\ Len(Append(rounds[e], r.uses)) = K(e) + 1
      /\ \A i \in 1..K(e) : Append(rounds[e], r.uses)[i] = rounds[e][i]
      /\ Append(rounds[e], r.uses)[K(e) + 1] = r.uses
  BY <1>0 DEF K
<1>2. /\ rounds' \in [Engine -> Seq(Calls)]
      /\ rounds'[e] = Append(rounds[e], r.uses)
      /\ \A d \in Engine : d # e => rounds'[d] = rounds[d]
  BY <1>0, <1>1 DEF RunTools
<1>3. /\ DOMAIN proposal' = Engine /\ DOMAIN brief' = Engine
      /\ proposal'[e] = LastPlaced(K(e) + 1, r.uses, proposal[e])
      /\ brief'[e] = LastPlaced(K(e) + 1, r.uses, brief[e])
      /\ \A d \in Engine : d # e => proposal'[d] = proposal[d] /\ brief'[d] = brief[d]
  BY <1>0 DEF RunTools
<1>4. BriefOf(rounds'[e]) = LastPlaced(K(e) + 1, r.uses, BriefOf(rounds[e]))
  BY <1>0, <1>2, BriefOfRound DEF K
<1> QED
  BY <1>0, <1>1, <1>2, <1>3, <1>4 DEF RoundAdded

\* The requests so far are those of k rounds.
RequestsOf(e, k) ==
    \A i \in 1..Len(asked'[e]) : RequestIs(asked'[e][i], e, said', k, i)

\* The request of the loop proper.
LEMMA LoopAsked ==
    ASSUME TurnTyped, NEW e \in Engine, Shape(e), AtLoop(e), NEW choice, NEW hint,
           NEW r, Asked(e, messages[e], choice, hint, r),
           choice = IF forced /\ K(e) = 0 /\ lateFrom > 1 THEN "forced" ELSE "auto",
           hint = IF Wraps(K(e)) THEN "no_more_tools" ELSE "none"
    PROVE  /\ Len(asked'[e]) = K(e) + 1 /\ last'[e] = r
           /\ RequestsOf(e, K(e))
           /\ K(e) + 1 <= Len(said') /\ said'[K(e) + 1] = r
           /\ Extends(said', said)
           /\ K(e) < Len(said) => said' = said
           /\ K(e) = Len(said) => Len(said') = K(e) + 1
<1>0. /\ K(e) \in Nat /\ Len(asked[e]) = K(e) /\ ConverseAccepts(messages[e])
      /\ MaxIterations \in Nat /\ lateFrom \in Nat
      /\ \A i \in 1..K(e) : RequestIs(asked[e][i], e, said, K(e), i)
      /\ said \in Seq(Reply)
  BY TurnAssumption DEF TurnTyped, K, AtLoop, Shape, Sendable
<1>1. ASSUME NEW i \in 1..K(e) PROVE RequestIs(asked'[e][i], e, said', K(e), i)
  <2>1. asked'[e][i] = asked[e][i] /\ RequestIs(asked[e][i], e, said, K(e), i)
    BY <1>0 DEF Asked
  <2>2. i \in Nat /\ i <= K(e) + 1
    BY <1>0
  <2> QED
    BY <1>0, <2>1, <2>2, RequestKeeps
<1>2. RequestIs(asked'[e][K(e) + 1], e, said', K(e), K(e) + 1)
  <2>1. /\ asked'[e][K(e) + 1].choice = choice /\ asked'[e][K(e) + 1].hint = hint
        /\ asked'[e][K(e) + 1].valid
    BY <1>0 DEF Asked
  <2>2. K(e) + 1 # K(e) + 2
    BY <1>0
  <2> QED
    BY <1>0, <2>1, <2>2 DEF RequestIs, Wraps
<1>3. Len(asked'[e]) = K(e) + 1
  BY <1>0 DEF Asked
<1> QED
  BY <1>0, <1>1, <1>2, <1>3 DEF Asked, RequestsOf

\* The request of the nudge.
LEMMA NudgeAsked ==
    ASSUME TurnTyped, NEW e \in Engine, Shape(e), Holds(e), NEW ms, NEW r,
           Asked(e, ms, "auto", "empty_reply", r),
           Nudges(e, said, K(e)), ConverseAccepts(ms) <=> NudgeTaken(e, said, K(e))
    PROVE  /\ Len(asked'[e]) = K(e) + 2 /\ last'[e] = r
           /\ RequestsOf(e, K(e))
           /\ Extends(said', said)
           /\ NudgeTaken(e, said, K(e)) =>
                 K(e) + 2 <= Len(said') /\ r = said'[K(e) + 2]
           /\ ~NudgeTaken(e, said, K(e)) => r = Broken
           /\ K(e) + 2 <= Len(said) \/ ~NudgeTaken(e, said, K(e)) => said' = said
<1>0. /\ K(e) \in Nat /\ Len(asked[e]) = K(e) + 1
      /\ MaxIterations \in Nat /\ lateFrom \in Nat
      /\ \A i \in 1..(K(e) + 1) : RequestIs(asked[e][i], e, said, K(e), i)
      /\ said \in Seq(Reply) /\ K(e) + 1 <= Len(said)
  BY TurnAssumption DEF TurnTyped, K, Holds, Shape
<1>1. said'[K(e) + 1] = said[K(e) + 1] /\ (K(e) + 1) + 1 = K(e) + 2
  BY <1>0 DEF Asked, Extends
<1>2. ASSUME NEW i \in 1..(K(e) + 1) PROVE RequestIs(asked'[e][i], e, said', K(e), i)
  <2>1. asked'[e][i] = asked[e][i] /\ RequestIs(asked[e][i], e, said, K(e), i)
    BY <1>0, <1>2 DEF Asked
  <2> QED
    BY <1>0, <1>1, <2>1, RequestKeepsAll
<1>3. RequestIs(asked'[e][K(e) + 2], e, said', K(e), K(e) + 2)
  <2>1. /\ asked'[e][K(e) + 2].choice = "auto"
        /\ asked'[e][K(e) + 2].hint = "empty_reply"
        /\ asked'[e][K(e) + 2].valid <=> NudgeTaken(e, said, K(e))
    BY <1>0, <1>1 DEF Asked
  <2>2. K(e) + 2 # 1
    BY <1>0
  <2> QED
    BY <1>0, <1>1, <2>1, <2>2 DEF RequestIs, NudgeTaken
<1>4. Len(asked'[e]) = K(e) + 2
  BY <1>0, <1>1 DEF Asked
<1>5. \A i \in 1..(K(e) + 2) : i \in 1..(K(e) + 1) \/ i = K(e) + 2
  BY <1>0
<1>6. RequestsOf(e, K(e))
  BY <1>2, <1>3, <1>4, <1>5 DEF RequestsOf
<1> QED
  BY <1>0, <1>1, <1>4, <1>6 DEF Asked

\* More replies change nothing of what the first ones make of the turn.
LEMMA Prefix ==
    ASSUME NEW e, NEW s \in Seq(Reply), NEW t, Extends(t, s), NEW k \in Nat,
           k + 1 <= Len(s)
    PROVE  /\ t[k + 1] = s[k + 1]
           /\ Continues(e, t, k + 1) <=> Continues(e, s, k + 1)
           /\ Nudges(e, t, k) <=> Nudges(e, s, k)
           /\ NudgeTaken(e, t, k) <=> NudgeTaken(e, s, k)
<1>1. t[k + 1] = s[k + 1]
  BY DEF Extends
<1>2. Continues(e, t, k + 1) <=> Continues(e, s, k + 1)
  BY <1>1 DEF Continues
<1> QED
  BY <1>1, <1>2 DEF Nudges, NudgeTaken

\* The shape, when no round was added.
LEMMA ShapeSame ==
    ASSUME TurnTyped, NEW e \in Engine, Shape(e), Extends(said', said),
           said' \in Seq(Reply), RequestsOf(e, K(e)),
           UNCHANGED <<forced, lateFrom>>, rounds'[e] = rounds[e],
           proposal'[e] = proposal[e], brief'[e] = brief[e]
    PROVE  Shape(e)' /\ K(e)' = K(e)
<1>0. K(e) \in Nat /\ K(e)' = K(e) /\ said \in Seq(Reply) /\ K(e) <= Len(said)
  BY DEF TurnTyped, K, Shape
<1>1. K(e) <= Len(said')
  BY <1>0 DEF Extends
<1>2. \A i \in 1..K(e) : said'[i] = said[i]
  BY <1>0 DEF Extends
<1>3. \A i \in 1..K(e) : Continues(e, said, i)' /\ rounds'[e][i] = said'[i].uses
  BY <1>0, <1>2 DEF Shape, Continues
<1>4. \A i \in 1..Len(asked'[e]) : RequestIs(asked[e][i], e, said, K(e), i)'
  BY <1>0 DEF RequestsOf, RequestIs, NudgeTaken
<1>5. BriefOf(rounds'[e]) = BriefOf(rounds[e])
  OBVIOUS
<1> QED
  BY <1>0, <1>1, <1>3, <1>4, <1>5 DEF Shape, BriefOf, LastRounds, Placed, LastPlaced

\* The shape, when the last reply led to a round.
LEMMA ShapeRound ==
    ASSUME TurnTyped, NEW e \in Engine, Shape(e), Extends(said', said),
           said' \in Seq(Reply), RequestsOf(e, K(e)), Len(asked'[e]) = K(e) + 1,
           UNCHANGED <<forced, lateFrom>>, K(e) + 1 <= Len(said'),
           Continues(e, said', K(e) + 1), RoundAdded(e, said'[K(e) + 1].uses)
    PROVE  Shape(e)' /\ K(e)' = K(e) + 1
<1>0. /\ K(e) \in Nat /\ K(e)' = K(e) + 1
      /\ said \in Seq(Reply) /\ K(e) <= Len(said)
  BY DEF TurnTyped, K, Shape, RoundAdded
<1>1. K(e)' <= Len(said')
  BY <1>0
<1>2. \A i \in 1..K(e) : said'[i] = said[i]
  BY <1>0 DEF Extends
<1>3. \A i \in 1..K(e)' : Continues(e, said, i)' /\ rounds'[e][i] = said'[i].uses
  <2> SUFFICES ASSUME NEW i \in 1..K(e)'
               PROVE  Continues(e, said, i)' /\ rounds'[e][i] = said'[i].uses
    OBVIOUS
  <2>1. CASE i = K(e) + 1
    BY <2>1 DEF Continues, RoundAdded
  <2>2. CASE i \in 1..K(e)
    BY <1>2, <2>2 DEF Shape, Continues, RoundAdded
  <2> QED
    BY <1>0, <2>1, <2>2
<1>4. \A i \in 1..Len(asked'[e]) : RequestIs(asked[e][i], e, said, K(e), i)'
  <2> SUFFICES ASSUME NEW i \in 1..Len(asked'[e])
               PROVE  RequestIs(asked[e][i], e, said, K(e), i)'
    OBVIOUS
  <2>1. RequestIs(asked'[e][i], e, said', K(e), i) /\ i \in Nat /\ i <= K(e) + 1
    BY <1>0 DEF RequestsOf
  <2>2. RequestIs(asked'[e][i], e, said', K(e) + 1, i)
    BY <1>0, <2>1, RequestKeeps
  <2> QED
    BY <1>0, <2>2 DEF RequestIs, NudgeTaken
<1>5. proposal'[e] = BriefOf(rounds[e])' /\ brief'[e] = proposal'[e]
  BY DEF RoundAdded, BriefOf, LastRounds, Placed, LastPlaced
<1> QED
  BY <1>0, <1>1, <1>3, <1>4, <1>5 DEF Shape

-----------------------------------------------------------------------------
(***************************************************************************)
(* The loop.                                                               *)
(***************************************************************************)

\* The graph, which has not begun.
GraphKept ==
    LET e == "langgraph"
    IN  /\ UNCHANGED <<forced, lateFrom, wrapUp, steps>>
        /\ pc'[e] = pc[e] /\ iterations'[e] = iterations[e]
        /\ messages'[e] = messages[e] /\ asked'[e] = asked[e]
        /\ rounds'[e] = rounds[e] /\ proposal'[e] = proposal[e]
        /\ brief'[e] = brief[e] /\ result'[e] = result[e]

\* While the loop runs, the graph stays at its start.
LEMMA GraphPristine ==
    ASSUME TurnTyped, GraphInv, pc["native"] # "done", GraphKept,
           said' \in Seq(Reply)
    PROVE  GraphInv'
<1> DEFINE e == "langgraph"
<1>1. /\ pc[e] = "loop" /\ K(e) = 0 /\ Len(asked[e]) = 0 /\ iterations[e] = 0
      /\ Sendable(messages[e]) /\ result[e] = Unset /\ steps = 0
      /\ proposal[e] = BriefOf(rounds[e]) /\ brief[e] = proposal[e]
  BY DEF GraphInv, AtLoop, Shape
<1>2. K(e)' = 0 /\ Len(asked'[e]) = 0 /\ Len(said') \in Nat
  BY <1>1 DEF GraphKept, K
<1>3. BriefOf(rounds[e])' = BriefOf(rounds[e])
  BY DEF GraphKept, BriefOf, LastRounds, Placed, LastPlaced
<1>4. Shape(e)'
  BY <1>1, <1>2, <1>3 DEF Shape, GraphKept
<1>5. Sendable(messages[e])'
  BY <1>1 DEF GraphKept, Sendable, ConverseAccepts, Role
<1>6. AtLoop(e)'
  BY <1>1, <1>2, <1>5 DEF AtLoop, GraphKept, Unset
<1> QED
  BY <1>1, <1>2, <1>4, <1>6 DEF GraphInv, GraphKept

\* What the loop ends on is what the replies make of it.
LEMMA NativeEnds ==
    ASSUME TurnTyped, Shape("native")', K("native")' = K("native"),
           UNCHANGED <<forced, lateFrom>>, rounds'["native"] = rounds["native"],
           proposal'["native"] = proposal["native"],
           pc'["native"] = "done",
           K("native") + 1 <= Len(said'), ~Continues("native", said', K("native") + 1),
           Len(asked'["native"]) = IF Nudges("native", said', K("native"))
                                   THEN K("native") + 2 ELSE K("native") + 1,
           Nudges("native", said', K("native")) /\ NudgeTaken("native", said', K("native")) =>
              K("native") + 2 <= Len(said'),
           last'["native"] = LastReply("native", said', K("native")),
           iterations'["native"] <= K("native") + 1,
           result'["native"] = NativeResult(said', K("native"), last'["native"])
    PROVE  NativeInv'
<1> DEFINE e == "native"
           k == K(e)
<1>1. /\ Nudges(e, said, K(e))' <=> Nudges(e, said', k)
      /\ Continues(e, said, K(e) + 1)' <=> Continues(e, said', k + 1)
  BY DEF Nudges, Continues, Visible
<1>2. LastReply(e, said, K(e))' = LastReply(e, said', k)
  BY <1>1 DEF LastReply, Broken, NudgeTaken
<1>3. AtEnd(e)'
  BY <1>1, <1>2 DEF AtEnd, NudgeTaken
<1>4. NativeResult(said, K(e), last[e])' = NativeResult(said', k, last'[e])
  BY <1>1 DEF NativeResult, Failure, Refusal, ReplyOf, TextWithoutUses, Visible
<1> QED
  BY <1>3, <1>4 DEF NativeInv

\* One pass of the loop.
LEMMA NativeLoopStep ==
    ASSUME TurnTyped, NativeInv, GraphInv, NEW r \in Reply, NativeLoop(r)
    PROVE  TurnTyped' /\ NativeInv' /\ GraphInv'
<1> DEFINE e == "native"
           k == K(e)
           choice == IF forced /\ iterations[e] = 0 /\ ~Late(e) THEN "forced"
                     ELSE "auto"
           hint == IF Late(e) THEN "no_more_tools" ELSE "none"
<1>0. /\ e \in Engine /\ k \in Nat /\ Shape(e) /\ AtLoop(e) /\ Len(said) = k
      /\ pc[e] = "loop" /\ k < MaxIterations /\ MaxIterations \in Nat
      /\ lateFrom \in Nat /\ lateFrom >= 1
      /\ messages[e] \in Seq(Kind) /\ Sendable(messages[e])
      /\ Late(e) <=> k + 1 >= lateFrom
  BY TurnAssumption DEF NativeLoop, NativeInv, AtLoop, TurnTyped, Engine, K, Late
<1>1. /\ choice = IF forced /\ k = 0 /\ lateFrom > 1 THEN "forced" ELSE "auto"
      /\ hint = IF Wraps(k) THEN "no_more_tools" ELSE "none"
      /\ choice \in {"forced", "auto"} /\ hint \in Hint
  BY <1>0 DEF AtLoop, Wraps, Hint
<1>2. Asks(e, messages[e], choice, hint, r)
  BY DEF NativeLoop
<1> HIDE DEF choice, hint
<1>3. Asked(e, messages[e], choice, hint, r) /\ AskedTypes(e)
  <2>1. Len(asked[e]) <= Len(said) /\ choice \in {"forced", "auto"} /\ hint \in Hint
    BY <1>0, <1>1 DEF AtLoop
  <2> QED
    BY <1>0, <1>2, <2>1, AsksEffect
<1>4. /\ Len(asked'[e]) = k + 1 /\ last'[e] = r /\ RequestsOf(e, k)
      /\ k + 1 <= Len(said') /\ said'[k + 1] = r /\ Len(said') = k + 1
      /\ Extends(said', said)
  BY <1>0, <1>1, <1>3, LoopAsked
<1>5. /\ UNCHANGED <<forced, lateFrom, wrapUp, steps>>
      /\ iterations' \in [Engine -> Nat] /\ iterations'[e] = k + 1
      /\ \A d \in Engine : d # e => iterations'[d] = iterations[d]
      /\ said' \in Seq(Reply) /\ asked' \in [Engine -> Seq(Request)]
      /\ last' \in [Engine -> Reply]
      /\ \A d \in Engine : d # e => asked'[d] = asked[d]
  <2>1. /\ iterations' = [iterations EXCEPT ![e] = iterations[e] + 1]
        /\ UNCHANGED <<forced, lateFrom, wrapUp, steps>>
    BY DEF NativeLoop
  <2>2. iterations \in [Engine -> Nat] /\ iterations[e] = k
    BY <1>0 DEF TurnTyped, AtLoop
  <2> QED
    BY <1>0, <1>3, <2>1, <2>2 DEF AskedTypes
<1>6. /\ r.stop \in {"end_turn", "tool_use", "max_tokens", "refusal", "broken"}
      /\ r.stop = "tool_use" => r.uses \in Calls
  BY ReplyFields
<1>g. "langgraph" \in Engine /\ "langgraph" # e
  BY DEF Engine
<1>t. ASSUME UNCHANGED <<messages, rounds, proposal, brief>>,
             pc' \in [Engine -> {"loop", "tools", "answered", "wrapped", "ended", "done"}],
             DOMAIN result' = Engine
      PROVE  TurnTyped'
  BY <1>5, <1>t DEF TurnTyped
<1>7. ASSUME NEW res, EndsWith(e, res), UNCHANGED messages, NoTools,
             ~Continues(e, said', k + 1), ~Nudges(e, said', k),
             res = NativeResult(said', k, r)
      PROVE  TurnTyped' /\ NativeInv' /\ GraphInv'
  <2>1. UNCHANGED <<rounds, proposal, brief>>
    BY <1>7 DEF NoTools
  <2>2. Shape(e)' /\ K(e)' = k
    BY <1>0, <1>4, <1>5, <2>1, ShapeSame
  <2>3. last'[e] = LastReply(e, said', k)
    BY <1>4, <1>7 DEF LastReply
  <2>4. NativeInv'
    BY <1>0, <1>4, <1>5, <1>7, <2>1, <2>2, <2>3, NativeEnds DEF EndsWith
  <2>5. GraphKept
    BY <1>5, <1>7, <1>g, <2>1 DEF GraphKept, EndsWith
  <2>6. GraphInv'
    BY <1>0, <1>5, <2>5, GraphPristine
  <2> QED
    BY <1>7, <1>t, <2>1, <2>4, <2>6 DEF EndsWith
<1>8. CASE r.stop = "broken" /\ Fails(e) /\ NoTools /\ UNCHANGED messages
  <2>1. EndsWith(e, Failure)
    BY <1>0, <1>8, EndEffect
  <2>2. ~Continues(e, said', k + 1) /\ ~Nudges(e, said', k)
    BY <1>4, <1>8 DEF Continues, Nudges
  <2>3. Failure = NativeResult(said', k, r)
    BY <1>8 DEF NativeResult
  <2> QED
    BY <1>7, <1>8, <2>1, <2>2, <2>3
<1>9. CASE r.stop = "refusal" /\ Refused(e) /\ NoTools /\ UNCHANGED messages
  <2>1. EndsWith(e, Refusal(e))
    BY <1>0, <1>9, EndEffect
  <2>2. ~Continues(e, said', k + 1) /\ ~Nudges(e, said', k)
    BY <1>0, <1>4, <1>9 DEF Continues, Nudges
  <2>3. Refusal(e) = NativeResult(said', k, r)
    BY <1>0, <1>9, <2>2 DEF NativeResult
  <2> QED
    BY <1>7, <1>9, <2>1, <2>2, <2>3
<1>10. CASE /\ r.stop = "tool_use" /\ Late(e)
            /\ Answers(e, "end_turn", TextWithoutUses(r), LateUses(r))
            /\ NoTools /\ UNCHANGED messages
  <2>1. EndsWith(e, ReplyOf(e, "end_turn", TextWithoutUses(r), << >>))
    BY <1>0, <1>10, EndEffect DEF LateUses
  <2>2. ~Continues(e, said', k + 1) /\ ~Nudges(e, said', k)
    BY <1>0, <1>4, <1>10 DEF Continues, Nudges
  <2>3. ReplyOf(e, "end_turn", TextWithoutUses(r), << >>) = NativeResult(said', k, r)
    BY <1>10 DEF NativeResult
  <2> QED
    BY <1>7, <1>10, <2>1, <2>2, <2>3
<1>11. CASE /\ r.stop \in {"end_turn", "max_tokens"}
            /\ pc' = [pc EXCEPT ![e] = "answered"]
            /\ NoTools /\ UNCHANGED <<messages, result>>
  <2>1. StandsAt(e, "answered") /\ UNCHANGED <<rounds, proposal, brief>>
    BY <1>0, <1>11, StandEffect DEF NoTools
  <2>2. Shape(e)' /\ K(e)' = k
    BY <1>0, <1>4, <1>5, <2>1, ShapeSame
  <2>3. result'[e] = Unset'
    BY <1>0, <1>11 DEF AtLoop, Unset
  <2>4. Holds(e)'
    BY <1>4, <1>5, <2>2, <2>3 DEF Holds
  <2>5. Sendable(messages[e])'
    BY <1>0, <1>11 DEF Sendable, ConverseAccepts, Role
  <2>6. NativeInv'
    BY <1>0, <1>4, <1>11, <2>1, <2>2, <2>4, <2>5 DEF NativeInv, StandsAt
  <2>7. GraphKept
    BY <1>5, <1>11, <1>g, <2>1 DEF GraphKept, StandsAt
  <2>8. GraphInv'
    BY <1>0, <1>5, <2>7, GraphPristine
  <2>9. DOMAIN result' = Engine
    BY <2>1 DEF StandsAt, TurnTyped
  <2> QED
    BY <1>11, <1>t, <2>1, <2>6, <2>8, <2>9 DEF StandsAt
<1>12. CASE /\ r.stop = "tool_use" /\ ~Late(e)
            /\ RunTools(e, r, Len(asked[e]) + 1)
            /\ messages' = [messages EXCEPT ![e] = @ \o <<"uses", "results">>]
            /\ UNCHANGED <<pc, result>>
  <2>1. RoundAdded(e, r.uses)
    BY <1>0, <1>6, <1>12, ToolsEffect DEF AtLoop
  <2>2. Continues(e, said', k + 1)
    BY <1>0, <1>4, <1>12 DEF Continues
  <2>3. Shape(e)' /\ K(e)' = k + 1
    BY <1>0, <1>4, <1>5, <2>1, <2>2, ShapeRound
  <2>4. /\ messages' \in [Engine -> Seq(Kind)]
        /\ messages'[e] = messages[e] \o <<"uses", "results">>
        /\ messages'["langgraph"] = messages["langgraph"]
    <3>1. messages[e] \o <<"uses", "results">> \in Seq(Kind)
      BY <1>0 DEF Kind
    <3> QED
      BY <1>0, <1>12, <1>g, <3>1 DEF TurnTyped
  <2>5. Sendable(messages[e])'
    <3>1. Sendable(messages[e] \o <<"uses", "results">>)
      BY <1>0, Sending
    <3> QED
      BY <2>4, <3>1 DEF Sendable, ConverseAccepts, Role
  <2>6. AtLoop(e)'
    BY <1>0, <1>4, <1>5, <1>12, <2>3, <2>5 DEF AtLoop, Unset
  <2>7. NativeInv'
    BY <1>0, <1>4, <1>12, <2>3, <2>6 DEF NativeInv
  <2>8. GraphKept
    BY <1>5, <1>12, <1>g, <2>1, <2>4 DEF GraphKept, RoundAdded
  <2>9. GraphInv'
    BY <1>0, <1>5, <2>8, GraphPristine
  <2>10. TurnTyped'
    BY <1>5, <1>12, <2>1, <2>4 DEF TurnTyped, RoundAdded
  <2> QED
    BY <2>7, <2>9, <2>10
<1> QED
  BY <1>8, <1>9, <1>10, <1>11, <1>12 DEF NativeLoop

\* The wrap-up, when every iteration ended in tool calls.
LEMMA NativeWrapUpStep ==
    ASSUME TurnTyped, NativeInv, GraphInv, NEW r \in Reply, NativeWrapUp(r)
    PROVE  TurnTyped' /\ NativeInv' /\ GraphInv'
<1> DEFINE e == "native"
           k == K(e)
<1>0. /\ e \in Engine /\ k \in Nat /\ Shape(e) /\ AtLoop(e) /\ Len(said) = k
      /\ pc[e] = "loop" /\ k = MaxIterations /\ k > 0 /\ iterations[e] = k
      /\ messages[e] \in Seq(Kind) /\ Len(asked[e]) = k
  BY TurnAssumption DEF NativeWrapUp, NativeInv, AtLoop, TurnTyped, Engine, K
<1>1. Asked(e, messages[e], "auto", "no_more_tools", r) /\ AskedTypes(e)
  <2>1. Asks(e, messages[e], "auto", "no_more_tools", r)
    BY DEF NativeWrapUp
  <2>2. Len(asked[e]) <= Len(said) /\ "no_more_tools" \in Hint
    BY <1>0 DEF Hint
  <2> QED
    BY <1>0, <2>1, <2>2, AsksEffect
<1>2. /\ Len(asked'[e]) = k + 1 /\ last'[e] = r /\ RequestsOf(e, k)
      /\ k + 1 <= Len(said') /\ said'[k + 1] = r /\ Len(said') = k + 1
      /\ Extends(said', said)
  <2>1. Wraps(k)
    BY <1>0 DEF Wraps
  <2>2. /\ "auto" = IF forced /\ k = 0 /\ lateFrom > 1 THEN "forced" ELSE "auto"
        /\ "no_more_tools" = IF Wraps(k) THEN "no_more_tools" ELSE "none"
    BY <1>0, <2>1
  <2> QED
    BY <1>0, <1>1, <2>2, LoopAsked
<1>3. /\ UNCHANGED <<forced, lateFrom, iterations, wrapUp, steps, messages>>
      /\ UNCHANGED <<rounds, proposal, brief>>
      /\ said' \in Seq(Reply) /\ asked' \in [Engine -> Seq(Request)]
      /\ last' \in [Engine -> Reply]
      /\ \A d \in Engine : d # e => asked'[d] = asked[d]
  BY <1>1 DEF NativeWrapUp, NoTools, AskedTypes
<1>4. ~Continues(e, said', k + 1)
  BY <1>0 DEF Continues
<1>5. Shape(e)' /\ K(e)' = k
  BY <1>0, <1>2, <1>3, ShapeSame
<1>6. CASE r.stop = "broken" \/ r.text # "blank"
  <2>1. EndsWith(e, NativeResult(said', k, r))
    <3>1. CASE r.stop = "broken"
      <4>1. Fails(e)
        BY <3>1 DEF NativeWrapUp
      <4> QED
        BY <1>0, <3>1, <4>1, EndEffect DEF NativeResult
    <3>2. CASE r.stop # "broken"
      <4>1. Answers(e, "end_turn", TextWithoutUses(r), << >>)
        BY <1>6, <3>2 DEF NativeWrapUp
      <4>2. NativeResult(said', k, r) = ReplyOf(e, "end_turn", TextWithoutUses(r), << >>)
        BY <1>0, <3>2 DEF NativeResult
      <4> QED
        BY <1>0, <4>1, <4>2, EndEffect
    <3> QED
      BY <3>1, <3>2
  <2>2. ~Nudges(e, said', k)
    BY <1>0, <1>2, <1>6 DEF Nudges
  <2>3. last'[e] = LastReply(e, said', k)
    BY <1>2, <2>2 DEF LastReply
  <2>4. NativeInv'
    BY <1>0, <1>2, <1>3, <1>4, <1>5, <2>1, <2>2, <2>3, NativeEnds DEF EndsWith
  <2>5. GraphKept
    BY <1>3, <2>1 DEF GraphKept, EndsWith, Engine
  <2>6. GraphInv'
    BY <1>0, <1>3, <2>5, GraphPristine
  <2>7. TurnTyped'
    BY <1>3, <2>1 DEF TurnTyped, EndsWith
  <2> QED
    BY <2>4, <2>6, <2>7
<1>7. CASE r.stop # "broken" /\ r.text = "blank"
  <2>1. pc' = [pc EXCEPT ![e] = "wrapped"] /\ UNCHANGED result
    BY <1>7 DEF NativeWrapUp
  <2>2. StandsAt(e, "wrapped")
    BY <1>0, <2>1, StandEffect
  <2>3. Holds(e)'
    <3>1. result'[e] = Unset'
      BY <1>0, <2>1 DEF AtLoop, Unset
    <3> QED
      BY <1>0, <1>2, <1>3, <1>5, <3>1 DEF Holds
  <2>4. Sendable(messages[e])'
    BY <1>0, <1>3 DEF AtLoop, Sendable, ConverseAccepts, Role
  <2>5. NativeInv'
    BY <1>0, <1>2, <1>5, <1>7, <2>2, <2>3, <2>4 DEF NativeInv, StandsAt
  <2>6. GraphKept
    BY <1>3, <2>1, <2>2 DEF GraphKept, StandsAt, Engine
  <2>7. GraphInv'
    BY <1>0, <1>3, <2>6, GraphPristine
  <2>8. DOMAIN result' = Engine
    BY <2>1 DEF TurnTyped
  <2>9. TurnTyped'
    BY <1>3, <2>2, <2>8 DEF TurnTyped, StandsAt
  <2> QED
    BY <2>5, <2>7, <2>9
<1> QED
  BY <1>6, <1>7, ReplyFields DEF Text

\* The loop was left with a reply: what is read of it is the turn's answer.
LEMMA NativeAnswerStep ==
    ASSUME TurnTyped, NativeInv, GraphInv, NativeAnswer \/ NativeFallback
    PROVE  TurnTyped' /\ NativeInv' /\ GraphInv'
<1> DEFINE e == "native"
           k == K(e)
<1>0. /\ e \in Engine /\ k \in Nat /\ Shape(e) /\ Holds(e) /\ Len(said) = k + 1
      /\ pc[e] # "done" /\ MaxIterations \in Nat
      /\ lateFrom \in Nat /\ Len(asked[e]) = k + 1 /\ last[e] = said[k + 1]
      /\ iterations[e] <= k + 1 /\ said \in Seq(Reply)
      /\ \/ /\ pc[e] = "answered" /\ k < MaxIterations
            /\ last[e].stop \in {"end_turn", "max_tokens"}
         \/ /\ pc[e] = "wrapped" /\ k = MaxIterations
            /\ last[e].stop # "broken"
  BY TurnAssumption DEF NativeAnswer, NativeFallback, NativeInv, Holds, TurnTyped,
                        Engine, K
<1>1. /\ UNCHANGED <<forced, lateFrom, said, iterations, wrapUp, steps, last,
                     messages, asked, rounds, proposal, brief>>
  BY DEF NativeAnswer, NativeFallback
<1>2. EndsWith(e, NativeResult(said, k, last[e])) /\ ~Nudges(e, said, k)
  <2>1. CASE NativeAnswer
    <3>1. /\ pc[e] = "answered" /\ Visible(last[e])
          /\ Answers(e, last[e].stop, "model", last[e].uses)
      BY <2>1 DEF NativeAnswer
    <3>2. ~Nudges(e, said, k)
      BY <1>0, <3>1 DEF Nudges
    <3>3. NativeResult(said, k, last[e]) = ReplyOf(e, last[e].stop, "model", last[e].uses)
      BY <1>0, <3>1, <3>2 DEF NativeResult
    <3> QED
      BY <1>0, <3>1, <3>2, <3>3, EndEffect
  <2>2. CASE NativeFallback
    <3>1. ~Visible(last[e]) /\ Late(e) /\ Answers(e, "end_turn", "fallback", << >>)
      BY <2>2 DEF NativeFallback
    <3>2. ~Nudges(e, said, k)
      BY <1>0, <3>1 DEF Nudges, Late
    <3>3. NativeResult(said, k, last[e]) = ReplyOf(e, "end_turn", "fallback", << >>)
      BY <1>0, <3>1, <3>2 DEF NativeResult, TextWithoutUses
    <3> QED
      BY <1>0, <3>1, <3>2, <3>3, EndEffect
  <2> QED
    BY <2>1, <2>2
<1>3. RequestsOf(e, k) /\ Extends(said', said)
  BY <1>0, <1>1 DEF RequestsOf, Shape, Extends
<1>4. Shape(e)' /\ K(e)' = k
  BY <1>0, <1>1, <1>3, ShapeSame
<1>5. ~Continues(e, said, k + 1) /\ last[e] = LastReply(e, said, k)
  BY <1>0, <1>2 DEF Continues, LastReply
<1>6. NativeInv'
  <2>1. result'[e] = NativeResult(said', k, last'[e]) /\ pc'[e] = "done"
    BY <1>1, <1>2 DEF EndsWith
  <2>2. /\ k + 1 <= Len(said') /\ ~Continues(e, said', k + 1) /\ ~Nudges(e, said', k)
        /\ Len(asked'[e]) = k + 1 /\ last'[e] = LastReply(e, said', k)
        /\ iterations'[e] <= k + 1
    BY <1>0, <1>1, <1>2, <1>5
  <2> QED
    BY <1>0, <1>1, <1>4, <2>1, <2>2, NativeEnds
<1>7. GraphKept
  BY <1>1, <1>2 DEF GraphKept, EndsWith, Engine
<1>8. GraphInv'
  BY <1>0, <1>1, <1>7, GraphPristine
<1>9. TurnTyped'
  BY <1>1, <1>2 DEF TurnTyped, EndsWith
<1> QED
  BY <1>6, <1>8, <1>9

\* The nudge can be sent, unless it answers a tool call.
LEMMA NudgedMessages ==
    ASSUME NEW ms \in Seq(Kind), Sendable(ms), NEW r
    PROVE  /\ Nudged(ms, r) \in Seq(Kind)
           /\ ConverseAccepts(Nudged(ms, r)) <=> r.uses = << >>
<1>1. CASE r.uses = << >>
  <2>1. Nudged(ms, r) = ms \/ Nudged(ms, r) = ms \o <<"assistant", "user">>
    BY <1>1 DEF Nudged, HasContent, Assistant
  <2>2. ms \o <<"assistant", "user">> \in Seq(Kind)
    BY DEF Kind
  <2>3. Sendable(ms \o <<"assistant", "user">>)
    BY Sending
  <2> QED
    BY <1>1, <2>1, <2>2, <2>3 DEF Sendable
<1>2. CASE r.uses # << >>
  <2>1. Nudged(ms, r) = ms \o <<"uses", "user">>
    BY <1>2 DEF Nudged, HasContent, Assistant
  <2>2. ms \o <<"uses", "user">> \in Seq(Kind)
    BY DEF Kind
  <2> QED
    BY <1>2, <2>1, <2>2, Sending
<1> QED
  BY <1>1, <1>2

\* The nudge of the loop.
LEMMA NativeNudgeStep ==
    ASSUME TurnTyped, NativeInv, GraphInv, NEW r \in Reply, NativeNudge(r)
    PROVE  TurnTyped' /\ NativeInv' /\ GraphInv'
<1> DEFINE e == "native"
           k == K(e)
           final == IF pc["native"] = "wrapped" THEN WithoutToolUses(last["native"])
                    ELSE last["native"]
           ms == Nudged(messages[e], final)
<1>0. /\ e \in Engine /\ k \in Nat /\ Shape(e) /\ Holds(e) /\ Len(said) = k + 1
      /\ pc[e] # "done" /\ MaxIterations \in Nat
      /\ lateFrom \in Nat /\ Len(asked[e]) = k + 1 /\ last[e] = said[k + 1]
      /\ iterations[e] <= k + 1
      /\ said \in Seq(Reply) /\ Sendable(messages[e]) /\ messages[e] \in Seq(Kind)
      /\ last[e] \in Reply
      /\ \/ /\ pc[e] = "answered" /\ k < MaxIterations
            /\ last[e].stop \in {"end_turn", "max_tokens"}
         \/ /\ pc[e] = "wrapped" /\ k = MaxIterations
            /\ last[e].text = "blank" /\ last[e].stop # "broken"
  BY TurnAssumption DEF NativeNudge, NativeInv, Holds, TurnTyped, Engine, K
<1>c. ~Continues(e, said, k + 1)
  BY <1>0 DEF Continues
<1>1. ~Visible(last[e]) /\ ~Late(e) /\ Nudges(e, said, k)
  BY <1>0, <1>c DEF NativeNudge, Late, Nudges
<1>2. ms \in Seq(Kind) /\ (ConverseAccepts(ms) <=> NudgeTaken(e, said, k))
  <2>1. final.uses = << >> <=> NudgeTaken(e, said, k)
    BY <1>0 DEF NudgeTaken, WithoutToolUses
  <2> HIDE DEF final
  <2> QED
    BY <1>0, <2>1, NudgedMessages
<1>3. /\ Asks(e, ms, "auto", "empty_reply", r)
      /\ messages' = [messages EXCEPT ![e] = ms]
      /\ IF r.stop = "broken" THEN Fails(e)
         ELSE Answers(e, "end_turn", TextWithoutUses(r), << >>)
      /\ NoTools /\ UNCHANGED <<forced, lateFrom, iterations, wrapUp, steps>>
  BY DEF NativeNudge
<1> HIDE DEF ms, final
<1>4. Asked(e, ms, "auto", "empty_reply", r) /\ AskedTypes(e)
  <2>1. Len(asked[e]) <= Len(said) /\ "empty_reply" \in Hint
    BY <1>0 DEF Hint
  <2> QED
    BY <1>0, <1>3, <2>1, AsksEffect
<1>5. /\ Len(asked'[e]) = k + 2 /\ last'[e] = r /\ RequestsOf(e, k)
      /\ Extends(said', said)
      /\ NudgeTaken(e, said, k) => k + 2 <= Len(said') /\ r = said'[k + 2]
      /\ ~NudgeTaken(e, said, k) => r = Broken
  BY <1>0, <1>1, <1>2, <1>4, NudgeAsked
<1>6. /\ UNCHANGED <<rounds, proposal, brief>>
      /\ said' \in Seq(Reply) /\ asked' \in [Engine -> Seq(Request)]
      /\ last' \in [Engine -> Reply]
      /\ \A d \in Engine : d # e => asked'[d] = asked[d]
      /\ messages' \in [Engine -> Seq(Kind)]
      /\ messages'["langgraph"] = messages["langgraph"]
  <2>1. /\ messages' \in [Engine -> Seq(Kind)]
        /\ messages'["langgraph"] = messages["langgraph"]
    BY <1>2, <1>3 DEF TurnTyped, Engine
  <2> QED
    BY <1>3, <1>4, <2>1 DEF NoTools, AskedTypes
<1>7. /\ said'[k + 1] = said[k + 1] /\ Nudges(e, said', k) /\ ~Continues(e, said', k + 1)
      /\ (NudgeTaken(e, said', k) <=> NudgeTaken(e, said, k))
      /\ k + 1 <= Len(said')
  <2>1. /\ said'[k + 1] = said[k + 1]
        /\ (Nudges(e, said', k) <=> Nudges(e, said, k))
        /\ (Continues(e, said', k + 1) <=> Continues(e, said, k + 1))
        /\ (NudgeTaken(e, said', k) <=> NudgeTaken(e, said, k))
    <3>1. k \in Nat /\ said \in Seq(Reply) /\ k + 1 <= Len(said) /\ Extends(said', said)
      BY <1>0, <1>5
    <3> HIDE DEF k, e
    <3> QED
      BY <3>1, Prefix
  <2> QED
    BY <1>0, <1>c, <1>1, <1>5, <2>1 DEF Extends
<1>8. Shape(e)' /\ K(e)' = k
  BY <1>0, <1>3, <1>5, <1>6, ShapeSame
<1>9. last'[e] = LastReply(e, said', k)
  BY <1>5, <1>7 DEF LastReply
<1>10. EndsWith(e, NativeResult(said', k, r))
  <2>1. CASE r.stop = "broken"
    BY <1>0, <1>3, <2>1, EndEffect DEF NativeResult
  <2>2. CASE r.stop # "broken"
    <3>1. NativeResult(said', k, r) = ReplyOf(e, "end_turn", TextWithoutUses(r), << >>)
      BY <1>7, <2>2 DEF NativeResult
    <3> QED
      BY <1>0, <1>3, <2>2, <3>1, EndEffect
  <2> QED
    BY <2>1, <2>2
<1>11. NativeInv'
  <2>1. /\ Len(asked'[e]) = IF Nudges(e, said', k) THEN k + 2 ELSE k + 1
        /\ Nudges(e, said', k) /\ NudgeTaken(e, said', k) => k + 2 <= Len(said')
        /\ iterations'[e] <= k + 1
    BY <1>0, <1>3, <1>5, <1>7
  <2> QED
    BY <1>0, <1>3, <1>5, <1>6, <1>7, <1>8, <1>9, <1>10, <2>1, NativeEnds DEF EndsWith
<1>12. GraphKept
  BY <1>3, <1>6, <1>10 DEF GraphKept, EndsWith, Engine
<1>13. GraphInv'
  BY <1>0, <1>6, <1>12, GraphPristine
<1>14. TurnTyped'
  BY <1>3, <1>6, <1>10 DEF TurnTyped, EndsWith
<1> QED
  BY <1>11, <1>13, <1>14

-----------------------------------------------------------------------------
(***************************************************************************)
(* The graph.                                                              *)
(***************************************************************************)

\* The loop, which has ended.
NativeKept ==
    LET e == "native"
    IN  /\ UNCHANGED <<forced, lateFrom, said>>
        /\ pc'[e] = pc[e] /\ iterations'[e] = iterations[e]
        /\ last'[e] = last[e] /\ asked'[e] = asked[e]
        /\ rounds'[e] = rounds[e] /\ proposal'[e] = proposal[e]
        /\ brief'[e] = brief[e] /\ result'[e] = result[e]

\* While the graph runs, the loop rests.
LEMMA NativeRests ==
    ASSUME TurnTyped, NativeInv, pc["native"] = "done", NativeKept
    PROVE  NativeInv'
<1> DEFINE e == "native"
           k == K(e)
<1>0. /\ e \in Engine /\ Shape(e) /\ AtEnd(e) /\ k \in Nat
      /\ result[e] = NativeResult(said, k, last[e]) /\ said \in Seq(Reply)
  BY DEF NativeInv, Engine, TurnTyped, K
<1>1. RequestsOf(e, k) /\ Extends(said', said)
  BY <1>0 DEF RequestsOf, Shape, Extends, NativeKept
<1>2. Shape(e)' /\ K(e)' = k
  BY <1>0, <1>1, ShapeSame DEF NativeKept
<1>3. /\ result'[e] = NativeResult(said', k, last'[e])
      /\ k + 1 <= Len(said') /\ ~Continues(e, said', k + 1)
      /\ Len(asked'[e]) = IF Nudges(e, said', k) THEN k + 2 ELSE k + 1
      /\ Nudges(e, said', k) /\ NudgeTaken(e, said', k) => k + 2 <= Len(said')
      /\ last'[e] = LastReply(e, said', k) /\ iterations'[e] <= k + 1
  BY <1>0 DEF AtEnd, NativeKept
<1> QED
  BY <1>2, <1>3, NativeEnds DEF NativeKept

\* The graph runs no round the loop did not, stops where it stopped unless no
\* call of the loop's next round was parsed, and nudges for no reply the loop
\* did not get.
LEMMA GraphBehind ==
    ASSUME TurnTyped, NativeInv, Shape("langgraph"), pc["native"] = "done"
    PROVE  /\ K("native") \in Nat /\ K("langgraph") \in Nat
           /\ K("langgraph") <= K("native") /\ K("native") + 1 <= Len(said)
           /\ K("langgraph") <= MaxIterations
           /\ ~Continues("langgraph", said, K("langgraph") + 1) =>
                 \/ K("langgraph") = K("native")
                 \/ /\ K("langgraph") + 1 <= K("native")
                    /\ ~Parsed(rounds["native"][K("langgraph") + 1])
           /\ (/\ Nudges("langgraph", said, K("langgraph"))
               /\ NudgeTaken("langgraph", said, K("langgraph"))) =>
                 K("langgraph") + 2 <= Len(said)
<1> DEFINE k == K("langgraph")
           n == K("native")
<1>1. /\ n \in Nat /\ k \in Nat /\ MaxIterations \in Nat
      /\ Shape("native") /\ AtEnd("native")
      /\ said \in Seq(Reply) /\ n + 1 <= Len(said)
  BY TurnAssumption DEF TurnTyped, K, Engine, NativeInv, AtEnd
<1>2. /\ \A i \in 1..n : /\ Continues("native", said, i)
                         /\ rounds["native"][i] = said[i].uses
      /\ \A i \in 1..k : Continues("langgraph", said, i)
      /\ ~Continues("native", said, n + 1)
      /\ Nudges("native", said, n) /\ NudgeTaken("native", said, n) => n + 2 <= Len(said)
  BY <1>1 DEF Shape, AtEnd
<1> HIDE DEF k, n
<1>3. k <= n
  <2>1. ASSUME k > n PROVE FALSE
    <3>1. Continues("langgraph", said, n + 1)
      BY <1>1, <1>2, <2>1
    <3> QED
      BY <1>2, <3>1 DEF Continues
  <2> QED
    BY <1>1, <2>1
<1>4. k < n => Continues("native", said, k + 1) /\ rounds["native"][k + 1] = said[k + 1].uses
  BY <1>1, <1>2
<1>5. ~Continues("langgraph", said, k + 1) =>
         k = n \/ (k + 1 <= n /\ ~Parsed(rounds["native"][k + 1]))
  BY <1>1, <1>3, <1>4 DEF Continues
<1>6. k <= MaxIterations
  <2>1. CASE k = 0
    BY <1>1, <2>1
  <2>2. CASE k # 0
    <3>1. Continues("langgraph", said, k)
      BY <1>1, <1>2, <2>2
    <3> QED
      BY <3>1 DEF Continues
  <2> QED
    BY <2>1, <2>2
<1>7. ASSUME Nudges("langgraph", said, k), NudgeTaken("langgraph", said, k)
      PROVE  k + 2 <= Len(said)
  <2>1. said[k + 1] \in Reply /\ said[k + 1].uses = << >>
    BY <1>1, <1>3, <1>7 DEF NudgeTaken
  <2>2. k = n
    <3>1. said[k + 1].stop # "tool_use"
      BY <2>1, ReplyFields, TurnAssumption
    <3> QED
      BY <1>1, <1>3, <1>4, <3>1 DEF Continues
  <2>3. Nudges("native", said, n) /\ NudgeTaken("native", said, n)
    BY <1>2, <1>7, <2>1, <2>2 DEF Nudges, NudgeTaken
  <2> QED
    BY <1>2, <2>2, <2>3
<1> QED
  BY <1>1, <1>3, <1>5, <1>6, <1>7 DEF k, n

\* What the graph ends on is what the replies make of it.
LEMMA GraphEnds ==
    ASSUME TurnTyped, Shape("langgraph")', K("langgraph")' = K("langgraph"),
           UNCHANGED <<forced, lateFrom, said>>,
           rounds'["langgraph"] = rounds["langgraph"],
           proposal'["langgraph"] = proposal["langgraph"],
           pc'["langgraph"] = "done", pc'["native"] = "done",
           K("langgraph") + 1 <= Len(said), ~Continues("langgraph", said, K("langgraph") + 1),
           Len(asked'["langgraph"]) = IF Nudges("langgraph", said, K("langgraph"))
                                      THEN K("langgraph") + 2
                                      ELSE K("langgraph") + 1,
           (/\ Nudges("langgraph", said, K("langgraph"))
            /\ NudgeTaken("langgraph", said, K("langgraph"))) =>
              K("langgraph") + 2 <= Len(said),
           last'["langgraph"] = LastReply("langgraph", said, K("langgraph")),
           iterations'["langgraph"] <= K("langgraph") + 1,
           steps' <= 2 * MaxIterations + 1,
           result'["langgraph"] =
              GraphResult(said, K("langgraph"), last'["langgraph"])
    PROVE  GraphInv'
<1> DEFINE e == "langgraph"
           k == K(e)
<1>1. /\ Nudges(e, said, K(e))' <=> Nudges(e, said, k)
      /\ Continues(e, said, K(e) + 1)' <=> Continues(e, said, k + 1)
      /\ Wraps(K(e))' <=> Wraps(k)
  BY DEF Nudges, Continues, Wraps, Visible
<1>2. LastReply(e, said, K(e))' = LastReply(e, said, k)
  BY <1>1 DEF LastReply, Broken, NudgeTaken
<1>3. AtEnd(e)'
  BY <1>1, <1>2 DEF AtEnd, NudgeTaken
<1>4. GraphResult(said, K(e), last[e])' = GraphResult(said, k, last'[e])
  BY <1>1 DEF GraphResult, Failure, Refusal, ReplyOf, TextWithoutUses, Visible
<1> QED
  BY <1>3, <1>4 DEF GraphInv

\* The agent node.
LEMMA GraphAgentStep ==
    ASSUME TurnTyped, NativeInv, GraphInv, NEW r \in Reply, GraphAgent(r)
    PROVE  TurnTyped' /\ NativeInv' /\ GraphInv'
<1> DEFINE e == "langgraph"
           k == K(e)
           wrap == WrapUpDue(e)
           choice == IF forced /\ iterations[e] = 0 /\ ~Late(e) THEN "forced"
                     ELSE "auto"
           hint == IF wrap THEN "no_more_tools" ELSE "none"
<1>0. /\ e \in Engine /\ k \in Nat /\ Shape(e) /\ AtLoop(e)
      /\ pc[e] = "loop" /\ pc["native"] = "done" /\ MaxIterations \in Nat
      /\ lateFrom \in Nat /\ lateFrom >= 1 /\ steps = 2 * k
      /\ messages[e] \in Seq(Kind) /\ Sendable(messages[e])
      /\ iterations[e] = k /\ Len(asked[e]) = k
  BY TurnAssumption DEF GraphAgent, GraphInv, AtLoop, TurnTyped, Engine, K
<1>1. k + 1 <= Len(said) /\ k <= MaxIterations /\ Len(said) \in Nat
  <2>1. Shape("langgraph") /\ pc["native"] = "done"
    BY <1>0
  <2>2. /\ K("native") \in Nat /\ K("langgraph") \in Nat
        /\ K("langgraph") <= K("native") /\ K("native") + 1 <= Len(said)
        /\ K("langgraph") <= MaxIterations
    BY <2>1, GraphBehind
  <2>3. Len(said) \in Nat
    BY DEF TurnTyped
  <2> QED
    BY <2>2, <2>3
<1>2. wrap <=> Wraps(k)
  BY <1>0 DEF WrapUpDue, Late, Wraps
<1>3. /\ choice = IF forced /\ k = 0 /\ lateFrom > 1 THEN "forced" ELSE "auto"
      /\ hint = IF Wraps(k) THEN "no_more_tools" ELSE "none"
      /\ choice \in {"forced", "auto"} /\ hint \in Hint
  BY <1>0, <1>2 DEF Late, Hint
<1>4. /\ Asks(e, messages[e], choice, hint, r)
      /\ steps' = steps + 1 /\ NoTools /\ UNCHANGED <<forced, lateFrom>>
  BY DEF GraphAgent
<1> HIDE DEF choice, hint
<1>5. Asked(e, messages[e], choice, hint, r) /\ AskedTypes(e)
  <2>1. Len(asked[e]) <= Len(said)
    BY <1>0, <1>1
  <2> QED
    BY <1>0, <1>3, <1>4, <2>1, AsksEffect
<1>6. /\ Len(asked'[e]) = k + 1 /\ last'[e] = r /\ RequestsOf(e, k)
      /\ said[k + 1] = r /\ said' = said /\ Extends(said', said)
  <2>1. k < Len(said)
    BY <1>0, <1>1
  <2>2. /\ Shape(e) /\ AtLoop(e) /\ e \in Engine
        /\ Asked(e, messages[e], choice, hint, r)
        /\ choice = IF forced /\ k = 0 /\ lateFrom > 1 THEN "forced" ELSE "auto"
        /\ hint = IF Wraps(k) THEN "no_more_tools" ELSE "none"
    BY <1>0, <1>3, <1>5
  <2>3. /\ Len(asked'[e]) = k + 1 /\ last'[e] = r /\ RequestsOf(e, k)
        /\ said'[k + 1] = r /\ Extends(said', said)
        /\ k < Len(said) => said' = said
    BY <2>2, LoopAsked
  <2> QED
    BY <2>1, <2>3
<1>7. /\ UNCHANGED <<rounds, proposal, brief>>
      /\ said' \in Seq(Reply) /\ asked' \in [Engine -> Seq(Request)]
      /\ last' \in [Engine -> Reply]
      /\ \A d \in Engine : d # e => asked'[d] = asked[d] /\ last'[d] = last[d]
      /\ steps' = 2 * k + 1 /\ steps' \in Nat /\ steps' <= 2 * MaxIterations + 1
  BY <1>0, <1>1, <1>4, <1>5 DEF NoTools, AskedTypes
<1>8. Shape(e)' /\ K(e)' = k
  BY <1>0, <1>4, <1>6, <1>7, ShapeSame
<1>g. "native" \in Engine /\ "native" # e
  BY DEF Engine
<1>9. CASE r.stop = "broken"
  <2>1. Fails(e) /\ UNCHANGED <<iterations, wrapUp, messages>>
    BY <1>9 DEF GraphAgent
  <2>2. EndsWith(e, Failure)
    BY <1>0, <2>1, EndEffect
  <2>3. /\ ~Continues(e, said, k + 1) /\ ~Nudges(e, said, k)
        /\ Failure = GraphResult(said, k, r) /\ r = LastReply(e, said, k)
    BY <1>6, <1>9 DEF Continues, Nudges, GraphResult, LastReply
  <2>4. GraphInv'
    <3>1. pc'[e] = "done" /\ pc'["native"] = "done" /\ result'[e] = Failure
      BY <1>0, <1>g, <2>2 DEF EndsWith
    <3>2. iterations'[e] <= k + 1
      BY <1>0, <2>1
    <3> QED
      BY <1>1, <1>4, <1>6, <1>7, <1>8, <2>3, <3>1, <3>2, GraphEnds
  <2>5. NativeKept
    BY <1>4, <1>6, <1>7, <1>g, <2>1, <2>2 DEF NativeKept, EndsWith
  <2>6. NativeInv'
    BY <1>0, <2>5, NativeRests
  <2>7. TurnTyped'
    BY <1>4, <1>7, <2>1, <2>2 DEF TurnTyped, EndsWith
  <2> QED
    BY <2>4, <2>6, <2>7
<1>10. CASE r.stop # "broken"
  <2>1. /\ iterations' = [iterations EXCEPT ![e] = @ + 1] /\ (wrapUp' <=> wrap)
        /\ messages' = [messages EXCEPT ![e] = Append(@, Assistant(r))]
        /\ pc' = [pc EXCEPT ![e] = AfterAgent(r, wrap)] /\ UNCHANGED result
    BY <1>10 DEF GraphAgent
  <2>b. wrapUp' \in BOOLEAN
    BY <1>10 DEF GraphAgent, WrapUpDue
  <2>2. /\ iterations' \in [Engine -> Nat] /\ iterations'[e] = k + 1
        /\ iterations'["native"] = iterations["native"]
    <3>1. iterations \in [Engine -> Nat] /\ iterations[e] = k /\ e \in Engine
      BY <1>0 DEF TurnTyped
    <3>2. k \in Nat
      BY <1>0
    <3> HIDE DEF k
    <3> QED
      BY <1>g, <2>1, <3>1, <3>2
  <2>3. StandsAt(e, AfterAgent(r, wrap))
    <3>1. AfterAgent(r, wrap) \in {"loop", "tools", "answered", "wrapped", "ended"}
      BY DEF AfterAgent
    <3> QED
      BY <1>0, <2>1, <3>1, StandEffect
  <2>4. \/ pc'[e] = "tools" /\ Continues(e, said, k + 1)
        \/ pc'[e] = "ended" /\ ~Continues(e, said, k + 1)
    <3>1. CASE r.stop = "tool_use" /\ Parsed(r.uses) /\ ~wrap
      <4>1. Continues(e, said, k + 1)
        BY <1>0, <1>2, <1>6, <3>1 DEF Continues, Wraps
      <4> QED
        BY <2>3, <3>1, <4>1 DEF StandsAt, AfterAgent
    <3>2. CASE ~(r.stop = "tool_use" /\ Parsed(r.uses) /\ ~wrap)
      <4>1. ~Continues(e, said, k + 1)
        BY <1>0, <1>2, <1>6, <3>2 DEF Continues, Wraps
      <4> QED
        BY <2>3, <3>2, <4>1 DEF StandsAt, AfterAgent
    <3> QED
      BY <3>1, <3>2
  <2>5. /\ messages' \in [Engine -> Seq(Kind)]
        /\ messages'[e] = Append(messages[e], Assistant(r))
    <3>1. Assistant(r) \in Kind
      BY DEF Assistant, Kind
    <3>2. Append(messages[e], Assistant(r)) \in Seq(Kind)
      BY <1>0, <3>1, Stored
    <3> QED
      BY <1>0, <2>1, <3>2 DEF TurnTyped
  <2>6. ReplyStored'
    <3> DEFINE ms == Append(messages[e], Assistant(r))
    <3>1. Assistant(r) \in Kind
      BY DEF Assistant, Kind
    <3>2. /\ ms # << >> /\ Len(ms) = Len(messages[e]) + 1
          /\ ms[Len(messages[e]) + 1] = Assistant(r)
          /\ SubSeq(ms, 1, Len(messages[e])) = messages[e]
      BY <1>0, <3>1, Stored
    <3> HIDE DEF ms
    <3>3. Len(ms) - 1 = Len(messages[e]) /\ messages'[e] = ms
      BY <1>0, <2>5, <3>2 DEF ms
    <3>4. Before' = messages[e]
      BY <3>2, <3>3 DEF Before
    <3>5. Sendable(Before)'
      BY <1>0, <3>4 DEF Sendable, ConverseAccepts, Role
    <3>6. Assistant(last[e])' = Assistant(r)
      BY <1>6 DEF Assistant
    <3> QED
      BY <3>2, <3>3, <3>5, <3>6 DEF ReplyStored
  <2>7. Holds(e)'
    BY <1>0, <1>1, <1>6, <1>8, <2>1, <2>2 DEF Holds, AtLoop, Unset
  <2>8. /\ Continues(e, said, K(e) + 1)' <=> Continues(e, said, k + 1)
        /\ Wraps(K(e))' <=> Wraps(k)
    BY <1>4, <1>6, <1>8 DEF Continues, Wraps
  <2>9. GraphInv'
    <3>1. pc'["native"] = "done" /\ last'[e].stop # "broken"
      BY <1>0, <1>6, <1>10, <1>g, <2>3 DEF StandsAt
    <3>2. wrapUp' <=> Wraps(K(e))'
      BY <1>2, <2>1, <2>8
    <3>3. steps' = 2 * K(e)' + 1
      BY <1>7, <1>8
    <3>4. CASE pc'[e] = "tools" /\ Continues(e, said, k + 1)
      <4>1. iterations'[e] = K(e)' + 1
        BY <1>8, <2>2
      <4> QED
        BY <1>8, <2>6, <2>7, <2>8, <3>1, <3>3, <3>4, <4>1 DEF GraphInv
    <3>5. CASE pc'[e] = "ended" /\ ~Continues(e, said, k + 1)
      BY <1>8, <2>6, <2>7, <2>8, <3>1, <3>2, <3>3, <3>5 DEF GraphInv
    <3> QED
      BY <2>4, <3>4, <3>5
  <2>10. NativeKept
    BY <1>4, <1>6, <1>7, <1>g, <2>1, <2>2, <2>3 DEF NativeKept, StandsAt
  <2>11. NativeInv'
    BY <1>0, <2>10, NativeRests
  <2>12. TurnTyped'
    BY <1>4, <1>7, <2>b, <2>2, <2>3, <2>5 DEF TurnTyped, StandsAt
  <2> QED
    BY <2>9, <2>11, <2>12
<1> QED
  BY <1>9, <1>10

\* The tools node.
LEMMA GraphToolsStep ==
    ASSUME TurnTyped, NativeInv, GraphInv, GraphTools
    PROVE  TurnTyped' /\ NativeInv' /\ GraphInv'
<1> DEFINE e == "langgraph"
           k == K(e)
           ms == messages[e]
<1>0. /\ e \in Engine /\ k \in Nat /\ Shape(e) /\ Holds(e) /\ ReplyStored
      /\ pc[e] = "tools" /\ Continues(e, said, k + 1) /\ steps = 2 * k + 1
      /\ pc["native"] = "done" /\ ms \in Seq(Kind)
      /\ iterations[e] = k + 1 /\ Len(asked[e]) = k + 1 /\ k + 1 <= Len(said)
      /\ last[e] = said[k + 1] /\ last[e] \in Reply /\ said \in Seq(Reply)
      /\ result[e] = Unset
  BY DEF GraphTools, GraphInv, Holds, TurnTyped, Engine, K
<1>1. /\ RunTools(e, last[e], k + 1)
      /\ messages' = [messages EXCEPT ![e] = Append(ms, "results")]
      /\ steps' = steps + 1 /\ pc' = [pc EXCEPT ![e] = "loop"]
      /\ UNCHANGED <<forced, lateFrom, said, iterations, wrapUp, last, asked, result>>
  BY <1>0 DEF GraphTools
<1>2. last[e].uses \in Calls /\ last[e].uses # << >>
  BY <1>0, ReplyFields, TurnAssumption DEF Continues
<1>3. RoundAdded(e, last[e].uses)
  BY <1>0, <1>1, <1>2, ToolsEffect
<1>4. RequestsOf(e, k) /\ Extends(said', said)
  <2>1. UNCHANGED <<said, asked>>
    BY <1>1
  <2> QED
    BY <1>0, <2>1 DEF RequestsOf, Shape, Extends
<1>5. Shape(e)' /\ K(e)' = k + 1
  BY <1>0, <1>1, <1>3, <1>4, ShapeRound
<1>6. /\ StandsAt(e, "loop")
      /\ messages' \in [Engine -> Seq(Kind)] /\ messages'[e] = Append(ms, "results")
      /\ steps' = 2 * (k + 1) /\ steps' \in Nat
  <2>1. StandsAt(e, "loop")
    BY <1>0, <1>1, StandEffect
  <2>2. Append(ms, "results") \in Seq(Kind)
    BY <1>0, Stored DEF Kind
  <2>3. messages' \in [Engine -> Seq(Kind)] /\ messages'[e] = Append(ms, "results")
    BY <1>0, <1>1, <2>2 DEF TurnTyped
  <2>4. steps' = 2 * (k + 1) /\ steps' \in Nat
    BY <1>0, <1>1
  <2> QED
    BY <2>1, <2>3, <2>4
<1>7. Sendable(messages[e])'
  <2>1. ms # << >> /\ Sendable(Before) /\ ms[Len(ms)] = "uses"
    BY <1>0, <1>2 DEF ReplyStored, Assistant
  <2>2. /\ Before \in Seq(Kind)
        /\ Append(ms, "results") = Before \o <<"uses", "results">>
    <3>1. /\ Before \in Seq(Kind)
          /\ Append(ms, "results") = Before \o <<ms[Len(ms)], "results">>
      BY <1>0, <2>1, Unstored DEF Before, Kind
    <3> QED
      BY <2>1, <3>1
  <2>3. Sendable(Append(ms, "results"))
    BY <2>1, <2>2, Sending
  <2> QED
    BY <1>6, <2>3 DEF Sendable, ConverseAccepts, Role
<1>8. AtLoop(e)'
  BY <1>0, <1>1, <1>5, <1>7 DEF AtLoop, Unset
<1>9. GraphInv'
  <2>1. pc'["native"] = "done" /\ pc'[e] = "loop"
    BY <1>0, <1>6 DEF StandsAt, Engine
  <2>2. steps' = 2 * K(e)'
    BY <1>5, <1>6
  <2> QED
    BY <1>5, <1>8, <2>1, <2>2 DEF GraphInv
<1>10. NativeKept
  BY <1>1, <1>3, <1>6 DEF NativeKept, StandsAt, RoundAdded, Engine
<1>11. NativeInv'
  BY <1>0, <1>10, NativeRests
<1>12. TurnTyped'
  BY <1>1, <1>3, <1>6 DEF TurnTyped, StandsAt, RoundAdded
<1> QED
  BY <1>9, <1>11, <1>12

\* The graph has its answer.
LEMMA GraphAnswerStep ==
    ASSUME TurnTyped, NativeInv, GraphInv, GraphAnswer
    PROVE  TurnTyped' /\ NativeInv' /\ GraphInv'
<1> DEFINE e == "langgraph"
           k == K(e)
           r == last[e]
<1>0. /\ e \in Engine /\ k \in Nat /\ Shape(e) /\ Holds(e)
      /\ pc[e] = "ended" /\ ~Continues(e, said, k + 1) /\ steps = 2 * k + 1
      /\ pc["native"] = "done" /\ MaxIterations \in Nat /\ lateFrom \in Nat
      /\ iterations[e] <= k + 1 /\ Len(asked[e]) = k + 1 /\ k + 1 <= Len(said)
      /\ r = said[k + 1] /\ said \in Seq(Reply) /\ r.stop # "broken"
      /\ wrapUp <=> Wraps(k)
  BY TurnAssumption DEF GraphAnswer, GraphInv, Holds, TurnTyped, Engine, K
<1>1. UNCHANGED <<forced, lateFrom, said, iterations, wrapUp, steps, last,
                  messages, asked, rounds, proposal, brief>>
  BY DEF GraphAnswer
<1>2. EndsWith(e, GraphResult(said, k, r)) /\ ~Nudges(e, said, k)
  <2>1. CASE r.stop = "refusal" /\ Refused(e)
    <3>1. ~Nudges(e, said, k) /\ GraphResult(said, k, r) = Refusal(e)
      BY <1>0, <2>1 DEF Nudges, GraphResult
    <3> QED
      BY <1>0, <2>1, <3>1, EndEffect
  <2>2. CASE /\ r.stop # "refusal" /\ wrapUp /\ Readable
             /\ Answers(e, "end_turn", TextWithoutUses(r), << >>)
    <3>1. ~Nudges(e, said, k)
      BY <1>0, <2>2 DEF Nudges, Wraps, Readable, Visible
    <3>2. GraphResult(said, k, r) = ReplyOf(e, "end_turn", TextWithoutUses(r), << >>)
      BY <1>0, <2>2 DEF GraphResult
    <3> QED
      BY <1>0, <2>2, <3>1, <3>2, EndEffect
  <2>3. CASE /\ r.stop # "refusal" /\ ~wrapUp /\ Readable
             /\ Answers(e, r.stop, "model", r.uses)
    <3>0. Visible(r) /\ ~Wraps(k)
      BY <1>0, <2>3 DEF Readable
    <3>1. ~Nudges(e, said, k)
      BY <1>0, <3>0 DEF Nudges, Wraps
    <3>2. GraphResult(said, k, r) = ReplyOf(e, r.stop, "model", r.uses)
      BY <1>0, <2>3, <3>0, <3>1 DEF GraphResult
    <3> QED
      BY <1>0, <2>3, <3>1, <3>2, EndEffect
  <2>4. CASE /\ r.stop # "refusal" /\ ~Readable /\ Late(e)
             /\ Answers(e, "end_turn", "fallback", << >>)
    <3>1. ~Nudges(e, said, k)
      BY <1>0, <2>4 DEF Nudges, Late
    <3>2. GraphResult(said, k, r) = ReplyOf(e, "end_turn", "fallback", << >>)
      BY <1>0, <2>4, <3>1 DEF GraphResult, TextWithoutUses, Readable
    <3> QED
      BY <1>0, <2>4, <3>1, <3>2, EndEffect
  <2> QED
    BY <2>1, <2>2, <2>3, <2>4 DEF GraphAnswer
<1>3. RequestsOf(e, k) /\ Extends(said', said)
  BY <1>0, <1>1 DEF RequestsOf, Shape, Extends
<1>4. Shape(e)' /\ K(e)' = k
  BY <1>0, <1>1, <1>3, ShapeSame DEF TurnTyped
<1>5. k <= MaxIterations
  BY <1>0, GraphBehind
<1>6. GraphInv'
  <2>1. /\ result'[e] = GraphResult(said, k, last'[e]) /\ pc'[e] = "done"
        /\ pc'["native"] = "done"
    BY <1>0, <1>1, <1>2 DEF EndsWith, Engine
  <2>2. /\ Len(asked'[e]) = k + 1 /\ last'[e] = LastReply(e, said, k)
        /\ iterations'[e] <= k + 1 /\ steps' <= 2 * MaxIterations + 1
    BY <1>0, <1>1, <1>2, <1>5 DEF LastReply
  <2> QED
    BY <1>0, <1>1, <1>2, <1>4, <2>1, <2>2, GraphEnds
<1>7. NativeKept
  BY <1>1, <1>2 DEF NativeKept, EndsWith, Engine
<1>8. NativeInv'
  BY <1>0, <1>7, NativeRests
<1>9. TurnTyped'
  BY <1>1, <1>2 DEF TurnTyped, EndsWith
<1> QED
  BY <1>6, <1>8, <1>9

\* The nudge of the graph.
LEMMA GraphNudgeStep ==
    ASSUME TurnTyped, NativeInv, GraphInv, NEW r \in Reply, GraphNudge(r)
    PROVE  TurnTyped' /\ NativeInv' /\ GraphInv'
<1> DEFINE e == "langgraph"
           k == K(e)
           ended == messages[e]
           ms == IF HasContent(last[e]) THEN Append(ended, "user") ELSE Before
<1>0. /\ e \in Engine /\ k \in Nat /\ Shape(e) /\ Holds(e) /\ ReplyStored
      /\ pc[e] = "ended" /\ ~Continues(e, said, k + 1)
      /\ pc["native"] = "done" /\ MaxIterations \in Nat /\ MaxIterations >= 1
      /\ lateFrom \in Nat
      /\ iterations[e] <= k + 1 /\ Len(asked[e]) = k + 1 /\ k + 1 <= Len(said)
      /\ last[e] = said[k + 1] /\ said \in Seq(Reply) /\ last[e].stop # "broken"
      /\ wrapUp <=> Wraps(k)
      /\ last[e] \in Reply /\ ended \in Seq(Kind)
  BY TurnAssumption DEF GraphNudge, GraphInv, Holds, TurnTyped, Engine, K
<1>1. /\ last[e].stop # "refusal" /\ ~Readable /\ ~Late(e)
      /\ Asks(e, ms, "auto", "empty_reply", r)
      /\ messages' = [messages EXCEPT ![e] = ms] /\ steps' = 1
      /\ NoTools /\ UNCHANGED <<forced, lateFrom, iterations, wrapUp>>
  BY DEF GraphNudge, Before
<1>2. Nudges(e, said, k)
  <2>1. k + 2 < lateFrom
    BY <1>0, <1>1 DEF Late
  <2>2. CASE k < MaxIterations
    BY <1>0, <1>1, <2>1, <2>2 DEF Nudges, Readable
  <2>3. CASE ~(k < MaxIterations)
    <3>1. last[e].text = "blank"
      BY <1>0, <1>1, <2>3, ReplyFields DEF Wraps, Readable, Visible, Text
    <3> QED
      BY <1>0, <1>1, <2>1, <2>3, <3>1 DEF Nudges
  <2> QED
    BY <2>2, <2>3
<1>3. ms \in Seq(Kind) /\ (ConverseAccepts(ms) <=> NudgeTaken(e, said, k))
  <2>0. NudgeTaken(e, said, k) <=> last[e].uses = << >>
    BY <1>0 DEF NudgeTaken
  <2>1. ended # << >> /\ Sendable(Before) /\ ended[Len(ended)] = Assistant(last[e])
    BY <1>0 DEF ReplyStored
  <2>2. /\ Before \in Seq(Kind)
        /\ Append(ended, "user") = Before \o <<Assistant(last[e]), "user">>
    <3>1. "user" \in Kind
      BY DEF Kind
    <3>2. /\ Before \in Seq(Kind)
          /\ Append(ended, "user") = Before \o <<ended[Len(ended)], "user">>
      BY <1>0, <2>1, <3>1, Unstored DEF Before
    <3> QED
      BY <2>1, <3>2
  <2>3. CASE last[e].uses = << >>
    <3>1. ms = Before \/ ms = Before \o <<"assistant", "user">>
      BY <2>2, <2>3 DEF Assistant
    <3>2. Before \o <<"assistant", "user">> \in Seq(Kind)
      BY <2>2 DEF Kind
    <3>3. Sendable(Before \o <<"assistant", "user">>)
      BY <2>1, <2>2, Sending
    <3> HIDE DEF ms
    <3> QED
      BY <2>0, <2>1, <2>2, <2>3, <3>1, <3>2, <3>3 DEF Sendable
  <2>4. CASE last[e].uses # << >>
    <3>1. ms = Before \o <<"uses", "user">>
      BY <2>2, <2>4 DEF HasContent, Assistant
    <3>2. Before \o <<"uses", "user">> \in Seq(Kind)
      BY <2>2 DEF Kind
    <3>3. ~ConverseAccepts(Before \o <<"uses", "user">>)
      BY <2>1, <2>2, Sending
    <3> QED
      BY <2>0, <2>4, <3>1, <3>2, <3>3
  <2> QED
    BY <2>3, <2>4
<1> HIDE DEF ms
<1>4. NudgeTaken(e, said, k) => k + 2 <= Len(said)
  BY <1>0, <1>2, GraphBehind
<1>5. Asked(e, ms, "auto", "empty_reply", r) /\ AskedTypes(e)
  <2>1. Len(asked[e]) <= Len(said) /\ "empty_reply" \in Hint
    BY <1>0 DEF Hint
  <2> QED
    BY <1>0, <1>1, <2>1, AsksEffect
<1>6. /\ Len(asked'[e]) = k + 2 /\ last'[e] = r /\ RequestsOf(e, k)
      /\ Extends(said', said) /\ said' = said
      /\ NudgeTaken(e, said, k) => r = said[k + 2]
      /\ ~NudgeTaken(e, said, k) => r = Broken
  BY <1>0, <1>2, <1>3, <1>4, <1>5, NudgeAsked
<1>7. /\ UNCHANGED <<rounds, proposal, brief>>
      /\ said' \in Seq(Reply) /\ asked' \in [Engine -> Seq(Request)]
      /\ last' \in [Engine -> Reply]
      /\ \A d \in Engine : d # e => asked'[d] = asked[d] /\ last'[d] = last[d]
      /\ messages' \in [Engine -> Seq(Kind)]
  <2>1. messages' \in [Engine -> Seq(Kind)]
    BY <1>1, <1>3 DEF TurnTyped
  <2> QED
    BY <1>1, <1>5, <2>1 DEF NoTools, AskedTypes
<1>8. Shape(e)' /\ K(e)' = k
  BY <1>0, <1>1, <1>6, <1>7, ShapeSame
<1>9. last'[e] = LastReply(e, said, k)
  BY <1>2, <1>6 DEF LastReply
<1>10. EndsWith(e, GraphResult(said, k, r))
  <2>1. CASE r.stop = "broken"
    <3>1. Fails(e)
      BY <2>1 DEF GraphNudge
    <3> QED
      BY <1>0, <2>1, <3>1, EndEffect DEF GraphResult
  <2>2. CASE r.stop = "refusal"
    <3>1. Refused(e)
      BY <2>2 DEF GraphNudge
    <3> QED
      BY <1>0, <2>2, <3>1, EndEffect DEF GraphResult
  <2>3. CASE r.stop \notin {"broken", "refusal"}
    <3>1. Answers(e, "end_turn", TextWithoutUses(r), << >>)
      BY <2>3 DEF GraphNudge
    <3>2. GraphResult(said, k, r) = ReplyOf(e, "end_turn", TextWithoutUses(r), << >>)
      BY <1>2, <2>3 DEF GraphResult
    <3> QED
      BY <1>0, <3>1, <3>2, EndEffect
  <2> QED
    BY <2>1, <2>2, <2>3
<1>11. GraphInv'
  <2>1. /\ result'[e] = GraphResult(said, k, last'[e]) /\ pc'[e] = "done"
        /\ pc'["native"] = "done"
    BY <1>0, <1>6, <1>10 DEF EndsWith, Engine
  <2>2. /\ Len(asked'[e]) = k + 2 /\ iterations'[e] <= k + 1
        /\ steps' <= 2 * MaxIterations + 1
    BY <1>0, <1>1, <1>6
  <2> QED
    BY <1>0, <1>1, <1>2, <1>4, <1>6, <1>7, <1>8, <1>9, <2>1, <2>2, GraphEnds
<1>12. NativeKept
  BY <1>1, <1>6, <1>7, <1>10 DEF NativeKept, EndsWith, Engine
<1>13. NativeInv'
  BY <1>0, <1>12, NativeRests
<1>14. TurnTyped'
  BY <1>1, <1>7, <1>10 DEF TurnTyped, EndsWith
<1> QED
  BY <1>11, <1>13, <1>14

-----------------------------------------------------------------------------
(***************************************************************************)
(* The theorems.                                                           *)
(***************************************************************************)

\* The turn begins as the invariant says.
LEMMA TurnInvInit == TurnInit => TurnInv
<1> SUFFICES ASSUME TurnInit PROVE TurnInv
  OBVIOUS
<1>0. MaxIterations \in Nat /\ MaxIterations >= 1 /\ MaxCalls = MaxIterations + 2
  BY TurnAssumption DEF MaxCalls
<1>1. TurnTyped
  <2>1. [stop |-> "end_turn", text |-> "none", uses |-> << >>] \in Reply
    BY DEF Reply, Text
  <2>2. last \in [Engine -> Reply]
    BY <2>1 DEF TurnInit
  <2>3. /\ messages \in [Engine -> Seq(Kind)] /\ asked \in [Engine -> Seq(Request)]
        /\ rounds \in [Engine -> Seq(Calls)] /\ said \in Seq(Reply)
    BY DEF TurnInit, Kind
  <2>4. /\ pc \in [Engine -> {"loop", "tools", "answered", "wrapped", "ended", "done"}]
        /\ iterations \in [Engine -> Nat] /\ steps \in Nat
        /\ DOMAIN proposal = Engine /\ DOMAIN brief = Engine /\ DOMAIN result = Engine
    BY DEF TurnInit
  <2>5. lateFrom \in Nat /\ lateFrom >= 1 /\ lateFrom <= MaxCalls + 1
    BY <1>0 DEF TurnInit
  <2>6. forced \in BOOLEAN /\ wrapUp \in BOOLEAN
    BY DEF TurnInit
  <2> QED
    BY <2>2, <2>3, <2>4, <2>5, <2>6 DEF TurnTyped
<1>2. ASSUME NEW e \in Engine
      PROVE  Shape(e) /\ AtLoop(e) /\ K(e) = 0 /\ Len(said) = 0 /\ pc[e] = "loop"
  <2>1. /\ K(e) = 0 /\ Len(said) = 0 /\ Len(asked[e]) = 0 /\ pc[e] = "loop"
        /\ iterations[e] = 0 /\ result[e] = Unset /\ messages[e] = <<"user">>
        /\ proposal[e] = NoProposal /\ brief[e] = NoProposal /\ rounds[e] = << >>
    BY DEF TurnInit, K
  <2>2. BriefOf(rounds[e]) = NoProposal
    BY <2>1 DEF BriefOf, LastRounds
  <2>3. Sendable(messages[e])
    BY <2>1 DEF Sendable, ConverseAccepts, Role
  <2> QED
    BY <2>1, <2>2, <2>3 DEF Shape, AtLoop
<1>3. NativeInv
  BY <1>2 DEF NativeInv, Engine
<1>4. GraphInv
  <2>1. steps = 0
    BY DEF TurnInit
  <2> QED
    BY <1>2, <2>1 DEF GraphInv, Engine
<1> QED
  BY <1>1, <1>3, <1>4 DEF TurnInv

\* Nothing happens.
LEMMA NothingHappens ==
    ASSUME TurnTyped, NativeInv, GraphInv,
           UNCHANGED <<forced, lateFrom, said, pc, iterations, wrapUp, steps, last,
                       messages, asked, rounds, proposal, brief, result>>
    PROVE  NativeInv' /\ GraphInv'
<1>1. ASSUME NEW e \in Engine, Shape(e) PROVE Shape(e)' /\ K(e)' = K(e)
  <2>1. RequestsOf(e, K(e)) /\ Extends(said', said) /\ said' \in Seq(Reply)
    BY <1>1 DEF RequestsOf, Shape, Extends, TurnTyped
  <2> QED
    BY <1>1, <2>1, ShapeSame
<1>2. ASSUME NEW ms, NEW e \in Engine
      PROVE  Sendable(messages[e])' <=> Sendable(messages[e])
  BY DEF Sendable, ConverseAccepts, Role
<1>3. ASSUME NEW e \in Engine, K(e)' = K(e)
      PROVE  /\ AtLoop(e) => AtLoop(e)'
             /\ Holds(e) => Holds(e)'
  BY <1>2, <1>3 DEF AtLoop, Holds, Unset
<1>4. ASSUME NEW k, NEW e \in Engine, K(e)' = k
      PROVE  /\ Continues(e, said, K(e) + 1)' <=> Continues(e, said, k + 1)
             /\ Nudges(e, said, K(e))' <=> Nudges(e, said, k)
             /\ Wraps(K(e))' <=> Wraps(k)
  BY <1>4 DEF Continues, Nudges, Wraps, Visible
<1>5. NativeInv'
  <2> DEFINE e == "native"
  <2>1. e \in Engine /\ Shape(e)
    BY DEF NativeInv, Engine
  <2>2. Shape(e)' /\ K(e)' = K(e)
    BY <1>1, <2>1
  <2>3. CASE pc[e] = "done"
    BY <2>3, NativeRests DEF NativeKept
  <2>4. CASE pc[e] = "loop"
    BY <1>3, <2>1, <2>2, <2>4 DEF NativeInv
  <2>5. CASE pc[e] \in {"answered", "wrapped"}
    <3>1. Holds(e)' /\ Sendable(messages[e])'
      BY <1>2, <1>3, <2>1, <2>2, <2>5 DEF NativeInv
    <3> QED
      BY <2>2, <2>5, <3>1 DEF NativeInv
  <2> QED
    BY <2>3, <2>4, <2>5 DEF NativeInv
<1>6. GraphInv'
  <2> DEFINE e == "langgraph"
             k == K(e)
  <2>1. e \in Engine /\ Shape(e)
    BY DEF GraphInv, Engine
  <2>2. Shape(e)' /\ K(e)' = k
    BY <1>1, <2>1
  <2>3. CASE pc[e] = "loop"
    BY <1>3, <2>1, <2>2, <2>3 DEF GraphInv
  <2>4. ReplyStored => ReplyStored'
    BY DEF ReplyStored, Before, Sendable, ConverseAccepts, Role, Assistant
  <2>5. CASE pc[e] = "tools"
    BY <1>3, <1>4, <2>1, <2>2, <2>4, <2>5 DEF GraphInv
  <2>6. CASE pc[e] = "ended"
    <3>1. Holds(e)' /\ ReplyStored'
      BY <1>3, <2>1, <2>2, <2>4, <2>6 DEF GraphInv
    <3> QED
      BY <1>4, <2>1, <2>2, <2>6, <3>1 DEF GraphInv
  <2>7. CASE pc[e] = "done"
    <3>1. /\ AtEnd(e) /\ result[e] = GraphResult(said, k, last[e])
          /\ steps <= 2 * MaxIterations + 1 /\ pc["native"] = "done"
      BY <2>7 DEF GraphInv
    <3> QED
      BY <2>2, <2>7, <3>1, GraphEnds DEF AtEnd
  <2> QED
    BY <2>3, <2>5, <2>6, <2>7 DEF GraphInv
<1> QED
  BY <1>5, <1>6

\* Every step of either engine keeps it.
LEMMA TurnInvStep ==
    ASSUME TurnInv, [TurnNext]_vars
    PROVE  TurnInv'
<1>0. TurnTyped /\ NativeInv /\ GraphInv
  BY DEF TurnInv
<1>1. ASSUME NEW r \in Reply, NativeLoop(r) PROVE TurnInv'
  BY <1>0, <1>1, NativeLoopStep DEF TurnInv
<1>2. ASSUME NEW r \in Reply, NativeWrapUp(r) PROVE TurnInv'
  BY <1>0, <1>2, NativeWrapUpStep DEF TurnInv
<1>3. ASSUME NEW r \in Reply, NativeNudge(r) PROVE TurnInv'
  BY <1>0, <1>3, NativeNudgeStep DEF TurnInv
<1>4. ASSUME NEW r \in Reply, GraphAgent(r) PROVE TurnInv'
  BY <1>0, <1>4, GraphAgentStep DEF TurnInv
<1>5. ASSUME NEW r \in Reply, GraphNudge(r) PROVE TurnInv'
  BY <1>0, <1>5, GraphNudgeStep DEF TurnInv
<1>6. CASE NativeAnswer \/ NativeFallback
  BY <1>0, <1>6, NativeAnswerStep DEF TurnInv
<1>7. CASE GraphTools
  BY <1>0, <1>7, GraphToolsStep DEF TurnInv
<1>8. CASE GraphAnswer
  BY <1>0, <1>8, GraphAnswerStep DEF TurnInv
<1>9. CASE UNCHANGED vars
  <2>1. UNCHANGED <<forced, lateFrom, said, pc, iterations, wrapUp, steps, last,
                    messages, asked, rounds, proposal, brief, result>>
    BY <1>9 DEF vars, engineVars
  <2>2. TurnTyped'
    BY <1>0, <2>1 DEF TurnTyped
  <2> QED
    BY <1>0, <2>1, <2>2, NothingHappens DEF TurnInv
<1> QED
  BY <1>1, <1>2, <1>3, <1>4, <1>5, <1>6, <1>7, <1>8, <1>9 DEF TurnNext

\* Where each engine stands in its function of the replies, at all times.
THEOREM TurnInvariant == TurnSpec => []TurnInv
BY TurnInvInit, TurnInvStep, PTL DEF TurnSpec

(***************************************************************************)
(* What the invariant says of a turn.                                      *)
(***************************************************************************)

\* No engine runs more rounds of tools than its iterations allow.
LEMMA RoundsBounded ==
    ASSUME TurnTyped, NEW e \in Engine, Shape(e)
    PROVE  K(e) \in Nat /\ K(e) <= MaxIterations
<1>1. K(e) \in Nat
  BY DEF TurnTyped, K
<1>2. CASE K(e) = 0
  BY <1>1, <1>2, TurnAssumption
<1>3. CASE K(e) > 0
  <2>1. K(e) \in 1..K(e)
    BY <1>1, <1>3
  <2>2. Continues(e, said, K(e))
    BY <2>1 DEF Shape
  <2> QED
    BY <1>1, <2>2 DEF Continues
<1> QED
  BY <1>1, <1>2, <1>3

\* A result that was made is not the result still to come.
LEMMA ResultMade ==
    ASSUME NEW s, NEW k, NEW q
    PROVE  NativeResult(s, k, q) # Unset /\ GraphResult(s, k, q) # Unset
<1>1. NativeResult(s, k, q).outcome \in {"reply", "failed"}
  BY DEF NativeResult, Failure, Refusal, ReplyOf
<1>2. GraphResult(s, k, q).outcome \in {"reply", "failed"}
  BY DEF GraphResult, Failure, Refusal, ReplyOf
<1>3. Unset.outcome = "none"
  BY DEF Unset
<1> QED
  BY <1>1, <1>2, <1>3

\* The bounds, engine by engine.
LEMMA EngineBounds ==
    ASSUME TurnInv, NEW e \in Engine
    PROVE  /\ Shape(e)
           /\ iterations[e] <= MaxIterations + 1
           /\ Len(asked[e]) <= MaxCalls
           /\ result[e] # Unset <=> pc[e] = "done"
<1>0. /\ TurnTyped /\ Shape("native") /\ Shape("langgraph")
      /\ MaxIterations \in Nat
  BY TurnAssumption DEF TurnInv, NativeInv, GraphInv
<1>1. K(e) \in Nat /\ K(e) <= MaxIterations /\ iterations[e] \in Nat /\ Shape(e)
  BY <1>0, RoundsBounded DEF TurnTyped, Engine
<1>2. \/ AtLoop(e) /\ pc[e] # "done"
      \/ Holds(e) /\ pc[e] # "done"
      \/ AtEnd(e) /\ pc[e] = "done" /\ result[e] # Unset
  <2>1. CASE e = "native"
    BY <2>1, ResultMade DEF TurnInv, NativeInv
  <2>2. CASE e = "langgraph"
    BY <2>2, ResultMade DEF TurnInv, GraphInv
  <2> QED
    BY <2>1, <2>2 DEF Engine
<1>3. CASE AtLoop(e) /\ pc[e] # "done"
  BY <1>0, <1>1, <1>3 DEF AtLoop, MaxCalls
<1>4. CASE Holds(e) /\ pc[e] # "done"
  BY <1>0, <1>1, <1>4 DEF Holds, MaxCalls
<1>5. CASE AtEnd(e) /\ pc[e] = "done" /\ result[e] # Unset
  BY <1>0, <1>1, <1>5 DEF AtEnd, MaxCalls
<1> QED
  BY <1>2, <1>3, <1>4, <1>5

\* A turn costs what the budget allows.
LEMMA Bounded ==
    ASSUME TurnInv
    PROVE  WithinBudget
<1>0. /\ TurnTyped /\ MaxIterations \in Nat
      /\ MaxCalls \in Nat /\ RecursionLimit - 1 = 2 * MaxIterations + 1
  BY TurnAssumption DEF TurnInv, MaxCalls, RecursionLimit
<1>1. \A e \in Engine : /\ Shape(e) /\ iterations[e] <= MaxIterations + 1
                        /\ Len(asked[e]) <= MaxCalls
                        /\ result[e] # Unset <=> pc[e] = "done"
  BY EngineBounds
<1>2. \A e \in Engine : K(e) \in Nat /\ K(e) <= MaxIterations
  BY <1>0, <1>1, RoundsBounded
<1>3. TurnTypeOK
  <2>1. lateFrom \in 1..(MaxCalls + 1)
    BY <1>0 DEF TurnTyped
  <2>2. \A i \in DOMAIN said : said[i] \in Reply
    BY <1>0 DEF TurnTyped
  <2>3. iterations \in [Engine -> 0..(MaxIterations + 1)]
    BY <1>0, <1>1 DEF TurnTyped
  <2>4. \A e \in Engine : /\ Len(rounds[e]) <= MaxIterations
                          /\ \A i \in DOMAIN rounds[e] : rounds[e][i] \in Calls
    BY <1>0, <1>2 DEF TurnTyped, K
  <2>5. /\ forced \in BOOLEAN /\ wrapUp \in BOOLEAN
        /\ pc \in [Engine -> {"loop", "tools", "answered", "wrapped", "ended", "done"}]
        /\ last \in [Engine -> Reply]
    BY <1>0 DEF TurnTyped
  <2> QED
    BY <1>1, <2>1, <2>2, <2>3, <2>4, <2>5 DEF TurnTypeOK
<1>4. steps <= RecursionLimit - 1
  <2> DEFINE e == "langgraph"
  <2>1. K(e) \in Nat /\ K(e) <= MaxIterations /\ steps \in Nat
    BY <1>0, <1>2 DEF Engine, TurnTyped
  <2>2. \/ steps = 2 * K(e) \/ steps = 2 * K(e) + 1
        \/ steps <= 2 * MaxIterations + 1
    BY DEF TurnInv, GraphInv
  <2> QED
    BY <1>0, <2>1, <2>2
<1> QED
  BY <1>1, <1>3, <1>4 DEF WithinBudget

\* WithinBudget, for any number of iterations: the types hold, no turn makes
\* more calls than its iterations, a wrap-up and a nudge, and the graph never
\* reaches its recursion limit, which LangGraph would raise on.
THEOREM TurnWithinBudget == TurnSpec => []WithinBudget
BY TurnInvariant, Bounded, PTL

\* Two engines that have run as many rounds have run the same ones.
LEMMA SameRounds ==
    ASSUME TurnTyped, Shape("native"), Shape("langgraph"),
           K("native") = K("langgraph")
    PROVE  /\ rounds["native"] = rounds["langgraph"]
           /\ proposal["native"] = proposal["langgraph"]
           /\ brief["native"] = brief["langgraph"]
<1>1. /\ rounds["native"] \in Seq(Calls) /\ rounds["langgraph"] \in Seq(Calls)
      /\ Len(rounds["native"]) = Len(rounds["langgraph"])
  BY DEF TurnTyped, Engine, K
<1>2. \A i \in 1..Len(rounds["native"]) : rounds["native"][i] = rounds["langgraph"][i]
  BY <1>1 DEF Shape, K
<1>3. rounds["native"] = rounds["langgraph"]
  BY <1>1, <1>2, SeqEqual
<1> QED
  BY <1>3 DEF Shape

\* Nor do the requests differ, being those of the same function.
LEMMA SameRequests ==
    ASSUME TurnTyped, Shape("native"), Shape("langgraph"),
           K("native") = K("langgraph"),
           Len(asked["native"]) = Len(asked["langgraph"]),
           \/ Len(asked["native"]) <= K("native") + 1
           \/ NudgeTaken("native", said, K("native"))
                 <=> NudgeTaken("langgraph", said, K("native"))
    PROVE  asked["native"] = asked["langgraph"]
<1>1. asked["native"] \in Seq(Request) /\ asked["langgraph"] \in Seq(Request)
  BY DEF TurnTyped, Engine
<1>2. ASSUME NEW i \in 1..Len(asked["native"])
      PROVE  asked["native"][i] = asked["langgraph"][i]
  <2> DEFINE p == asked["native"][i]
             q == asked["langgraph"][i]
  <2>1. p \in Request /\ q \in Request
    BY <1>1
  <2>2. /\ RequestIs(p, "native", said, K("native"), i)
        /\ RequestIs(q, "langgraph", said, K("native"), i)
    BY DEF Shape
  <2> HIDE DEF p, q
  <2>3. p.choice = q.choice /\ p.hint = q.hint
    BY <2>2 DEF RequestIs
  <2>4. p.valid <=> q.valid
    <3>1. K("native") \in Nat /\ i \in Nat /\ i <= Len(asked["native"])
      BY <1>1 DEF TurnTyped, K, Engine
    <3> QED
      BY <2>2, <3>1 DEF RequestIs
  <2>5. p.valid \in BOOLEAN /\ q.valid \in BOOLEAN
    BY <2>1 DEF Request
  <2>6. p.valid = q.valid
    BY <2>4, <2>5
  <2>7. p = q
    BY <2>1, <2>3, <2>6 DEF Request
  <2> QED
    BY <2>7 DEF p, q
<1> QED
  BY <1>1, <1>2, SeqEqual

\* Where the two engines' results differ: the loop has dropped the stop reason
\* of a refusal, or kept that of a reply cut short when time was up.
LEMMA ResultsAgree ==
    ASSUME NEW s \in Seq(Reply), NEW k \in Nat, k + 1 <= Len(s),
           ~Continues("native", s, k + 1), NEW q \in Reply,
           ~Nudges("native", s, k) => q = s[k + 1],
           Nudges("native", s, k) <=> Nudges("langgraph", s, k),
           lateFrom \in Nat,
           rounds["native"] = rounds["langgraph"],
           proposal["native"] = proposal["langgraph"],
           k <= MaxIterations
    PROVE  \/ NativeResult(s, k, q) = GraphResult(s, k, q)
           \/ /\ q.stop = "refusal"
              /\ NativeResult(s, k, q).outcome = "reply"
              /\ NativeResult(s, k, q).stop = "end_turn"
           \/ /\ q.stop = "max_tokens" /\ ~Nudges("native", s, k) /\ k + 1 >= lateFrom
              /\ NativeResult(s, k, q).outcome = "reply"
<1>0. /\ Refusal("native") = Refusal("langgraph")
      /\ \A stop, text, uses :
            ReplyOf("native", stop, text, uses) = ReplyOf("langgraph", stop, text, uses)
      /\ MaxIterations \in Nat
  BY TurnAssumption DEF Refusal, ReplyOf
<1>1. /\ q.stop \in {"end_turn", "tool_use", "max_tokens", "refusal", "broken"}
      /\ q.stop = "end_turn" => q.uses = << >>
  BY ReplyFields
<1>3. CASE q.stop = "broken"
  BY <1>3 DEF NativeResult, GraphResult
<1>4. CASE q.stop = "refusal"
  <2>1. CASE k < MaxIterations /\ ~Nudges("native", s, k)
    BY <1>0, <1>4, <2>1 DEF NativeResult, GraphResult
  <2>2. CASE ~(k < MaxIterations /\ ~Nudges("native", s, k))
    <3>1. NativeResult(s, k, q) = ReplyOf("native", "end_turn", TextWithoutUses(q), << >>)
      BY <1>4, <2>2 DEF NativeResult
    <3> QED
      BY <1>4, <3>1 DEF ReplyOf
  <2> QED
    BY <2>1, <2>2
<1>5. CASE q.stop \notin {"broken", "refusal"}
  <2> DEFINE plain == ReplyOf("native", "end_turn", TextWithoutUses(q), << >>)
             own == ReplyOf("native", q.stop, "model", q.uses)
  <2>1. ~Wraps(k) /\ ~Nudges("native", s, k) => k < MaxIterations /\ q.stop # "tool_use"
    BY <1>0 DEF Wraps, Continues
  <2>2. CASE ~Wraps(k) /\ ~Nudges("native", s, k) /\ Visible(q)
    <3>1. GraphResult(s, k, q) = own
      BY <1>0, <1>5, <2>2 DEF GraphResult
    <3>2. NativeResult(s, k, q) = own
      BY <1>5, <2>1, <2>2 DEF NativeResult
    <3> QED
      BY <3>1, <3>2
  <2>3. CASE ~(~Wraps(k) /\ ~Nudges("native", s, k) /\ Visible(q))
    <3>1. GraphResult(s, k, q) = plain
      BY <1>0, <1>5, <2>3 DEF GraphResult
    <3>2. CASE k < MaxIterations /\ ~Nudges("native", s, k) /\ q.stop # "tool_use" /\ Visible(q)
      <4>1. NativeResult(s, k, q) = own
        BY <1>5, <3>2 DEF NativeResult
      <4>2. k + 1 >= lateFrom
        BY <1>0, <2>3, <3>2 DEF Wraps
      <4>3. CASE q.stop = "end_turn"
        BY <1>1, <3>1, <3>2, <4>1, <4>3 DEF TextWithoutUses
      <4>4. CASE q.stop = "max_tokens"
        <5>1. own.outcome = "reply"
          BY DEF ReplyOf
        <5> QED
          BY <3>2, <4>1, <4>2, <4>4, <5>1
      <4> QED
        BY <1>1, <1>5, <3>2, <4>3, <4>4
    <3>3. CASE ~(k < MaxIterations /\ ~Nudges("native", s, k) /\ q.stop # "tool_use" /\ Visible(q))
      <4>1. NativeResult(s, k, q) = plain
        BY <1>5, <3>3 DEF NativeResult
      <4> QED
        BY <3>1, <4>1
    <3> QED
      BY <3>2, <3>3
  <2> QED
    BY <2>2, <2>3
<1> QED
  BY <1>3, <1>4, <1>5

\* The loop's result never tells of a refusal it overlooked.
LEMMA Overlooked ==
    ASSUME NEW k, NEW q, result["native"] = NativeResult(said, k, q),
           k < MaxIterations => Nudges("native", said, k) \/ q.stop # "refusal"
    PROVE  Answered("native") => result["native"].stop # "refusal"
BY DEF NativeResult, ReplyOf, Failure, Answered

\* The engines agree once both have ended.
LEMMA Agreed ==
    ASSUME TurnInv
    PROVE  SameAnswer
<1> SUFFICES ASSUME pc["native"] = "done", pc["langgraph"] = "done"
             PROVE  \/ RefusedAfterWrapUp \/ CutWhenLate \/ BlankWrapUp \/ NoCallParsed
                    \/ /\ result["native"] = result["langgraph"]
                       /\ asked["native"] = asked["langgraph"]
                       /\ brief["native"] = brief["langgraph"]
  BY DEF SameAnswer
<1> DEFINE k == K("native")
           q == last["native"]
           p == last["langgraph"]
           r == said[k + 1]
<1>1. /\ TurnTyped /\ NativeInv /\ Shape("native") /\ Shape("langgraph")
      /\ AtEnd("native") /\ AtEnd("langgraph")
      /\ result["native"] = NativeResult(said, k, q)
      /\ result["langgraph"] = GraphResult(said, K("langgraph"), p)
  BY DEF TurnInv, NativeInv, GraphInv
<1>2. /\ k \in Nat /\ K("langgraph") \in Nat /\ k + 1 <= Len(said)
      /\ ~Continues("native", said, k + 1)
      /\ ~Continues("langgraph", said, K("langgraph") + 1)
  BY <1>1, GraphBehind DEF AtEnd
<1>3. CASE K("langgraph") # k
  <2>1. /\ K("langgraph") + 1 <= k
        /\ ~Parsed(rounds["native"][K("langgraph") + 1])
    BY <1>1, <1>2, <1>3, GraphBehind
  <2>2. K("langgraph") + 1 \in DOMAIN rounds["native"]
    BY <1>1, <1>2, <2>1 DEF TurnTyped, K, Engine
  <2> QED
    BY <2>1, <2>2 DEF NoCallParsed
<1>4. CASE K("langgraph") = k
  <2>1. /\ k <= MaxIterations /\ MaxIterations \in Nat /\ lateFrom \in Nat
        /\ said \in Seq(Reply) /\ q \in Reply /\ p \in Reply
        /\ r \in Reply /\ ~Continues("langgraph", said, k + 1)
    BY <1>1, <1>2, <1>4, GraphBehind, TurnAssumption DEF TurnTyped, Engine
  <2>2. /\ q = LastReply("native", said, k) /\ p = LastReply("langgraph", said, k)
        /\ Len(asked["native"]) = IF Nudges("native", said, k) THEN k + 2 ELSE k + 1
        /\ Len(asked["langgraph"]) =
              IF Nudges("langgraph", said, k) THEN k + 2 ELSE k + 1
        /\ Nudges("native", said, k) /\ NudgeTaken("native", said, k) => k + 2 <= Len(said)
    BY <1>1, <1>4 DEF AtEnd
  <2>3. /\ rounds["native"] = rounds["langgraph"]
        /\ proposal["native"] = proposal["langgraph"]
        /\ brief["native"] = brief["langgraph"]
    BY <1>1, <1>4, SameRounds
  <2>4. result["langgraph"] = GraphResult(said, k, p)
    BY <1>1, <1>4
  <2> HIDE DEF k, q, p
  <2>5. CASE k = MaxIterations /\ r.stop = "refusal"
    <3>1. Answered("native") => result["native"].stop # "refusal"
      BY <1>1, <2>1, <2>5, Overlooked
    <3>2. k + 1 \in DOMAIN said
      BY <1>2, <2>1
    <3> QED
      BY <2>5, <3>1, <3>2 DEF RefusedAfterWrapUp
  <2>6. CASE ~(k = MaxIterations /\ r.stop = "refusal")
    <3>1. Nudges("native", said, k) <=> Nudges("langgraph", said, k)
      BY <1>2, <2>1, <2>6 DEF Nudges
    <3>2. CASE /\ Nudges("native", said, k)
               /\ NudgeTaken("native", said, k) /\ ~NudgeTaken("langgraph", said, k)
      <4>1. k = MaxIterations /\ r.uses # << >>
        BY <1>2, <2>1, <3>2 DEF NudgeTaken
      <4>2. r.text = "blank"
        BY <2>1, <3>2, <4>1 DEF Nudges
      <4>3. result["langgraph"] = Failure
        BY <2>2, <2>4, <3>1, <3>2 DEF LastReply, GraphResult, Broken
      <4>4. MaxIterations + 1 < Len(asked["langgraph"])
        BY <2>1, <2>2, <3>1, <3>2, <4>1
      <4> QED
        BY <4>1, <4>2, <4>3, <4>4 DEF BlankWrapUp, Failure
    <3>3. CASE ~(/\ Nudges("native", said, k)
                 /\ NudgeTaken("native", said, k) /\ ~NudgeTaken("langgraph", said, k))
      <4>1. Nudges("native", said, k) =>
               (NudgeTaken("native", said, k) <=> NudgeTaken("langgraph", said, k))
        BY <3>3 DEF NudgeTaken
      <4>2. p = q /\ Len(asked["native"]) = Len(asked["langgraph"])
        BY <2>2, <3>1, <4>1 DEF LastReply
      <4>3. asked["native"] = asked["langgraph"]
        <5>1. \/ Len(asked["native"]) <= k + 1
              \/ NudgeTaken("native", said, k) <=> NudgeTaken("langgraph", said, k)
          BY <1>2, <2>2, <4>1
        <5> QED
          BY <1>1, <1>4, <4>2, <5>1, SameRequests DEF k
      <4>4. \/ NativeResult(said, k, q) = GraphResult(said, k, q)
            \/ /\ q.stop = "refusal"
               /\ NativeResult(said, k, q).outcome = "reply"
               /\ NativeResult(said, k, q).stop = "end_turn"
            \/ /\ q.stop = "max_tokens" /\ ~Nudges("native", said, k)
               /\ k + 1 >= lateFrom
               /\ NativeResult(said, k, q).outcome = "reply"
        <5>1. ~Nudges("native", said, k) => q = said[k + 1]
          BY <2>2 DEF LastReply
        <5> QED
          BY <1>2, <2>1, <2>3, <3>1, <5>1, ResultsAgree
      <4>5. CASE NativeResult(said, k, q) = GraphResult(said, k, q)
        BY <1>1, <2>3, <2>4, <4>2, <4>3, <4>5
      <4>6. CASE /\ q.stop = "refusal"
                 /\ NativeResult(said, k, q).outcome = "reply"
                 /\ NativeResult(said, k, q).stop = "end_turn"
        <5>1. \E i \in DOMAIN said : said[i] = q
          <6>1. q # Broken
            BY <4>6 DEF Broken
          <6>2. CASE Nudges("native", said, k)
            <7>1. q = said[k + 2] /\ k + 2 \in DOMAIN said
              BY <1>2, <2>1, <2>2, <6>1, <6>2 DEF LastReply
            <7> QED
              BY <7>1
          <6>3. CASE ~Nudges("native", said, k)
            <7>1. q = said[k + 1] /\ k + 1 \in DOMAIN said
              BY <1>2, <2>1, <2>2, <6>3 DEF LastReply
            <7> QED
              BY <7>1
          <6> QED
            BY <6>2, <6>3
        <5> QED
          BY <1>1, <4>6, <5>1 DEF RefusedAfterWrapUp
      <4>7. CASE /\ q.stop = "max_tokens" /\ ~Nudges("native", said, k)
                 /\ k + 1 >= lateFrom
                 /\ NativeResult(said, k, q).outcome = "reply"
        <5>1. Len(asked["native"]) = k + 1
          BY <2>2, <4>7
        <5>2. RequestIs(asked["native"][k + 1], "native", said, k, k + 1)
          BY <1>1, <1>2, <5>1 DEF Shape, k
        <5>3. asked["native"][k + 1].hint = "no_more_tools"
          BY <1>2, <4>7, <5>2 DEF RequestIs
        <5>4. CASE NativeResult(said, k, q).stop = "max_tokens"
          BY <1>1, <4>7, <5>1, <5>3, <5>4 DEF CutWhenLate, Answered
        <5>5. CASE NativeResult(said, k, q).stop # "max_tokens"
          <6>1. NativeResult(said, k, q) = ReplyOf("native", "end_turn", TextWithoutUses(q), << >>)
            BY <4>7, <5>5 DEF NativeResult, ReplyOf
          <6>2. Wraps(k)
            BY <4>7 DEF Wraps
          <6>3. GraphResult(said, k, q) = ReplyOf("langgraph", "end_turn", TextWithoutUses(q), << >>)
            BY <4>7, <6>2 DEF GraphResult
          <6>4. NativeResult(said, k, q) = GraphResult(said, k, q)
            BY <2>3, <6>1, <6>3 DEF ReplyOf
          <6> QED
            BY <1>1, <2>3, <2>4, <4>2, <4>3, <6>4
        <5> QED
          BY <5>4, <5>5
      <4> QED
        BY <4>4, <4>5, <4>6, <4>7
    <3> QED
      BY <3>2, <3>3
  <2> QED
    BY <2>5, <2>6
<1> QED
  BY <1>3, <1>4

\* SameAnswer, for any number of iterations and any tool calls: given the
\* same replies, the loop and the graph make the same requests, place the
\* same brief and return the same result - but for a refusal whose stop
\* reason the loop dropped, a late reply whose max_tokens it kept, a blank
\* wrap-up whose calls the graph sends back, and a round of calls LangChain
\* did not parse.
THEOREM EnginesAgree == TurnSpec => []SameAnswer
BY TurnInvariant, Agreed, PTL

\* A request that Converse refuses is a nudge on top of a call cut short, or of
\* calls the graph left unanswered.
LEMMA ValidUnlessCut ==
    ASSUME TurnInv
    PROVE  RequestsAreValid
<1> SUFFICES ASSUME NEW e \in Engine, NEW i \in DOMAIN asked[e], ~asked[e][i].valid
             PROVE  /\ i > 1 /\ said[i - 1].uses # << >>
                    /\ \/ said[i - 1].stop = "max_tokens"
                       \/ e = "langgraph" /\ LeftUnanswered(i - 1)
  BY DEF RequestsAreValid
<1> DEFINE k == K(e)
           r == said[k + 1]
<1>1. TurnTyped /\ Shape(e)
  BY EngineBounds DEF TurnInv
<1>2. /\ k \in Nat /\ Len(asked[e]) \in Nat /\ i \in 1..Len(asked[e])
      /\ said \in Seq(Reply) /\ k <= MaxIterations
      /\ MaxIterations \in Nat /\ lateFrom \in Nat
  BY <1>1, RoundsBounded, TurnAssumption DEF TurnTyped
<1>3. i = k + 2 /\ ~NudgeTaken(e, said, k)
  BY <1>1, <1>2 DEF Shape, RequestIs
<1>4. AtEnd(e)
  <2>1. AtLoop(e) \/ Holds(e) \/ AtEnd(e)
    BY DEF TurnInv, NativeInv, GraphInv, Engine
  <2>2. ~AtLoop(e) /\ ~Holds(e)
    BY <1>2, <1>3 DEF AtLoop, Holds
  <2> QED
    BY <2>1, <2>2
<1>5. Nudges(e, said, k) /\ k + 1 <= Len(said)
  BY <1>2, <1>3, <1>4 DEF AtEnd
<1>6. r \in Reply /\ r.uses # << >> /\ (e = "native" => k < MaxIterations)
  BY <1>2, <1>3, <1>5 DEF NudgeTaken
<1>7. r.stop \in {"max_tokens", "tool_use"}
  BY <1>6, ReplyFields
<1>8. i - 1 = k + 1 /\ i > 1
  BY <1>2, <1>3
<1>9. r.stop = "tool_use" => e = "langgraph" /\ LeftUnanswered(k + 1)
  <2> SUFFICES ASSUME r.stop = "tool_use"
               PROVE  e = "langgraph" /\ LeftUnanswered(k + 1)
    OBVIOUS
  <2> HIDE DEF k
  <2>1. ~Continues(e, said, k + 1) /\ k + 2 < lateFrom
    BY <1>5 DEF Nudges
  <2>2. CASE k < MaxIterations
    <3>1. e = "langgraph" /\ ~Parsed(r.uses)
      BY <1>2, <2>1, <2>2 DEF Continues
    <3> QED
      BY <3>1 DEF LeftUnanswered
  <2>3. CASE k = MaxIterations
    <3>1. e = "langgraph" /\ r.text = "blank"
      BY <1>2, <1>5, <1>6, <2>3 DEF Nudges, Engine
    <3> QED
      BY <2>3, <3>1 DEF LeftUnanswered
  <2> QED
    BY <1>2, <2>2, <2>3
<1> QED
  BY <1>6, <1>7, <1>8, <1>9

\* A turn that did not end on a call cut short, or on calls the graph could not
\* read, stores no tool call without its answer.
LEMMA NoUsesStored ==
    ASSUME TurnInv, NEW e \in Engine, Answered(e),
           result[e].stop \notin {"max_tokens", "tool_use"}
    PROVE  result[e].uses = << >>
<1> DEFINE k == K(e)
           q == last[e]
<1>0. /\ TurnTyped
      /\ \A stop, text, uses : /\ ReplyOf(e, stop, text, uses).stop = stop
                               /\ ReplyOf(e, stop, text, uses).uses = uses
      /\ Refusal(e).uses = << >>
      /\ Failure.outcome # "reply"
  BY DEF TurnInv, ReplyOf, Refusal, Failure
<1>1. pc[e] = "done"
  <2>1. result[e] # Unset
    BY DEF Answered, Unset
  <2> QED
    BY <2>1, EngineBounds
<1>2. \/ e = "native" /\ result[e] = NativeResult(said, k, q)
      \/ e = "langgraph" /\ result[e] = GraphResult(said, k, q)
  BY <1>1 DEF TurnInv, NativeInv, GraphInv, Engine
<1>3. /\ q.stop \in {"end_turn", "tool_use", "max_tokens", "refusal", "broken"}
      /\ q.stop \in {"end_turn", "refusal", "broken"} => q.uses = << >>
  BY <1>0, ReplyFields DEF TurnTyped
<1> HIDE DEF k, q
<1>4. \/ result[e] = Failure \/ result[e] = Refusal(e)
      \/ result[e] = ReplyOf(e, q.stop, "model", q.uses)
      \/ result[e] = ReplyOf(e, "end_turn", TextWithoutUses(q), << >>)
  BY <1>2 DEF NativeResult, GraphResult
<1> QED
  BY <1>0, <1>3, <1>4 DEF Answered

\* What is rebuilt of such a turn can be followed by the listener's next words.
LEMMA RebuiltReplays ==
    ASSUME NEW e, K(e) \in Nat, result[e].uses = << >>
    PROVE  NextTurnAccepted(e)
<1> DEFINE n == K(e)
           m == 2 * n + 2
           old == Rebuilt(e)
           ms == Append(old, "user")
<1>1. n \in Nat /\ m \in Nat
  OBVIOUS
<1>2. \A i \in 1..m : old[i] = IF i = 1 THEN "user"
                               ELSE IF i = m THEN "assistant"
                               ELSE IF i % 2 = 0 THEN "uses" ELSE "results"
  BY DEF Rebuilt, K
<1>3. old \in Seq(Kind) /\ Len(old) = m
  <2>1. old \in [1..m -> Kind]
    BY DEF Rebuilt, K, Kind
  <2> QED
    BY <1>1, <2>1
<1> HIDE DEF old
<1>4. /\ Len(ms) = m + 1 /\ ms[m + 1] = "user"
      /\ \A i \in 1..m : ms[i] = old[i]
  BY <1>1, <1>3
<1> HIDE DEF ms
<1>5. /\ \A i \in 1..m : i % 2 = 0 <=> (i + 1) % 2 # 0
      /\ m % 2 = 0 /\ (m + 1) % 2 # 0 /\ 2 % 2 = 0
  OBVIOUS
<1>6. ASSUME NEW i \in 1..m
      PROVE  /\ Role(ms[i]) # Role(ms[i + 1])
             /\ ms[i] = "uses" <=> ms[i + 1] = "results"
  <2>1. CASE i = m
    BY <1>1, <1>2, <1>4, <2>1 DEF Role
  <2>2. CASE i # m
    <3>1. i \in Nat /\ i + 1 \in 1..m /\ i + 1 # 1
      BY <1>1, <2>2
    <3>2. /\ ms[i] = IF i = 1 THEN "user" ELSE IF i % 2 = 0 THEN "uses" ELSE "results"
          /\ ms[i + 1] = IF i + 1 = m THEN "assistant"
                         ELSE IF (i + 1) % 2 = 0 THEN "uses" ELSE "results"
      BY <1>2, <1>4, <2>2, <3>1
    <3>3. /\ i % 2 = 0 <=> (i + 1) % 2 # 0
          /\ i = 1 => i % 2 # 0
          /\ i + 1 = m => (i + 1) % 2 = 0
      BY <1>5
    <3> QED
      BY <3>2, <3>3 DEF Role
  <2> QED
    BY <2>1, <2>2
<1>7. Role(ms[1]) = "user" /\ Role(ms[m + 1]) = "user"
  BY <1>1, <1>2, <1>4 DEF Role
<1>8. ConverseAccepts(ms)
  BY <1>1, <1>4, <1>6, <1>7 DEF ConverseAccepts
<1> QED
  BY <1>8 DEF ms, old, NextTurnAccepted

\* HistoryReplaysUnlessCut, for any number of iterations and any tool calls:
\* every request is one Converse takes, and every committed turn one it takes
\* back, unless a reply was cut at max_tokens or the graph left calls of its
\* own unanswered.
THEOREM HistoryKept == TurnSpec => []HistoryReplaysUnlessCut
<1>1. ASSUME TurnInv PROVE HistoryReplaysUnlessCut
  <2>1. RequestsAreValid
    BY <1>1, ValidUnlessCut
  <2>2. ASSUME NEW e \in Engine, Answered(e),
               result[e].stop \notin {"max_tokens", "tool_use"}
        PROVE  NextTurnAccepted(e)
    <3>1. result[e].uses = << >>
      BY <1>1, <2>2, NoUsesStored
    <3>2. K(e) \in Nat
      BY <1>1, EngineBounds, RoundsBounded DEF TurnInv
    <3> QED
      BY <3>1, <3>2, RebuiltReplays
  <2> QED
    BY <2>1, <2>2 DEF HistoryReplaysUnlessCut
<1> QED
  BY <1>1, TurnInvariant, PTL
=============================================================================
