-------------------------- MODULE CompanionMemory --------------------------
(***************************************************************************)
(* What the companion remembers of one user: the MEMORY item of            *)
(* shared/db.py, under the turns, tabs and engines that share it.  A       *)
(* save_user_insight call reads the memory and writes it back under a lock *)
(* on updated_at; the account page may delete it at any moment; and boto3  *)
(* sends a write again when its answer does not come.                      *)
(***************************************************************************)
EXTENDS Integers, Sequences, FiniteSets

CONSTANTS
    Call,                  \* save_user_insight calls
    Text, Folded,          \* what they save, and each text case-folded
    Cap,                   \* AGENT_INSIGHTS_MAX
    Attempts,              \* _MEMORY_WRITE_ATTEMPTS
    MaxClears,             \* bound: DELETE /agent/memory requests
    Absent                 \* no item, and so no updated_at

ASSUME MemoryAssumption ==
    /\ Cap \in Nat \ {0} /\ Attempts \in Nat \ {0}
    /\ MaxClears \in Nat
    /\ Absent \notin Call
    /\ Text # {} /\ DOMAIN Folded = Text

\* An Insight: its text and the call that saved it (its session_id).
Insight == [text : Text, by : Call]

VARIABLES
    insights,              \* the MEMORY item's list
    updated_at,            \* and its stamp: the `now` of the call that wrote it
    call,                  \* where each append_insight stands
    resent,                \* the calls whose write boto3 has sent again
    clears,                \* history: the deletes so far
    forgotten              \* history: the calls that had returned by the last one

memory == <<insights, updated_at>>
vars == <<memory, call, resent, clears, forgotten>>

Fresh == [at |-> "new", text |-> CHOOSE t \in Text : TRUE, tries |-> 0,
          seen |-> Absent, draft |-> << >>]

MemoryInit ==
    /\ insights = << >> /\ updated_at = Absent
    /\ call = [c \in Call |-> Fresh]
    /\ resent = {}
    /\ clears = 0 /\ forgotten = {}

----------------------------------------------------------------------------
(***************************************************************************)
(* append_insight.                                                         *)
(***************************************************************************)

Returned == {"saved", "already_remembered", "contention"}

\* Faulty: "Slow pacing" is not taken for "slow pacing".
RemembersExactly(list, t) == \E i \in DOMAIN list : list[i].text = t

Remembers(list, t) ==
    \E i \in DOMAIN list : Folded[list[i].text] = Folded[t]

\* insights[-AGENT_INSIGHTS_MAX:] of the list with one more.
Capped(list) ==
    IF Len(list) <= Cap THEN list ELSE SubSeq(list, Len(list) - Cap + 1, Len(list))

\* What a call that has returned keeps.
Return(c, answer) == call' = [call EXCEPT ![c] = [Fresh EXCEPT !.at = answer]]

\* The consistent read, and what is made of it.
ReadFor(c, t) ==
    /\ \/ /\ Remembers(insights, t)
          /\ Return(c, "already_remembered")
       \/ /\ ~Remembers(insights, t)
          /\ call' = [call EXCEPT
                 ![c] = [at |-> "write", text |-> t, tries |-> @.tries,
                         seen |-> updated_at,
                         draft |-> Capped(Append(insights,
                                                 [text |-> t, by |-> c]))]]
    /\ UNCHANGED <<memory, resent, clears, forgotten>>

Invoke(c) == call[c].at = "new" /\ \E t \in Text : ReadFor(c, t)
Reread(c) == call[c].at = "read" /\ ReadFor(c, call[c].text)

\* Faulty: a put without its condition.
UnchangedOrNot(c) == TRUE

\* attribute_not_exists(PK), or updated_at = :seen.
Unchanged(c) == updated_at = call[c].seen

\* The conditional put.  When its answer is lost boto3 sends it again: here
\* once in a call.
Put(c) ==
    /\ call[c].at = "write"
    /\ Unchanged(c)
    /\ insights' = call[c].draft
    /\ updated_at' = c
    /\ \/ /\ Return(c, "saved")
          /\ UNCHANGED resent
       \/ /\ c \notin resent
          /\ resent' = resent \union {c}
          /\ UNCHANGED call
    /\ UNCHANGED <<clears, forgotten>>

\* ConditionalCheckFailed: read again, or MemoryContentionError.
PutRefused(c) ==
    /\ call[c].at = "write"
    /\ ~Unchanged(c)
    /\ \/ /\ call[c].tries + 1 < Attempts
          /\ call' = [call EXCEPT ![c].tries = @ + 1, ![c].at = "read",
                                  ![c].seen = Absent, ![c].draft = << >>]
       \/ /\ call[c].tries + 1 = Attempts
          /\ Return(c, "contention")
    /\ UNCHANGED <<memory, resent, clears, forgotten>>

\* clear_memory.
Clear ==
    /\ clears < MaxClears
    /\ clears' = clears + 1
    /\ insights' = << >> /\ updated_at' = Absent
    /\ forgotten' = {c \in Call : call[c].at \in Returned}
    /\ UNCHANGED <<call, resent>>

MemoryNext ==
    \/ \E c \in Call : Invoke(c) \/ Reread(c) \/ Put(c) \/ PutRefused(c)
    \/ Clear

MemorySpec == MemoryInit /\ [][MemoryNext]_vars

----------------------------------------------------------------------------
(***************************************************************************)
(* Properties.                                                             *)
(***************************************************************************)

\* The types of the variables; the list is bounded and holds nothing twice,
\* whichever way it is spelt.
MemoryTypeOK ==
    /\ insights \in Seq(Insight)
    /\ Len(insights) <= Cap
    /\ \A i, j \in DOMAIN insights :
           Folded[insights[i].text] = Folded[insights[j].text] => i = j
    /\ updated_at \in Call \union {Absent}
    /\ updated_at = Absent <=> insights = << >>
    /\ \A c \in Call :
           /\ call[c].at \in {"new", "read", "write"} \union Returned
           /\ call[c].text \in Text
           /\ call[c].tries \in 0..(Attempts - 1)
           /\ call[c].seen \in Call \union {Absent}
           /\ call[c].draft \in Seq(Insight)
    /\ resent \subseteq Call /\ forgotten \subseteq Call
    /\ clears \in 0..MaxClears

\* append_insight's lock: "the loser re-reads rather than overwriting".  One
\* step adds one new insight at the end, or forgets them all; the oldest
\* makes room only for the one over the cap.  (A write sent again can break
\* the lock: its call may stamp the item a second time.)
OnlyGrowsOrForgets ==
    [][ resent' = {} =>
           \/ insights' = << >>
           \/ \E c \in Call :
                  /\ ~Remembers(insights, call[c].text)
                  /\ insights' = Capped(Append(insights,
                                               [text |-> call[c].text, by |-> c]))
      ]_insights

\* clear_memory: "Forget everything".  No insight of a call that had
\* returned comes back from what another call had read before.
ForgottenStaysForgotten ==
    resent = {} => \A i \in DOMAIN insights : insights[i].by \notin forgotten

\* The tool tells the model the truth, clears and resends or not: what it
\* calls saved was written, and what it calls already remembered is not its
\* own unless its write was sent again.
Wrote(c) == \E i \in DOMAIN insights : insights[i].by = c
AnswersAreTrue ==
    \A c \in Call :
        /\ Wrote(c) => call[c].at = "saved" \/ c \in resent
        /\ call[c].at = "saved" /\ updated_at = c => Wrote(c)

\* The list keeps to its bounds, and the answers about it are true.
MemoryInv == MemoryTypeOK /\ AnswersAreTrue
=============================================================================
