---------------------------- MODULE Conversation ----------------------------
(***************************************************************************)
(* What a companion session promises its listener: one conversation, in    *)
(* which every turn answers all the turns before it, and which ends once,  *)
(* confirmed or abandoned.  No claims, no retries, no crashes.             *)
(*                                                                         *)
(* CompanionSession, the conditional writes of src/backend/shared/db.py    *)
(* driven by src/backend/agent_runner/turns.py, is shown to implement it.  *)
(***************************************************************************)
EXTENDS Integers

CONSTANT MaxTurns

VARIABLES
    status,                   \* ACTIVE, or how the conversation ended
    turn,                     \* turns spoken so far
    transcript                \* each turn, with the turns it was an answer to

conversationVars == <<status, turn, transcript>>

ConversationInit == status = "ACTIVE" /\ turn = 0 /\ transcript = {}

\* The turn is based on the whole conversation up to now.
Speak ==
    /\ status = "ACTIVE"
    /\ turn < MaxTurns
    /\ turn' = turn + 1
    /\ transcript' = transcript
          \union {[turn |-> turn, history |-> {past.turn : past \in transcript}]}
    /\ UNCHANGED status

Close ==
    /\ status = "ACTIVE"
    /\ status' \in {"FINALIZED", "ABANDONED"}
    /\ UNCHANGED <<turn, transcript>>

ConversationSpec ==
    ConversationInit /\ [][Speak \/ Close]_conversationVars
=============================================================================
