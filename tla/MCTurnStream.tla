---------------------------- MODULE MCTurnStream ----------------------------
(***************************************************************************)
(* TurnStream over texts with no thinking, a thought before the words, two  *)
(* thoughts, one that is cut short, and a stray "<".                        *)
(***************************************************************************)
EXTENDS TurnStream

Thought == OpenTag \o <<"w">> \o CloseTag

MCText == {
    << >>,
    <<"w", "w">>,
    Thought,
    Thought \o <<"w", "<", "w">>,
    <<"w">> \o OpenTag \o CloseTag \o Thought \o <<"w">>,
    OpenTag \o <<"w", "<">>,
    <<"w", "<">>
}
=============================================================================
