---------------------------- MODULE MCAgentTurn ----------------------------
(***************************************************************************)
(* AgentTurn with replies that call one tool or two, one of them or both   *)
(* with an input nobody can parse.                                         *)
(***************************************************************************)
EXTENDS AgentTurn

MCCalls == {<<"other">>, <<"placed", "garbled">>, <<"garbled">>}
=============================================================================
