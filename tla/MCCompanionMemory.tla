------------------------- MODULE MCCompanionMemory -------------------------
(***************************************************************************)
(* CompanionMemory with three calls, and three texts, one spelt two ways.   *)
(***************************************************************************)
EXTENDS CompanionMemory

CONSTANTS c1, c2, c3

MCCall == {c1, c2, c3}
MCText == {"slow", "Slow", "rain", "mist"}
MCFolded == [slow |-> "slow", Slow |-> "slow", rain |-> "rain", mist |-> "mist"]
=============================================================================
