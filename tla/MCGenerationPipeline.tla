------------------------ MODULE MCGenerationPipeline ------------------------
(***************************************************************************)
(* GenerationPipeline on small instances: two jobs of one user, one of     *)
(* them the companion's, with the free credit and one paid for.            *)
(***************************************************************************)
EXTENDS GenerationPipeline, TLC

CONSTANT pack

MCCreditsOf == pack :> 1

\* Everything may fail, anywhere.
AnyFault == FaultKind \X Task

\* A ledger transaction slower than its task's timeout.
SlowLedger == {"timeout"} \X {"FreezeCreditTask", "CommitCreditTask"}
=============================================================================
