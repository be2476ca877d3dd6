-------------------------- MODULE MCStripeBilling --------------------------
(***************************************************************************)
(* StripeBilling on a small instance: two credit packs and two             *)
(* subscriptions, to two plans, one after the other or at the same time.   *)
(* One pack is bought without naming the user, a renewal is at a price     *)
(* outside the catalogue, and a cancellation names no user.                *)
(***************************************************************************)
EXTENDS StripeBilling, TLC

CONSTANTS pack_10, pack_30, monthly, pro

MCPlanOf == (monthly :> "monthly") @@ (pro :> "pro")
MCCreditsOf == (pack_10 :> 1) @@ (pack_30 :> 16) @@ (monthly :> 2) @@ (pro :> 4)
MCNoUser == {Checkout(pack_30), Deleted(pro)}
MCNoProduct == {Invoice(pro, 1)}
=============================================================================
