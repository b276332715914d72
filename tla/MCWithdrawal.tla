---------------------------- MODULE MCWithdrawal ----------------------------
(***************************************************************************)
(* The shard and the wishes of its players, with the values and the view   *)
(* of MCMatchmaking.                                                       *)
(***************************************************************************)
EXTENDS Withdrawal, MCMatchmaking

WithdrawalView == <<MCView, withdrawn>>
=============================================================================
