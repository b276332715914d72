---------------------------- MODULE MCMatchStream ----------------------------
(***************************************************************************)
(* The stream of a shard that forms two matches, read one or two at a      *)
(* time, by two workers.                                                   *)
(***************************************************************************)
EXTENDS MatchStream

MCReadCount == 2
=============================================================================
