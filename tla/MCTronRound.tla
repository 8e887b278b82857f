----------------------------- MODULE MCTronRound -----------------------------
(***************************************************************************)
(* An instance of TronRound for TLC: a grid of 5 by 3 cells, both modes,   *)
(* the two bots, and batches with one key, two keys and a key of no use.   *)
(***************************************************************************)
EXTENDS TronRound

MCBatches ==
  {<<>>, <<"w">>, <<"s">>, <<"a">>, <<"d">>, <<"up">>, <<"down">>, <<"left">>,
   <<"right">>, <<"w", "left">>, <<"down", "s", "other">>, <<"a", "w">>}
=============================================================================
