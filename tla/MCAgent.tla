------------------------------- MODULE MCAgent -------------------------------
(* One pool, and one or two of the four tasks, for TLC.                    *)
EXTENDS Agent

CONSTANTS pool, tok, rebalance, buyback

OneTask == <<buyback>>
TwoTasks == <<rebalance, buyback>>
=============================================================================
