--------------------------- MODULE MCResearchGraph ---------------------------
(* Instances of ResearchGraph for TLC. *)
EXTENDS ResearchGraph

CONSTANTS btc, btcusdt, eth, tsmc

(* Two names of one listed asset, another asset, and one the gate drops. *)
MCNames  == {btc, btcusdt, eth, tsmc}
MCListed == {btc, btcusdt, eth}
MCBase   == [n \in MCListed |-> IF n = btcusdt THEN btc ELSE n]
=============================================================================
