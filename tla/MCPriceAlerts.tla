---------------------------- MODULE MCPriceAlerts ----------------------------
(* Instances of PriceAlerts for TLC. *)
EXTENDS PriceAlerts, TLC

CONSTANTS a1, a2, s1, s2

MCIds    == {a1, a2}
MCAlert  == (a1 :> [direction |-> "above", target |-> 2]) @@
            (a2 :> [direction |-> "below", target |-> 2])
MCPrices == 1..3

(* Two requests to sweep, which are alike; the repository has one alert.   *)
MCApiSweeps == {s1, s2}
MCSymmetry  == Permutations(MCApiSweeps)
MCCommitted == {a2}

(* Once saves raced, none of the properties says anything any more.        *)
Unraced == ~ raced
=============================================================================
