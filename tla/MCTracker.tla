------------------------------ MODULE MCTracker ------------------------------
(* Instances of Tracker for TLC. *)
EXTENDS Tracker

CONSTANTS slash, dash, nvda

MCNames == {slash, dash, nvda}
MCCanon == [n \in MCNames |-> IF n = dash THEN slash ELSE n]

Long(n)  == [name |-> n, dir |-> "LONG", entry |-> 2, target |-> 3, stop |-> 1]
Short(n) == [name |-> n, dir |-> "SHORT", entry |-> 2, target |-> 1, stop |-> 3]
Wrong(n) == [name |-> n, dir |-> "SHORT", entry |-> 2, target |-> 3, stop |-> 1]

(* One asset; one asset under two names and in both directions; prices in  *)
(* the wrong order; nothing.                                               *)
MCReports == {<< >>, <<Long(nvda)>>, <<Long(slash), Short(dash)>>, <<Wrong(nvda)>>}
MCQuotes  == 1..3

(* The pair is crypto and the share is not; an entry at 2 is dirt when the *)
(* close is 1.                                                             *)
MCCrypto       == {slash, dash}
MCPlaceholders == {<<2, 2>>}
=============================================================================
