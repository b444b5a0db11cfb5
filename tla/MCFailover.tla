----------------------------- MODULE MCFailover -----------------------------
(* TLC instances of Failover: one group of a primary and two standbys,     *)
(* with and without auto_failback, and two groups that share a standby.    *)
(* The thresholds are one of each kind: two failures, one, and the 0 that  *)
(* acts as one.                                                            *)
EXTENDS Failover

CONSTANTS p, a, b, main, other

MCThreshold == [s \in Servers |-> IF s = p THEN 2 ELSE IF s = a THEN 1 ELSE 0]

OnePrimary == [g \in Groups |-> p]
OneStandbys == [g \in Groups |-> <<a, b>>]
WithFailback == [g \in Groups |-> TRUE]

TwoPrimaries == [g \in Groups |-> IF g = main THEN p ELSE b]
TwoStandbys == [g \in Groups |-> IF g = main THEN <<a, b>> ELSE <<a>>]
MixedFailback == [g \in Groups |-> g = other]
=============================================================================
