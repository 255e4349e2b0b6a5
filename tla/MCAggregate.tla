---------------------------- MODULE MCAggregate ----------------------------
(* Groups and overlapping networks for Aggregate. *)
EXTENDS Aggregate

\* g1 and g2 are inside both networks, g3 in the wider one, g4 in none.
MCGroups == {"g1", "g2", "g3", "g4"}
MCAddresses == {"a", "b", "c"}
MCSrcIP == [g1 |-> "a", g2 |-> "a", g3 |-> "b", g4 |-> "c"]
MCNetworks == <<{"a"}, {"a", "b"}>>
=============================================================================
