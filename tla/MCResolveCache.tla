-------------------------- MODULE MCResolveCache --------------------------
(* A calendar of two-day months for ResolveCache. *)
EXTENDS ResolveCache, FiniteSets, TLC

MCNextMonth == [t \in 0..Horizon |-> ((t \div 2) + 1) * 2]
\* No date, one in reach of the cap, one beyond it, and the last one there is.
MCDates == {NoValue, 1, 9, LastDate}
TTL(n, u) == [amount |-> n, unit |-> u, number |-> TRUE]
\* One run asks for a TTL below the cap, the other for one above it, for none, or for
\* something that is no TTL.
OneDay == TTL(1, "d")
Garbled == [OneDay EXCEPT !.number = FALSE]
MCTTLs == {f \in [Runs -> {NoValue, OneDay, TTL(1, "w"), TTL(0, "h"), Garbled}] :
              Cardinality({p \in Runs : f[p] = OneDay}) = 1}
MCUnitLength == [s |-> 1, m |-> 1, h |-> 1, d |-> 1, w |-> 7]
RunSymmetry == Permutations(Runs)
=============================================================================
