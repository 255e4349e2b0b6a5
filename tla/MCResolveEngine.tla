-------------------------- MODULE MCResolveEngine --------------------------
(* Small frames for ResolveEngine: two rows share key 1, one row is blank. *)
EXTENDS ResolveEngine

CONSTANTS c1, c2

Cell(S) == [c \in Columns |-> IF c \in S THEN Given ELSE Blank]

MCColumns == {c1, c2}
MCRows == 1..5
MCKeyOf == <<1, 1, 2, 3, 0>>

\* A fresh frame, one left by an interrupted run, and one with nothing to do.
MCInputs == {
    <<Cell({}), Cell({}), Cell({}), Cell({}), Cell({})>>,
    <<Cell({c1, c2}), Cell({c1}), Cell({}), Cell({c2}), Cell({})>>,
    <<Cell({c1, c2}), Cell({c1, c2}), Cell({c1, c2}), Cell({c1, c2}), Cell({})>> }

\* A cold cache, and one with a partial answer for key 1 and a full one for 3.
MCCaches == {
    [k \in Keys |-> Unknown],
    [k \in Keys |-> CASE k = 1 -> [c \in Columns |-> IF c = c1 THEN 1 ELSE Blank]
                      [] k = 3 -> [c \in Columns |-> 3]
                      [] OTHER -> Unknown] }
=============================================================================
