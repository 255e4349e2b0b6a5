-------------------------- MODULE MCGraylogCollect --------------------------
(* Documents and filters for GraylogCollect: addresses of two octets of two bits. *)
EXTENDS GraylogCollect

Bits(a, b, c, d) == <<a, b, c, d>>
Net(ip, len) == [base |-> ip, len |-> len]
Filter(list, nets, mode) == [list |-> list, nets |-> nets, mode |-> mode]

Low == Bits(0, 1, 0, 1)     \* "1.1"
High == Bits(0, 1, 1, 0)    \* "1.2", whose numeral in radix 2 is "10"
Far == Bits(1, 1, 0, 0)

MCDocs == {"low", "high", "far", "broken"}
MCSrc == [low |-> Low, high |-> High, far |-> Far, broken |-> NoAddress]
MCStamps == {t \in [MCDocs -> 1..4] : t["broken"] = 3 /\ t["far"] = 3}
MCPublic == MCDocs

\* No filter; a subnet inside an octet, a full address whose prefix query matches
\* another one too, list and subnet combined both ways, and a subnet wider than an octet.
MCSettings ==
    { Filter({}, {}, "or"), Filter({}, {Net(Bits(0, 1, 0, 0), 3)}, "or"),
      Filter({}, {Net(Low, 4)}, "and"), Filter({Far}, {Net(High, 2)}, "or"),
      Filter({Low, Far}, {Net(High, 2)}, "and"), Filter({}, {Net(Low, 1)}, "or") }

MCSpans == {[start |-> 2, end |-> 0], [start |-> 2, end |-> 1], [start |-> 1, end |-> 1]}
=============================================================================
