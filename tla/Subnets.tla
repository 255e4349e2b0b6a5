------------------------------ MODULE Subnets ------------------------------
(***************************************************************************)
(* subnets.py: IPv4 networks in CIDR notation and the prefix query that    *)
(* stands for one on the server.  An address is its bits, grouped into     *)
(* octets; Graylog compares dotted quads as strings, so an octet matters   *)
(* as its numeral too.                                                     *)
(***************************************************************************)
EXTENDS Integers

CONSTANTS
    Octets,     \* octets of an address (4)
    OctetBits,  \* bits of an octet (8)
    Radix       \* radix of the numerals in a dotted quad (10)

ASSUME SubnetsAssumption ==
    Octets \in Nat \ {0} /\ OctetBits \in Nat \ {0} /\ Radix \in Nat \ {0, 1}

Width == Octets * OctetBits
Addresses == [1..Width -> {0, 1}]

\* parse_cidrs: a bare address has all the bits; host bits are allowed, In ignores them.
Networks == [base : Addresses, len : 0..Width]

In(ip, net) == \A i \in 1..net.len : ip[i] = net.base[i]

\* The first k octets of two addresses are the same.
SameOctets(ip, jp, k) == \A i \in 1..(k * OctetBits) : ip[i] = jp[i]

\* The number an address has in its last octet.
LastOctet(ip) ==
    LET value[i \in 0..OctetBits] ==
            IF i = 0 THEN 0 ELSE 2 * value[i - 1] + ip[Width - OctetBits + i]
    IN  value[OctetBits]

\* The numeral of n begins with the numeral of m: "12" with "1", "0" with "0" only.
NumeralBegins(n, m) == n = m \/ (m # 0 /\ \E k \in 1..OctetBits : n \div Radix^k = m)

\* The network address: host bits cleared.
NetworkAddress(net) == [i \in 1..Width |-> IF i <= net.len THEN net.base[i] ELSE 0]

\* octet_prefix: the octets that are all network.
Kept(net) == net.len \div OctetBits

\* A prefix query for octet_prefix(net) on the dotted quad of ip: "10.8." fixes whole
\* octets, a full address has no dot at its end, and of no octets only "." is left,
\* with which no address begins.
PrefixMatches(ip, net) ==
    IF Kept(net) >= Octets
    THEN /\ SameOctets(ip, NetworkAddress(net), Octets - 1)
         /\ NumeralBegins(LastOctet(ip), LastOctet(NetworkAddress(net)))
    ELSE Kept(net) > 0 /\ SameOctets(ip, NetworkAddress(net), Kept(net))
=============================================================================
