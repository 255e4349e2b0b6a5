-------------------------- MODULE MCResolverChain --------------------------
(* Resolvers, keys and settings for ResolverChain. *)
EXTENDS ResolverChain

MCChains == { <<"geo_maxmind", "rdap", "whois">>, <<"rdap">>, <<"gunter">> }

Unknown == [s \in Services |-> {}]
\* A well known address, one whose registry tells a date only, one the aggregators
\* alone can reach, a domain, and one nobody knows.
MCRegistries == {
    [Unknown EXCEPT !.mmdb = {"country"}, !.rir = Columns, !.rdapss = {"country", "contacts"},
                    !.ipwhois = {"asn", "country"}, !.geo_lookup = {"country"},
                    !.whois_lookup = {"asn", "contacts"}],
    [Unknown EXCEPT !.rir = {"expires"}, !.rdapss = {"country", "contacts"}, !.ipwhois = {"asn"}],
    [Unknown EXCEPT !.bootstrap = {"contacts", "expires"}, !.ipwhois = {"contacts"},
                    !.geo_lookup = {"country"}],
    [Unknown EXCEPT !.tcinet = {"contacts", "expires"}],
    Unknown }

\* Everything, the defaults without an .mmdb file, nothing optional.
MCSwitches == { Optional, {"rdapss", "bootstrap"}, {} }
=============================================================================
