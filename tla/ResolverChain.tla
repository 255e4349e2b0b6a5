---------------------------- MODULE ResolverChain ----------------------------
(***************************************************************************)
(* resolvers/default_chain.py and its providers: how the answer of one key *)
(* is put together from services that may be down, and what the cache      *)
(* makes of it over repeated runs.  A field of an answer is the service    *)
(* it came from.  asn_descr, which is filled like any other column, is     *)
(* left out.                                                               *)
(***************************************************************************)
EXTENDS Naturals, Sequences

CONSTANTS
    Chains,     \* the resolvers considered, each the sequence of its providers
    Registries, \* what the services may know of the key: service -> fields
    Switches,   \* the sets of optional services that may be switched on
    Blank,      \* an empty field
    NoEntry     \* no answer

Columns == {"country", "asn", "contacts"}
Fields == Columns \cup {"expires"}

\* The services each provider asks, in order.
GeoServices == <<"mmdb">>
RdapServices == <<"rir", "rdapss", "bootstrap">>
WhoisServices == <<"ipwhois", "tcinet">>
GunterServices == <<"geo_lookup", "whois_lookup">>
ServicesOf == [geo_maxmind |-> GeoServices, rdap |-> RdapServices,
               whois |-> WhoisServices, gunter |-> GunterServices]

\* The fields each service's reply is searched for; there is no ASN in the bootstrap mode.
GeoFields == [mmdb |-> {"country"}]
RdapFields == [rir       |-> Fields,
               rdapss    |-> {"country", "contacts", "expires"},
               bootstrap |-> {"country", "contacts", "expires"}]
WhoisFields == [ipwhois |-> Columns, tcinet |-> {"contacts", "expires"}]
GunterFields == [geo_lookup |-> {"country"}, whois_lookup |-> {"asn", "contacts"}]
Tables == {GeoFields, RdapFields, WhoisFields, GunterFields}

Providers == DOMAIN ServicesOf
Services == UNION {DOMAIN t : t \in Tables}
FieldsOf == [s \in Services |-> UNION {t[s] : t \in {u \in Tables : s \in DOMAIN u}}]

\* The services that ResolveSettings can leave out: no mmdb_path, rdapss or rdapss_url,
\* rdap_bootstrap, tcinet.  The others are always asked.
Optional == {"mmdb", "rdapss", "bootstrap", "tcinet"}
Enabled(switched) == (Services \ Optional) \cup switched

ASSUME ChainAssumption ==
    /\ Chains \subseteq UNION {[1..n -> Providers] : n \in 1..3}
    /\ Registries \subseteq {k \in [Services -> SUBSET Fields] :
                                \A s \in Services : k[s] \subseteq FieldsOf[s]}
    /\ Switches \subseteq SUBSET Optional
    /\ Blank \notin Services

VARIABLES
    chain,      \* the resolver of these runs
    knows,      \* what each service knows of the key
    enabled,    \* the services the settings switch on
    calm,       \* from now on no service fails and no run is broken off
    pc,         \* "idle" between runs, "asking" in resolve_one
    at,         \* the provider at work, by its place in the chain
    tier,       \* the service of the provider that comes next
    found,      \* what the provider has so far
    result,     \* what the chain has so far
    given,      \* what each provider of the chain returned in this lookup
    asked,      \* services asked in this lookup
    raised,     \* providers that ended with an exception in this lookup
    cached,     \* the entry of the key
    answer      \* what the last run that ended filled in

settings == <<chain, knows, enabled>>
lookup == <<at, tier, found, result, given, asked, raised>>
vars == <<settings, calm, pc, lookup, cached, answer>>

Empty == [f \in Fields |-> Blank]
Answers == [Fields -> Services \cup {Blank}]
Entry(r) == [c \in Columns |-> r[c]]

Init ==
    /\ chain \in Chains
    /\ knows \in Registries
    /\ enabled \in {Enabled(switched) : switched \in Switches}
    /\ calm = FALSE
    /\ pc = "idle"
    /\ at = 1 /\ tier = 1
    /\ found = Empty /\ result = Empty
    /\ given = [i \in DOMAIN chain |-> Empty]
    /\ asked = {} /\ raised = {}
    /\ cached = NoEntry
    /\ answer = NoEntry

\* any(result.values()): an expiration date counts.
AnyField(r) == \E f \in Fields : r[f] # Blank

\* Mutant: enough is known as soon as anything is.
AnyColumn(r) == \E c \in Columns : r[c] # Blank
\* all(result[col] for col in RESOLVE_COLUMNS)
AllColumns(r) == \A c \in Columns : r[c] # Blank

\* Mutant: a field that is missing in the reply is filled with its default all the same.
ReplyWithDefaults(s) == [f \in Fields |-> s]
\* _extract, _extract_rdapss, _extract_ipwhois, ...
Reply(s) == [f \in Fields |-> IF f \in knows[s] THEN s ELSE Blank]

\* Mutant: a later provider overwrites what is there.
LastFill(r, more) == [f \in Fields |-> IF more[f] # Blank THEN more[f] ELSE r[f]]
\* What is there is kept, what is missing is filled in; `expires` alike.
Fill(r, more) == [f \in Fields |-> IF r[f] # Blank THEN r[f] ELSE more[f]]

\* if any(result.get(col) for col in RESOLVE_COLUMNS)
Cacheable(r) == \E c \in Columns : r[c] # Blank

\* Mutant: an entry is served whatever its date.
NeverLapses == FALSE
\* expires_at <= now comes for every entry of the SQLite cache, see ExpiryBounds of
\* ResolveCacheProofs; one of Redis can be left without a date, see ResolveCache.
Lapses == cached # NoEntry

ChainDone == at > Len(chain) \/ (tier = 1 /\ AllColumns(result))
Provider == chain[at]
ProviderDone == tier > Len(ServicesOf[Provider])
Service == ServicesOf[Provider][tier]

\* A fallback is asked if it is switched on and nothing has come back so far; gunter
\* has two halves instead.
Wanted == Service \in enabled /\ (AnyField(found) => Provider = "gunter")
-----------------------------------------------------------------------------
(* One run. *)

\* The cache has the key: resolve_one is not called.
Hit ==
    /\ pc = "idle"
    /\ cached # NoEntry
    /\ answer' = cached
    /\ UNCHANGED <<settings, calm, pc, lookup, cached>>

Miss ==
    /\ pc = "idle"
    /\ cached = NoEntry
    /\ pc' = "asking"
    /\ at' = 1 /\ tier' = 1
    /\ found' = Empty /\ result' = Empty
    /\ given' = [i \in DOMAIN chain |-> Empty]
    /\ asked' = {} /\ raised' = {}
    /\ UNCHANGED <<settings, calm, cached, answer>>

\* The service answers, with what it knows of the key.
Ask ==
    /\ pc = "asking" /\ ~ChainDone /\ ~ProviderDone /\ Wanted
    /\ asked' = asked \cup {Service}
    /\ found' = Fill(found, Reply(Service))
    /\ tier' = tier + 1
    /\ UNCHANGED <<settings, calm, pc, at, result, given, raised, cached, answer>>

\* Unreachable, refused, not found: the provider goes on with what it has.
AskFails ==
    /\ pc = "asking" /\ ~ChainDone /\ ~ProviderDone /\ Wanted
    /\ ~calm
    /\ asked' = asked \cup {Service}
    /\ tier' = tier + 1
    /\ UNCHANGED <<settings, calm, pc, at, found, result, given, raised, cached, answer>>

\* A reply the provider cannot read raises out of it; its fallbacks are not asked.
Unreadable ==
    /\ pc = "asking" /\ ~ChainDone /\ ~ProviderDone /\ Wanted
    /\ ~calm
    /\ Service \in {"rdapss", "ipwhois"}
    /\ asked' = asked \cup {Service}
    /\ raised' = raised \cup {Provider}
    /\ at' = at + 1 /\ tier' = 1
    /\ found' = Empty
    /\ UNCHANGED <<settings, calm, pc, result, given, cached, answer>>

SkipService ==
    /\ pc = "asking" /\ ~ChainDone /\ ~ProviderDone /\ ~Wanted
    /\ tier' = tier + 1
    /\ UNCHANGED <<settings, calm, pc, at, found, result, given, asked, raised, cached, answer>>

\* The provider returns.
Take ==
    /\ pc = "asking" /\ ~ChainDone /\ ProviderDone
    /\ given' = [given EXCEPT ![at] = found]
    /\ result' = Fill(result, found)
    /\ at' = at + 1 /\ tier' = 1
    /\ found' = Empty
    /\ UNCHANGED <<settings, calm, pc, asked, raised, cached, answer>>

\* resolve_one returns to enrich.
Finish ==
    /\ pc = "asking" /\ ChainDone
    /\ answer' = Entry(result)
    /\ cached' = IF Cacheable(result) THEN Entry(result) ELSE cached
    /\ pc' = "idle"
    /\ UNCHANGED <<settings, calm, lookup>>

\* The run is interrupted or killed: nothing of this lookup stays.
BreakOff ==
    /\ pc = "asking" /\ ~calm
    /\ pc' = "idle"
    /\ UNCHANGED <<settings, calm, lookup, cached, answer>>

\* The entry reaches its date.
Lapse ==
    /\ Lapses
    /\ cached' = NoEntry
    /\ UNCHANGED <<settings, calm, pc, lookup, answer>>

\* The outages are over.
CalmDown ==
    /\ ~calm
    /\ calm' = TRUE
    /\ UNCHANGED <<settings, pc, lookup, cached, answer>>

RunStep == Hit \/ Miss \/ Ask \/ AskFails \/ Unreadable \/ SkipService \/ Take \/ Finish \/ BreakOff
Next == RunStep \/ Lapse \/ CalmDown

\* Runs are repeated (cron), and time goes on.
Spec == Init /\ [][Next]_vars /\ WF_vars(RunStep) /\ WF_vars(Lapse)
-----------------------------------------------------------------------------
(* Properties. *)

TypeOK ==
    /\ chain \in Chains /\ knows \in Registries /\ enabled \subseteq Services
    /\ calm \in BOOLEAN /\ pc \in {"idle", "asking"}
    /\ at \in 1..(Len(chain) + 1) /\ tier \in 1..4
    /\ \A r \in {found, result} \cup {given[i] : i \in DOMAIN given} :
          r \in Answers /\ \A f \in Fields : r[f] # Blank => f \in FieldsOf[r[f]]
    /\ DOMAIN given = DOMAIN chain
    /\ asked \subseteq enabled /\ raised \subseteq Providers
    /\ {cached, answer} \subseteq [Columns -> Services \cup {Blank}] \cup {NoEntry}

\* The field of the first of these answers that has it.
First(answers, f) ==
    LET having == {i \in DOMAIN answers : answers[i][f] # Blank}
    IN  IF having = {} THEN Blank
        ELSE answers[CHOOSE i \in having : \A j \in having : i <= j][f]

\* Whatever fails on the way, each field comes from the first provider of the chain
\* that returned it, so a provider that is down costs only what it alone knows.
FirstProviderWins == pc = "asking" => \A f \in Fields : result[f] = First(given, f)

\* When a lookup ends with a blank column, every provider of the chain was given its
\* turn: it returned something, or all its enabled services were asked, or a reply it
\* could not read ended it.
NothingLeftUntried ==
    pc = "asking" /\ ChainDone /\ (\E c \in Columns : result[c] = Blank) =>
        \A i \in DOMAIN chain :
            \/ AnyField(given[i])
            \/ chain[i] \in raised
            \/ \A n \in DOMAIN ServicesOf[chain[i]] :
                  ServicesOf[chain[i]][n] \in enabled => ServicesOf[chain[i]][n] \in asked

\* What a provider returns while nothing fails: gunter both halves, the others the
\* first reply with anything in it.
HealthyReply(p) ==
    LET replies == [n \in DOMAIN ServicesOf[p] |->
                       IF ServicesOf[p][n] \in enabled THEN Reply(ServicesOf[p][n]) ELSE Empty]
        telling == {n \in DOMAIN replies : AnyField(replies[n])}
    IN  IF p = "gunter" THEN [f \in Fields |-> First(replies, f)]
        ELSE IF telling = {} THEN Empty
        ELSE replies[CHOOSE n \in telling : \A m \in telling : n <= m]

HealthyAnswer ==
    [c \in Columns |-> First([i \in DOMAIN chain |-> HealthyReply(chain[i])], c)]

\* However incomplete the answers of an outage were, once the services are back and the
\* entry has lapsed the runs fill in what the services know, and go on doing so.
OutageForgotten == <>calm => <>[](answer = HealthyAnswer)

\* base.py, at the condition for caching: "a transient failure must not poison the cache".
FailureNotCached == cached # NoEntry => cached = HealthyAnswer
=============================================================================
