------------------------- MODULE ResolverChainProofs -------------------------
(***************************************************************************)
(* Proofs about ResolverChain for any chain of up to three providers, any  *)
(* knowledge of the services and any settings: types, where a field comes  *)
(* from, and that a blank column means that every provider had its turn.   *)
(***************************************************************************)
EXTENDS ResolverChain, TLAPS

USE ChainAssumption

\* A field of the result is that of the first provider that returned it.
FromFirst(f) ==
    \/ result[f] = Blank /\ \A i \in DOMAIN given : given[i][f] = Blank
    \/ \E i \in DOMAIN given :
          /\ given[i][f] = result[f] /\ result[f] # Blank
          /\ \A j \in DOMAIN given : j < i => given[j][f] = Blank

\* Those of a provider's services before the n-th that are among on are in done.
AskedBy(on, done, p, n) ==
    \A m \in DOMAIN ServicesOf[p] : m < n /\ ServicesOf[p][m] \in on => ServicesOf[p][m] \in done

Tried(i) == AnyField(given[i]) \/ chain[i] \in raised \/ AskedBy(enabled, asked, chain[i], 5)

Types ==
    /\ chain \in Chains /\ knows \in Registries /\ enabled \subseteq Services
    /\ calm \in BOOLEAN /\ pc \in {"idle", "asking"}
    /\ at \in 1..(Len(chain) + 1) /\ tier \in 1..4
    /\ asked \subseteq enabled /\ raised \subseteq Providers
    /\ {cached, answer} \subseteq [Columns -> Services \cup {Blank}] \cup {NoEntry}

\* An answer in which each field names a service that can tell it.
Told == {r \in Answers : \A f \in Fields : r[f] # Blank => f \in FieldsOf[r[f]]}

Contents == found \in Told /\ result \in Told /\ given \in [DOMAIN chain -> Told]

Sources ==
    /\ \A i \in DOMAIN chain : i >= at => given[i] = Empty
    /\ \A f \in Fields : FromFirst(f)

Turns ==
    /\ \A i \in DOMAIN chain : i < at => Tried(i)
    /\ at <= Len(chain) => AnyField(found) \/ AskedBy(enabled, asked, chain[at], tier)

Inv == Types /\ Contents /\ Sources /\ Turns

\* The tables: each provider asks up to three services, all of them known.
LEMMA ServiceTables ==
    /\ \A p \in Providers : ServicesOf[p] \in Seq(Services) /\ Len(ServicesOf[p]) <= 3
    /\ DOMAIN FieldsOf = Services
<1>1. {"mmdb", "rir", "rdapss", "bootstrap", "ipwhois", "tcinet", "geo_lookup", "whois_lookup"} \subseteq Services
  <2>1. /\ DOMAIN GeoFields = {"mmdb"} /\ DOMAIN RdapFields = {"rir", "rdapss", "bootstrap"}
        /\ DOMAIN WhoisFields = {"ipwhois", "tcinet"} /\ DOMAIN GunterFields = {"geo_lookup", "whois_lookup"}
    BY DEF GeoFields, RdapFields, WhoisFields, GunterFields
  <2>2. QED BY <2>1 DEF Services, Tables
<1>2. /\ GeoServices \in Seq(Services) /\ RdapServices \in Seq(Services)
      /\ WhoisServices \in Seq(Services) /\ GunterServices \in Seq(Services)
  BY <1>1 DEF GeoServices, RdapServices, WhoisServices, GunterServices
<1>3. Len(GeoServices) <= 3 /\ Len(RdapServices) <= 3 /\ Len(WhoisServices) <= 3 /\ Len(GunterServices) <= 3
  BY DEF GeoServices, RdapServices, WhoisServices, GunterServices
<1>4. ASSUME NEW p \in Providers PROVE ServicesOf[p] \in {GeoServices, RdapServices, WhoisServices, GunterServices}
  BY DEF Providers, ServicesOf
<1>5. QED BY <1>2, <1>3, <1>4 DEF FieldsOf

\* A chain is a sequence of providers.
LEMMA ChainShape ==
    ASSUME chain \in Chains
    PROVE  Len(chain) \in Nat /\ DOMAIN chain = 1..Len(chain) /\ \A i \in DOMAIN chain : chain[i] \in Providers
<1>1. PICK n \in 1..3 : chain \in [1..n -> Providers]
  OBVIOUS
<1>2. chain \in Seq(Providers)
  BY <1>1
<1>3. QED BY <1>2

\* What a service replies, and what filling makes of two answers.
LEMMA Answers_ ==
    /\ Empty \in Told /\ ~AnyField(Empty)
    /\ knows \in Registries => \A s \in Services : Reply(s) \in Told
    /\ \A r, m \in Told : Fill(r, m) \in Told
    /\ \A r, m \in Told : AnyField(r) => AnyField(Fill(r, m))
<1>1. Empty \in Told /\ ~AnyField(Empty)
  BY DEF Empty, Told, Answers, AnyField
<1>2. ASSUME knows \in Registries, NEW s \in Services PROVE Reply(s) \in Told
  <2>1. knows[s] \subseteq FieldsOf[s] /\ s # Blank
    BY <1>2
  <2>2. QED BY <2>1 DEF Reply, Told, Answers
<1>3. ASSUME NEW r \in Told, NEW m \in Told PROVE Fill(r, m) \in Told
  BY DEF Fill, Told, Answers
<1>4. ASSUME NEW r \in Told, NEW m \in Told, AnyField(r) PROVE AnyField(Fill(r, m))
  BY <1>4 DEF Fill, AnyField
<1>5. QED BY <1>1, <1>2, <1>3, <1>4

\* While a service is due there is a provider at work and a service of his that is known.
LEMMA AtWork ==
    ASSUME Types, ~ChainDone
    PROVE  /\ at \in DOMAIN chain /\ Provider \in Providers /\ Provider = chain[at] /\ at <= Len(chain)
           /\ ~ProviderDone => Service \in Services /\ tier \in 1..3 /\ tier \in DOMAIN ServicesOf[Provider]
<1>1. at \in DOMAIN chain /\ Provider \in Providers /\ Provider = chain[at] /\ at <= Len(chain)
  BY ChainShape DEF Types, ChainDone, Provider
<1>2. ASSUME ~ProviderDone PROVE Service \in Services /\ tier \in 1..3 /\ tier \in DOMAIN ServicesOf[Provider]
  <2>1. ServicesOf[Provider] \in Seq(Services) /\ Len(ServicesOf[Provider]) <= 3
    BY <1>1, ServiceTables
  <2>2. tier \in 1..Len(ServicesOf[Provider])
    BY <1>2, <2>1 DEF Types, ProviderDone
  <2>3. QED BY <2>1, <2>2 DEF Service
<1>3. QED BY <1>1, <1>2

\* Nothing was asked before a lookup starts.
LEMMA Fresh ==
    ASSUME chain \in Chains, at = 1, tier = 1, found = Empty, result = Empty,
           given = [i \in DOMAIN chain |-> Empty]
    PROVE  Contents /\ Sources /\ Turns
<1>1. Contents
  BY Answers_ DEF Contents
<1>2. Sources
  BY DEF Sources, FromFirst, Empty
<1>3. Turns
  <2>1. \A i \in DOMAIN chain : ~(i < at)
    BY ChainShape
  <2>2. AskedBy(enabled, asked, chain[at], tier) \/ ~(at <= Len(chain))
    <3>1. CASE at <= Len(chain)
      <4>1. chain[at] \in Providers
        BY <3>1, ChainShape
      <4>2. DOMAIN ServicesOf[chain[at]] \subseteq Nat \ {0}
        BY <4>1, ServiceTables
      <4>3. QED BY <4>2 DEF AskedBy
    <3>2. QED BY <3>1
  <2>3. QED BY <2>1, <2>2 DEF Turns
<1>4. QED BY <1>1, <1>2, <1>3
-----------------------------------------------------------------------------
\* The initial states.
LEMMA ChainInit == Init => Inv
<1> SUFFICES ASSUME Init PROVE Inv
  OBVIOUS
<1>1. Types
  <2>1. enabled \subseteq Services
    <3>1. Optional \subseteq Services
      <4>1. DOMAIN GeoFields = {"mmdb"} /\ DOMAIN RdapFields = {"rir", "rdapss", "bootstrap"} /\ DOMAIN WhoisFields = {"ipwhois", "tcinet"}
        BY DEF GeoFields, RdapFields, WhoisFields
      <4>2. QED BY <4>1 DEF Optional, Services, Tables
    <3>2. QED BY <3>1 DEF Init, Enabled
  <2>2. at \in 1..(Len(chain) + 1) /\ tier \in 1..4
    BY ChainShape DEF Init
  <2>3. QED BY <2>1, <2>2 DEF Init, Types
<1>2. Contents /\ Sources /\ Turns
  BY Fresh DEF Init
<1>3. QED BY <1>1, <1>2 DEF Inv

\* Every action keeps the types.
LEMMA TypesStep == ASSUME Inv, [Next]_vars PROVE Types'
<1> USE DEF Inv, Types, settings, lookup
<1>0. Len(chain) \in Nat
  BY ChainShape
<1>1. CASE Hit
  BY <1>1 DEF Hit
<1>2. CASE Miss
  BY <1>0, <1>2 DEF Miss
<1>3. ASSUME Ask \/ AskFails \/ Unreadable \/ SkipService PROVE Types'
  <2>1. ~ChainDone /\ ~ProviderDone
    BY <1>3 DEF Ask, AskFails, Unreadable, SkipService
  <2>2. at \in 1..Len(chain) /\ tier \in 1..3 /\ Provider \in Providers
    BY <1>0, <2>1, AtWork, ChainShape
  <2>3. at' \in 1..(Len(chain) + 1) /\ tier' \in 1..4
    BY <1>0, <1>3, <2>2 DEF Ask, AskFails, Unreadable, SkipService
  <2>4. asked' \subseteq enabled /\ raised' \subseteq Providers
    BY <1>3, <2>2 DEF Ask, AskFails, Unreadable, SkipService, Wanted
  <2>5. UNCHANGED <<chain, knows, enabled, calm, pc, cached, answer>>
    BY <1>3 DEF Ask, AskFails, Unreadable, SkipService
  <2>6. QED BY <2>3, <2>4, <2>5
<1>4. CASE Take
  <2>1. at \in 1..Len(chain)
    BY <1>0, <1>4, AtWork, ChainShape DEF Take
  <2>2. QED BY <1>0, <1>4, <2>1 DEF Take
<1>5. CASE Finish
  <2>1. Entry(result) \in [Columns -> Services \cup {Blank}]
    BY DEF Entry, Contents, Told, Answers, Fields
  <2>2. {cached', answer'} \subseteq [Columns -> Services \cup {Blank}] \cup {NoEntry}
    BY <1>5, <2>1 DEF Finish
  <2>3. QED BY <1>5, <2>2 DEF Finish
<1>6. CASE BreakOff
  BY <1>6 DEF BreakOff
<1>7. CASE Lapse
  BY <1>7 DEF Lapse
<1>8. CASE CalmDown
  BY <1>8 DEF CalmDown
<1>9. CASE UNCHANGED vars
  BY <1>9 DEF vars
<1>10. QED BY <1>1, <1>2, <1>3, <1>4, <1>5, <1>6, <1>7, <1>8, <1>9 DEF Next, RunStep

\* The actions of a provider: asking, failing, skipping and raising.
LEMMA ServiceStep ==
    ASSUME Inv, Ask \/ AskFails \/ Unreadable \/ SkipService
    PROVE  Contents' /\ Sources' /\ Turns'
<1> USE DEF Inv
<1>0. /\ ~ChainDone /\ ~ProviderDone
      /\ chain' = chain /\ enabled' = enabled /\ knows' = knows /\ result' = result /\ given' = given
      /\ asked \subseteq asked' /\ raised \subseteq raised' /\ Len(chain) \in Nat /\ DOMAIN chain = 1..Len(chain)
  BY ChainShape DEF Ask, AskFails, Unreadable, SkipService, settings, Types
<1>1. /\ at \in DOMAIN chain /\ Provider = chain[at] /\ at <= Len(chain)
      /\ Service \in Services /\ tier \in 1..3 /\ tier \in DOMAIN ServicesOf[Provider]
  BY <1>0, AtWork
<1>2. found' \in Told /\ (AnyField(found) => at' = at + 1 \/ AnyField(found'))
  <2>1. CASE Ask
    <3>1. found' = Fill(found, Reply(Service)) /\ Reply(Service) \in Told
      BY <1>1, <2>1, Answers_ DEF Ask, Types
    <3>2. QED BY <3>1, Answers_ DEF Contents
  <2>2. CASE AskFails \/ SkipService
    BY <2>2 DEF AskFails, SkipService, Contents
  <2>3. CASE Unreadable
    BY <2>3, Answers_ DEF Unreadable
  <2>4. QED BY <2>1, <2>2, <2>3
<1>3. Contents'
  BY <1>0, <1>2 DEF Contents
<1>4. Sources'
  <2>1. at' \in Nat /\ at' >= at
    BY <1>0, <1>1 DEF Ask, AskFails, Unreadable, SkipService, Types
  <2>2. \A f \in Fields : FromFirst(f)'
    BY <1>0 DEF Sources, FromFirst
  <2>3. \A i \in DOMAIN chain : i >= at' => given[i] = Empty
    BY <1>0, <1>1, <2>1 DEF Sources
  <2>4. QED BY <1>0, <2>2, <2>3 DEF Sources
<1>5. \A i \in DOMAIN chain : Tried(i) => Tried(i)'
  BY <1>0 DEF Tried, AskedBy, AnyField
<1>6. CASE Unreadable
  <2>1. at' = at + 1 /\ tier' = 1 /\ at \in Nat
    BY <1>0, <1>1, <1>6 DEF Unreadable
  <2>2. ASSUME NEW i \in DOMAIN chain, i < at' PROVE Tried(i)'
    <3>1. CASE i = at
      BY <1>0, <1>1, <1>6, <3>1 DEF Unreadable, Tried
    <3>2. CASE i # at
      BY <1>0, <1>5, <2>1, <2>2, <3>2 DEF Turns
    <3>3. QED BY <3>1, <3>2
  <2>3. at' <= Len(chain) => AskedBy(enabled, asked', chain[at'], 1)
    <3>1. ASSUME at' <= Len(chain) PROVE DOMAIN ServicesOf[chain[at']] \subseteq Nat \ {0}
      <4>1. chain[at'] \in Providers
        BY <1>0, <1>1, <2>1, <3>1, ChainShape DEF Types
      <4>2. QED BY <4>1, ServiceTables
    <3>2. QED BY <3>1 DEF AskedBy
  <2>4. QED BY <1>0, <1>3, <1>4, <2>1, <2>2, <2>3 DEF Turns
<1>7. CASE Ask \/ AskFails \/ SkipService
  <2>1. at' = at /\ tier' = tier + 1
    BY <1>7 DEF Ask, AskFails, SkipService
  <2>2. AnyField(found') \/ AskedBy(enabled, asked', chain[at], tier + 1)
    <3>1. CASE AnyField(found)
      BY <1>1, <1>2, <2>1, <3>1
    <3>2. CASE ~AnyField(found)
      <4>1. AskedBy(enabled, asked, chain[at], tier)
        BY <1>1, <3>2 DEF Turns
      <4>2. Service \in enabled => Service \in asked'
        BY <1>7, <3>2 DEF Ask, AskFails, SkipService, Wanted
      <4>3. \A m \in DOMAIN ServicesOf[chain[at]] : m \in Nat
        <5>1. chain[at] \in Providers
          BY <1>1, ChainShape DEF Types
        <5>2. QED BY <5>1, ServiceTables
      <4>4. Service = ServicesOf[chain[at]][tier] /\ tier \in Nat
        BY <1>1 DEF Service
      <4>5. ASSUME NEW m \in DOMAIN ServicesOf[chain[at]], m < tier + 1, ServicesOf[chain[at]][m] \in enabled
            PROVE  ServicesOf[chain[at]][m] \in asked'
        <5>1. m < tier \/ m = tier
          BY <4>3, <4>4, <4>5
        <5>2. QED BY <1>0, <4>1, <4>2, <4>4, <4>5, <5>1 DEF AskedBy
      <4>6. QED BY <1>0, <4>5 DEF AskedBy
    <3>3. QED BY <3>1, <3>2
  <2>3. QED BY <1>0, <1>3, <1>4, <1>5, <2>1, <2>2 DEF Turns, AnyField
<1>8. QED BY <1>3, <1>4, <1>6, <1>7

\* A provider returns: its fields are used where no earlier one had any.
LEMMA TakeStep == ASSUME Inv, Take PROVE Contents' /\ Sources' /\ Turns'
<1> USE DEF Inv
<1>0. /\ ~ChainDone /\ ProviderDone /\ at' = at + 1 /\ tier' = 1 /\ found' = Empty
      /\ chain' = chain /\ enabled' = enabled /\ asked' = asked /\ raised' = raised
      /\ given' = [given EXCEPT ![at] = found] /\ result' = Fill(result, found)
      /\ Len(chain) \in Nat /\ DOMAIN chain = 1..Len(chain)
  BY ChainShape DEF Take, settings, Types
<1>1. at \in DOMAIN chain /\ Provider = chain[at] /\ at <= Len(chain) /\ Provider \in Providers
  BY <1>0, AtWork
<1>2. Contents'
  BY <1>0, <1>1, Answers_ DEF Contents
<1>3. Sources'
  <2>1. \A i \in DOMAIN chain : i >= at' => given'[i] = Empty
    BY <1>0, <1>1 DEF Sources, Contents
  <2>2. ASSUME NEW f \in Fields PROVE FromFirst(f)'
    <3>1. /\ DOMAIN given = DOMAIN chain /\ DOMAIN given' = DOMAIN chain /\ given[at] = Empty
          /\ given'[at] = found /\ \A i \in DOMAIN chain : i # at => given'[i] = given[i]
          /\ Empty[f] = Blank
          /\ result'[f] = IF result[f] # Blank THEN result[f] ELSE found[f]
      BY <1>0, <1>1 DEF Sources, Contents, Empty, Fill
    <3>2. \A i \in DOMAIN chain : i > at => given[i][f] = Blank
      BY <1>0, <1>1, <3>1 DEF Sources
    <3>3. CASE result[f] # Blank
      <4>1. PICK i \in DOMAIN given : /\ given[i][f] = result[f]
                                      /\ \A j \in DOMAIN given : j < i => given[j][f] = Blank
        BY <3>3 DEF Sources, FromFirst
      <4>2. i # at /\ i < at
        BY <1>0, <1>1, <3>1, <3>2, <3>3, <4>1
      <4>3. given'[i][f] = result'[f] /\ result'[f] # Blank
        BY <3>1, <3>3, <4>1, <4>2
      <4>4. \A j \in DOMAIN given' : j < i => given'[j][f] = Blank
        BY <1>0, <1>1, <3>1, <4>1, <4>2
      <4>5. QED BY <3>1, <4>1, <4>3, <4>4 DEF FromFirst
    <3>4. CASE result[f] = Blank
      <4>1. \A i \in DOMAIN given : given[i][f] = Blank
        BY <3>4 DEF Sources, FromFirst
      <4>2. result'[f] = found[f] /\ given'[at][f] = found[f] /\ \A i \in DOMAIN given' : i # at => given'[i][f] = Blank
        BY <1>1, <3>1, <3>4, <4>1
      <4>3. \A j \in DOMAIN given' : j < at => given'[j][f] = Blank
        BY <1>0, <1>1, <3>1, <4>2
      <4>4. QED BY <1>1, <3>1, <4>2, <4>3 DEF FromFirst
    <3>5. QED BY <3>3, <3>4
  <2>3. QED BY <1>0, <2>1, <2>2 DEF Sources
<1>4. ASSUME NEW i \in DOMAIN chain, i < at' PROVE Tried(i)'
  <2>1. CASE i = at
    <3>1. given'[at] = found
      BY <1>0, <1>1 DEF Contents
    <3>2. ASSUME AskedBy(enabled, asked, chain[at], tier) PROVE AskedBy(enabled, asked, chain[at], 5)
      <4>1. ServicesOf[chain[at]] \in Seq(Services)
        BY <1>1, ServiceTables
      <4>2. \A m \in DOMAIN ServicesOf[chain[at]] : m < tier
        BY <1>0, <1>1, <4>1 DEF ProviderDone, Types
      <4>3. QED BY <3>2, <4>2 DEF AskedBy
    <3>3. AnyField(found) \/ AskedBy(enabled, asked, chain[at], 5)
      BY <1>1, <3>2 DEF Turns
    <3>4. QED BY <1>0, <2>1, <3>1, <3>3 DEF Tried, AnyField
  <2>2. CASE i # at
    <3>1. i < at
      BY <1>0, <1>1, <1>4, <2>2
    <3>2. given'[i] = given[i] /\ Tried(i)
      BY <1>0, <2>2, <3>1 DEF Turns, Contents
    <3>3. QED BY <1>0, <3>2 DEF Tried, AnyField
  <2>3. QED BY <2>1, <2>2
<1>5. ASSUME at' <= Len(chain) PROVE AskedBy(enabled, asked, chain[at'], 1)
  <2>1. chain[at'] \in Providers
    BY <1>0, <1>1, <1>5, ChainShape DEF Types
  <2>2. DOMAIN ServicesOf[chain[at']] \subseteq Nat \ {0}
    BY <2>1, ServiceTables
  <2>3. QED BY <2>2 DEF AskedBy
<1>6. Turns'
  BY <1>0, <1>4, <1>5 DEF Turns
<1>7. QED BY <1>2, <1>3, <1>6

\* Nothing of the lookup is touched.
LEMMA LookupKept ==
    ASSUME Inv, UNCHANGED <<settings, lookup>>
    PROVE  Contents' /\ Sources' /\ Turns'
<1> USE DEF Inv, settings, lookup
<1>1. Contents'
  BY DEF Contents
<1>2. Sources'
  BY DEF Sources, FromFirst
<1>3. \A i \in DOMAIN chain : Tried(i) => Tried(i)'
  BY DEF Tried, AnyField
<1>4. Turns'
  BY <1>3 DEF Turns, AnyField
<1>5. QED BY <1>1, <1>2, <1>4

\* Every action keeps the invariant.
LEMMA ChainStep == Inv /\ [Next]_vars => Inv'
<1> SUFFICES ASSUME Inv, [Next]_vars PROVE Inv'
  OBVIOUS
<1>1. Types'
  BY TypesStep
<1>2. Contents' /\ Sources' /\ Turns'
  <2>1. CASE Miss
    <3>1. /\ chain' = chain /\ at' = 1 /\ tier' = 1 /\ found' = Empty /\ result' = Empty
          /\ given' = [i \in DOMAIN chain |-> Empty]
      BY <2>1 DEF Miss, settings
    <3>2. Contents'
      BY <3>1, Answers_ DEF Contents
    <3>3. Sources'
      BY <3>1 DEF Sources, FromFirst, Empty
    <3>4. Len(chain) \in Nat /\ DOMAIN chain = 1..Len(chain) /\ \A i \in DOMAIN chain : chain[i] \in Providers
      BY ChainShape DEF Inv, Types
    <3>5. ASSUME 1 <= Len(chain) PROVE AskedBy(enabled', asked', chain[1], 1)
      <4>1. chain[1] \in Providers
        BY <3>4, <3>5
      <4>2. DOMAIN ServicesOf[chain[1]] \subseteq Nat \ {0}
        BY <4>1, ServiceTables
      <4>3. QED BY <4>2 DEF AskedBy
    <3>6. Turns'
      BY <3>1, <3>4, <3>5 DEF Turns
    <3>7. QED BY <3>2, <3>3, <3>6
  <2>2. CASE Ask \/ AskFails \/ Unreadable \/ SkipService
    BY <2>2, ServiceStep
  <2>3. CASE Take
    BY <2>3, TakeStep
  <2>4. CASE Hit \/ Finish \/ BreakOff \/ Lapse \/ CalmDown \/ UNCHANGED vars
    BY <2>4, LookupKept DEF Hit, Finish, BreakOff, Lapse, CalmDown, vars, settings
  <2>5. QED BY <2>1, <2>2, <2>3, <2>4 DEF Next, RunStep
<1>3. QED BY <1>1, <1>2 DEF Inv

\* The invariant of the lookup, through outages and interrupts.
THEOREM ChainInvariance == Spec => []Inv
BY ChainInit, ChainStep, PTL DEF Spec

\* FirstProviderWins: a field is that of the first provider that returned it.
THEOREM FieldsFromFirstProvider == Spec => []FirstProviderWins
<1>1. Inv => FirstProviderWins
  <2> SUFFICES ASSUME Inv, NEW f \in Fields PROVE result[f] = First(given, f)
    BY DEF FirstProviderWins
  <2> DEFINE having == {i \in DOMAIN given : given[i][f] # Blank}
  <2>1. DOMAIN given \subseteq Nat
    BY ChainShape DEF Inv, Types, Contents
  <2>2. CASE result[f] = Blank /\ \A i \in DOMAIN given : given[i][f] = Blank
    <3>1. having = {}
      BY <2>2
    <3>2. QED BY <2>2, <3>1 DEF First
  <2>3. ASSUME NEW i \in DOMAIN given, given[i][f] = result[f], result[f] # Blank,
               \A j \in DOMAIN given : j < i => given[j][f] = Blank
        PROVE  result[f] = First(given, f)
    <3>1. i \in having /\ \A j \in having : i <= j
      BY <2>1, <2>3
    <3>2. PICK k \in having : k = (CHOOSE n \in having : \A j \in having : n <= j) /\ \A j \in having : k <= j
      BY <3>1
    <3>3. k = i
      BY <2>1, <3>1, <3>2
    <3>4. First(given, f) = given[k][f]
      BY <3>1, <3>2 DEF First
    <3>5. QED BY <2>3, <3>3, <3>4
  <2>4. QED BY <2>2, <2>3 DEF Inv, Sources, FromFirst
<1>2. QED BY <1>1, ChainInvariance, PTL

\* NothingLeftUntried: with a blank column at the end, every provider had its turn.
THEOREM EveryProviderHadItsTurn == Spec => []NothingLeftUntried
<1>1. Inv => NothingLeftUntried
  <2> SUFFICES ASSUME Inv, ChainDone, NEW c \in Columns, result[c] = Blank, NEW i \in DOMAIN chain
               PROVE  \/ AnyField(given[i]) \/ chain[i] \in raised
                      \/ \A n \in DOMAIN ServicesOf[chain[i]] :
                            ServicesOf[chain[i]][n] \in enabled => ServicesOf[chain[i]][n] \in asked
    BY DEF NothingLeftUntried
  <2>1. at > Len(chain)
    BY DEF ChainDone, AllColumns
  <2>2. i < at /\ chain[i] \in Providers
    BY <2>1, ChainShape DEF Inv, Types
  <2>3. Tried(i)
    BY <2>2 DEF Inv, Turns
  <2>4. ServicesOf[chain[i]] \in Seq(Services) /\ Len(ServicesOf[chain[i]]) <= 3
    BY <2>2, ServiceTables
  <2>5. \A n \in DOMAIN ServicesOf[chain[i]] : n < 5
    BY <2>4
  <2>6. QED BY <2>3, <2>5 DEF Tried, AskedBy
<1>2. QED BY <1>1, ChainInvariance, PTL

\* TypeOK: every field names a service that can tell it, and only enabled ones are asked.
THEOREM ChainTypeCorrect == Spec => []TypeOK
<1>1. Inv => TypeOK
  BY DEF Inv, Types, Contents, Told, TypeOK
<1>2. QED BY <1>1, ChainInvariance, PTL
=============================================================================
