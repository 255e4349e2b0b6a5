------------------------- MODULE ResolveCacheProofs -------------------------
(***************************************************************************)
(* Proofs about ResolveCache for any calendar, TTL, set of runs and keys:  *)
(* what compute_cache_expiry returns, and that the SQLite cache never      *)
(* serves an answer for longer than it may live.                           *)
(***************************************************************************)
EXTENDS ResolveCache, TLAPS

USE ExpiryAssumption, CacheAssumption

\* compute_cache_expiry: whatever date the resolver gave and whatever TTL was asked
\* for, an entry expires no earlier than now, no later than _MAX_TTL and no later
\* than the requested TTL from now.
LEMMA ExpiryBounds ==
    ASSUME NEW t \in 0..Horizon, NEW d \in Nat \cup {NoValue}, NEW asked \in Nat \cup {NoValue}
    PROVE  /\ ComputeExpiry(t, d, asked) \in Nat
           /\ t <= ComputeExpiry(t, d, asked)
           /\ ComputeExpiry(t, d, asked) <= t + MaxTTL
           /\ asked # NoValue => ComputeExpiry(t, d, asked) <= t + CappedTTL(asked)
<1>1. asked # NoValue =>
        CappedTTL(asked) \in Nat /\ CappedTTL(asked) <= MaxTTL
  BY DEF CappedTTL, Smaller
<1>2. NextMonth[t] \in Nat /\ t < NextMonth[t] /\ NextMonth[t] <= t + MaxTTL
  BY Z3
<1>3. CASE asked = NoValue
  <2>1. CASE d # NoValue /\ Usable(d + Day, t)
    BY <1>3, <2>1 DEF ComputeExpiry, Usable
  <2>2. CASE ~(d # NoValue /\ Usable(d + Day, t))
    BY <1>2, <1>3, <2>2 DEF ComputeExpiry
  <2>3. QED BY <2>1, <2>2
<1>4. CASE asked # NoValue
  <2>1. CASE d # NoValue /\ Usable(d + Day, t)
    BY <1>1, <1>4, <2>1 DEF ComputeExpiry, Usable, Smaller
  <2>2. CASE ~(d # NoValue /\ Usable(d + Day, t))
    BY <1>1, <1>4, <2>2 DEF ComputeExpiry
  <2>3. QED BY <2>1, <2>2
<1>5. QED BY <1>3, <1>4

\* parse_ttl: a length of time, or no TTL.
LEMMA ParsedTTL == ASSUME NEW spec \in Specs \cup {NoValue} PROVE ParseTTL(spec) \in Nat \cup {NoValue}
<1>1. CASE spec = NoValue \/ Refused(spec)
  BY <1>1 DEF ParseTTL
<1>2. CASE spec # NoValue /\ ~Refused(spec)
  <2>1. spec.amount \in Nat /\ UnitLength[spec.unit] \in Nat
    BY <1>2 DEF Specs, Refused
  <2>2. spec.amount * UnitLength[spec.unit] \in Nat
    BY <2>1
  <2>3. QED BY <1>2, <2>2 DEF ParseTTL
<1>3. QED BY <1>1, <1>2

-----------------------------------------------------------------------------
\* A value of the cache: an entry or nothing.
Slots == Entries \cup {None}

\* The entry a run computes is typed.
LEMMA NewEntryTyped ==
    ASSUME TypeOK, NEW p \in Runs, NEW d \in Dates
    PROVE  [by |-> p, at |-> now, until |-> ComputeExpiry(now, d, ParseTTL(ttl[p]))] \in Entries
<1>1. now \in 0..Horizon
  BY DEF TypeOK
<1>2. d \in Nat \cup {NoValue} /\ ParseTTL(ttl[p]) \in Nat \cup {NoValue}
  BY ParsedTTL DEF TypeOK
<1>3. ComputeExpiry(now, d, ParseTTL(ttl[p])) \in Nat /\ ComputeExpiry(now, d, ParseTTL(ttl[p])) <= now + MaxTTL
  BY <1>1, <1>2, ExpiryBounds
<1>4. QED BY <1>1, <1>3 DEF Entries

\* Changing the life of an entry to that of another gives an entry.
LEMMA RestampedTyped ==
    ASSUME NEW e \in Slots, NEW u \in Nat \cup {Forever}, e # None
    PROVE  [e EXCEPT !.until = u] \in Entries
BY DEF Slots, Entries

\* Init gives types.
LEMMA InitTyped == Init => TypeOK
<1>1. (CHOOSE k \in Keys : TRUE) \in Keys
  OBVIOUS
<1>2. QED BY <1>1 DEF Init, TypeOK, PCs

\* Every step keeps types.
LEMMA StepTyped == ASSUME TypeOK, [Next]_vars PROVE TypeOK'
<1> USE DEF Slots, settings
<1>1. ASSUME NEW p \in Runs, Open(p) PROVE TypeOK'
  <2>1. store' \in [Keys -> Slots]
    BY <1>1 DEF Open, Pruned, TypeOK
  <2>2. pc' \in [Runs -> PCs]
    <3>1. pc \in [Runs -> PCs] /\ {"off", "open"} \subseteq PCs
      BY DEF TypeOK, PCs
    <3>2. pc' = [pc EXCEPT ![p] = "off"] \/ pc' = [pc EXCEPT ![p] = "open"]
      BY <1>1 DEF Open
    <3>3. QED BY <3>1, <3>2
  <2>3. QED BY <1>1, <2>1, <2>2 DEF Open, TypeOK
<1>2. ASSUME NEW p \in Runs, NEW k \in Keys, Get(p, k) PROVE TypeOK'
  BY <1>2 DEF Get, TypeOK
<1>3. ASSUME NEW p \in Runs, NEW k \in Keys, Insert(p, k) PROVE TypeOK'
  <2>1. puts' \in [Runs -> 0..MaxPuts]
    BY <1>3 DEF Insert, TypeOK
  <2>2. pc' \in [Runs -> PCs]
    BY <1>3 DEF Insert, TypeOK, PCs
  <2>3. PICK d \in Dates :
          LET entry == [by |-> p, at |-> now, until |-> ComputeExpiry(now, d, ParseTTL(ttl[p]))]
          IN  /\ pending' = [pending EXCEPT ![p] = [key |-> k, entry |-> entry]]
              /\ store' = IF Sqlite THEN store
                          ELSE [store EXCEPT ![k] = [entry EXCEPT !.until = Forever]]
    BY <1>3 DEF Insert
  <2> DEFINE entry == [by |-> p, at |-> now, until |-> ComputeExpiry(now, d, ParseTTL(ttl[p]))]
  <2>4. entry \in Entries
    BY NewEntryTyped
  <2>5. [entry EXCEPT !.until = Forever] \in Entries
    BY <2>4 DEF Entries
  <2>6. [key |-> k, entry |-> entry] \in [key : Keys, entry : Slots]
    BY <2>4
  <2> HIDE DEF entry
  <2>7. pending' \in [Runs -> [key : Keys, entry : Slots]]
    BY <2>3, <2>6 DEF TypeOK, entry
  <2>8. store' \in [Keys -> Slots]
    BY <2>3, <2>5 DEF TypeOK, entry
  <2>9. QED BY <1>3, <2>1, <2>2, <2>7, <2>8 DEF Insert, TypeOK
<1>4. ASSUME NEW p \in Runs, InsertFails(p) PROVE TypeOK'
  BY <1>4 DEF InsertFails, TypeOK
<1>5. ASSUME NEW p \in Runs, Commit(p) PROVE TypeOK'
  <2> DEFINE k == pending[p].key
             u == pending[p].entry.until
  <2>1. k \in Keys /\ pending[p].entry \in Slots
    BY DEF TypeOK
  <2>2. u \in Nat \cup {Forever}
    BY <2>1 DEF Entries, None
  <2>3. store[k] # None => [store[k] EXCEPT !.until = u] \in Entries
    BY <2>1, <2>2, RestampedTyped DEF TypeOK
  <2>4. Stored(p) \in [Keys -> Slots]
    BY <2>1, <2>3 DEF Stored, Live, TypeOK
  <2>5. pc' \in [Runs -> PCs]
    BY <1>5 DEF Commit, TypeOK, PCs
  <2>6. QED BY <1>5, <2>4, <2>5 DEF Commit, TypeOK
<1>6. ASSUME NEW p \in Runs, Refuse(p) \/ Overflow(p) \/ CommitFails(p) \/ Interrupt(p) \/ End(p) PROVE TypeOK'
  BY <1>6 DEF Refuse, Overflow, CommitFails, Interrupt, End, TypeOK, PCs
<1>7. CASE Checkpoint
  BY <1>7 DEF Checkpoint, TypeOK
<1>8. CASE PowerLoss
  BY <1>8 DEF PowerLoss, TypeOK, PCs
<1>9. CASE Tick
  BY <1>9 DEF Tick, TypeOK
<1>10. CASE UNCHANGED vars
  BY <1>10 DEF vars, TypeOK
<1>11. QED
  BY <1>1, <1>2, <1>3, <1>4, <1>5, <1>6, <1>7, <1>8, <1>9, <1>10 DEF Next

\* TypeOK of ResolveCache, for both backends: in store, on disk, pending or served there are
\* only entries of some run, and puts stay within their bound (cache.py:126-192).
THEOREM CacheTypeCorrect == Spec => []TypeOK
BY InitTyped, StepTyped, PTL DEF Spec

-----------------------------------------------------------------------------
\* What a run is about to store.
PendingInv == \A p \in Runs : ShortLived(pending[p].entry)

\* With SQLite no entry is ever without an expiry date, wherever it is kept.
LifeInv == PendingInv /\ \A k \in Keys : ShortLived(store[k]) /\ ShortLived(disk[k])

AllFresh == \A p \in Runs : ServedFresh(p)

LInv == TypeOK /\ LifeInv /\ AllFresh

\* The lifetime of an entry is a number of days.
LEMMA LifetimeTyped == ASSUME TypeOK, NEW p \in Runs PROVE Lifetime(p) \in Nat
<1>1. ParseTTL(ttl[p]) \in Nat \cup {NoValue}
  BY ParsedTTL DEF TypeOK
<1>2. QED BY <1>1 DEF Lifetime, CappedTTL, Smaller

\* Only an insert changes what a run is about to store, with either backend.
LEMMA StepPending == ASSUME TypeOK, PendingInv, [Next]_vars PROVE PendingInv'
<1>1. ASSUME NEW p \in Runs, NEW k \in Keys, Insert(p, k) PROVE PendingInv'
  <2>1. PICK d \in Dates :
          pending' = [pending EXCEPT ![p] = [key |-> k, entry |->
              [by |-> p, at |-> now, until |-> ComputeExpiry(now, d, ParseTTL(ttl[p]))]]]
    BY <1>1 DEF Insert
  <2>2. now <= ComputeExpiry(now, d, ParseTTL(ttl[p])) /\ ComputeExpiry(now, d, ParseTTL(ttl[p])) <= now + Lifetime(p)
    <3>1. now \in 0..Horizon /\ d \in Nat \cup {NoValue} /\ ParseTTL(ttl[p]) \in Nat \cup {NoValue}
      BY ParsedTTL DEF TypeOK
    <3>2. QED BY <3>1, ExpiryBounds DEF Lifetime
  <2>3. ShortLived([by |-> p, at |-> now, until |-> ComputeExpiry(now, d, ParseTTL(ttl[p]))])
    BY <2>2 DEF ShortLived
  <2>4. \A q \in Runs : ShortLived(pending'[q].entry)
    BY <2>1, <2>3 DEF TypeOK, PendingInv
  <2>5. ttl' = ttl
    BY <1>1 DEF Insert, settings
  <2>6. QED BY <2>4, <2>5 DEF PendingInv, ShortLived, Lifetime
<1>2. ASSUME UNCHANGED <<ttl, pending>> PROVE PendingInv'
  BY <1>2 DEF PendingInv, ShortLived, Lifetime
<1>3. QED
  BY <1>1, <1>2
  DEF Next, vars, settings, Refuse, Open, Get, InsertFails, Overflow, Commit, CommitFails, Interrupt, End,
      Checkpoint, PowerLoss, Tick

\* Every step keeps entries short-lived and serves only those that still live.
LEMMA StepLInv == ASSUME LInv, Sqlite, [Next]_vars PROVE LInv'
<1> USE DEF LInv, LifeInv, settings
<1>0. TypeOK' /\ PendingInv'
  BY StepTyped, StepPending
<1>1. ASSUME NEW p \in Runs, Open(p) PROVE LifeInv' /\ AllFresh'
  <2>1. \A k \in Keys : store'[k] \in {store[k], None}
    BY <1>1 DEF Open, Pruned, TypeOK
  <2>2. \A k \in Keys : ShortLived(store'[k])
    BY <2>1 DEF LifeInv, ShortLived, Lifetime
  <2>3. QED BY <1>0, <1>1, <2>2 DEF Open, LifeInv, ShortLived, Lifetime, AllFresh, ServedFresh
<1>2. ASSUME NEW p \in Runs, NEW k \in Keys, Get(p, k) PROVE LifeInv' /\ AllFresh'
  <2>1. store[k] \in Entries /\ store[k] # None /\ ShortLived(store[k])
    BY <1>2 DEF Get, Live, TypeOK, LifeInv
  <2>2. store[k].until \in Int /\ store[k].at \in Int /\ now \in Int
    BY <2>1 DEF TypeOK, Entries, Forever
  <2>3. now < store[k].until /\ now <= store[k].at + Lifetime(store[k].by)
    <3>1. Lifetime(store[k].by) \in Nat
      BY <2>1, LifetimeTyped DEF Entries
    <3>2. store[k].until # Forever
      BY <2>1 DEF Entries, ShortLived, Forever
    <3>3. QED BY <1>2, <2>1, <2>2, <3>1, <3>2 DEF Get, Live, ShortLived
  <2>4. served' = [served EXCEPT ![p] = [entry |-> store[k], at |-> now]]
    BY <1>2 DEF Get
  <2>5. AllFresh'
    <3>1. ttl' = ttl
      BY <1>2 DEF Get
    <3>2. ServedFresh(p)'
      BY <2>3, <2>4, <3>1 DEF ServedFresh, Lifetime, TypeOK
    <3>3. \A q \in Runs \ {p} : served'[q] = served[q]
      BY <2>4 DEF TypeOK
    <3>4. \A q \in Runs \ {p} : ServedFresh(q)'
      BY <3>1, <3>3 DEF AllFresh, ServedFresh, Lifetime
    <3>5. QED BY <3>2, <3>4 DEF AllFresh
  <2>6. LifeInv'
    BY <1>0, <1>2 DEF Get, LifeInv, ShortLived, Lifetime
  <2>7. QED BY <2>5, <2>6
<1>3. ASSUME NEW p \in Runs, NEW k \in Keys, Insert(p, k) PROVE LifeInv' /\ AllFresh'
  <2>1. UNCHANGED <<ttl, store, disk, served>>
    BY <1>3 DEF Insert
  <2>2. QED BY <1>0, <2>1 DEF ShortLived, Lifetime, AllFresh, ServedFresh
<1>4. ASSUME NEW p \in Runs, Commit(p) PROVE LifeInv' /\ AllFresh'
  <2>1. store' = [store EXCEPT ![pending[p].key] = pending[p].entry]
    BY <1>4 DEF Commit, Stored
  <2>2. \A k \in Keys : ShortLived(store'[k])
    BY <2>1 DEF TypeOK, PendingInv
  <2>3. QED BY <1>0, <1>4, <2>2 DEF Commit, ShortLived, Lifetime, AllFresh, ServedFresh
<1>5. CASE PowerLoss
  <2>1. LifeInv'
    BY <1>0, <1>5 DEF PowerLoss, ShortLived, Lifetime
  <2>2. UNCHANGED <<ttl, served>>
    BY <1>5 DEF PowerLoss
  <2>3. AllFresh'
    BY <2>2 DEF AllFresh, ServedFresh, Lifetime
  <2>4. QED BY <1>0, <2>1, <2>3
<1>6. CASE Checkpoint
  <2>1. LifeInv'
    BY <1>0, <1>6 DEF Checkpoint, ShortLived, Lifetime
  <2>2. UNCHANGED <<ttl, served>>
    BY <1>6 DEF Checkpoint
  <2>3. AllFresh'
    BY <2>2 DEF AllFresh, ServedFresh, Lifetime
  <2>4. QED BY <1>0, <2>1, <2>3
<1>7. ASSUME UNCHANGED <<ttl, store, disk, pending, served>> PROVE LifeInv' /\ AllFresh'
  BY <1>0, <1>7 DEF ShortLived, Lifetime, AllFresh, ServedFresh
<1>8. QED
  BY <1>0, <1>1, <1>2, <1>3, <1>4, <1>5, <1>6, <1>7
     DEF Next, vars, Refuse, InsertFails, Overflow, CommitFails, Interrupt, End, Tick

SInv == TypeOK /\ PendingInv /\ (Sqlite => LInv)

\* SInv is inductive.
LEMMA SInvHolds == Spec => []SInv
<1>1. Init => SInv
  <2>1. Init => LifeInv /\ AllFresh
    BY DEF Init, LifeInv, PendingInv, ShortLived, Lifetime, AllFresh, ServedFresh
  <2>2. QED BY <2>1, InitTyped DEF LInv, LifeInv, SInv
<1>2. SInv /\ [Next]_vars => SInv'
  <2> SUFFICES ASSUME SInv, [Next]_vars PROVE SInv'
    OBVIOUS
  <2>1. Sqlite' => Sqlite
    BY DEF Next, vars, settings, Sqlite, Refuse, Open, Get, Insert, InsertFails, Overflow, Commit, CommitFails,
           Interrupt, End, Checkpoint, PowerLoss, Tick
  <2>2. QED BY <2>1, StepTyped, StepPending, StepLInv DEF SInv
<1>3. QED BY <1>1, <1>2, PTL DEF Spec

\* ExpiryCapped: whatever date a resolver gives, what is about to be stored, and with SQLite
\* what is stored or on disk, expires within _MAX_TTL and the TTL of its run.
THEOREM ExpiriesAreCapped == Spec => []ExpiryCapped
<1>1. SInv => ExpiryCapped
  BY DEF SInv, LInv, LifeInv, PendingInv, ExpiryCapped
<1>2. QED BY <1>1, SInvHolds, PTL

\* NothingStaleServed: with SQLite no answer is served past its expiry, the TTL it was
\* stored under or _MAX_TTL, under kills, interrupts, overlapping runs and power loss.
THEOREM SqliteServesNothingStale == Spec => []NothingStaleServed
<1>1. SInv => NothingStaleServed
  BY DEF SInv, LInv, AllFresh, NothingStaleServed
<1>2. QED BY <1>1, SInvHolds, PTL
-----------------------------------------------------------------------------
\* What a run is about to commit is its own.
OwnInv == \A p \in Runs : pc[p] = "inserted" => pending[p].entry.by = p

\* Only an insert starts a commit, with an entry of its run.
LEMMA StepOwn == ASSUME TypeOK, OwnInv, [Next]_vars PROVE OwnInv'
<1> USE DEF settings
<1>1. ASSUME NEW p \in Runs, NEW k \in Keys, Insert(p, k) PROVE OwnInv'
  <2>1. PICK d \in Dates :
          pending' = [pending EXCEPT ![p] = [key |-> k, entry |->
              [by |-> p, at |-> now, until |-> ComputeExpiry(now, d, ParseTTL(ttl[p]))]]]
    BY <1>1 DEF Insert
  <2>2. pending'[p].entry.by = p
    BY <2>1 DEF TypeOK
  <2>3. \A q \in Runs \ {p} : pending'[q] = pending[q] /\ pc'[q] = pc[q]
    BY <1>1, <2>1 DEF Insert, TypeOK
  <2>4. QED BY <2>2, <2>3 DEF OwnInv
<1>2. ASSUME pending' = pending, \A p \in Runs : pc'[p] = pc[p] \/ pc'[p] # "inserted" PROVE OwnInv'
  BY <1>2 DEF OwnInv
<1>3. ASSUME NEW p \in Runs,
             Refuse(p) \/ Open(p) \/ InsertFails(p) \/ Overflow(p) \/ Commit(p) \/ CommitFails(p) \/ Interrupt(p) \/ End(p)
             \/ \E k \in Keys : Get(p, k)
      PROVE  pending' = pending /\ \A q \in Runs : pc'[q] = pc[q] \/ pc'[q] # "inserted"
  BY <1>3 DEF Refuse, Open, InsertFails, Overflow, Commit, CommitFails, Interrupt, End, Get, TypeOK
<1>4. ASSUME Checkpoint \/ PowerLoss \/ Tick \/ UNCHANGED vars
      PROVE  pending' = pending /\ \A q \in Runs : pc'[q] = pc[q] \/ pc'[q] # "inserted"
  BY <1>4 DEF Checkpoint, PowerLoss, Tick, vars, TypeOK
<1>5. QED BY <1>1, <1>2, <1>3, <1>4 DEF Next

\* What may become of a live entry in one step.
Kept(k) ==
    \/ store'[k].by = store[k].by /\ store'[k].at = store[k].at
    \/ \E p \in Runs : store'[k].by = p /\ pc[p] \in {"open", "inserted"}
    \/ disk[k] # store[k] /\ store' = disk

\* Pruning, storing and losing power leave a live entry, or put a newer one in its place,
\* or take back what no checkpoint has seen.
LEMMA StepKeeps ==
    ASSUME SInv, OwnInv, [Next]_vars, NEW k \in Keys, Live(store[k])
    PROVE  Kept(k)
<1> USE DEF settings, SInv
<1>1. store[k] \in Entries /\ (Sqlite => store[k].until # Forever) /\ now \in 0..Horizon
  BY DEF TypeOK, Live, LInv, LifeInv, ShortLived, Entries, Forever
<1>2. ASSUME NEW p \in Runs, Open(p) PROVE Kept(k)
  <2>1. Pruned(store[k]) = store[k]
    BY <1>1 DEF Pruned, Expired, Live, Entries
  <2>2. store'[k] = store[k]
    BY <1>2, <2>1 DEF Open
  <2>3. QED BY <2>2 DEF Kept
<1>3. ASSUME NEW p \in Runs, NEW j \in Keys, Insert(p, j) PROVE Kept(k)
  <2>1. CASE Sqlite \/ j # k
    BY <1>3, <2>1 DEF Insert, Kept, TypeOK
  <2>2. CASE ~Sqlite /\ j = k
    <3>1. store'[k].by = p /\ pc[p] = "open"
      BY <1>3, <2>2 DEF Insert, TypeOK
    <3>2. QED BY <3>1 DEF Kept
  <2>3. QED BY <2>1, <2>2
<1>4. ASSUME NEW p \in Runs, Commit(p) PROVE Kept(k)
  <2>1. pc[p] = "inserted" /\ store' = Stored(p) /\ pending[p].entry.by = p /\ pending[p].key \in Keys
    BY <1>4 DEF Commit, OwnInv, TypeOK
  <2>2. CASE Sqlite
    <3>1. store' = [store EXCEPT ![pending[p].key] = pending[p].entry]
      BY <2>1, <2>2 DEF Stored
    <3>2. QED BY <2>1, <3>1 DEF Kept, TypeOK
  <2>3. CASE ~Sqlite
    <3>1. store'[k].by = store[k].by /\ store'[k].at = store[k].at
      BY <1>1, <2>1, <2>3 DEF Stored, TypeOK, Entries
    <3>2. QED BY <3>1 DEF Kept
  <2>4. QED BY <2>2, <2>3
<1>5. CASE PowerLoss
  BY <1>5 DEF PowerLoss, Kept
<1>6. ASSUME store' = store PROVE Kept(k)
  BY <1>6 DEF Kept
<1>7. QED
  BY <1>2, <1>3, <1>4, <1>5, <1>6
  DEF Next, vars, Refuse, Get, InsertFails, Overflow, CommitFails, Interrupt, End, Checkpoint, Tick

\* CommittedStays: a committed entry stays until it expires or is replaced, whatever is
\* killed or interrupted; a power loss takes what was committed since the last checkpoint.
THEOREM CommittedEntriesStay == Spec => CommittedStays
<1>1. Init => OwnInv
  BY DEF Init, OwnInv
<1>2. SInv /\ OwnInv /\ [Next]_vars => OwnInv'
  BY StepOwn DEF SInv
<1>3. SInv /\ OwnInv /\ [Next]_vars =>
        [\A k \in Keys : Live(store[k]) =>
            \/ store'[k].by = store[k].by /\ store'[k].at = store[k].at
            \/ \E p \in Runs : store'[k].by = p /\ pc[p] \in {"open", "inserted"}
            \/ disk[k] # store[k] /\ store' = disk]_vars
  BY StepKeeps DEF Kept
<1>4. QED BY <1>1, <1>2, <1>3, SInvHolds, PTL DEF Spec, CommittedStays
=============================================================================
