---------------------------- MODULE ResolveCache ----------------------------
(***************************************************************************)
(* resolvers/cache.py: the persistent resolve cache, shared by runs that   *)
(* overlap in time.  SqliteCache is one connection per run on one file (an *)
(* INSERT takes the file's write lock, the commit releases it); RedisCache *)
(* is two commands to a server, SET and then EXPIREAT.                     *)
(***************************************************************************)
EXTENDS CacheExpiry

CONSTANTS
    Runs,       \* processes that use the cache
    Keys,       \* cache keys: resolver, schema version and key
    Backends,   \* the backends considered, of "sqlite" and "redis"
    Dates,      \* expiry dates a resolver may give
    TTLs,       \* the TTL specs the runs may be given
    MaxPuts     \* bound: puts of a run

ASSUME CacheAssumption ==
    /\ Keys # {}
    /\ Backends \subseteq {"sqlite", "redis"}
    /\ Dates \subseteq Nat \cup {NoValue}
    /\ TTLs \subseteq [Runs -> Specs \cup {NoValue}]
    /\ NoValue \notin Runs
    /\ MaxPuts \in Nat

VARIABLES
    backend,    \* RESOLVE__CACHE of all runs
    ttl,        \* the TTL spec of each run
    now,        \* wall clock
    store,      \* committed entries, None where there is none
    disk,       \* entries that a power loss would leave
    pc,         \* where each run is
    pending,    \* the entry a run is storing
    served,     \* the last entry a run was served, and when
    puts        \* puts of each run

settings == <<backend, ttl>>
vars == <<backend, ttl, now, store, disk, pc, pending, served, puts>>

Forever == -1   \* a Redis key without expiry

\* An entry: the run that stored it, when it was computed, until when it lives.
Entries == [by : Runs, at : 0..Horizon, until : Nat \cup {Forever}]
None == [by |-> NoValue, at |-> 0, until |-> 0]
PCs == {"closed", "open", "off", "inserted", "held", "ended"}

Init ==
    /\ backend \in Backends
    /\ ttl \in TTLs
    /\ now = 0
    /\ store = [k \in Keys |-> None]
    /\ disk = store
    /\ pc = [p \in Runs |-> "closed"]
    /\ pending = [p \in Runs |-> [key |-> CHOOSE k \in Keys : TRUE, entry |-> None]]
    /\ served = [p \in Runs |-> [entry |-> None, at |-> 0]]
    /\ puts = [p \in Runs |-> 0]

Sqlite == backend = "sqlite"

\* The write lock of the database file: held from an INSERT to its commit, and by
\* a run that was interrupted between the two until it ends.
Locked(p) == \E q \in Runs \ {p} : pc[q] \in {"inserted", "held"}

\* Mutant: the prune takes the entries of the coming day along.
ExpiresSoon(e) == e.until <= now + Day
\* expires_at <= now
Expired(e) == e.until <= now

\* DELETE FROM cache WHERE expires_at <= now; RedisCache deletes nothing itself.
Pruned(e) == IF Sqlite /\ Expired(e) THEN None ELSE e

\* Mutant: stale rows are served until they are pruned.
LiveForever(e) == e # None
\* expires_at > now; Redis drops the key itself.
Live(e) == e # None /\ (e.until = Forever \/ e.until > now)
-----------------------------------------------------------------------------
\* A TTL that is none ends the run before it opens the cache.
Refuse(p) ==
    /\ pc[p] = "closed"
    /\ Refused(ttl[p])
    /\ pc' = [pc EXCEPT ![p] = "ended"]
    /\ UNCHANGED <<settings, now, store, disk, pending, served, puts>>

\* SqliteCache.__init__ prunes expired rows; get_cache falls back to NullCache when
\* that fails, as it does while another run holds the write lock.
Open(p) ==
    /\ pc[p] = "closed"
    /\ ~Refused(ttl[p])
    /\ IF Sqlite /\ Locked(p)
       THEN pc' = [pc EXCEPT ![p] = "off"] /\ UNCHANGED store
       ELSE /\ pc' = [pc EXCEPT ![p] = "open"]
            /\ store' = [k \in Keys |-> Pruned(store[k])]
    /\ UNCHANGED <<settings, now, disk, pending, served, puts>>

Get(p, k) ==
    /\ pc[p] = "open"
    /\ Live(store[k])
    /\ served' = [served EXCEPT ![p] = [entry |-> store[k], at |-> now]]
    /\ UNCHANGED <<settings, now, store, disk, pc, pending, puts>>

\* The first half of set: INSERT OR REPLACE (an error if the lock is not to be had
\* in time), or SET, which is visible at once and drops any expiry of the key.
Insert(p, k) ==
    /\ pc[p] = "open"
    /\ puts[p] < MaxPuts
    /\ ~(Sqlite /\ Locked(p))
    /\ puts' = [puts EXCEPT ![p] = @ + 1]
    /\ \E d \in {x \in Dates : ~Overflows(x)} :
          LET entry == [by |-> p, at |-> now, until |-> ComputeExpiry(now, d, ParseTTL(ttl[p]))]
          IN  /\ pending' = [pending EXCEPT ![p] = [key |-> k, entry |-> entry]]
              /\ store' = IF Sqlite THEN store
                          ELSE [store EXCEPT ![k] = [entry EXCEPT !.until = Forever]]
    /\ pc' = [pc EXCEPT ![p] = "inserted"]
    /\ UNCHANGED <<settings, now, disk, served>>

\* compute_cache_expiry raises, before set and outside every handler: the run ends with
\* what it has resolved unwritten.
Overflow(p) ==
    /\ pc[p] = "open"
    /\ \E d \in Dates : Overflows(d)
    /\ pc' = [pc EXCEPT ![p] = "ended"]
    /\ UNCHANGED <<settings, now, store, disk, pending, served, puts>>

\* A swallowed error: the database stays locked, the server does not answer.
InsertFails(p) ==
    /\ pc[p] = "open"
    /\ puts[p] < MaxPuts
    /\ puts' = [puts EXCEPT ![p] = @ + 1]
    /\ UNCHANGED <<settings, now, store, disk, pc, pending, served>>

\* What the second half of set makes visible: the row, or the expiry date of
\* whatever is at the key by now.
Stored(p) ==
    LET k == pending[p].key
    IN  IF Sqlite THEN [store EXCEPT ![k] = pending[p].entry]
        ELSE IF Live(store[k]) THEN [store EXCEPT ![k].until = pending[p].entry.until]
        ELSE store

\* The second half: commit, or EXPIREAT.
Commit(p) ==
    /\ pc[p] = "inserted"
    /\ store' = Stored(p)
    /\ pc' = [pc EXCEPT ![p] = "open"]
    /\ UNCHANGED <<settings, now, disk, pending, served, puts>>

\* EXPIREAT fails: the error is swallowed.
CommitFails(p) ==
    /\ pc[p] = "inserted" /\ ~Sqlite
    /\ pc' = [pc EXCEPT ![p] = "open"]
    /\ UNCHANGED <<settings, now, store, disk, pending, served, puts>>

\* Ctrl+C between the two halves: `except Exception` does not see it, and the
\* transaction stays open while the run writes its partial result.
Interrupt(p) ==
    /\ pc[p] = "inserted"
    /\ pc' = [pc EXCEPT ![p] = "held"]
    /\ UNCHANGED <<settings, now, store, disk, pending, served, puts>>

\* The process ends, by itself or killed; an open transaction is rolled back.
End(p) ==
    /\ pc[p] \notin {"closed", "ended"}
    /\ pc' = [pc EXCEPT ![p] = "ended"]
    /\ UNCHANGED <<settings, now, store, disk, pending, served, puts>>

\* A checkpoint of the WAL: only now are commits forced to disk (synchronous=NORMAL).
Checkpoint ==
    /\ Sqlite
    /\ disk # store
    /\ disk' = store
    /\ UNCHANGED <<settings, now, store, pc, pending, served, puts>>

\* The machine of the runs goes down; the Redis server is another one.
PowerLoss ==
    /\ store' = IF Sqlite THEN disk ELSE store
    /\ pc' = [p \in Runs |-> IF pc[p] = "closed" THEN "closed" ELSE "ended"]
    /\ UNCHANGED <<settings, now, disk, pending, served, puts>>

Tick ==
    /\ now < Horizon
    /\ now' = now + 1
    /\ UNCHANGED <<settings, store, disk, pc, pending, served, puts>>

Next ==
    \/ \E p \in Runs :
          \/ Refuse(p) \/ Open(p) \/ InsertFails(p) \/ Overflow(p) \/ Commit(p) \/ CommitFails(p) \/ Interrupt(p) \/ End(p)
          \/ \E k \in Keys : Get(p, k) \/ Insert(p, k)
    \/ Checkpoint
    \/ PowerLoss
    \/ Tick

Spec == Init /\ [][Next]_vars
-----------------------------------------------------------------------------
(* Properties. *)

TypeOK ==
    /\ backend \in Backends
    /\ ttl \in TTLs
    /\ now \in 0..Horizon
    /\ store \in [Keys -> Entries \cup {None}]
    /\ disk \in [Keys -> Entries \cup {None}]
    /\ pc \in [Runs -> PCs]
    /\ pending \in [Runs -> [key : Keys, entry : Entries \cup {None}]]
    /\ served \in [Runs -> [entry : Entries \cup {None}, at : 0..Horizon]]
    /\ puts \in [Runs -> 0..MaxPuts]

\* How long an entry of run p may live, counted from the moment its expiry was computed.
Lifetime(p) == IF ParseTTL(ttl[p]) # NoValue THEN CappedTTL(ParseTTL(ttl[p])) ELSE MaxTTL

\* An entry is not stored as one that had expired, and lives no longer than its run asked
\* for, counted from when it was computed.
ShortLived(e) == e # None => e.at <= e.until /\ e.until <= e.at + Lifetime(e.by)

\* cache.py: "Never cache longer than this, so a malformed far-future date cannot freeze
\* data."  Whatever date a resolver gives, what a run is about to store, with either
\* backend, and with SQLite what is stored or on disk, expires within _MAX_TTL and the TTL
\* of its run.
ExpiryCapped ==
    /\ \A p \in Runs : ShortLived(pending[p].entry)
    /\ Sqlite => \A k \in Keys : ShortLived(store[k]) /\ ShortLived(disk[k])

\* What run p was served last had not outlived what the run that stored it asked for.
ServedFresh(p) ==
    LET s == served[p]
    IN  s.entry # None =>
            /\ s.at <= s.entry.at + Lifetime(s.entry.by)
            /\ s.entry.until # Forever => s.at < s.entry.until

\* With SQLite no run is served an answer older than the TTL it was stored under, nor
\* than _MAX_TTL, and none past its own expiry, whoever stored it and whatever was
\* killed or lost meanwhile.
NothingStaleServed == Sqlite => \A p \in Runs : ServedFresh(p)

\* cache.py, of RedisCache: "native per-key TTL (EXPIREAT)".
RedisKeysExpire == \A p \in Runs : ServedFresh(p)

\* A committed entry stays until it expires or is replaced: no kill, interrupt or
\* overlapping run takes it away (commit per key), and a power loss only what was
\* committed since the last checkpoint.
CommittedStays ==
    [][\A k \in Keys : Live(store[k]) =>
          \/ store'[k].by = store[k].by /\ store'[k].at = store[k].at
          \/ \E p \in Runs : store'[k].by = p /\ pc[p] \in {"open", "inserted"}
          \/ disk[k] # store[k] /\ store' = disk]_vars
=============================================================================
