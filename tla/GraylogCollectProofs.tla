------------------------ MODULE GraylogCollectProofs ------------------------
(* Proofs about GraylogCollect and the address arithmetic of Subnets. *)
EXTENDS GraylogCollect, FiniteSetTheorems, TLAPS

-----------------------------------------------------------------------------
(* Arithmetic. *)

\* Products grow with their factors.
LEMMA ProductGrows ==
    ASSUME NEW a \in Nat, NEW b \in Nat, NEW c \in Nat, a <= b
    PROVE  a * c <= b * c
  <1>1. PICK n \in Nat : b = a + n
    BY b = a + (b - a)
  <1>2. b * c = a * c + n * c /\ n * c \in Nat /\ a * c \in Nat
    BY <1>1
  <1> QED BY <1>2

\* What integer division by the bits of an octet gives: octet_prefix's `prefixlen // 8`.
LEMMA Division ==
    ASSUME NEW a \in Nat, NEW b \in Nat \ {0}
    PROVE  /\ a \div b \in Nat
           /\ (a \div b) * b <= a
           /\ a >= b => a \div b > 0
  OBVIOUS

-----------------------------------------------------------------------------
(* The server's subnet filter is coarser than the client's. *)

\* octet_prefix of a network of an octet or more is a prefix of every address in it.
THEOREM PrefixCovers ==
    ASSUME NEW ip \in Addresses, NEW net \in Networks, net.len >= OctetBits, In(ip, net)
    PROVE  PrefixMatches(ip, net)
  <1> DEFINE k == Kept(net)
  <1>1. /\ net.len \in 0..Width /\ net.base \in Addresses
        /\ Octets \in Nat \ {0} /\ OctetBits \in Nat \ {0} /\ Width \in Nat
    BY SubnetsAssumption DEF Networks, Width
  <1>2. k \in Nat /\ k * OctetBits <= net.len /\ k > 0
    BY <1>1, Division DEF Kept
  <1>3. CASE k >= Octets
    <2>1. Octets * OctetBits <= k * OctetBits
      BY <1>1, <1>2, <1>3, ProductGrows
    <2>2. net.len = Width
      BY <2>1, <1>1, <1>2 DEF Width
    <2>3. ip = net.base
      BY <2>2, <1>1 DEF In, Addresses
    <2>4. NetworkAddress(net) = net.base
      BY <2>2, <1>1 DEF NetworkAddress, Addresses
    <2> QED BY <1>3, <2>3, <2>4 DEF PrefixMatches, SameOctets, NumeralBegins
  <1>4. CASE ~(k >= Octets)
    <2>1. \A i \in 1..(k * OctetBits) : i \in 1..net.len /\ i \in 1..Width
      BY <1>1, <1>2
    <2>2. SameOctets(ip, NetworkAddress(net), k)
      BY <2>1, <1>1 DEF SameOctets, NetworkAddress, In
    <2> QED BY <1>2, <1>4, <2>2 DEF PrefixMatches
  <1> QED BY <1>3, <1>4

\* Whatever the client keeps the server returns, with any combination of filters.
THEOREM ServerCoversClient ==
    ASSUME TypeOK, PrefixesUsable, NEW d \in Docs, Wanted(d)
    PROVE  Served(d)
  <1>1. Src[d] \in Addresses
    BY GraylogAssumption DEF Wanted
  <1>2. conf.nets \subseteq Networks
    BY GraylogAssumption DEF TypeOK
  <1>3. InSubnets(Src[d]) => Prefixed(Src[d])
    BY <1>1, <1>2, PrefixCovers DEF InSubnets, Prefixed, PrefixesUsable
  <1> QED BY <1>3 DEF Wanted, Served, Combined
-----------------------------------------------------------------------------
(* The invariants. *)

\* What a row says of its document, and that those of the current window are behind
\* the cursor.
Behind(r) ==
    /\ r.win <= win
    /\ Lower(r.win, r.at) <= ts[r.doc]
    /\ r.win = win => ts[r.doc] <= cursor

\* A document that must not be missed and is not among the rows is still to come in this
\* window, or older than it.
ToCome(d) ==
    \/ \E r \in rows : r.doc = d
    \/ ts[d] < Lower(win, now)
    \/ pc # "done" /\ cursor < ts[d] /\ ts[d] < Upper(win, now)

Due(d) == Wanted(d) /\ ts[d] < Upper(span.end, Began) /\ Alone(d)

GInv ==
    /\ TypeOK
    /\ pc \in {"begin", "fetch", "done"} => \A r \in rows : Behind(r)
    /\ pc \in {"begin", "fetch", "done"} /\ PrefixesUsable => \A d \in settled : Due(d) => ToCome(d)
    /\ pc = "begin" => rows = {}
    /\ pc = "done" => win = span.start - 1

\* The bounds of a window at a time are integers, the windows are adjacent and move
\* with the clock.
LEMMA Bounds ==
    ASSUME NEW j \in Nat, NEW k \in Nat, NEW s \in Nat, NEW t \in Nat
    PROVE  /\ Lower(k, t) \in Int /\ Upper(k, t) \in Int
           /\ Lower(k, t) = Upper(k + 1, t)
           /\ s <= t => Lower(k, s) <= Lower(k, t) /\ Upper(k, s) <= Upper(k, t)
           /\ j < k => Upper(k, t) <= Lower(j, t)
  <1>0. Unit \in Nat
    BY GraylogAssumption
  <1>1. k * Unit \in Nat /\ (k + 1) * Unit \in Nat /\ (j + 1) * Unit \in Nat
    BY <1>0
  <1>2. j < k => (j + 1) * Unit <= k * Unit
    BY <1>0, ProductGrows, j + 1 \in Nat
  <1> QED BY <1>1, <1>2 DEF Lower, Upper

\* Times are naturals, and whole documents have one.
LEMMA Typing ==
    ASSUME TypeOK
    PROVE  /\ now \in Nat /\ Began \in Nat /\ Began <= now /\ win \in Nat /\ cursor \in Int
           /\ span.start \in Nat /\ span.end \in Nat
           /\ \A d \in Docs : ts[d] \in Nat
           /\ settled \subseteq Docs /\ indexed \subseteq Docs
           /\ \A r \in rows : r.doc \in Docs /\ r.win \in Nat /\ r.at \in Nat /\ r.at <= now
  BY GraylogAssumption DEF TypeOK, Times, NoCursor

\* The invariants hold at the start.
LEMMA InitInv == Init => GInv
  <1> SUFFICES ASSUME Init PROVE GInv
    OBVIOUS
  <1>1. TypeOK
    BY GraylogAssumption DEF Init, TypeOK, Times, NoCursor, Old
  <1>2. ASSUME NEW d \in settled, Due(d) PROVE ToCome(d)
    BY <1>1, <1>2, Typing DEF Init, Due, ToCome, NoCursor
  <1> QED BY <1>1, <1>2 DEF Init, GInv

\* Types are kept by every step.
LEMMA StepTypes == TypeOK /\ [Next]_vars => TypeOK'
  <1> SUFFICES ASSUME TypeOK, [Next]_vars PROVE TypeOK'
    OBVIOUS
  <1> USE DEF TypeOK, asked
  <1>1. CASE Begin
    BY <1>1, GraylogAssumption DEF Begin
  <1>2. ASSUME NEW hits \in SUBSET Matching, FetchPage(hits) PROVE TypeOK'
    <2>1. rows' \subseteq [doc : Docs, win : Nat, after : Times \cup {NoCursor}, at : Began..now]
      <3>1. win \in Nat /\ now \in Began..now /\ Matching \subseteq Docs
        BY GraylogAssumption DEF Matching
      <3> QED BY <1>2, <3>1 DEF FetchPage
    <2>2. cursor' \in Times
      BY <1>2, GraylogAssumption DEF FetchPage, Matching, Times
    <2> QED BY <1>2, <2>1, <2>2, GraylogAssumption DEF FetchPage
  <1>3. CASE EndWindow
    BY <1>3, GraylogAssumption DEF EndWindow, IsLast, FreshCursor
  <1>4. CASE Fail
    BY <1>4 DEF Fail
  <1>5. CASE Tick
    <2>1. rows \subseteq [doc : Docs, win : Nat, after : Times \cup {NoCursor}, at : Began..now']
      BY <1>5, GraylogAssumption DEF Tick
    <2> QED BY <1>5, <2>1, GraylogAssumption DEF Tick
  <1>6. ASSUME NEW d \in Docs, Arrive(d) PROVE TypeOK'
    BY <1>6 DEF Arrive
  <1>7. CASE UNCHANGED vars
    BY <1>7 DEF vars
  <1> QED BY <1>1, <1>2, <1>3, <1>4, <1>5, <1>6, <1>7 DEF Next, Collect, Terminated

\* Whether a document is due does not change, or it no longer is.
LEMMA DueKept ==
    ASSUME TypeOK, [Next]_vars, NEW d \in settled', Due(d)'
    PROVE  Due(d) /\ d \in settled
  <1>1. UNCHANGED asked /\ indexed \subseteq indexed'
    BY DEF Next, Collect, Begin, FetchPage, EndWindow, Fail, Tick, Arrive, Terminated, vars, asked
  <1> QED BY <1>1 DEF Due, Wanted, Combined, Listed, InSubnets, Alone, Served, Prefixed, Upper, asked

\* A page takes everything up to its last document.
LEMMA PageTakes ==
    ASSUME TypeOK, PrefixesUsable, NEW hits \in SUBSET Matching, FetchPage(hits),
           NEW d \in settled, Due(d), cursor < ts[d]
    PROVE  (\E r \in rows' : r.doc = d) \/ ts[d] < Lower(win, now) \/ cursor' < ts[d] \/ Upper(win, now) <= ts[d]
  <1> SUFFICES ASSUME Lower(win, now) <= ts[d], ts[d] < Upper(win, now), d \notin hits
               PROVE  cursor' < ts[d]
    <2>0. win \in Nat /\ now \in Nat /\ ts[d] \in Nat
      BY Typing
    <2>1. Lower(win, now) \in Int /\ Upper(win, now) \in Int
      BY <2>0, Bounds
    <2>2. ASSUME d \in hits PROVE \E r \in rows' : r.doc = d
      <3>1. [doc |-> d, win |-> win, after |-> cursor, at |-> now] \in rows'
        BY <2>2 DEF FetchPage, Due
      <3> QED BY <3>1
    <2> QED BY <2>0, <2>1, <2>2
  <1>1. d \in Docs /\ d \in indexed
    BY DEF TypeOK
  <1>2. d \in Matching
    BY <1>1, ServerCoversClient DEF Due, Matching, InWindow, AfterCursor
  <1>3. PICK last \in hits : cursor' = ts[last]
    BY DEF FetchPage
  <1>4. ts[last] <= ts[d]
    BY <1>2, <1>3 DEF FetchPage, IsPage
  <1>5. ts[last] # ts[d]
    BY <1>3 DEF Due, Alone, Matching
  <1>6. last \in Docs
    BY <1>3, Typing DEF Matching
  <1> QED BY <1>1, <1>3, <1>4, <1>5, <1>6, Typing

\* An empty page: what is due and was to come in this window is older than it.
LEMMA EmptyPageEnds ==
    ASSUME TypeOK, PrefixesUsable, IsPage({}), NEW d \in settled, Due(d),
           cursor < ts[d], ts[d] < Upper(win, now)
    PROVE  ts[d] < Lower(win, now)
  <1>1. d \in Docs /\ d \in indexed
    BY DEF TypeOK
  <1>2. Matching = {}
    BY FS_EmptySet, GraylogAssumption DEF IsPage
  <1>3. Served(d)
    BY <1>1, ServerCoversClient DEF Due
  <1>4. win \in Nat /\ now \in Nat /\ ts[d] \in Nat
    BY <1>1, Typing
  <1>5. Lower(win, now) \in Int
    BY <1>4, Bounds
  <1> QED BY <1>1, <1>2, <1>3, <1>4, <1>5 DEF Matching, InWindow, AfterCursor

\* Rows stay behind the cursor and the window.
LEMMA StepBehind ==
    ASSUME GInv, [Next]_vars, pc' \in {"begin", "fetch", "done"}
    PROVE  \A r \in rows' : Behind(r)'
  <1> SUFFICES ASSUME NEW r \in rows' PROVE Behind(r)'
    OBVIOUS
  <1>0. /\ now \in Nat /\ win \in Nat /\ cursor \in Int
        /\ \A d \in Docs : ts[d] \in Nat
        /\ \A q \in rows : q.doc \in Docs /\ q.win \in Nat /\ q.at \in Nat
    BY Typing DEF GInv
  <1>1. CASE pc = "failed"
    BY <1>1 DEF GInv, Next, Collect, Begin, FetchPage, EndWindow, Fail, Tick, Arrive, Terminated, vars, asked
  <1>2. ASSUME NEW hits \in SUBSET Matching, FetchPage(hits), pc # "failed" PROVE Behind(r)'
    <2>1. PICK last \in hits : (\A d \in hits : ts[d] <= ts[last]) /\ cursor' = ts[last]
      BY <1>2 DEF FetchPage
    <2>2. \A d \in hits : d \in Docs /\ cursor < ts[d] /\ Lower(win, now) <= ts[d]
      BY DEF Matching, AfterCursor, InWindow, GInv, TypeOK
    <2>3. CASE r \in rows
      <3>1. Behind(r)
        BY <2>3, <1>2 DEF GInv, FetchPage
      <3>2. win' = win /\ ts' = ts
        BY <1>2 DEF FetchPage, asked
      <3>3. cursor < cursor' /\ cursor' \in Nat
        BY <2>1, <2>2, <1>0
      <3> QED BY <3>1, <3>2, <3>3, <2>3, <1>0 DEF Behind, Lower
    <2>4. CASE r \notin rows
      <3>1. PICK d \in hits : r = [doc |-> d, win |-> win, after |-> cursor, at |-> now]
        BY <2>4, <1>2 DEF FetchPage
      <3>2. win' = win /\ ts' = ts
        BY <1>2 DEF FetchPage, asked
      <3>3. r.doc = d /\ r.win = win /\ r.at = now
        BY <3>1
      <3> QED BY <3>2, <3>3, <2>1, <2>2, <1>0 DEF Behind, Lower
    <2> QED BY <2>3, <2>4
  <1>3. CASE EndWindow /\ pc # "failed"
    <2>1. Behind(r) /\ r \in rows /\ ts' = ts
      BY <1>3 DEF GInv, EndWindow, asked
    <2>2. (win' = win /\ cursor' = cursor) \/ win' = win + 1
      BY <1>3 DEF EndWindow
    <2> QED BY <2>1, <2>2, <1>0 DEF Behind, Lower
  <1>4. CASE (Begin \/ Tick \/ (\E d \in Docs : Arrive(d)) \/ Terminated \/ UNCHANGED vars) /\ pc # "failed"
    <2>1. UNCHANGED <<win, cursor, rows, ts>>
      BY <1>4 DEF Begin, Tick, Arrive, Terminated, vars, asked
    <2>2. pc \in {"begin", "fetch", "done"}
      BY <1>4 DEF GInv, TypeOK
    <2> QED BY <2>1, <2>2 DEF GInv, Behind, Lower
  <1>5. CASE Fail
    BY <1>5 DEF Fail
  <1> QED BY <1>1, <1>2, <1>3, <1>4, <1>5 DEF Next, Collect

\* What is due is among the rows, or still to come, or too old.
LEMMA StepToCome ==
    ASSUME GInv, [Next]_vars, pc' \in {"begin", "fetch", "done"}, PrefixesUsable',
           NEW d \in settled', Due(d)'
    PROVE  ToCome(d)'
  <1>0. UNCHANGED asked /\ PrefixesUsable /\ Due(d) /\ d \in settled
    <2>1. UNCHANGED asked
      BY DEF Next, Collect, Begin, FetchPage, EndWindow, Fail, Tick, Arrive, Terminated, vars, asked
    <2> QED BY <2>1, DueKept DEF asked, PrefixesUsable, GInv
  <1>1. /\ now \in Nat /\ win \in Nat /\ cursor \in Int /\ ts[d] \in Nat
        /\ Lower(win, now) \in Int /\ Upper(win, now) \in Int
    <2>1. now \in Nat /\ win \in Nat /\ cursor \in Int /\ ts[d] \in Nat
      BY <1>0, Typing DEF GInv
    <2> QED BY <2>1, Bounds
  <1>2. CASE pc = "failed"
    BY <1>2 DEF Next, Collect, Begin, FetchPage, EndWindow, Fail, Tick, Arrive, Terminated, vars, asked
  <1>3. CASE pc # "failed"
    <2>1. ToCome(d)
      BY <1>0, <1>3 DEF GInv, TypeOK
    <2>2. ASSUME NEW hits \in SUBSET Matching, FetchPage(hits) PROVE ToCome(d)'
      <3>1. UNCHANGED <<win, now, ts, pc>> /\ rows \subseteq rows' /\ pc = "fetch"
        BY <2>2 DEF FetchPage, asked
      <3>2. CASE cursor < ts[d] /\ ts[d] < Upper(win, now)
        BY <3>1, <3>2, <2>2, <1>0, <1>1, PageTakes DEF GInv, ToCome, Lower, Upper
      <3>3. CASE ~(cursor < ts[d] /\ ts[d] < Upper(win, now))
        BY <3>1, <3>3, <2>1 DEF ToCome, Lower, Upper
      <3> QED BY <3>2, <3>3
    <2>3. CASE EndWindow
      <3>1. UNCHANGED <<now, ts, rows>> /\ IsPage({}) /\ pc = "fetch"
        BY <2>3 DEF EndWindow, asked
      <3>2. (\E r \in rows : r.doc = d) \/ ts[d] < Lower(win, now)
        BY <3>1, <2>1, <1>0, EmptyPageEnds DEF ToCome, GInv
      <3>3. CASE win' = win
        BY <3>1, <3>2, <3>3 DEF ToCome, Lower
      <3>4. CASE pc' = "fetch" /\ win' = win + 1 /\ cursor' = -1
        <4>1. Upper(win + 1, now) = Lower(win, now)
          BY <1>1, Bounds
        <4> QED BY <3>1, <3>2, <3>4, <4>1, <1>1 DEF ToCome, Lower, Upper
      <3> QED BY <3>1, <3>3, <3>4, <2>3 DEF EndWindow, FreshCursor, NoCursor
    <2>4. CASE Tick
      <3>1. UNCHANGED <<win, ts, rows, pc, cursor>> /\ now' = now + 1
        BY <2>4 DEF Tick, asked
      <3>2. /\ Lower(win, now) <= Lower(win, now + 1) /\ Lower(win, now + 1) \in Int
            /\ Upper(win, now) <= Upper(win, now + 1) /\ Upper(win, now + 1) \in Int
        BY <1>1, Bounds, now + 1 \in Nat, now <= now + 1
      <3> QED BY <3>1, <3>2, <2>1, <1>1 DEF ToCome, Lower, Upper
    <2>5. CASE Begin \/ (\E e \in Docs : Arrive(e)) \/ Terminated \/ UNCHANGED vars
      <3>1. UNCHANGED <<win, now, ts, rows, cursor>> /\ (pc' = pc \/ pc' # "done")
        BY <2>5, <1>3 DEF Begin, Arrive, Terminated, vars, asked
      <3> QED BY <3>1, <2>1 DEF ToCome, Lower, Upper
    <2>6. CASE Fail
      BY <2>6 DEF Fail
    <2> QED BY <2>2, <2>3, <2>4, <2>5, <2>6 DEF Next, Collect
  <1> QED BY <1>2, <1>3

\* GInv is inductive.
LEMMA StepInv == GInv /\ [Next]_vars => GInv'
  <1> SUFFICES ASSUME GInv, [Next]_vars PROVE GInv'
    OBVIOUS
  <1>1. TypeOK'
    BY StepTypes DEF GInv
  <1>2. pc' \in {"begin", "fetch", "done"} => \A r \in rows' : Behind(r)'
    BY StepBehind
  <1>3. pc' \in {"begin", "fetch", "done"} /\ PrefixesUsable' => \A d \in settled' : Due(d)' => ToCome(d)'
    BY StepToCome
  <1>4. pc' = "begin" => rows' = {}
    BY DEF GInv, Next, Collect, Begin, FetchPage, EndWindow, Fail, Tick, Arrive, Terminated, vars
  <1>5. pc' = "done" => win' = span'.start - 1
    <2>1. CASE EndWindow
      BY <2>1, GraylogAssumption DEF EndWindow, IsLast, GInv, TypeOK, asked
    <2>2. CASE ~EndWindow
      BY <2>2 DEF GInv, Next, Collect, Begin, FetchPage, Fail, Tick, Arrive, Terminated, vars, asked
    <2> QED BY <2>1, <2>2
  <1> QED BY <1>1, <1>2, <1>3, <1>4, <1>5 DEF GInv

\* The inductive invariant: rows are behind the cursor and the window, and what is due
\* and not among them is ahead of the cursor or older than the window.
THEOREM CollectInvariance == Spec => []GInv
  BY InitInv, StepInv, PTL DEF Spec

\* Types of a collect for any index, filter, page size and clock.
THEOREM CollectTypeCorrect == Spec => []TypeOK
  BY CollectInvariance, PTL DEF GInv

\* A finished collect has every document that was there, in range, allowed and alone with
\* its timestamp, whatever arrives and however the clock moves meanwhile.
THEOREM NothingIsMissed == Spec => []NothingMissed
  <1>1. GInv => NothingMissed
    <2> SUFFICES ASSUME GInv, pc = "done", PrefixesUsable,
                        NEW d \in settled, Wanted(d), InSpan(d), Alone(d)
                 PROVE  \E r \in file : r.doc = d
      BY DEF NothingMissed
    <2>1. /\ now \in Nat /\ win \in Nat /\ ts[d] \in Nat
      BY Typing DEF GInv
    <2>2. Lower(win, now) \in Int
      BY <2>1, Bounds
    <2>3. ToCome(d) /\ win = span.start - 1 /\ file = rows
      BY DEF GInv, Due, InSpan, TypeOK
    <2> QED BY <2>1, <2>2, <2>3 DEF ToCome, InSpan
  <1> QED BY <1>1, CollectInvariance, PTL

\* A page repeats nothing of its window, and a window nothing of an earlier one of the
\* same time.
LEMMA StepRepeats == GInv /\ RepeatsNeedTime /\ [Next]_vars => RepeatsNeedTime'
  <1> SUFFICES ASSUME GInv, RepeatsNeedTime, [Next]_vars PROVE RepeatsNeedTime'
    OBVIOUS
  <1>1. ASSUME NEW hits \in SUBSET Matching, FetchPage(hits) PROVE RepeatsNeedTime'
    <2> DEFINE new(d) == [doc |-> d, win |-> win, after |-> cursor, at |-> now]
    <2>0. /\ now \in Nat /\ win \in Nat /\ cursor \in Int
          /\ \A d \in Docs : ts[d] \in Nat
          /\ \A q \in rows : q.doc \in Docs /\ q.win \in Nat /\ q.at \in Nat /\ q.at <= now
      BY Typing DEF GInv
    <2>1. \A d \in hits : d \in Docs /\ cursor < ts[d] /\ ts[d] < Upper(win, now)
      BY DEF Matching, AfterCursor, InWindow, GInv, TypeOK
    <2>2. \A q \in rows : Behind(q)
      BY <1>1 DEF GInv, FetchPage
    <2>3. \A q \in rows' : q \in rows \/ \E d \in hits : q = new(d)
      BY <1>1 DEF FetchPage
    <2>4. ASSUME NEW q \in rows, NEW d \in hits, q.doc = d PROVE q.win < win /\ q.at < now
      <3>1. q.win < win
        BY <2>0, <2>1, <2>2, <2>4 DEF Behind
      <3>2. Lower(q.win, q.at) <= ts[d] /\ ts[d] < Upper(win, now)
        BY <2>1, <2>2, <2>4 DEF Behind
      <3>3. /\ Upper(win, now) <= Lower(q.win, now) /\ Upper(win, now) \in Int
            /\ Lower(q.win, now) \in Int /\ Lower(q.win, q.at) \in Int
            /\ now <= q.at => Lower(q.win, now) <= Lower(q.win, q.at)
        BY <2>0, <3>1, Bounds
      <3> QED BY <2>0, <2>1, <3>1, <3>2, <3>3
    <2>5. SUFFICES ASSUME NEW r \in rows', NEW s \in rows', r.doc = s.doc, r # s
                   PROVE  r.win # s.win /\ (r.win < s.win => r.at < s.at)
      BY DEF RepeatsNeedTime
    <2>6. CASE r \in rows /\ s \in rows
      BY <2>5, <2>6 DEF RepeatsNeedTime
    <2>7. ASSUME r \in rows, NEW d \in hits, s = new(d) PROVE r.win # s.win /\ (r.win < s.win => r.at < s.at)
      <3>1. s.doc = d /\ s.win = win /\ s.at = now
        BY <2>7
      <3> QED BY <2>0, <2>4, <2>5, <2>7, <3>1
    <2>8. ASSUME s \in rows, NEW d \in hits, r = new(d) PROVE r.win # s.win /\ (r.win < s.win => r.at < s.at)
      <3>1. r.doc = d /\ r.win = win
        BY <2>8
      <3> QED BY <2>0, <2>4, <2>5, <2>8, <3>1
    <2>9. ASSUME NEW d \in hits, NEW e \in hits, r = new(d), s = new(e) PROVE FALSE
      <3>1. r.doc = d /\ s.doc = e
        BY <2>9
      <3> QED BY <2>5, <2>9, <3>1
    <2> QED BY <2>3, <2>6, <2>7, <2>8, <2>9
  <1>2. CASE UNCHANGED rows
    BY <1>2 DEF RepeatsNeedTime
  <1> QED BY <1>1, <1>2 DEF Next, Collect, Begin, EndWindow, Fail, Tick, Arrive, Terminated, vars

\* No document is repeated unless the clock moved between the windows it was found in.
THEOREM RepeatsTakeTime == Spec => []RepeatsNeedTime
  <1>1. Init => RepeatsNeedTime
    BY DEF Init, RepeatsNeedTime
  <1> QED BY <1>1, InitInv, StepInv, StepRepeats, PTL DEF Spec
=============================================================================
