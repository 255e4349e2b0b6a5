--------------------------- MODULE GraylogCollect ---------------------------
(***************************************************************************)
(* sources/graylog.py, sources/base.py, stages/collect.py: the collect     *)
(* stage pulls the documents of the last `start` time units, up to `end`   *)
(* units ago, window by window from the newest to the oldest, and every    *)
(* window page by page.  The server evaluates the bounds of a window, which*)
(* are relative to its clock, anew at every request, while documents keep  *)
(* arriving, also with old timestamps.                                     *)
(*                                                                         *)
(* A page is sorted by timestamp alone; in which order the server returns  *)
(* documents of the same timestamp is its choice.  The server keeps to its *)
(* side: a reply that is no error holds all that it should, and a hit has  *)
(* its sort value.  The code looks for neither: it takes a partial reply   *)
(* (timed_out, failed shards) for a page and ends a window at a hit        *)
(* without sort.                                                           *)
(***************************************************************************)
EXTENDS Subnets, FiniteSets

CONSTANTS
    Docs,           \* documents of the stream
    Src,            \* source address of each, or NoAddress
    Stamps,         \* timestamps the documents may have
    Public,         \* documents whose destination is a public IPv4 address
    Settings,       \* address filters that may be configured
    Spans,          \* values of --start and --end
    Unit,           \* clock ticks of a time unit
    SearchSize,     \* documents of a page
    Began,          \* the clock when the run begins
    MaxTime         \* bound: the clock

NoAddress == <<>>     \* a SrcIP that is no IPv4 address
Modes == {"or", "and"}

ASSUME GraylogAssumption ==
    /\ IsFiniteSet(Docs)
    /\ Src \in [Docs -> Addresses \cup {NoAddress}] /\ Public \subseteq Docs
    /\ Stamps \subseteq [Docs -> 0..MaxTime]
    /\ Settings \subseteq [list : SUBSET Addresses, nets : SUBSET Networks, mode : Modes]
    /\ Spans \subseteq [start : Nat, end : Nat]
    /\ Unit \in Nat \ {0} /\ SearchSize \in Nat \ {0}
    /\ Began \in Nat /\ MaxTime \in Nat /\ Began <= MaxTime

VARIABLES
    conf,       \* GRAYLOG__SRC_IP_LIST, _CIDR and _MATCH_MODE
    span,       \* --start and --end
    ts,         \* timestamp of each document
    settled,    \* documents the index held when the run began
    indexed,    \* documents the index holds
    now,        \* the server's clock
    pc,         \* "fetch", or how the run ended
    win,        \* age of the current window, in units
    cursor,     \* search_after
    rows,       \* rows of the temporary output, with window, cursor and time of each
    file        \* what is at -o

vars == <<conf, span, ts, settled, indexed, now, pc, win, cursor, rows, file>>
asked == <<conf, span, ts, settled>>    \* what a run does not change

Times == 0..MaxTime
NoCursor == -1
Old == {}       \* before the run: another document

Init ==
    /\ conf \in Settings
    /\ span \in Spans
    /\ ts \in Stamps
    /\ settled \in SUBSET Docs
    /\ indexed = settled
    /\ now = Began
    /\ pc = "begin"
    /\ win = span.end
    /\ cursor = NoCursor
    /\ rows = {}
    /\ file = Old
-----------------------------------------------------------------------------
(* Which documents. *)

\* _build_payload: the terms query on the list, the prefix queries on the subnets.
Listed(ip) == ip \in conf.list
Prefixed(ip) == \E net \in conf.nets : PrefixMatches(ip, net)
InSubnets(ip) == \E net \in conf.nets : In(ip, net)

\* Both filters combined: one that is not configured does not count, and with none
\* every address passes.
Combined(listed, inSubnets) ==
    IF conf.list # {} /\ conf.nets # {} /\ conf.mode = "or" THEN listed \/ inSubnets
    ELSE (conf.list # {} => listed) /\ (conf.nets # {} => inSubnets)

\* What the server returns, the time range aside; only without a filter is that also
\* a document whose source is no address.
Served(d) ==
    IF Src[d] = NoAddress THEN conf.list = {} /\ conf.nets = {}
    ELSE Combined(Listed(Src[d]), Prefixed(Src[d]))

\* What fetch_window keeps of it.
Wanted(d) ==
    /\ Src[d] # NoAddress
    /\ d \in Public
    /\ Combined(Listed(Src[d]), InSubnets(Src[d]))
-----------------------------------------------------------------------------
(* Which window and page. *)

\* build_time_expr: the bounds of the window that is k units old, at time t.
Lower(k, t) == t - (k + 1) * Unit
Upper(k, t) == t - k * Unit

\* Mutant: documents of the last page's timestamp are asked for again.
FromCursor(d) == ts[d] >= cursor
\* search_after.
AfterCursor(d) == ts[d] > cursor

\* Mutant: both bounds belong to the window.
InClosedWindow(d) == Lower(win, now) <= ts[d] /\ ts[d] <= Upper(win, now)
\* gte and lt of the range query.
InWindow(d) == Lower(win, now) <= ts[d] /\ ts[d] < Upper(win, now)

\* What a request made now matches.
Matching == {d \in indexed : Served(d) /\ InWindow(d) /\ AfterCursor(d)}

\* The server returns the SearchSize first of them by timestamp.
IsPage(hits) ==
    /\ hits \subseteq Matching
    /\ Cardinality(hits) <= SearchSize
    /\ Cardinality(hits) = SearchSize \/ hits = Matching
    /\ \A d \in hits, e \in Matching \ hits : ts[d] <= ts[e]
-----------------------------------------------------------------------------
\* build_time_windows: an empty span is an error, before the output is opened.
Begin ==
    /\ pc = "begin"
    /\ pc' = IF span.start <= span.end THEN "failed" ELSE "fetch"
    /\ UNCHANGED <<asked, indexed, now, win, cursor, rows, file>>

\* One page: the rows that pass the client's filter are written, and the sort value of
\* the last document is the next search_after.
FetchPage(hits) ==
    /\ pc = "fetch"
    /\ hits # {}
    /\ IsPage(hits)
    /\ rows' = rows \cup {[doc |-> d, win |-> win, after |-> cursor, at |-> now] : d \in {h \in hits : Wanted(h)}}
    /\ \E last \in hits : (\A d \in hits : ts[d] <= ts[last]) /\ cursor' = ts[last]
    /\ UNCHANGED <<asked, indexed, now, pc, win, file>>

\* Mutant: the cursor of the last window is kept.
KeptCursor == cursor
\* A window starts without search_after.
FreshCursor == NoCursor

\* Mutant: one window too many.
IsPastLast(k) == k >= span.start
\* That was the last window.
IsLast(k) == k + 1 >= span.start

\* An empty page ends the window; after the last one the output is put in place.
EndWindow ==
    /\ pc = "fetch"
    /\ IsPage({})
    /\ IF IsLast(win)
       THEN pc' = "done" /\ file' = rows /\ UNCHANGED <<win, cursor>>
       ELSE /\ win' = win + 1
            /\ cursor' = FreshCursor
            /\ UNCHANGED <<pc, file>>
    /\ UNCHANGED <<asked, indexed, now, rows>>

\* A request fails or times out, or a signal arrives: there is no retry.
Fail ==
    /\ pc = "fetch"
    /\ pc' = "failed"
    /\ UNCHANGED <<asked, indexed, now, win, cursor, rows, file>>

\* The server meanwhile.
Arrive(d) ==
    /\ pc = "fetch"
    /\ d \notin indexed
    /\ indexed' = indexed \cup {d}
    /\ UNCHANGED <<asked, now, pc, win, cursor, rows, file>>

Tick ==
    /\ pc = "fetch"
    /\ now < MaxTime
    /\ now' = now + 1
    /\ UNCHANGED <<asked, indexed, pc, win, cursor, rows, file>>

Collect == Begin \/ EndWindow \/ \E hits \in SUBSET Matching : FetchPage(hits)

Terminated == pc \in {"done", "failed"} /\ UNCHANGED vars

Next == Collect \/ Fail \/ Tick \/ (\E d \in Docs : Arrive(d)) \/ Terminated

Spec == Init /\ [][Next]_vars

\* The process runs on and the server answers its requests.
FairSpec == Spec /\ WF_vars(Collect)
-----------------------------------------------------------------------------
(* Properties. *)

TypeOK ==
    /\ conf \in Settings /\ span \in Spans
    /\ ts \in Stamps
    /\ settled \subseteq indexed /\ indexed \subseteq Docs
    /\ now \in Began..MaxTime
    /\ pc \in {"begin", "fetch", "done", "failed"}
    /\ win \in Nat /\ (pc = "begin" => win = span.end)
    /\ (pc \in {"fetch", "done"} => win \in span.end..(span.start - 1))
    /\ cursor \in Times \cup {NoCursor}
    /\ rows \subseteq [doc : Docs, win : Nat, after : Times \cup {NoCursor}, at : Began..now]
    /\ file = IF pc = "done" THEN rows ELSE Old

\* A document is written twice only if the clock moved between the windows it was found
\* in: neither the pages of a window overlap nor, at one time, the windows do.
RepeatsNeedTime ==
    \A r, s \in rows : r.doc = s.doc /\ r # s =>
        r.win # s.win /\ (r.win < s.win => r.at < s.at)

\* Every subnet keeps an octet in its prefix query.
PrefixesUsable == \A net \in conf.nets : net.len >= OctetBits

\* No document the server returns has the same timestamp.
Alone(d) == \A e \in indexed \ {d} : Served(e) => ts[e] # ts[d]

\* Old enough when the run began and not too old when it ended.
InSpan(d) == Lower(span.start - 1, now) <= ts[d] /\ ts[d] < Upper(span.end, Began)

\* A finished run has every document that was indexed before it, is in its time span
\* and passes the filter, however long the run took and whatever arrived meanwhile:
\* the moving windows overlap but leave no gap, no page skips one, and the server's
\* coarse filter loses none.  Except documents that share their timestamp, which a
\* page boundary can separate, and subnets so wide that their prefix is empty.
NothingMissed ==
    pc = "done" /\ PrefixesUsable =>
        \A d \in settled : Wanted(d) /\ InSpan(d) /\ Alone(d) => \E r \in file : r.doc = d

\* A run comes to an end, also while documents arrive (finitely many, as MaxTime bounds
\* the clock): every page moves the cursor on.
CollectEnds == <>(pc \in {"done", "failed"})
=============================================================================
