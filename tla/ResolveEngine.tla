--------------------------- MODULE ResolveEngine ---------------------------
(***************************************************************************)
(* resolvers/base.py: Resolver.resolve and Resolver.enrich, with the pool  *)
(* of resolver threads, the cache, the output file and Ctrl+C / SIGTERM.   *)
(*                                                                         *)
(* The main thread is `pc`.  It walks the keys twice with `cursor` (cache  *)
(* lookups, then submissions), then takes finished futures in any order.   *)
(* A thread of the pool is a key whose future is "running".  Keys are      *)
(* numbered in sorted order and submitted in that order, so the FIFO queue *)
(* of the executor is the set of "queued" keys, oldest = smallest.         *)
(***************************************************************************)
EXTENDS ResolveFrame, FiniteSets

CONSTANTS
    MaxWorkers,     \* size of the thread pool (--max-workers)
    Inputs,         \* frames a run may start from
    Caches,         \* cache contents a run may start from
    MaxInterrupts   \* bound: signals delivered in one run

\* What earlier runs can have left in the cache: nothing for a key, or a
\* non-empty answer of that key.
CacheContents ==
    {c \in [Keys -> {Unknown} \cup UNION {AnswersOf(k) : k \in Keys}] :
        \A k \in Keys : c[k] # Unknown => c[k] \in AnswersOf(k) \ {Empty}}

ASSUME EngineAssumption ==
    /\ MaxWorkers \in Nat
    /\ Inputs \subseteq [Rows -> [Columns -> {Blank, Given}]]
    /\ Caches \subseteq CacheContents
    /\ MaxInterrupts \in Nat

VARIABLES
    pc,         \* where the main thread is
    cursor,     \* next key of the lookup or the submission loop
    hasKeyColumn, \* whether the CSV has the key column
    input,      \* the frame as read
    df,         \* the frame being enriched
    results,    \* results[k]: answer recorded for k, or Unknown
    misses,     \* keys the cache did not answer
    fut,        \* state of the future of each key
    answer,     \* what the finished lookup of k returned
    current,    \* key of the future the loop is handling, 0 outside
    failed,     \* empty answers counted so far
    cache,      \* cache contents
    file,       \* what is at the output path
    interrupts, \* signals delivered so far
    exited      \* the interpreter has joined the pool and is gone

frameVars == <<input, df, hasKeyColumn>>
poolVars == <<fut, answer>>
vars == <<pc, cursor, hasKeyColumn, input, df, results, misses, fut, answer,
          current, failed, cache, file, interrupts, exited>>

FutureStates == {"none", "queued", "running", "done", "raised", "cancelled"}
InLoop == {"collect", "record", "store"}
Ended == {"done", "saved", "raw", "error"}
PCs == {"start", "lookup", "submit", "apply", "write", "written", "cancel", "salvage", "rewrite", "rewritten"}
         \cup InLoop \cup Ended

Queued == {k \in Keys : fut[k] = "queued"}
Running == {k \in Keys : fut[k] = "running"}
ToEnrich == KeysToEnrich(input)

\* Mutant: one key too many.
MoreKeysOffByOne == cursor <= NumKeys + 1
\* The loop over the keys has not reached its end.
MoreKeys == cursor <= NumKeys

\* Mutant: only a lookup that returned counts as completed.
SucceededFuture(k) == fut[k] = "done"
\* What as_completed yields.
CompletedFuture(k) == fut[k] \in {"done", "raised"}

\* Mutant: the loop stops once the pool has nothing left to do.
AllLookupsOver == \A k \in misses : CompletedFuture(k)
\* The loop ends when every future was handled.
AllHandled == \A k \in misses : results[k] # Unknown

\* Mutants: `any` forgotten, and `all` in its place.
CacheableAlways(a) == TRUE
CacheableFull(a) == Enriched(a)
\* any(result.get(col) for col in RESOLVE_COLUMNS)
Cacheable(a) == \E c \in Columns : a[c] # Blank

\* Mutant: shutdown(wait=False) without cancel_futures.
KeepFutures(f) == f
\* shutdown(wait=False, cancel_futures=True)
CancelFutures(f) == [k \in Keys |-> IF f[k] = "queued" THEN "cancelled" ELSE f[k]]

Init ==
    /\ pc = "start"
    /\ cursor = 1
    /\ hasKeyColumn \in BOOLEAN
    /\ input \in Inputs
    /\ df = input
    /\ results = [k \in Keys |-> Unknown]
    /\ misses = {}
    /\ fut = [k \in Keys |-> "none"]
    /\ answer = [k \in Keys |-> Empty]
    /\ current = 0
    /\ failed = 0
    /\ cache \in Caches
    /\ file = Before
    /\ interrupts = 0
    /\ exited = FALSE
-----------------------------------------------------------------------------
(* The main thread. *)

\* max_workers < 1 or no key column: ValueError before anything happens.
Reject ==
    /\ pc = "start"
    /\ MaxWorkers < 1 \/ ~hasKeyColumn
    /\ pc' = "error"
    /\ UNCHANGED <<cursor, frameVars, results, misses, poolVars, current,
                   failed, cache, file, interrupts, exited>>

\* Missing resolve columns are added, the mask and the keys are computed.  An
\* empty frame, or one with no key left to ask for, goes straight to the write.
Start ==
    /\ pc = "start"
    /\ MaxWorkers >= 1 /\ hasKeyColumn
    /\ pc' = IF ToEnrich = {} THEN "write" ELSE "lookup"
    /\ UNCHANGED <<cursor, frameVars, results, misses, poolVars, current,
                   failed, cache, file, interrupts, exited>>

\* cache.get for the next key.  A read error counts as a miss.
LookupKey ==
    /\ pc = "lookup"
    /\ cursor \in ToEnrich
    /\ cursor' = cursor + 1
    /\ \/ /\ cache[cursor] # Unknown
          /\ results' = [results EXCEPT ![cursor] = cache[cursor]]
          /\ UNCHANGED misses
       \/ /\ misses' = misses \cup {cursor}
          /\ UNCHANGED results
    /\ UNCHANGED <<pc, frameVars, poolVars, current, failed, cache, file, interrupts, exited>>

\* executor.submit for the next miss, while the pool already takes tasks.
SubmitKey ==
    /\ pc = "submit"
    /\ cursor \in misses
    /\ cursor' = cursor + 1
    /\ fut' = [fut EXCEPT ![cursor] = "queued"]
    /\ UNCHANGED <<pc, frameVars, results, misses, answer, current, failed,
                   cache, file, interrupts, exited>>

\* Keys the loop in progress is not about.
SkipKey ==
    /\ \/ pc = "lookup" /\ cursor \notin ToEnrich
       \/ pc = "submit" /\ cursor \notin misses
    /\ MoreKeys
    /\ cursor' = cursor + 1
    /\ UNCHANGED <<pc, frameVars, results, misses, poolVars, current, failed,
                   cache, file, interrupts, exited>>

\* End of a walk over the keys; with no miss the executor is never created.
WalkDone ==
    /\ cursor = NumKeys + 1
    /\ \/ /\ pc = "lookup"
          /\ pc' = IF misses = {} THEN "apply" ELSE "submit"
          /\ cursor' = 1
       \/ pc = "submit" /\ pc' = "collect" /\ UNCHANGED cursor
    /\ UNCHANGED <<frameVars, results, misses, poolVars, current, failed,
                   cache, file, interrupts, exited>>

\* as_completed hands over a finished future not yet handled, in no set order.
Collect(k) ==
    /\ pc = "collect"
    /\ CompletedFuture(k)
    /\ results[k] = Unknown
    /\ current' = k
    /\ pc' = "record"
    /\ UNCHANGED <<cursor, frameVars, results, misses, poolVars, failed,
                   cache, file, interrupts, exited>>

\* future.result(): an exception of the lookup becomes the empty answer.
Record ==
    /\ pc = "record"
    /\ results' = [results EXCEPT ![current] =
                     IF fut[current] = "raised" THEN Empty ELSE answer[current]]
    /\ pc' = "store"
    /\ UNCHANGED <<cursor, frameVars, misses, poolVars, current, failed,
                   cache, file, interrupts, exited>>

\* Non-empty answers are cached (a failing cache is ignored), others counted.
Store ==
    /\ pc = "store"
    /\ IF Cacheable(results[current])
       THEN /\ \/ cache' = [cache EXCEPT ![current] = results[current]]
               \/ UNCHANGED cache
            /\ UNCHANGED failed
       ELSE /\ failed' = failed + 1
            /\ UNCHANGED cache
    /\ current' = 0
    /\ pc' = "collect"
    /\ UNCHANGED <<cursor, frameVars, results, misses, poolVars, file, interrupts, exited>>

\* compute_cache_expiry overflows on a date at the end of the calendar: nothing catches
\* that, and the queue is left as it is.
StoreOverflows ==
    /\ pc = "store"
    /\ Cacheable(results[current])
    /\ pc' = "error"
    /\ UNCHANGED <<cursor, frameVars, results, misses, poolVars, current, failed,
                   cache, file, interrupts, exited>>

\* All futures handled; shutdown(wait=False) and the statistics line.
CollectDone ==
    /\ pc = "collect"
    /\ AllHandled
    /\ pc' = "apply"
    /\ UNCHANGED <<cursor, frameVars, results, misses, poolVars, current, failed,
                   cache, file, interrupts, exited>>

ApplyResults ==
    /\ pc \in {"apply", "salvage"}
    /\ df' = Applied(df, results)
    /\ pc' = IF pc = "apply" THEN "write" ELSE "rewrite"
    /\ UNCHANGED <<cursor, hasKeyColumn, input, results, misses, poolVars, current,
                   failed, cache, file, interrupts, exited>>

\* _write_frame of a finished run, or of the partial frame ResolveInterrupted carries,
\* up to the os.replace of open_output.
WriteFile ==
    /\ pc \in {"write", "rewrite"}
    /\ file' = df
    /\ pc' = IF pc = "write" THEN "written" ELSE "rewritten"
    /\ UNCHANGED <<cursor, frameVars, results, misses, poolVars, current, failed,
                   cache, interrupts, exited>>

\* An OSError, which leaves the target alone, or one of the clean-up after the move.
WriteFails ==
    /\ pc \in {"write", "rewrite", "written", "rewritten"}
    /\ pc' = "error"
    /\ UNCHANGED <<cursor, frameVars, results, misses, poolVars, current, failed,
                   cache, file, interrupts, exited>>

\* resolve returns, or raises ResolveInterrupted again.
Return ==
    /\ pc \in {"written", "rewritten"}
    /\ pc' = IF pc = "written" THEN "done" ELSE "saved"
    /\ UNCHANGED <<cursor, frameVars, results, misses, poolVars, current, failed,
                   cache, file, interrupts, exited>>

\* Mutant: the pool in a `with` block, whose exit waits for every lookup.
CancelAndJoin ==
    /\ pc = "cancel"
    /\ Queued = {} /\ Running = {}
    /\ pc' = "salvage"
    /\ UNCHANGED <<cursor, frameVars, results, misses, poolVars, current, failed,
                   cache, file, interrupts, exited>>

\* The handler of an interrupted loop: shutdown(wait=False, cancel_futures=True).
CancelQueued ==
    /\ pc = "cancel"
    /\ fut' = CancelFutures(fut)
    /\ pc' = "salvage"
    /\ UNCHANGED <<cursor, frameVars, results, misses, answer, current, failed,
                   cache, file, interrupts, exited>>

\* Interpreter exit joins the pool, whose threads empty the queue first.
Exit ==
    /\ pc \in Ended
    /\ ~exited
    /\ Queued = {} /\ Running = {}
    /\ exited' = TRUE
    /\ UNCHANGED <<pc, cursor, frameVars, results, misses, poolVars, current,
                   failed, cache, file, interrupts>>

Main ==
    \/ Reject \/ Start \/ LookupKey \/ SubmitKey \/ SkipKey \/ WalkDone
    \/ (\E k \in Keys : Collect(k)) \/ Record \/ Store \/ StoreOverflows \/ CollectDone
    \/ ApplyResults \/ WriteFile \/ WriteFails \/ Return \/ CancelQueued \/ Exit
-----------------------------------------------------------------------------
(* The pool and the signals. *)

\* An idle thread takes the oldest queued task.
TakeTask(k) ==
    /\ k \in Queued
    /\ \A j \in Queued : k <= j
    /\ Cardinality(Running) < MaxWorkers
    /\ fut' = [fut EXCEPT ![k] = "running"]
    /\ UNCHANGED <<pc, cursor, frameVars, results, misses, answer, current,
                   failed, cache, file, interrupts, exited>>

\* resolve_one returns an answer for its key, or raises.
FinishTask(k) ==
    /\ fut[k] = "running"
    /\ \/ /\ fut' = [fut EXCEPT ![k] = "done"]
          /\ \E a \in AnswersOf(k) : answer' = [answer EXCEPT ![k] = a]
       \/ /\ fut' = [fut EXCEPT ![k] = "raised"]
          /\ UNCHANGED answer
    /\ UNCHANGED <<pc, cursor, frameVars, results, misses, current, failed,
                   cache, file, interrupts, exited>>

\* KeyboardInterrupt in the main thread: caught only around the loop.
Interrupt ==
    /\ interrupts < MaxInterrupts
    /\ pc \notin Ended
    /\ interrupts' = interrupts + 1
    /\ pc' = IF pc \in InLoop THEN "cancel" ELSE "raw"
    /\ UNCHANGED <<cursor, frameVars, results, misses, poolVars, current, failed,
                   cache, file, exited>>

Terminated == exited /\ UNCHANGED vars

Next ==
    \/ Main
    \/ \E k \in Keys : TakeTask(k) \/ FinishTask(k)
    \/ Interrupt
    \/ Terminated

Spec == Init /\ [][Next]_vars

\* The main thread runs; lookups may hang for ever.
HangingSpec == Spec /\ WF_vars(Main)

\* Lookups end: every request of a resolver has a socket timeout.
LookupsEnd == \A k \in Keys : WF_vars(TakeTask(k)) /\ WF_vars(FinishTask(k))
-----------------------------------------------------------------------------
(* Properties. *)

TypeOK ==
    /\ pc \in PCs
    /\ cursor \in 1..(NumKeys + 1)
    /\ hasKeyColumn \in BOOLEAN
    /\ input \in Inputs
    /\ df \in Frame
    /\ results \in [Keys -> Answer \cup {Unknown}]
    /\ misses \subseteq Keys
    /\ fut \in [Keys -> FutureStates]
    /\ answer \in [Keys -> Answer]
    /\ current \in 0..NumKeys
    /\ failed \in Nat
    /\ cache \in [Keys -> Answer \cup {Unknown}]
    /\ file \in Frame \cup {Before}
    /\ interrupts \in 0..MaxInterrupts
    /\ exited \in BOOLEAN

\* Futures finish in any order and several rows share a key, yet no cell, no
\* cache entry and no recorded answer ever holds what was returned for another
\* key, and an empty answer is never cached (enrich, future_to_key and _apply_results).
NoCrossedAnswers ==
    /\ \A k \in Keys : cache[k] # Unknown => cache[k] \in AnswersOf(k) \ {Empty}
    /\ \A k \in Keys : results[k] # Unknown => results[k] \in AnswersOf(k)
    /\ \A r \in Rows, c \in Columns :
          df[r][c] \notin {Blank, Given} => KeyOf[r] # 0 /\ df[r][c] = KeyOf[r]

\* A row that was filled when it was read keeps its cells, in the frame and in
\* the file, also when another row of the same key is looked up (_apply_results).
FilledRowsKept ==
    SkipAlreadyEnriched =>
        \A r \in Rows : Enriched(input[r]) =>
            /\ df[r] = input[r]
            /\ file # Before => file[r] = input[r]

\* A lookup is spent only on a key that an unfilled row asks for and that has
\* no answer yet, from the cache or otherwise.
OnlyMissingKeysLookedUp ==
    \A k \in Keys :
        /\ fut[k] # "none" =>
              \E r \in Rows : KeyOf[r] = k /\ (SkipAlreadyEnriched => ~Enriched(input[r]))
        /\ fut[k] \in {"queued", "running", "cancelled"} => results[k] = Unknown

\* The `failed` of the statistics line counts the looked-up keys whose answer is
\* empty, wherever the loop or an interrupt stands.
FailedCount == failed = Cardinality({k \in misses \ {current} : results[k] = Empty})

\* After the handler of an interrupted loop has cancelled the queue no thread
\* starts another lookup: what still runs was in flight (shutdown, cancel_futures).
CancelStopsLookups ==
    [][(pc \in {"salvage", "rewrite", "rewritten", "saved"}) => Running' \subseteq Running]_vars

\* enrich and resolve do what the contract promises: see ResolveContract.
Outcome == CASE pc = "written" -> "published"
             [] pc = "rewritten" -> "salvaged"
             [] pc = "done" -> "complete"
             [] pc = "saved" -> "partial"
             [] pc \in {"raw", "error"} -> "failed"
             [] OTHER -> "running"

C == INSTANCE ResolveContract WITH known <- results, status <- Outcome

\* The file changes once at most, to the input with the known answers in the rows that
\* asked, all of them unless the loop was interrupted.  A run that is cut short before
\* that leaves it untouched; one that is cut short after it only fails to say so.
ContractHolds == C!CSpec

\* Once the loop is interrupted the run comes to its end although lookups in
\* flight may never return: the handler does not wait for the pool.
InterruptEnds == (pc = "cancel") ~> (pc \in Ended)

\* With lookups that end, every run ends and the process exits: no future is
\* left that the loop or the interpreter waits for in vain.
RunExits == LookupsEnd => <>exited

\* README, "Interrupting is safe": an interrupted run writes everything resolved so far.
InterruptSavesWork == pc = "raw" => file # Before \/ \A k \in Keys : results[k] = Unknown
=============================================================================
