------------------------ MODULE ResolveEngineProofs ------------------------
(***************************************************************************)
(* Proofs about ResolveEngine for any number of keys, rows, columns and    *)
(* threads: the inductive invariant IInv, the safety invariants that       *)
(* follow from it, and that the engine implements ResolveContract.         *)
(***************************************************************************)
EXTENDS ResolveEngine, FiniteSetTheorems, TLAPS

USE FrameAssumption, EngineAssumption

\* Answers, cached entries and recorded results belong to their key.
AnswersInv ==
    /\ \A k \in Keys : answer[k] \in AnswersOf(k)
    /\ \A k \in Keys : cache[k] # Unknown => cache[k] \in AnswersOf(k) \ {Empty}
    /\ \A k \in Keys : results[k] # Unknown => results[k] \in AnswersOf(k)

\* How far the two walks over the keys have come: which keys are answered and
\* which are misses.
WalkInv ==
    /\ misses \subseteq ToEnrich
    /\ pc = "start" => cursor = 1 /\ misses = {} /\ \A k \in Keys : results[k] = Unknown
    /\ pc = "lookup" => \A k \in Keys :
          /\ k < cursor /\ k \in ToEnrich => (k \in misses <=> results[k] = Unknown)
          /\ k >= cursor => k \notin misses /\ results[k] = Unknown
    /\ pc = "submit" => \A k \in misses : results[k] = Unknown
    /\ pc \in {"submit"} \cup InLoop => \A k \in ToEnrich \ misses : results[k] # Unknown
    /\ pc \in {"apply", "write", "written", "done"} => \A k \in ToEnrich : results[k] # Unknown

\* A future exists only for a submitted miss, unanswered until it completes.
FutureInv ==
    /\ pc \in {"start", "lookup"} => \A k \in Keys : fut[k] = "none"
    /\ pc = "submit" => \A k \in Keys : k >= cursor => fut[k] = "none"
    /\ \A k \in Keys : fut[k] # "none" => k \in misses
    /\ \A k \in Keys : fut[k] \in {"queued", "running", "cancelled"} => results[k] = Unknown
    /\ pc \in {"salvage", "rewrite", "rewritten", "saved"} => \A k \in Keys : fut[k] # "queued"

\* The future the loop is handling.
LoopInv ==
    /\ pc \in {"start", "lookup", "submit", "collect"} => current = 0
    /\ pc \in {"record", "store"} => current \in misses /\ CompletedFuture(current)
    /\ pc = "record" => results[current] = Unknown
    /\ pc = "store" => results[current] # Unknown

\* The frame is in place.
Written == {"written", "rewritten", "done", "saved"}

\* The frame is the input until the results are applied, all at once.
FrameInv ==
    /\ pc \in Written \cup {"write", "rewrite"} => df = Applied(input, results)
    /\ pc \in PCs \ (Written \cup {"write", "rewrite", "raw", "error"}) => df = input
    /\ df = input \/ df = Applied(input, results)

\* The file is written last; only a run that was cut short may or may not have done so.
FileInv ==
    /\ pc \in Written => file = df
    /\ pc \notin Written \cup {"raw", "error"} => file = Before
    /\ file \in {Before, df}

IInv == TypeOK /\ AnswersInv /\ WalkInv /\ FutureInv /\ LoopInv /\ FrameInv /\ FileInv
-----------------------------------------------------------------------------
\* The answers of a key are answers, the empty one among them, and are known.
LEMMA AnswersTyped ==
    ASSUME NEW k \in Keys
    PROVE  AnswersOf(k) \subseteq Answer /\ Empty \in AnswersOf(k) /\ Unknown \notin AnswersOf(k)
<1>1. AnswersOf(k) \subseteq Answer
  BY DEF AnswersOf, Answer, Cells
<1>2. Empty \in AnswersOf(k)
  <2> SUFFICES \E S \in SUBSET Columns : Empty = [c \in Columns |-> IF c \in S THEN k ELSE Blank]
    BY DEF AnswersOf
  <2> WITNESS {} \in SUBSET Columns
  <2> QED BY DEF Empty
<1>3. QED BY <1>1, <1>2

\* Writing answers back gives a frame again.
LEMMA AppliedTyped ==
    ASSUME NEW f \in Frame, NEW known \in [Keys -> Answer \cup {Unknown}]
    PROVE  Applied(f, known) \in Frame
<1> SUFFICES ASSUME NEW r \in Rows, KeyOf[r] # 0, known[KeyOf[r]] # Unknown
             PROVE  known[KeyOf[r]] \in Answer
  BY DEF Applied, Frame
<1> QED BY DEF Keys

\* Only keys of the frame are asked for.
LEMMA KeysToEnrichTyped == ASSUME NEW f PROVE KeysToEnrich(f) \subseteq Keys
BY DEF KeysToEnrich, RowsToEnrich, Keys

\* With no answer known, writing back changes nothing.
LEMMA NothingApplied ==
    ASSUME NEW f \in Frame, NEW known, KeysToEnrich(f) = {} \/ \A k \in Keys : known[k] = Unknown
    PROVE  Applied(f, known) = f
<1>1. ASSUME NEW r \in Rows, r \in RowsToEnrich(f), KeyOf[r] # 0
      PROVE  known[KeyOf[r]] = Unknown
  <2>1. KeyOf[r] \in KeysToEnrich(f)
    BY <1>1 DEF KeysToEnrich
  <2>2. KeyOf[r] \in Keys
    BY <1>1 DEF Keys
  <2>3. QED BY <2>1, <2>2
<1>2. f = [r \in Rows |-> f[r]]
  BY DEF Frame
<1>3. QED BY <1>1, <1>2 DEF Applied

\* `any` over the columns tells the empty answer from the others.
LEMMA CacheableMeansNonEmpty ==
    ASSUME NEW a \in Answer PROVE Cacheable(a) <=> a # Empty
BY DEF Cacheable, Answer, Empty

\* Inputs are frames.
LEMMA InputsTyped == Inputs \subseteq Frame
BY DEF Frame, Answer, Cells
-----------------------------------------------------------------------------
\* The inductive invariant holds initially.
LEMMA InitIInv == Init => IInv
<1> SUFFICES ASSUME Init PROVE IInv
  OBVIOUS
<1> USE DEF Init
<1>1. TypeOK
  <2>1. cache \in [Keys -> Answer \cup {Unknown}]
    BY AnswersTyped DEF CacheContents
  <2>2. Empty \in Answer
    BY DEF Empty, Answer, Cells
  <2>3. input \in Inputs /\ df \in Frame
    BY InputsTyped
  <2>4. pc \in PCs /\ cursor \in 1..(NumKeys + 1) /\ fut \in [Keys -> FutureStates]
    BY DEF PCs, FutureStates
  <2>5. answer \in [Keys -> Answer] /\ results \in [Keys -> Answer \cup {Unknown}]
    BY <2>2
  <2>6. misses \subseteq Keys /\ current \in 0..NumKeys /\ failed \in Nat /\ interrupts \in 0..MaxInterrupts
    OBVIOUS
  <2>7. hasKeyColumn \in BOOLEAN /\ exited \in BOOLEAN /\ file \in Frame \cup {Before}
    BY Zenon
  <2>8. QED
    BY <2>1, <2>3, <2>4, <2>5, <2>6, <2>7, Zenon DEF TypeOK
<1>2. AnswersInv
  BY AnswersTyped DEF AnswersInv, CacheContents
<1>3. WalkInv /\ FutureInv /\ LoopInv /\ FileInv
  BY DEF WalkInv, FutureInv, LoopInv, FileInv, Written, InLoop
<1>4. FrameInv
  BY DEF FrameInv, Written, PCs
<1>5. QED BY <1>1, <1>2, <1>3, <1>4 DEF IInv
-----------------------------------------------------------------------------
\* Steps of the main thread that neither answer a key nor touch a future.
LEMMA ControlStepIInv ==
    ASSUME IInv, Reject \/ Start \/ SkipKey \/ WalkDone \/ StoreOverflows \/ CollectDone \/ WriteFails \/ Return \/ Exit \/ Interrupt \/ UNCHANGED vars
    PROVE  IInv'
<1> USE DEF IInv, frameVars, poolVars
<1>u. /\ UNCHANGED <<input, df, hasKeyColumn, results, misses, fut, answer, current, failed, cache, file>>
      /\ ToEnrich' = ToEnrich
      /\ ToEnrich \subseteq Keys
  <2>1. UNCHANGED <<input, df, hasKeyColumn, results, misses, fut, answer, current, failed, cache, file>>
    BY DEF Reject, Start, SkipKey, WalkDone, StoreOverflows, CollectDone, WriteFails, Return, Exit, Interrupt, vars
  <2>2. QED
    BY <2>1, KeysToEnrichTyped DEF ToEnrich
<1>1. /\ pc' \in PCs
      /\ cursor' \in 1..(NumKeys + 1)
      /\ interrupts' \in 0..MaxInterrupts
      /\ exited' \in BOOLEAN
  <2>1. pc' \in PCs
    BY DEF TypeOK, Reject, Start, SkipKey, WalkDone, StoreOverflows, CollectDone, WriteFails, Return, Exit, Interrupt, vars, PCs, InLoop, Ended
  <2>2. cursor' \in 1..(NumKeys + 1)
    BY DEF TypeOK, Reject, Start, SkipKey, WalkDone, StoreOverflows, CollectDone, WriteFails, Return, Exit, Interrupt, vars, MoreKeys
  <2>3. interrupts' \in 0..MaxInterrupts
    BY DEF TypeOK, Reject, Start, SkipKey, WalkDone, StoreOverflows, CollectDone, WriteFails, Return, Exit, Interrupt, vars
  <2>4. exited' \in BOOLEAN
    BY DEF TypeOK, Reject, Start, SkipKey, WalkDone, StoreOverflows, CollectDone, WriteFails, Return, Exit, Interrupt, vars
  <2>5. QED BY <2>1, <2>2, <2>3, <2>4
<1>2. TypeOK'
  BY <1>u, <1>1 DEF TypeOK
<1>3. AnswersInv'
  BY <1>u DEF AnswersInv
<1>4. CASE Reject
  BY <1>u, <1>2, <1>3, <1>4 DEF Reject, WalkInv, FutureInv, LoopInv, FrameInv, FileInv, Written, InLoop,
     CompletedFuture, PCs
<1>5. CASE Start
  <2>1. CASE ToEnrich = {}
    <3>1. Applied(input, results) = input
      BY <2>1, NothingApplied, InputsTyped DEF ToEnrich, TypeOK
    <3>2. pc = "start" /\ pc' = "write"
      BY <1>5, <2>1 DEF Start
    <3>3. WalkInv' /\ FutureInv' /\ LoopInv'
      BY <1>u, <2>1, <3>2 DEF WalkInv, FutureInv, LoopInv, InLoop
    <3>4. FrameInv' /\ FileInv'
      BY <1>u, <3>1, <3>2 DEF FrameInv, FileInv, Written, PCs
    <3>5. QED
      BY <1>2, <1>3, <3>3, <3>4
  <2>2. CASE ToEnrich # {}
    <3>1. pc = "start" /\ pc' = "lookup" /\ cursor' = cursor
      BY <1>5, <2>2 DEF Start
    <3>2. WalkInv'
      BY <1>u, <3>1 DEF WalkInv, InLoop, Keys
    <3>3. FutureInv' /\ LoopInv' /\ FrameInv' /\ FileInv'
      BY <1>u, <3>1 DEF FutureInv, LoopInv, FrameInv, FileInv, Written, PCs
    <3>4. QED
      BY <1>2, <1>3, <3>2, <3>3
  <2>3. QED BY <2>1, <2>2
<1>6. CASE SkipKey
  <2>1. WalkInv'
    BY <1>u, <1>6 DEF SkipKey, WalkInv, InLoop, TypeOK, Keys, MoreKeys
  <2>2. FutureInv'
    BY <1>u, <1>6 DEF SkipKey, FutureInv, TypeOK, Keys, MoreKeys
  <2>3. QED
    BY <1>u, <1>2, <1>3, <1>6, <2>1, <2>2 DEF SkipKey, LoopInv, FrameInv, FileInv, Written, CompletedFuture
<1>7. CASE WalkDone
  <2>1. WalkInv'
    BY <1>u, <1>7 DEF WalkDone, WalkInv, InLoop, TypeOK, Keys
  <2>2. FutureInv'
    BY <1>u, <1>7 DEF WalkDone, FutureInv, TypeOK, Keys
  <2>3. QED
    BY <1>u, <1>2, <1>3, <1>7, <2>1, <2>2
       DEF WalkDone, LoopInv, FrameInv, FileInv, Written, CompletedFuture, PCs, InLoop
<1>8. CASE CollectDone
  BY <1>u, <1>2, <1>3, <1>8 DEF CollectDone, AllHandled, WalkInv, FutureInv, LoopInv, FrameInv,
     FileInv, Written, InLoop, CompletedFuture, PCs
<1>9. CASE Exit
  BY <1>u, <1>2, <1>3, <1>9 DEF Exit, WalkInv, FutureInv, LoopInv, FrameInv, FileInv, Written, InLoop,
     CompletedFuture
<1>10. CASE Interrupt
  BY <1>u, <1>2, <1>3, <1>10 DEF Interrupt, WalkInv, FutureInv, LoopInv, FrameInv, FileInv, Written, InLoop,
     CompletedFuture, Ended, PCs, TypeOK
<1>10a. CASE StoreOverflows
  BY <1>u, <1>2, <1>3, <1>10a DEF StoreOverflows, WalkInv, FutureInv, LoopInv, FrameInv, FileInv, Written, InLoop,
     CompletedFuture, PCs
<1>10b. CASE WriteFails
  BY <1>u, <1>2, <1>3, <1>10b DEF WriteFails, WalkInv, FutureInv, LoopInv, FrameInv, FileInv, Written, InLoop,
     CompletedFuture, PCs
<1>10c. CASE Return
  BY <1>u, <1>2, <1>3, <1>10c DEF Return, WalkInv, FutureInv, LoopInv, FrameInv, FileInv, Written, InLoop,
     CompletedFuture, PCs
<1>11. CASE UNCHANGED vars
  BY <1>u, <1>2, <1>3, <1>11 DEF vars, WalkInv, FutureInv, LoopInv, FrameInv, FileInv, Written, InLoop,
     CompletedFuture
<1>12. QED
  BY <1>4, <1>5, <1>6, <1>7, <1>8, <1>9, <1>10, <1>10a, <1>10b, <1>10c, <1>11

\* The cache lookup of one key: a hit answers it, anything else is a miss.
LEMMA LookupStepIInv == ASSUME IInv, LookupKey PROVE IInv'
<1> USE DEF IInv, frameVars, poolVars
<1>u. /\ UNCHANGED <<pc, input, df, hasKeyColumn, fut, answer, current, failed, cache, file, interrupts, exited>>
      /\ ToEnrich' = ToEnrich /\ ToEnrich \subseteq Keys
      /\ pc = "lookup" /\ cursor \in ToEnrich /\ cursor' = cursor + 1
  BY KeysToEnrichTyped DEF LookupKey, ToEnrich
<1>1. \/ cache[cursor] # Unknown /\ results' = [results EXCEPT ![cursor] = cache[cursor]] /\ misses' = misses
      \/ misses' = misses \cup {cursor} /\ results' = results
  BY DEF LookupKey
<1>2. TypeOK'
  <2>0. cursor \in Keys
    BY <1>u
  <2>1. cursor' \in 1..(NumKeys + 1)
    BY <1>u, <2>0 DEF Keys
  <2>1a. misses' \subseteq Keys
    BY <1>1, <2>0 DEF TypeOK
  <2>2. results' \in [Keys -> Answer \cup {Unknown}]
    BY <1>u, <1>1 DEF TypeOK
  <2>3. QED
    BY <1>u, <2>1, <2>1a, <2>2 DEF TypeOK
<1>3. AnswersInv'
  BY <1>u, <1>1 DEF AnswersInv, TypeOK
<1>4. WalkInv'
  <2>0. cursor \in Keys /\ results \in [Keys -> Answer \cup {Unknown}]
    BY <1>u DEF TypeOK
  <2>1. cursor \notin misses /\ results[cursor] = Unknown
    BY <1>u, <2>0 DEF WalkInv, Keys
  <2>2. ASSUME NEW k \in Keys, k # cursor
        PROVE  (k \in misses' <=> k \in misses) /\ results'[k] = results[k]
    BY <1>1, <2>0, <2>2
  <2>3. cursor \in misses' <=> results'[cursor] = Unknown
    BY <1>1, <2>0, <2>1
  <2>4. ASSUME NEW k \in Keys
        PROVE  /\ k < cursor' /\ k \in ToEnrich => (k \in misses' <=> results'[k] = Unknown)
               /\ k >= cursor' => k \notin misses' /\ results'[k] = Unknown
    BY <1>u, <2>0, <2>2, <2>3 DEF WalkInv, Keys
  <2>5. misses' \subseteq ToEnrich
    BY <1>u, <1>1 DEF WalkInv
  <2>6. QED
    BY <1>u, <2>4, <2>5 DEF WalkInv, InLoop
<1>5. FutureInv' /\ LoopInv' /\ FrameInv' /\ FileInv'
  BY <1>u, <1>1 DEF FutureInv, LoopInv, FrameInv, FileInv, Written, PCs, InLoop
<1>6. QED BY <1>2, <1>3, <1>4, <1>5

\* Steps that move futures: submission, the pool's steps and the cancellation.
LEMMA FutureStepIInv ==
    ASSUME IInv, SubmitKey \/ CancelQueued \/ \E k \in Keys : TakeTask(k) \/ FinishTask(k)
    PROVE  IInv'
<1> USE DEF IInv, frameVars, poolVars
<1>u. /\ UNCHANGED <<input, df, hasKeyColumn, results, misses, current, failed, cache, file, interrupts, exited>>
      /\ ToEnrich' = ToEnrich
  <2>1. UNCHANGED <<input, df, hasKeyColumn, results, misses, current, failed, cache, file, interrupts, exited>>
    BY DEF SubmitKey, CancelQueued, TakeTask, FinishTask
  <2>2. QED BY <2>1 DEF ToEnrich
<1>1. CASE SubmitKey
  <2>1. /\ pc = "submit" /\ pc' = pc /\ cursor \in misses /\ cursor' = cursor + 1
        /\ fut' = [fut EXCEPT ![cursor] = "queued"] /\ answer' = answer
    BY <1>1 DEF SubmitKey
  <2>2. TypeOK'
    BY <1>u, <2>1 DEF TypeOK, Keys, FutureStates
  <2>3. FutureInv'
    BY <1>u, <2>1 DEF FutureInv, WalkInv, TypeOK, Keys
  <2>4. QED
    BY <1>u, <2>1, <2>2, <2>3 DEF AnswersInv, WalkInv, LoopInv, FrameInv, FileInv, Written, InLoop, PCs
<1>2. CASE CancelQueued
  <2>1. /\ pc = "cancel" /\ pc' = "salvage" /\ cursor' = cursor /\ answer' = answer
        /\ fut' = CancelFutures(fut)
    BY <1>2 DEF CancelQueued
  <2>2. TypeOK'
    BY <1>u, <2>1 DEF TypeOK, FutureStates, PCs, CancelFutures
  <2>3. FutureInv'
    BY <1>u, <2>1 DEF FutureInv, TypeOK, CancelFutures
  <2>4. QED
    BY <1>u, <2>1, <2>2, <2>3 DEF AnswersInv, WalkInv, LoopInv, FrameInv, FileInv, Written, InLoop, PCs
<1>3. ASSUME NEW k \in Keys, TakeTask(k) PROVE IInv'
  <2>1. /\ pc' = pc /\ cursor' = cursor /\ answer' = answer
        /\ fut[k] = "queued" /\ fut' = [fut EXCEPT ![k] = "running"]
    BY <1>3 DEF TakeTask, Queued
  <2>2. TypeOK'
    BY <1>u, <2>1 DEF TypeOK, FutureStates
  <2>3. FutureInv'
    BY <1>u, <2>1 DEF FutureInv, TypeOK
  <2>4. LoopInv'
    BY <1>u, <2>1 DEF LoopInv, CompletedFuture, TypeOK
  <2>5. QED
    BY <1>u, <2>1, <2>2, <2>3, <2>4 DEF AnswersInv, WalkInv, FrameInv, FileInv, Written, InLoop
<1>4. ASSUME NEW k \in Keys, FinishTask(k) PROVE IInv'
  <2>1. /\ pc' = pc /\ cursor' = cursor /\ fut[k] = "running"
        /\ \/ fut' = [fut EXCEPT ![k] = "done"]
           \/ fut' = [fut EXCEPT ![k] = "raised"]
        /\ answer' = answer \/ \E a \in AnswersOf(k) : answer' = [answer EXCEPT ![k] = a]
    BY <1>4 DEF FinishTask
  <2>2. answer' \in [Keys -> Answer] /\ \A j \in Keys : answer'[j] \in AnswersOf(j)
    BY <2>1, AnswersTyped DEF TypeOK, AnswersInv
  <2>3. TypeOK'
    BY <1>u, <2>1, <2>2 DEF TypeOK, FutureStates
  <2>4. FutureInv'
    BY <1>u, <2>1 DEF FutureInv, TypeOK
  <2>5. LoopInv'
    BY <1>u, <2>1 DEF LoopInv, CompletedFuture, TypeOK
  <2>6. AnswersInv'
    BY <1>u, <2>2 DEF AnswersInv
  <2>7. QED
    BY <1>u, <2>1, <2>3, <2>4, <2>5, <2>6 DEF WalkInv, FrameInv, FileInv, Written, InLoop
<1>5. QED BY <1>1, <1>2, <1>3, <1>4

\* The loop over the completed futures.
LEMMA LoopStepIInv ==
    ASSUME IInv, (\E k \in Keys : Collect(k)) \/ Record \/ Store
    PROVE  IInv'
<1> USE DEF IInv, frameVars, poolVars
<1>u. /\ UNCHANGED <<cursor, input, df, hasKeyColumn, misses, fut, answer, file, interrupts, exited>>
      /\ ToEnrich' = ToEnrich /\ ToEnrich \subseteq Keys
  <2>1. UNCHANGED <<cursor, input, df, hasKeyColumn, misses, fut, answer, file, interrupts, exited>>
    BY DEF Collect, Record, Store
  <2>2. QED BY <2>1, KeysToEnrichTyped DEF ToEnrich
<1>1. ASSUME NEW k \in Keys, Collect(k) PROVE IInv'
  <2>1. /\ pc = "collect" /\ pc' = "record" /\ current' = k
        /\ CompletedFuture(k) /\ results[k] = Unknown
        /\ UNCHANGED <<results, failed, cache>>
    BY <1>1 DEF Collect
  <2>2. TypeOK'
    BY <1>u, <2>1 DEF TypeOK, PCs, InLoop, Keys
  <2>3. LoopInv'
    BY <1>u, <2>1 DEF LoopInv, CompletedFuture, FutureInv
  <2>4. QED
    BY <1>u, <2>1, <2>2, <2>3 DEF AnswersInv, WalkInv, FutureInv, FrameInv, FileInv, Written, InLoop, PCs
<1>2. CASE Record
  <2> DEFINE a == IF fut[current] = "raised" THEN Empty ELSE answer[current]
  <2>1. /\ pc = "record" /\ pc' = "store" /\ results' = [results EXCEPT ![current] = a]
        /\ UNCHANGED <<current, failed, cache>>
    BY <1>2 DEF Record
  <2>2. current \in misses /\ current \in Keys /\ CompletedFuture(current)
    BY <2>1 DEF LoopInv, TypeOK
  <2>3. a \in AnswersOf(current) /\ a \in Answer /\ a # Unknown
    BY <2>2, AnswersTyped DEF AnswersInv
  <2> HIDE DEF a
  <2>4. TypeOK'
    BY <1>u, <2>1, <2>2, <2>3 DEF TypeOK, PCs, InLoop
  <2>5. AnswersInv'
    BY <1>u, <2>1, <2>2, <2>3 DEF AnswersInv, TypeOK
  <2>6. WalkInv'
    BY <1>u, <2>1, <2>2, <2>3 DEF WalkInv, TypeOK, InLoop
  <2>7. FutureInv' /\ LoopInv'
    BY <1>u, <2>1, <2>2, <2>3 DEF FutureInv, LoopInv, CompletedFuture, TypeOK
  <2>8. QED
    BY <1>u, <2>1, <2>4, <2>5, <2>6, <2>7 DEF FrameInv, FileInv, Written, PCs, InLoop
<1>3. CASE Store
  <2>1. /\ pc = "store" /\ pc' = "collect" /\ current' = 0 /\ results' = results
        /\ failed' \in {failed, failed + 1}
        /\ \/ cache' = cache
           \/ Cacheable(results[current]) /\ cache' = [cache EXCEPT ![current] = results[current]]
    BY <1>3 DEF Store
  <2>2. current \in Keys /\ results[current] \in AnswersOf(current) /\ results[current] \in Answer
    BY <2>1 DEF LoopInv, TypeOK, AnswersInv
  <2>3. TypeOK'
    BY <1>u, <2>1, <2>2 DEF TypeOK, PCs, InLoop
  <2>4. AnswersInv'
    BY <1>u, <2>1, <2>2, CacheableMeansNonEmpty DEF AnswersInv, TypeOK
  <2>5. QED
    BY <1>u, <2>1, <2>3, <2>4 DEF WalkInv, FutureInv, LoopInv, FrameInv, FileInv, Written, PCs, InLoop
<1>4. QED BY <1>1, <1>2, <1>3

\* Writing the results into the frame and the frame to the file.
LEMMA PublishStepIInv == ASSUME IInv, ApplyResults \/ WriteFile PROVE IInv'
<1> USE DEF IInv, frameVars, poolVars
<1>u. /\ UNCHANGED <<cursor, input, hasKeyColumn, results, misses, fut, answer, current, failed, cache,
                     interrupts, exited>>
      /\ ToEnrich' = ToEnrich
  <2>1. UNCHANGED <<cursor, input, hasKeyColumn, results, misses, fut, answer, current, failed, cache,
                    interrupts, exited>>
    BY DEF ApplyResults, WriteFile
  <2>2. QED BY <2>1 DEF ToEnrich
<1>1. CASE ApplyResults
  <2>1. /\ \/ pc = "apply" /\ pc' = "write"
           \/ pc = "salvage" /\ pc' = "rewrite"
        /\ df' = Applied(df, results) /\ file' = file
    BY <1>1 DEF ApplyResults
  <2>2. df = input
    BY <2>1 DEF FrameInv, Written, PCs
  <2>3. df' \in Frame /\ df' = Applied(input, results)
    BY <2>1, <2>2, AppliedTyped DEF TypeOK
  <2>4. TypeOK'
    BY <1>u, <2>1, <2>3 DEF TypeOK, PCs
  <2>5. QED
    BY <1>u, <2>1, <2>3, <2>4
       DEF AnswersInv, WalkInv, FutureInv, LoopInv, FrameInv, FileInv, Written, PCs, InLoop
<1>2. CASE WriteFile
  <2>1. /\ pc \in {"write", "rewrite"} /\ df' = df /\ file' = df
        /\ pc' = IF pc = "write" THEN "written" ELSE "rewritten"
    BY <1>2 DEF WriteFile
  <2>2. TypeOK'
    BY <1>u, <2>1 DEF TypeOK, PCs, Ended
  <2>3. QED
    BY <1>u, <2>1, <2>2
       DEF AnswersInv, WalkInv, FutureInv, LoopInv, FrameInv, FileInv, Written, PCs, InLoop
<1>3. QED BY <1>1, <1>2

\* Every step preserves the invariant.
LEMMA StepIInv == ASSUME IInv, [Next]_vars PROVE IInv'
BY ControlStepIInv, LookupStepIInv, FutureStepIInv, LoopStepIInv, PublishStepIInv
   DEF Next, Main, Terminated

\* The inductive invariant: types, and what each program point of the main thread
\* means for the answers, the futures, the cache and the file.
THEOREM Invariance == Spec => []IInv
<1>1. QED BY InitIInv, StepIInv, PTL DEF Spec

\* TypeOK of ResolveEngine holds in every reachable state.
THEOREM TypeCorrect == Spec => []TypeOK
<1>1. IInv => TypeOK
  BY DEF IInv
<1>2. QED BY <1>1, Invariance, PTL

\* NoCrossedAnswers: threads finish in any order, yet every recorded answer, cache
\* entry and cell belongs to its own key, and no empty answer is cached.
THEOREM AnswersStayWithTheirKey == Spec => []NoCrossedAnswers
<1>1. ASSUME IInv PROVE NoCrossedAnswers
  <2> USE <1>1 DEF IInv
  <2>1. ASSUME NEW r \in Rows, NEW c \in Columns, df[r][c] \notin {Blank, Given}
        PROVE  KeyOf[r] # 0 /\ df[r][c] = KeyOf[r]
    <3>1. input[r][c] \in {Blank, Given}
      BY DEF TypeOK
    <3>2. df = Applied(input, results)
      BY <2>1, <3>1 DEF FrameInv
    <3>3. KeyOf[r] # 0 /\ results[KeyOf[r]] # Unknown /\ df[r] = results[KeyOf[r]]
      BY <2>1, <3>1, <3>2 DEF Applied
    <3>4. KeyOf[r] \in Keys
      BY <3>3 DEF Keys
    <3>5. df[r] \in AnswersOf(KeyOf[r])
      BY <3>3, <3>4 DEF AnswersInv
    <3>6. QED BY <2>1, <3>3, <3>5 DEF AnswersOf
  <2>2. QED BY <2>1 DEF NoCrossedAnswers, AnswersInv
<1>2. QED BY <1>1, Invariance, PTL

\* FilledRowsKept: a row that was filled when read keeps its cells, although other
\* rows of the same key may be looked up and written.
THEOREM FilledRowsStay == Spec => []FilledRowsKept
<1>1. ASSUME IInv PROVE FilledRowsKept
  <2> USE <1>1 DEF IInv
  <2> SUFFICES ASSUME SkipAlreadyEnriched, NEW r \in Rows, Enriched(input[r])
               PROVE  df[r] = input[r] /\ (file # Before => file[r] = input[r])
    BY DEF FilledRowsKept
  <2>1. Applied(input, results)[r] = input[r]
    BY DEF Applied, RowsToEnrich
  <2>2. df[r] = input[r]
    BY <2>1 DEF FrameInv
  <2>3. QED BY <2>2 DEF FileInv
<1>2. QED BY <1>1, Invariance, PTL

\* OnlyMissingKeysLookedUp: a lookup is spent only on a key an unfilled row asks
\* for and for which no answer is known.
THEOREM LookupsAreNeeded == Spec => []OnlyMissingKeysLookedUp
<1>1. ASSUME IInv PROVE OnlyMissingKeysLookedUp
  <2> USE <1>1 DEF IInv
  <2> SUFFICES ASSUME NEW k \in Keys, fut[k] # "none"
               PROVE  \E r \in Rows : KeyOf[r] = k /\ (SkipAlreadyEnriched => ~Enriched(input[r]))
    BY DEF OnlyMissingKeysLookedUp, FutureInv
  <2>1. k \in ToEnrich
    BY DEF FutureInv, WalkInv
  <2>2. QED BY <2>1 DEF ToEnrich, KeysToEnrich, RowsToEnrich
<1>2. QED BY <1>1, Invariance, PTL

\* CancelStopsLookups: once the handler has cancelled the queue, no thread of the
\* pool starts another lookup.
THEOREM CancelledQueueStaysIdle == Spec => CancelStopsLookups
<1>1. ASSUME IInv, [Next]_vars, pc \in {"salvage", "rewrite", "rewritten", "saved"}
      PROVE  Running' \subseteq Running
  <2>1. ASSUME NEW j \in Keys, fut'[j] = "running" PROVE fut[j] = "running"
    <3> USE <1>1, <2>1 DEF IInv
    <3>1. fut \in [Keys -> FutureStates] /\ fut[j] # "queued"
      BY DEF TypeOK, FutureInv
    <3>2. CASE UNCHANGED fut
      BY <3>2
    <3>3. CASE \E k \in Keys : TakeTask(k)
      BY <3>1, <3>3 DEF TakeTask, Queued, FutureInv
    <3>4. CASE \E k \in Keys : FinishTask(k)
      BY <3>1, <3>4 DEF FinishTask
    <3>5. QED
      BY <3>2, <3>3, <3>4 DEF Next, Main, Reject, Start, LookupKey, SubmitKey, SkipKey, WalkDone,
         Collect, Record, Store, StoreOverflows, CollectDone, ApplyResults, WriteFile, WriteFails, Return,
         CancelQueued, Exit, Interrupt, Terminated, vars, poolVars
  <2>2. QED BY <2>1 DEF Running
<1>2. QED BY <1>1, Invariance, PTL DEF Spec, CancelStopsLookups
-----------------------------------------------------------------------------
\* The looked-up keys with an empty answer that have been counted.
Counted == {k \in misses \ {current} : results[k] = Empty}

\* FailedCount: the statistics line counts exactly the lookups without an answer.
THEOREM FailuresAreCounted == Spec => []FailedCount
<1>0. Empty # Unknown /\ Empty \in Answer
  BY DEF Empty, Answer, Cells
<1>1. Init => FailedCount
  <2>1. Init => Counted = {}
    BY DEF Init, Counted
  <2>2. QED BY <2>1, FS_EmptySet DEF Init, FailedCount, Counted
<1>2. ASSUME IInv, FailedCount, [Next]_vars PROVE FailedCount'
  <2> USE <1>2 DEF IInv
  <2>1. SUFFICES \/ Counted' = Counted /\ failed' = failed
                 \/ current \notin Counted /\ Counted' = Counted \cup {current} /\ failed' = failed + 1
    <3>1. IsFiniteSet(Counted) /\ Cardinality(Counted) \in Nat
      <4>1. Counted \subseteq 1..NumKeys
        BY DEF Counted, TypeOK, Keys
      <4>2. IsFiniteSet(1..NumKeys)
        BY FS_Interval
      <4>3. QED BY <4>1, <4>2, FS_Subset, FS_CardinalityType
    <3>2. QED BY <2>1, <3>1, FS_AddElement DEF FailedCount, Counted
  <2>2. CASE UNCHANGED <<misses, current, results, failed>>
    BY <2>2 DEF Counted
  <2>3. CASE LookupKey
    <3>1. /\ failed' = failed /\ current' = current /\ cursor \in Keys /\ cursor \notin misses
          /\ results[cursor] = Unknown
      BY <2>3, KeysToEnrichTyped DEF LookupKey, WalkInv, ToEnrich, Keys
    <3>2. \/ results' = [results EXCEPT ![cursor] = cache[cursor]] /\ misses' = misses
          \/ misses' = misses \cup {cursor} /\ results' = results
      BY <2>3 DEF LookupKey
    <3>3. \A k \in Keys : k # cursor => (k \in misses' <=> k \in misses) /\ results'[k] = results[k]
      BY <3>1, <3>2 DEF TypeOK
    <3>4. cursor \notin misses' \/ results'[cursor] = Unknown
      BY <3>1, <3>2
    <3>5. misses \subseteq Keys /\ misses' \subseteq Keys
      BY <3>1, <3>2 DEF TypeOK
    <3>6. Counted' = Counted
      BY <1>0, <3>1, <3>3, <3>4, <3>5 DEF Counted
    <3>7. QED BY <3>1, <3>6
  <2>4. CASE \E k \in Keys : Collect(k)
    <3>1. PICK k \in Keys : Collect(k)
      BY <2>4
    <3>2. /\ results[k] = Unknown /\ current = 0 /\ current' = k
          /\ UNCHANGED <<misses, results, failed>>
      BY <3>1 DEF Collect, LoopInv
    <3>3. QED BY <1>0, <3>2 DEF Counted, TypeOK, Keys
  <2>5. CASE Record
    <3>1. /\ UNCHANGED <<misses, current, failed>>
          /\ \A k \in Keys \ {current} : results'[k] = results[k]
      BY <2>5 DEF Record, TypeOK
    <3>2. QED BY <3>1 DEF Counted, TypeOK
  <2>6. CASE Store
    <3>1. /\ current \in misses /\ current \in Keys /\ current' = 0
          /\ UNCHANGED <<misses, results>> /\ results[current] \in Answer
      BY <2>6 DEF Store, LoopInv, TypeOK
    <3>2. failed' = IF results[current] = Empty THEN failed + 1 ELSE failed
      BY <2>6, <3>1, CacheableMeansNonEmpty DEF Store
    <3>3. current \notin Counted /\ 0 \notin misses
      BY DEF Counted, TypeOK, Keys
    <3>4. Counted' = IF results[current] = Empty THEN Counted \cup {current} ELSE Counted
      BY <3>1, <3>3 DEF Counted
    <3>5. QED BY <3>2, <3>3, <3>4
  <2>7. CASE \/ Reject \/ Start \/ SubmitKey \/ SkipKey \/ WalkDone \/ StoreOverflows \/ CollectDone
             \/ ApplyResults \/ WriteFile \/ WriteFails \/ Return \/ CancelQueued \/ Exit \/ Interrupt \/ UNCHANGED vars
             \/ \E k \in Keys : TakeTask(k) \/ FinishTask(k)
    <3>1. UNCHANGED <<misses, current, results, failed>>
      BY <2>7 DEF Reject, Start, SubmitKey, SkipKey, WalkDone, StoreOverflows, CollectDone, ApplyResults, WriteFile,
         WriteFails, Return, CancelQueued, Exit, Interrupt, TakeTask, FinishTask, vars, poolVars
    <3>2. QED BY <2>2, <3>1
  <2>8. QED
    BY <2>3, <2>4, <2>5, <2>6, <2>7 DEF Next, Main, Terminated
<1>3. QED BY <1>1, <1>2, Invariance, PTL DEF Spec
-----------------------------------------------------------------------------
\* ContractHolds: threads, cache and interrupts included, resolve does what ResolveContract
\* says: one write at most, of the input with the known answers, and a run that is cut short
\* before it leaves the file alone, one that is cut short after it leaves it as written.
THEOREM EngineImplementsContract == Spec => ContractHolds
<1> USE DEF C!Keys, Keys
<1>o. /\ C!KeysToEnrich(input) = ToEnrich
      /\ C!Applied(input, results) = Applied(input, results)
      /\ \A k \in Keys : C!AnswersOf(k) = AnswersOf(k)
  BY DEF C!KeysToEnrich, C!RowsToEnrich, C!Enriched, C!Applied, C!AnswersOf,
         ToEnrich, KeysToEnrich, RowsToEnrich, Enriched, Applied, AnswersOf
<1>1. Init => C!CInit
  BY DEF Init, C!CInit, Outcome
<1>2. ASSUME IInv, [Next]_vars PROVE [C!CNext]_(C!cvars)
  <2> USE <1>2 DEF IInv
  \* an answer becomes known, from the cache or from the loop
  <2>1. CASE LookupKey
    <3>1. /\ UNCHANGED <<input, file, pc>> /\ pc = "lookup" /\ cursor \in ToEnrich /\ cursor \in Keys
          /\ results[cursor] = Unknown
      BY <2>1, KeysToEnrichTyped DEF LookupKey, frameVars, WalkInv, ToEnrich
    <3>2. UNCHANGED Outcome /\ Outcome = "running"
      BY <3>1 DEF Outcome
    <3>3. CASE cache[cursor] # Unknown /\ results' = [results EXCEPT ![cursor] = cache[cursor]]
      <4>1. C!Learn(cursor)
        BY <1>o, <3>1, <3>2, <3>3 DEF C!Learn, AnswersInv
      <4>2. QED BY <3>1, <4>1 DEF C!CNext
    <3>4. CASE UNCHANGED results
      BY <3>1, <3>2, <3>4 DEF C!cvars
    <3>5. QED BY <2>1, <3>3, <3>4 DEF LookupKey
  <2>2. CASE Record
    <3> DEFINE a == IF fut[current] = "raised" THEN Empty ELSE answer[current]
    <3>1. /\ UNCHANGED <<input, file>> /\ pc = "record" /\ pc' = "store"
          /\ results' = [results EXCEPT ![current] = a]
          /\ current \in Keys /\ current \in ToEnrich /\ results[current] = Unknown
      BY <2>2, KeysToEnrichTyped DEF Record, frameVars, WalkInv, ToEnrich, LoopInv
    <3>2. UNCHANGED Outcome /\ Outcome = "running"
      BY <3>1 DEF Outcome
    <3>3. a \in AnswersOf(current)
      BY <3>1, AnswersTyped DEF AnswersInv
    <3> HIDE DEF a
    <3>4. C!Learn(current)
      BY <1>o, <3>1, <3>2, <3>3 DEF C!Learn
    <3>5. QED BY <3>1, <3>4 DEF C!CNext
  \* the file is written
  <2>3. CASE WriteFile
    <3>1. /\ UNCHANGED <<input, results>> /\ pc \in {"write", "rewrite"} /\ file' = Applied(input, results)
          /\ Outcome = "running"
      BY <2>3 DEF WriteFile, frameVars, FrameInv, Outcome
    <3>2. CASE pc = "write" /\ pc' = "written"
      <4>1. Outcome' = "published" /\ \A k \in ToEnrich : results[k] # Unknown
        BY <3>2 DEF Outcome, WalkInv
      <4>2. C!Publish
        BY <1>o, <3>1, <4>1 DEF C!Publish
      <4>3. QED BY <4>2 DEF C!CNext
    <3>3. CASE pc = "rewrite" /\ pc' = "rewritten"
      <4>1. Outcome' = "salvaged"
        BY <3>3 DEF Outcome
      <4>2. C!Salvage
        BY <1>o, <3>1, <4>1 DEF C!Salvage
      <4>3. QED BY <4>2 DEF C!CNext
    <3>4. QED BY <2>3, <3>2, <3>3 DEF WriteFile
  \* the run ends, or is cut short
  <2>4. CASE Return
    <3>1. /\ UNCHANGED <<input, results, file>>
          /\ \/ pc = "written" /\ pc' = "done"
             \/ pc = "rewritten" /\ pc' = "saved"
      BY <2>4 DEF Return, frameVars
    <3>2. \/ Outcome = "published" /\ Outcome' = "complete"
          \/ Outcome = "salvaged" /\ Outcome' = "partial"
      BY <3>1 DEF Outcome
    <3>3. C!Finish
      BY <3>1, <3>2 DEF C!Finish
    <3>4. QED BY <3>3 DEF C!CNext
  <2>4a. CASE Reject \/ StoreOverflows \/ WriteFails \/ Interrupt
    <3>1. UNCHANGED <<input, results, file>>
      BY <2>4a DEF Reject, StoreOverflows, WriteFails, Interrupt, frameVars
    <3>2. CASE Interrupt /\ pc \in InLoop
      <4>1. Outcome' = Outcome
        BY <3>2 DEF Interrupt, Outcome, InLoop
      <4>2. QED BY <3>1, <4>1 DEF C!cvars
    <3>3. CASE ~(Interrupt /\ pc \in InLoop)
      <4>1. pc \notin Ended /\ pc' \in {"raw", "error"}
        BY <2>4a, <3>3 DEF Reject, StoreOverflows, WriteFails, Interrupt, Ended
      <4>2. Outcome \in {"running", "published", "salvaged"} /\ Outcome' = "failed"
        BY <4>1 DEF Outcome, Ended
      <4>3. QED BY <3>1, <4>2 DEF C!Fail, C!CNext
    <3>4. QED BY <3>2, <3>3
  \* everything else is invisible to the caller
  <2>5. CASE \/ Start \/ SubmitKey \/ SkipKey \/ WalkDone \/ (\E k \in Keys : Collect(k)) \/ Store
             \/ CollectDone \/ ApplyResults \/ CancelQueued \/ Exit \/ UNCHANGED vars
             \/ \E k \in Keys : TakeTask(k) \/ FinishTask(k)
    <3>1. UNCHANGED <<input, results, file>>
      BY <2>5 DEF Start, SubmitKey, SkipKey, WalkDone, Collect, Store, CollectDone, ApplyResults,
         CancelQueued, Exit, TakeTask, FinishTask, vars, frameVars
    <3>2. UNCHANGED Outcome
      BY <2>5 DEF Start, SubmitKey, SkipKey, WalkDone, Collect, Store, CollectDone, ApplyResults,
         CancelQueued, Exit, TakeTask, FinishTask, vars, Outcome
    <3>3. QED BY <3>1, <3>2 DEF C!cvars
  <2>6. QED
    BY <2>1, <2>2, <2>3, <2>4, <2>4a, <2>5 DEF Next, Main, Terminated
<1>3. QED BY <1>1, <1>2, Invariance, PTL DEF Spec, ContractHolds, C!CSpec
=============================================================================
