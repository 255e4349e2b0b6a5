------------------------ MODULE PipelineRunnerProofs ------------------------
(***************************************************************************)
(* Proofs about PipelineRunner for any set of pipelines, any subnets and   *)
(* any number of signals: types, what a failing run leaves of the output,  *)
(* and what a kill leaves to resume from.  The engines do not share state, *)
(* so the invariant is one of each engine.                                 *)
(***************************************************************************)
EXTENDS PipelineRunner, WellFoundedInduction, TLAPS

USE PipelinesAssumption

\* Every variable but job is a function of the engines.
Shape ==
    /\ pc = [e \in Engines |-> pc[e]] /\ idx = [e \in Engines |-> idx[e]]
    /\ frame = [e \in Engines |-> frame[e]] /\ split = [e \in Engines |-> split[e]]
    /\ temps = [e \in Engines |-> temps[e]] /\ out = [e \in Engines |-> out[e]]
    /\ dir = [e \in Engines |-> dir[e]] /\ hint = [e \in Engines |-> hint[e]]
    /\ interrupts = [e \in Engines |-> interrupts[e]]

TypeInv(e) ==
    /\ pc[e] \in PCs
    /\ idx[e] \in 1..(Total + 1)
    /\ frame[e] \in Frames /\ Len(frame[e]) <= Total + 1
    /\ split[e] \in 0..Total
    /\ temps[e] \subseteq 1..Total
    /\ out[e] \in Seq(Frames) /\ Len(out[e]) <= 2
    /\ dir[e] \in [Nets -> {None, frame[e]}]
    /\ hint[e] \in {"none", "out", "dir"}
    /\ interrupts[e] \in 0..MaxInterrupts

\* Where the engine is, what it has and what it has published go together.
FlowInv(e) ==
    /\ pc[e] = "start" => idx[e] = 1 /\ split[e] = 0 /\ temps[e] = {}
    /\ pc[e] = "step" => WellFormed /\ idx[e] <= Total /\ Len(frame[e]) <= idx[e]
    /\ pc[e] \in {"start", "step"} => out[e] = <<>>
    /\ pc[e] \in {"finalize", "salvage"} => Len(out[e]) <= 1
    /\ pc[e] = "finalize" /\ out[e] # <<>> => e = "streaming" /\ split[e] = 0
    /\ pc[e] = "split" => out[e] = <<>>
    /\ pc[e] \in {"salvage", "splitPartial"} => interrupts[e] > 0
    /\ pc[e] \in Failed /\ interrupts[e] = 0 /\ ~LeadingMerge => out[e] = <<>>

\* Subnet files are written on request, last.
SplitInv(e) ==
    /\ split[e] # 0 => steps[split[e]].outDir
    /\ pc[e] \in {"split", "splitPartial"} => split[e] # 0
    /\ pc[e] \in {"start", "step", "finalize", "salvage"} => \A n \in Nets : dir[e][n] = None
    /\ \A n \in Nets : dir[e][n] # None => split[e] # 0

\* The files of finished steps are there until the run leaves.
TempsInv(e) ==
    /\ e = "streaming" /\ pc[e] \notin Ended \ {"killed"} => \A i \in 1..(idx[e] - 1) : i \in temps[e] \/ i = Total
    /\ pc[e] \in Ended \ {"killed", "cut"} => temps[e] = {}

EngineInv(e) == TypeInv(e) /\ FlowInv(e) /\ SplitInv(e) /\ TempsInv(e)
Inv == job \in Jobs /\ Shape /\ \A e \in Engines : EngineInv(e)

\* The steps of a job are a list of steps.
LEMMA Steps_ == ASSUME job \in Jobs PROVE steps \in Seq(Steps) /\ Total \in Nat /\ \A i \in 1..Total : steps[i] \in Steps
BY DEF Jobs, steps, Total

\* A set of numbers that is not empty has a least.
LEMMA Least ==
    ASSUME NEW S, S \subseteq Nat, S # {}
    PROVE  \E x \in S : \A y \in S : x <= y
<1>1. IsWellFoundedOn(OpToRel(<, Nat), Nat)
  BY NatLessThanWellFounded
<1>2. PICK x \in S : \A y \in S : <<y, x>> \notin OpToRel(<, Nat)
  BY <1>1, WFMin
<1>3. OpToRel(<, Nat) = {ss \in Nat \X Nat : ss[1] < ss[2]}
  BY DEF OpToRel
<1>4. ASSUME NEW y \in S PROVE x <= y
  <2>1. x \in Nat /\ y \in Nat /\ <<y, x>> \in Nat \X Nat
    OBVIOUS
  <2>2. ~ (y < x)
    BY <1>2, <1>3, <2>1
  <2>3. QED BY <2>1, <2>2
<1>5. QED BY <1>4

\* A set of numbers up to n that is not empty has a greatest.
LEMMA Greatest ==
    ASSUME NEW n \in Nat, NEW S, S \subseteq 1..n, S # {}
    PROVE  \E i \in S : \A j \in S : j <= i
<1> DEFINE D == {n - i : i \in S}
<1>1. D \subseteq Nat /\ D # {}
  <2>1. PICK i \in S : TRUE
    OBVIOUS
  <2>2. n - i \in D
    OBVIOUS
  <2>3. \A j \in S : n - j \in Nat
    OBVIOUS
  <2>4. D \subseteq Nat
    BY <2>3
  <2>5. QED BY <2>2, <2>4
<1>2. \E x \in D : \A y \in D : x <= y
  <2> HIDE DEF D
  <2>1. QED BY <1>1, Least
<1>3. PICK x \in D : \A y \in D : x <= y
  BY <1>2
<1>4. PICK i \in S : x = n - i
  BY <1>3
<1>5. ASSUME NEW j \in S PROVE j <= i
  <2>1. n - j \in D
    OBVIOUS
  <2>2. n - i <= n - j
    BY <1>3, <1>4, <2>1
  <2>3. QED BY <2>2
<1>6. QED BY <1>5

\* The requested split is that of a step that asks for one, if any does.
LEMMA Requested ==
    ASSUME job \in Jobs
    PROVE  /\ RequestedBy(Total) \in 0..Total
           /\ RequestedBy(Total) # 0 => steps[RequestedBy(Total)].outDir
           /\ \A i \in 1..Total : steps[i].outDir => RequestedBy(Total) # 0
<1> DEFINE asking == {i \in 1..Total : steps[i].outDir}
<1>0. Total \in Nat
  BY Steps_
<1>1. CASE asking = {}
  BY <1>0, <1>1 DEF RequestedBy
<1>2. CASE asking # {}
  <2>1. \E i \in asking : \A j \in asking : j <= i
    BY <1>0, <1>2, Greatest
  <2>2. RequestedBy(Total) = CHOOSE i \in asking : \A j \in asking : j <= i
    BY <1>2 DEF RequestedBy
  <2>3. RequestedBy(Total) \in asking
    BY <2>1, <2>2
  <2>4. QED BY <1>0, <2>3
<1>3. QED BY <1>1, <1>2
-----------------------------------------------------------------------------
\* An engine the step leaves as it is.
Same(d) ==
    /\ pc'[d] = pc[d] /\ idx'[d] = idx[d] /\ frame'[d] = frame[d] /\ split'[d] = split[d]
    /\ temps'[d] = temps[d] /\ out'[d] = out[d] /\ dir'[d] = dir[d] /\ hint'[d] = hint[d]
    /\ interrupts'[d] = interrupts[d]

\* A step of engine e and of no other.
Alone(e) == job' = job /\ Shape' /\ \A d \in Engines : d # e => Same(d)

\* The inputs a proof about a step of e starts from.
Acts(e) == Start(e) \/ RunStep(e) \/ Fail(e) \/ FailMerge(e) \/ Finalize(e) \/ SplitDone(e)
             \/ (\E n \in Nets : WriteNet(e, n)) \/ InterruptResolve(e) \/ InterruptElsewhere(e) \/ Kill(e)

\* Every action of an engine touches that engine only.
LEMMA ActsAlone == ASSUME Inv, NEW e \in Engines, Acts(e) PROVE Alone(e)
<1> USE DEF Inv, Shape, Alone, Same, Goto, Leave
<1>1. CASE Start(e)
  BY <1>1 DEF Start
<1>2. CASE RunStep(e)
  BY <1>2 DEF RunStep, StepOutput
<1>3. CASE Fail(e)
  BY <1>3 DEF Fail
<1>4. CASE FailMerge(e)
  BY <1>4 DEF FailMerge
<1>5. CASE Finalize(e)
  BY <1>5 DEF Finalize
<1>6. CASE SplitDone(e)
  BY <1>6 DEF SplitDone
<1>7. ASSUME NEW n \in Nets, WriteNet(e, n) PROVE Alone(e)
  BY <1>7 DEF WriteNet
<1>8. CASE InterruptResolve(e)
  BY <1>8 DEF InterruptResolve, StepOutput
<1>9. CASE InterruptElsewhere(e)
  BY <1>9 DEF InterruptElsewhere
<1>10. CASE Kill(e)
  BY <1>10 DEF Kill
<1>11. QED BY <1>1, <1>2, <1>3, <1>4, <1>5, <1>6, <1>7, <1>8, <1>9, <1>10 DEF Acts

\* So the invariant of the other engine stays.
LEMMA Untouched ==
    ASSUME NEW d \in Engines, EngineInv(d), Same(d), job' = job
    PROVE  EngineInv(d)'
<1> USE DEF EngineInv, Same, steps, Total
<1>1. TypeInv(d)'
  BY DEF TypeInv
<1>2. FlowInv(d)'
  BY DEF FlowInv, WellFormed, LeadingMerge
<1>3. SplitInv(d)'
  BY DEF SplitInv
<1>4. TempsInv(d)'
  BY DEF TempsInv
<1>5. QED BY <1>1, <1>2, <1>3, <1>4
-----------------------------------------------------------------------------
\* The step a well-formed job is at is that of a stage.
LEMMA StageOfStep ==
    ASSUME Inv, NEW e \in Engines, pc[e] = "step"
    PROVE  steps[idx[e]].name \in Stages
BY Steps_ DEF Inv, EngineInv, TypeInv, FlowInv, WellFormed

\* What a run starts from is a frame of at most one mark.
LEMMA SourceFrame == ASSUME NEW e \in Engines PROVE Source(e) \in Frames /\ Len(Source(e)) <= 1
<1>1. "input" \in Marks
  BY DEF Marks
<1>2. CASE Source(e) = <<"input">>
  BY <1>1, <1>2 DEF Frames
<1>3. CASE Source(e) = <<>>
  BY <1>3 DEF Frames
<1>4. QED BY <1>2, <1>3 DEF Source, None

\* Each action keeps the invariant of its engine.  First the start.
LEMMA StartKeeps == ASSUME Inv, NEW e \in Engines, Start(e) PROVE EngineInv(e)'
<1> USE DEF Inv, Shape, EngineInv, TypeInv, FlowInv, SplitInv, TempsInv, Start, Goto
<1>0. Total \in Nat /\ Total' = Total /\ steps' = steps
  BY Steps_ DEF steps, Total
<1>1. Source(e) \in Frames /\ Len(Source(e)) <= 1
  BY SourceFrame
<1>2. CASE ~(~WellFormed \/ (e = "streaming" /\ \E i \in 1..Total : ~steps[i].valid))
  <2>1. split'[e] \in 0..Total /\ (split'[e] # 0 => steps[split'[e]].outDir)
    BY <1>0, <1>2, Requested
  <2>2. /\ pc'[e] = "step" /\ frame'[e] = Source(e) /\ idx'[e] = 1 /\ temps'[e] = {} /\ out'[e] = <<>>
        /\ dir'[e] = dir[e] /\ hint'[e] = hint[e] /\ interrupts'[e] = interrupts[e]
    BY <1>2
  <2>3. \A n \in Nets : dir[e][n] = None
    OBVIOUS
  <2>4. Total >= 1 /\ WellFormed'
    BY <1>0, <1>2 DEF WellFormed
  <2>5. TypeInv(e)'
    BY <1>0, <1>1, <2>1, <2>2, <2>3, <2>4 DEF PCs
  <2>6. FlowInv(e)'
    BY <1>0, <1>1, <2>2, <2>4 DEF Failed
  <2>7. SplitInv(e)' /\ TempsInv(e)'
    BY <1>0, <2>1, <2>2, <2>3 DEF Ended, Failed
  <2>8. QED BY <2>5, <2>6, <2>7
<1>3. CASE ~WellFormed \/ (e = "streaming" /\ \E i \in 1..Total : ~steps[i].valid)
  <2>2. /\ pc'[e] = "failed" /\ frame'[e] = frame[e] /\ idx'[e] = 1 /\ temps'[e] = {} /\ out'[e] = <<>>
        /\ dir'[e] = dir[e] /\ hint'[e] = hint[e] /\ interrupts'[e] = interrupts[e] /\ split'[e] = split[e]
    BY <1>3
  <2>5. TypeInv(e)'
    BY <1>0, <2>2 DEF PCs, Ended, Failed
  <2>6. FlowInv(e)'
    BY <1>0, <2>2 DEF Failed
  <2>7. SplitInv(e)' /\ TempsInv(e)'
    BY <1>0, <2>2 DEF Ended, Failed
  <2>8. QED BY <2>5, <2>6, <2>7
<1>4. QED BY <1>2, <1>3

\* Where a streaming step leaves its result: -o only by the last step of a run without
\* split, a file of its own otherwise.
LEMMA OutputOfStep ==
    ASSUME Inv, NEW e \in Engines, pc[e] = "step", NEW f \in Frames, StepOutput(e, f)
    PROVE  /\ out'[e] \in Seq(Frames) /\ Len(out'[e]) <= 1
           /\ temps'[e] \subseteq 1..Total
           /\ out'[e] # <<>> => e = "streaming" /\ split[e] = 0 /\ idx[e] = Total
           /\ e = "streaming" => \A i \in 1..idx[e] : i \in temps'[e] \/ i = Total
<1> USE DEF Inv, Shape, EngineInv, TypeInv, FlowInv, SplitInv, TempsInv
<1>0. Total \in Nat
  BY Steps_
<1>1. /\ out[e] = <<>> /\ temps[e] \subseteq 1..Total /\ idx[e] \in 1..Total
      /\ e = "streaming" => \A i \in 1..(idx[e] - 1) : i \in temps[e] \/ i = Total
  <2>1. out[e] = <<>> /\ temps[e] \subseteq 1..Total /\ idx[e] \in 1..(Total + 1) /\ idx[e] <= Total
    OBVIOUS
  <2>2. e = "streaming" => \A i \in 1..(idx[e] - 1) : i \in temps[e] \/ i = Total
    BY DEF Ended, Failed
  <2>3. QED BY <1>0, <2>1, <2>2
<1>2. CASE e = "memory"
  BY <1>1, <1>2 DEF StepOutput
<1>3. CASE e # "memory" /\ WritesOut(e)
  <2>1. out'[e] = Append(<<>>, f) /\ temps'[e] = temps[e]
    BY <1>1, <1>3 DEF StepOutput
  <2>2. QED BY <1>0, <1>1, <1>3, <2>1 DEF WritesOut
<1>4. CASE e # "memory" /\ ~WritesOut(e)
  <2>1. out'[e] = <<>> /\ temps'[e] = temps[e] \cup {idx[e]}
    BY <1>1, <1>4 DEF StepOutput, TempsAfter, StepNumber
  <2>2. QED BY <1>0, <1>1, <1>4, <2>1
<1>5. QED BY <1>2, <1>3, <1>4

\* A step that runs to its end.
LEMMA RunStepKeeps == ASSUME Inv, NEW e \in Engines, RunStep(e) PROVE EngineInv(e)'
<1> DEFINE f == After(steps[idx[e]], frame[e])
<1>0. Total \in Nat /\ Total' = Total /\ steps' = steps /\ WellFormed' = WellFormed /\ LeadingMerge' = LeadingMerge
  BY Steps_ DEF Inv, steps, Total, RunStep, WellFormed, LeadingMerge
<1>1. /\ pc[e] = "step" /\ idx[e] \in 1..Total /\ WellFormed /\ frame[e] \in Frames /\ Len(frame[e]) <= idx[e]
      /\ split[e] \in 0..Total /\ dir[e] \in [Nets -> {None, frame[e]}] /\ \A n \in Nets : dir[e][n] = None
  BY <1>0 DEF Inv, EngineInv, TypeInv, FlowInv, SplitInv, RunStep
<1>2. f \in Frames /\ Len(f) <= idx[e] + 1
  <2>2. steps[idx[e]].name \in Marks
    BY <1>1, StageOfStep DEF Marks
  <2>3. CASE steps[idx[e]].name = "collect"
    <3>1. f = <<"collect">>
      BY <2>3 DEF After
    <3>2. QED BY <1>1, <2>2, <2>3, <3>1 DEF Frames
  <2>4. CASE steps[idx[e]].name # "collect"
    <3>1. f = Append(frame[e], steps[idx[e]].name)
      BY <2>4 DEF After
    <3> HIDE DEF f
    <3>2. QED BY <1>1, <2>2, <3>1 DEF Frames
  <2>5. QED BY <2>3, <2>4
<1>3. /\ frame'[e] = f /\ idx'[e] = idx[e] + 1 /\ dir'[e] = dir[e] /\ hint'[e] = hint[e] /\ interrupts'[e] = interrupts[e]
      /\ pc'[e] = IF idx[e] < Total THEN "step" ELSE "finalize"
      /\ split'[e] = IF e = "memory" /\ steps[idx[e]].outDir THEN idx[e] ELSE split[e]
  BY DEF Inv, Shape, RunStep, Goto
<1>4. /\ out'[e] \in Seq(Frames) /\ Len(out'[e]) <= 1
      /\ temps'[e] \subseteq 1..Total
      /\ out'[e] # <<>> => e = "streaming" /\ split[e] = 0 /\ idx[e] = Total
      /\ e = "streaming" => \A i \in 1..idx[e] : i \in temps'[e] \/ i = Total
  BY <1>1, <1>2, OutputOfStep DEF RunStep
<1>5. hint[e] \in {"none", "out", "dir"} /\ interrupts[e] \in 0..MaxInterrupts /\ (split[e] # 0 => steps[split[e]].outDir)
  BY DEF Inv, EngineInv, TypeInv, SplitInv
<1>6. TypeInv(e)'
  <2>1. dir'[e] \in [Nets -> {None, frame'[e]}]
    BY <1>1, <1>3
  <2>2. QED BY <1>0, <1>1, <1>2, <1>3, <1>4, <1>5, <2>1 DEF TypeInv, PCs
<1>7. FlowInv(e)'
  BY <1>0, <1>1, <1>2, <1>3, <1>4 DEF FlowInv, Failed
<1>8. SplitInv(e)'
  BY <1>0, <1>1, <1>3, <1>5 DEF SplitInv
<1>9. TempsInv(e)'
  BY <1>0, <1>1, <1>3, <1>4 DEF TempsInv, Ended, Failed
<1>10. QED BY <1>6, <1>7, <1>8, <1>9 DEF EngineInv

\* A resolve step that is interrupted.
LEMMA InterruptKeeps == ASSUME Inv, NEW e \in Engines, InterruptResolve(e) PROVE EngineInv(e)'
<1>0. Total \in Nat /\ Total' = Total /\ steps' = steps /\ WellFormed' = WellFormed /\ LeadingMerge' = LeadingMerge
  BY Steps_ DEF Inv, steps, Total, InterruptResolve, WellFormed, LeadingMerge
<1>1. /\ pc[e] = "step" /\ idx[e] \in 1..Total /\ frame[e] \in Frames /\ Len(frame[e]) <= idx[e]
      /\ split[e] \in 0..Total /\ dir[e] \in [Nets -> {None, frame[e]}] /\ \A n \in Nets : dir[e][n] = None
      /\ hint[e] \in {"none", "out", "dir"} /\ interrupts[e] \in 0..MaxInterrupts /\ (split[e] # 0 => steps[split[e]].outDir)
  BY <1>0 DEF Inv, EngineInv, TypeInv, FlowInv, SplitInv, InterruptResolve
<1>2. Append(frame[e], "partial") \in Frames /\ Len(Append(frame[e], "partial")) <= idx[e] + 1
  BY <1>0, <1>1 DEF Frames, Marks
<1>3. /\ frame'[e] = Append(frame[e], "partial") /\ idx'[e] = idx[e] /\ dir'[e] = dir[e] /\ hint'[e] = hint[e]
      /\ interrupts'[e] = interrupts[e] + 1 /\ interrupts[e] < MaxInterrupts /\ pc'[e] = "salvage" /\ split'[e] = split[e]
  BY DEF Inv, Shape, InterruptResolve, Goto
<1>4. /\ out'[e] \in Seq(Frames) /\ Len(out'[e]) <= 1
      /\ temps'[e] \subseteq 1..Total
      /\ e = "streaming" => \A i \in 1..idx[e] : i \in temps'[e] \/ i = Total
  BY <1>1, <1>2, OutputOfStep DEF InterruptResolve
<1>5. TypeInv(e)'
  <2>1. dir'[e] \in [Nets -> {None, frame'[e]}]
    BY <1>1, <1>3
  <2>2. interrupts'[e] \in 0..MaxInterrupts
    BY <1>1, <1>3
  <2>3. QED BY <1>0, <1>1, <1>2, <1>3, <1>4, <2>1, <2>2 DEF TypeInv, PCs
<1>6. FlowInv(e)'
  BY <1>0, <1>1, <1>3, <1>4 DEF FlowInv, Failed
<1>7. SplitInv(e)'
  BY <1>0, <1>1, <1>3 DEF SplitInv
<1>8. TempsInv(e)'
  BY <1>0, <1>1, <1>3, <1>4 DEF TempsInv, Ended, Failed
<1>9. QED BY <1>5, <1>6, <1>7, <1>8 DEF EngineInv

\* What leaving does: the run ends as it was to, without temporary files, or is cut short.
LEMMA Leaving ==
    ASSUME Shape, NEW e \in Engines, NEW p, Leave(e, p)
    PROVE  /\ pc'[e] \in {p, "cut"} /\ temps'[e] \subseteq temps[e] /\ (pc'[e] # "cut" => temps'[e] = {})
           /\ pc' = [d \in Engines |-> pc'[d]] /\ temps' = [d \in Engines |-> temps'[d]]
           /\ \A d \in Engines : d # e => pc'[d] = pc[d] /\ temps'[d] = temps[d]
<1>1. CASE Goto(e, p) /\ temps' = [temps EXCEPT ![e] = {}]
  BY <1>1 DEF Goto, Shape
<1>2. CASE Goto(e, "cut") /\ \E left \in SUBSET temps[e] : temps' = [temps EXCEPT ![e] = left]
  BY <1>2 DEF Goto, Shape
<1>3. QED BY <1>1, <1>2 DEF Leave

\* A run that ends and keeps what it has published: an error, or a signal outside a
\* resolve.  With the first it has published nothing unless it was interrupted before.
LEMMA LeavingKeeps ==
    ASSUME Inv, NEW e \in Engines, NEW p \in Ended \ {"killed"},
           Leave(e, p), UNCHANGED <<job, idx, frame, split, out, dir, hint>>,
           interrupts'[e] \in 0..MaxInterrupts,
           p \in Failed /\ interrupts'[e] = 0 /\ ~LeadingMerge => out[e] = <<>>
    PROVE  EngineInv(e)'
<1> USE DEF Inv, Shape, EngineInv
<1>0. Total \in Nat /\ Total' = Total /\ steps' = steps /\ LeadingMerge' = LeadingMerge
  BY Steps_ DEF steps, Total, LeadingMerge
<1>1. /\ pc'[e] \in {p, "cut"} /\ temps'[e] \subseteq temps[e] /\ (pc'[e] # "cut" => temps'[e] = {})
      /\ idx'[e] = idx[e] /\ frame'[e] = frame[e] /\ split'[e] = split[e]
      /\ out'[e] = out[e] /\ dir'[e] = dir[e] /\ hint'[e] = hint[e]
  BY Leaving
<1>2. TypeInv(e)'
  BY <1>0, <1>1 DEF TypeInv, PCs, Ended
<1>3. FlowInv(e)'
  BY <1>0, <1>1 DEF FlowInv, Ended, Failed
<1>4. SplitInv(e)'
  BY <1>0, <1>1 DEF SplitInv, Ended, Failed
<1>5. TempsInv(e)'
  BY <1>0, <1>1 DEF TempsInv, Ended
<1>6. QED BY <1>2, <1>3, <1>4, <1>5

\* An error.
LEMMA FailKeeps == ASSUME Inv, NEW e \in Engines, Fail(e) PROVE EngineInv(e)'
<1>1. "failed" \in Ended \ {"killed"}
  BY DEF Ended, Failed
<1>2. interrupts'[e] = interrupts[e] /\ interrupts[e] \in 0..MaxInterrupts
  BY DEF Fail, Inv, EngineInv, TypeInv
<1>3. interrupts[e] = 0 => out[e] = <<>>
  <2>1. pc[e] \in {"start", "step", "finalize", "salvage", "split", "splitPartial"}
    BY DEF Fail, Inv, EngineInv, TypeInv, PCs
  <2>2. interrupts[e] = 0 => pc[e] \in {"start", "step", "finalize", "split"}
    BY <1>2, <2>1 DEF Inv, EngineInv, FlowInv
  <2>3. pc[e] = "finalize" => out[e] = <<>>
    BY DEF Fail, Inv, EngineInv, FlowInv
  <2>4. QED BY <2>2, <2>3 DEF Inv, EngineInv, FlowInv
<1>4. Leave(e, "failed") /\ UNCHANGED <<job, idx, frame, split, out, dir, hint>>
  BY DEF Fail
<1>5. QED BY <1>1, <1>2, <1>3, <1>4, LeavingKeeps

\* A signal outside a resolve.
LEMMA SignalKeeps == ASSUME Inv, NEW e \in Engines, InterruptElsewhere(e) PROVE EngineInv(e)'
<1>1. "raw" \in Ended \ {"killed"} /\ "raw" \notin Failed
  BY DEF Ended, Failed
<1>2. interrupts'[e] \in 0..MaxInterrupts
  BY DEF InterruptElsewhere, Inv, Shape, EngineInv, TypeInv
<1>3. Leave(e, "raw") /\ UNCHANGED <<job, idx, frame, split, out, dir, hint>>
  BY DEF InterruptElsewhere
<1>4. QED BY <1>1, <1>2, <1>3, LeavingKeeps

\* A kill.
LEMMA KillKeeps == ASSUME Inv, NEW e \in Engines, Kill(e) PROVE EngineInv(e)'
<1> USE DEF Inv, Shape, EngineInv
<1>0. Total \in Nat /\ Total' = Total /\ steps' = steps
  BY Steps_ DEF steps, Total, Kill
<1>1. /\ pc'[e] = "killed" /\ temps'[e] = temps[e] /\ idx'[e] = idx[e] /\ frame'[e] = frame[e] /\ split'[e] = split[e]
      /\ out'[e] = out[e] /\ dir'[e] = dir[e] /\ hint'[e] = hint[e] /\ interrupts'[e] = interrupts[e] /\ pc[e] \notin Ended
  BY DEF Kill, Goto
<1>2. TypeInv(e)'
  BY <1>0, <1>1 DEF TypeInv, PCs, Ended
<1>3. FlowInv(e)'
  BY <1>0, <1>1 DEF FlowInv, Failed
<1>4. SplitInv(e)'
  BY <1>0, <1>1 DEF SplitInv
<1>5. TempsInv(e)'
  BY <1>0, <1>1 DEF TempsInv
<1>6. QED BY <1>2, <1>3, <1>4, <1>5

\* The merge that finds no rows.
LEMMA FailMergeKeeps == ASSUME Inv, NEW e \in Engines, FailMerge(e) PROVE EngineInv(e)'
<1> USE DEF Inv, Shape, EngineInv
<1>0. Total \in Nat /\ Total' = Total /\ steps' = steps /\ LeadingMerge' = LeadingMerge
  BY Steps_ DEF steps, Total, FailMerge, LeadingMerge
<1>1. Empty \in Frames /\ Append(<<>>, Empty) \in Seq(Frames) /\ Len(Append(<<>>, Empty)) = 1
  <2>1. "empty" \in Marks
    BY DEF Marks
  <2>2. Empty \in Frames
    BY <2>1 DEF Frames, Empty
  <2>3. QED BY <2>2
<1>2. pc[e] = "step" /\ out[e] = <<>> /\ idx[e] = 1 /\ steps[1].name = "merge"
  BY DEF FailMerge, FlowInv
<1>3. Total >= 1 /\ LeadingMerge
  BY <1>0, <1>2 DEF FlowInv, LeadingMerge
<1>4. /\ pc'[e] \in {"failed", "cut"} /\ temps'[e] \subseteq temps[e] /\ (pc'[e] # "cut" => temps'[e] = {})
      /\ idx'[e] = idx[e] /\ frame'[e] = frame[e] /\ split'[e] = split[e]
      /\ out'[e] = Append(<<>>, Empty) /\ dir'[e] = dir[e] /\ hint'[e] = hint[e] /\ interrupts'[e] = interrupts[e]
  BY <1>2, Leaving DEF FailMerge
<1>5. TypeInv(e)'
  BY <1>0, <1>1, <1>4 DEF TypeInv, PCs, Ended, Failed
<1>6. FlowInv(e)'
  BY <1>0, <1>3, <1>4 DEF FlowInv, Failed
<1>7. SplitInv(e)'
  BY <1>0, <1>4 DEF SplitInv
<1>8. TempsInv(e)'
  BY <1>0, <1>4 DEF TempsInv, Ended, Failed
<1>9. QED BY <1>5, <1>6, <1>7, <1>8

\* Publishing at the end, or opening the split.
LEMMA FinalizeKeeps == ASSUME Inv, NEW e \in Engines, Finalize(e) PROVE EngineInv(e)'
<1>0. Total \in Nat /\ Total' = Total /\ steps' = steps /\ LeadingMerge' = LeadingMerge
  BY Steps_ DEF Inv, steps, Total, Finalize, LeadingMerge
<1>1. /\ pc[e] \in {"finalize", "salvage"} /\ TypeInv(e) /\ out[e] \in Seq(Frames) /\ Len(out[e]) <= 1
      /\ pc[e] = "finalize" /\ out[e] # <<>> => e = "streaming" /\ split[e] = 0
      /\ pc[e] = "salvage" => interrupts[e] > 0
  BY DEF Inv, EngineInv, TypeInv, FlowInv, Finalize
<1>2. /\ idx'[e] = idx[e] /\ frame'[e] = frame[e] /\ split'[e] = split[e] /\ dir'[e] = dir[e] /\ interrupts'[e] = interrupts[e]
  BY DEF Finalize
<1>3. SplitInv(e) /\ TempsInv(e)
  BY DEF Inv, EngineInv
<1>4. CASE split[e] # 0 /\ job.cidrs
  <2>1. /\ pc'[e] = (IF pc[e] = "finalize" THEN "split" ELSE "splitPartial")
        /\ temps'[e] = temps[e] /\ out'[e] = out[e] /\ hint'[e] = hint[e]
    BY <1>4 DEF Finalize, Goto, Inv, Shape
  <2>2. TypeInv(e)'
    BY <1>0, <1>1, <1>2, <2>1 DEF TypeInv, PCs
  <2>3. FlowInv(e)'
    BY <1>0, <1>1, <1>2, <1>4, <2>1 DEF FlowInv, Failed
  <2>4. SplitInv(e)'
    BY <1>0, <1>2, <1>3, <1>4, <2>1 DEF SplitInv
  <2>5. TempsInv(e)'
    BY <1>0, <1>1, <1>2, <1>3, <2>1 DEF TempsInv, Ended, Failed
  <2>6. QED BY <2>2, <2>3, <2>4, <2>5 DEF EngineInv
<1>5. CASE split[e] # 0 /\ ~job.cidrs
  <2>1. Leave(e, "refused") /\ UNCHANGED <<job, idx, frame, split, out, dir, hint>>
    BY <1>5 DEF Finalize
  <2>2. "refused" \in Ended \ {"killed"}
    BY DEF Ended, Failed
  <2>3. interrupts'[e] \in 0..MaxInterrupts /\ (interrupts'[e] = 0 => out[e] = <<>>)
    BY <1>1, <1>2, <1>5 DEF TypeInv
  <2>4. QED BY <2>1, <2>2, <2>3, LeavingKeeps
<1>6. CASE split[e] = 0
  <2>1. /\ pc'[e] \in {IF pc[e] = "finalize" THEN "done" ELSE "partial", "cut"}
        /\ temps'[e] \subseteq temps[e] /\ (pc'[e] # "cut" => temps'[e] = {})
        /\ out'[e] = IF e = "streaming" /\ pc[e] = "finalize" THEN out[e] ELSE Append(out[e], frame[e])
        /\ hint'[e] = IF pc[e] = "salvage" THEN HintFor(e) ELSE hint[e]
    <3>1. Leave(e, IF pc[e] = "finalize" THEN "done" ELSE "partial")
      BY <1>6 DEF Finalize
    <3>2. QED BY <1>6, <3>1, Leaving DEF Finalize, Inv, Shape
  <2>2. out'[e] \in Seq(Frames) /\ Len(out'[e]) <= 2
    <3>1. Append(out[e], frame[e]) \in Seq(Frames) /\ Len(Append(out[e], frame[e])) = Len(out[e]) + 1 /\ Len(out[e]) \in Nat
      BY <1>1 DEF TypeInv
    <3>2. QED BY <1>1, <2>1, <3>1
  <2>3. TypeInv(e)'
    BY <1>0, <1>1, <1>2, <2>1, <2>2 DEF TypeInv, PCs, Ended, HintFor
  <2>4. FlowInv(e)'
    BY <2>1 DEF FlowInv, Failed
  <2>5. SplitInv(e)'
    BY <1>0, <1>1, <1>2, <1>3, <2>1 DEF SplitInv
  <2>6. TempsInv(e)'
    BY <1>1, <2>1 DEF TempsInv, Ended
  <2>7. QED BY <2>3, <2>4, <2>5, <2>6 DEF EngineInv
<1>7. QED BY <1>4, <1>5, <1>6

\* One subnet's file.
LEMMA WriteNetKeeps == ASSUME Inv, NEW e \in Engines, NEW n \in Nets, WriteNet(e, n) PROVE EngineInv(e)'
<1>0. Total \in Nat /\ Total' = Total /\ steps' = steps /\ LeadingMerge' = LeadingMerge
  BY Steps_ DEF Inv, steps, Total, WriteNet, LeadingMerge
<1>1. /\ pc[e] \in {"split", "splitPartial"} /\ TypeInv(e) /\ FlowInv(e) /\ SplitInv(e) /\ TempsInv(e)
  BY DEF Inv, EngineInv, WriteNet
<1>2. /\ idx'[e] = idx[e] /\ frame'[e] = frame[e] /\ split'[e] = split[e] /\ interrupts'[e] = interrupts[e]
      /\ pc'[e] = pc[e] /\ temps'[e] = temps[e] /\ out'[e] = out[e] /\ hint'[e] = hint[e]
  BY DEF WriteNet
<1>3. dir'[e] = [dir[e] EXCEPT ![n] = frame[e]]
  BY DEF WriteNet, Inv, Shape
<1>4. dir'[e] \in [Nets -> {None, frame'[e]}]
  BY <1>1, <1>2, <1>3 DEF TypeInv
<1>5. TypeInv(e)'
  BY <1>0, <1>1, <1>2, <1>4 DEF TypeInv
<1>6. FlowInv(e)'
  BY <1>0, <1>1, <1>2 DEF FlowInv, Failed
<1>7. SplitInv(e)'
  BY <1>0, <1>1, <1>2 DEF SplitInv
<1>8. TempsInv(e)'
  BY <1>0, <1>1, <1>2 DEF TempsInv, Ended, Failed
<1>9. QED BY <1>5, <1>6, <1>7, <1>8 DEF EngineInv

\* The end of the split.
LEMMA SplitDoneKeeps == ASSUME Inv, NEW e \in Engines, SplitDone(e) PROVE EngineInv(e)'
<1>0. Total \in Nat /\ Total' = Total /\ steps' = steps /\ LeadingMerge' = LeadingMerge
  BY Steps_ DEF Inv, steps, Total, SplitDone, LeadingMerge
<1>1. TypeInv(e) /\ SplitInv(e)
  BY DEF Inv, EngineInv
<1>2. /\ idx'[e] = idx[e] /\ frame'[e] = frame[e] /\ split'[e] = split[e] /\ interrupts'[e] = interrupts[e]
      /\ pc'[e] \in {"done", "partial", "cut"} /\ temps'[e] \subseteq temps[e] /\ (pc'[e] # "cut" => temps'[e] = {})
      /\ out'[e] = out[e] /\ dir'[e] = dir[e]
      /\ hint'[e] \in {"none", "out", "dir"}
  <2>1. Leave(e, IF pc[e] = "split" THEN "done" ELSE "partial")
    BY DEF SplitDone
  <2>2. QED BY <1>1, <2>1, Leaving DEF SplitDone, HintFor, Inv, Shape, TypeInv
<1>3. TypeInv(e)'
  BY <1>0, <1>1, <1>2 DEF TypeInv, PCs, Ended
<1>4. FlowInv(e)'
  BY <1>2 DEF FlowInv, Failed
<1>5. SplitInv(e)'
  BY <1>0, <1>1, <1>2 DEF SplitInv
<1>6. TempsInv(e)'
  BY <1>2 DEF TempsInv, Ended
<1>7. QED BY <1>3, <1>4, <1>5, <1>6 DEF EngineInv
-----------------------------------------------------------------------------
\* Both engines start out right.
LEMMA InvInit == Init => Inv
<1> SUFFICES ASSUME Init PROVE Inv
  OBVIOUS
<1>0. job \in Jobs /\ Total \in Nat
  BY Steps_ DEF Init
<1>1. Shape
  BY DEF Init, Shape
<1>2. ASSUME NEW e \in Engines PROVE EngineInv(e)
  <2>1. /\ pc[e] = "start" /\ idx[e] = 1 /\ frame[e] = None /\ split[e] = 0 /\ temps[e] = {} /\ out[e] = <<>>
        /\ dir[e] = [n \in Nets |-> None] /\ hint[e] = "none" /\ interrupts[e] = 0
    BY DEF Init
  <2>2. None \in Frames /\ Len(None) = 0 /\ <<>> \in Seq(Frames)
    BY DEF None, Frames
  <2>3. TypeInv(e)
    BY <1>0, <2>1, <2>2 DEF TypeInv, PCs
  <2>4. FlowInv(e)
    BY <2>1 DEF FlowInv, Failed
  <2>5. SplitInv(e)
    BY <2>1 DEF SplitInv
  <2>6. TempsInv(e)
    BY <2>1 DEF TempsInv, Ended, Failed
  <2>7. QED BY <2>3, <2>4, <2>5, <2>6 DEF EngineInv
<1>3. QED BY <1>0, <1>1, <1>2 DEF Inv

\* Every step keeps the invariant of both.
LEMMA InvStep == Inv /\ [Next]_vars => Inv'
<1> SUFFICES ASSUME Inv, [Next]_vars PROVE Inv'
  OBVIOUS
<1>1. ASSUME NEW e \in Engines, Acts(e) PROVE Inv'
  <2>1. EngineInv(e)'
    BY <1>1, StartKeeps, RunStepKeeps, FailKeeps, FailMergeKeeps, FinalizeKeeps, SplitDoneKeeps,
       WriteNetKeeps, InterruptKeeps, SignalKeeps, KillKeeps DEF Acts
  <2>2. Alone(e)
    BY <1>1, ActsAlone
  <2>3. ASSUME NEW d \in Engines, d # e PROVE EngineInv(d)'
    BY <2>2, <2>3, Untouched DEF Inv, Alone
  <2>4. QED BY <2>1, <2>2, <2>3 DEF Inv, Alone
<1>2. CASE UNCHANGED vars
  <2>1. ASSUME NEW d \in Engines PROVE EngineInv(d)'
    BY <1>2, Untouched DEF Inv, Same, vars
  <2>2. Shape' /\ job' = job
    BY <1>2 DEF Inv, Shape, vars
  <2>3. QED BY <2>1, <2>2 DEF Inv
<1>3. QED BY <1>1, <1>2 DEF Next, Acts, Work, Terminated

\* The invariant of both engines.
LEMMA RunnerInvariance == Spec => []Inv
BY InvInit, InvStep, PTL DEF Spec

\* TypeOK: every variable holds what run_pipeline can put there.
THEOREM PipelineTypeCorrect == Spec => []TypeOK
<1>1. Inv => TypeOK
  <2> SUFFICES ASSUME Inv PROVE TypeOK
    OBVIOUS
  <2>1. Shape /\ job \in Jobs /\ Total \in Nat /\ \A e \in Engines : TypeInv(e)
    BY Steps_ DEF Inv, EngineInv
  <2>2. pc \in [Engines -> PCs]
    BY <2>1 DEF Shape, TypeInv
  <2>3. idx \in [Engines -> Nat] /\ \A e \in Engines : idx[e] \in 1..(Total + 1)
    BY <2>1 DEF Shape, TypeInv
  <2>4. frame \in [Engines -> Frames] /\ \A e \in Engines : Len(frame[e]) <= Total + 1
    BY <2>1 DEF Shape, TypeInv
  <2>5. split \in [Engines -> 0..Total] /\ temps \in [Engines -> SUBSET (1..Total)]
    BY <2>1 DEF Shape, TypeInv
  <2>6. out \in [Engines -> Seq(Frames)] /\ \A e \in Engines : Len(out[e]) <= 2
    BY <2>1 DEF Shape, TypeInv
  <2>7. dir \in [Engines -> [Nets -> {None} \cup {frame[e] : e \in Engines}]]
    <3>1. \A e \in Engines : dir[e] \in [Nets -> {None} \cup {frame[d] : d \in Engines}]
      BY <2>1 DEF TypeInv
    <3>2. QED BY <2>1, <3>1 DEF Shape
  <2>8. hint \in [Engines -> {"none", "out", "dir"}] /\ interrupts \in [Engines -> 0..MaxInterrupts]
    BY <2>1 DEF Shape, TypeInv
  <2>9. QED BY <2>1, <2>2, <2>3, <2>4, <2>5, <2>6, <2>7, <2>8 DEF TypeOK
<1>2. QED BY <1>1, RunnerInvariance, PTL

\* FailureLeavesOutput: an error leaves what was at -o alone, and a run that asked for
\* no split writes no subnet file.
THEOREM FailuresLeaveOutput == Spec => []FailureLeavesOutput
<1>1. Inv => FailureLeavesOutput
  <2> SUFFICES ASSUME Inv, NEW e \in Engines, pc[e] \in Failed
               PROVE  /\ interrupts[e] = 0 /\ ~LeadingMerge => out[e] = <<>>
                      /\ RequestedBy(Total) = 0 => \A n \in Nets : dir[e][n] = None
    BY DEF FailureLeavesOutput
  <2>1. interrupts[e] = 0 /\ ~LeadingMerge => out[e] = <<>>
    BY DEF Inv, EngineInv, FlowInv
  <2>2. ASSUME NEW n \in Nets, dir[e][n] # None PROVE RequestedBy(Total) # 0
    <3>1. split[e] # 0 /\ split[e] \in 0..Total /\ steps[split[e]].outDir
      BY <2>2 DEF Inv, EngineInv, TypeInv, SplitInv
    <3>2. Total \in Nat
      BY Steps_ DEF Inv
    <3>3. QED BY <3>1, <3>2, Requested DEF Inv
  <2>3. QED BY <2>1, <2>2
<1>2. QED BY <1>1, RunnerInvariance, PTL

\* FinishedStagesSurvive: what the streaming engine has finished is there after a kill before
\* its way out, and every other end but a removal that is cut short leaves no temporary file.
THEOREM FinishedStagesAreKept == Spec => []FinishedStagesSurvive
<1>1. Inv => FinishedStagesSurvive
  BY DEF Inv, EngineInv, TempsInv, FinishedStagesSurvive, Engines, Ended
<1>2. QED BY <1>1, RunnerInvariance, PTL
-----------------------------------------------------------------------------
(* What the engines publish.  A recursive function is what its equation says only if *)
(* a function satisfies the equation, so that comes first.                            *)

\* h is the history of the first m steps of a list.
IsHistory(h, m, source, list) ==
    h = [n \in 0..m |-> IF n = 0 THEN source ELSE After(list[n], h[n - 1])]

\* A shortest beginning of the list without a history would have one: that of the
\* beginning before it, and one step more.
LEMMA HistoryExists ==
    ASSUME NEW source, NEW list, Len(list) \in Nat
    PROVE  \A m \in 0..Len(list) : \E h : IsHistory(h, m, source, list)
<1> DEFINE Lacks(m) == ~ \E h : IsHistory(h, m, source, list)
<1> DEFINE S == {m \in 0..Len(list) : Lacks(m)}
<1>1. SUFFICES ASSUME S # {} PROVE FALSE
  OBVIOUS
<1>2. PICK m \in S : \A y \in S : m <= y
  <2>1. S \subseteq Nat
    OBVIOUS
  <2> HIDE DEF S
  <2>2. QED BY <1>1, <2>1, Least
<1>3. m \in 0..Len(list) /\ Lacks(m)
  OBVIOUS
<1>4. CASE m = 0
  <2> DEFINE h == [n \in 0..0 |-> source]
  <2>1. IsHistory(h, 0, source, list)
    BY DEF IsHistory
  <2>2. QED BY <1>3, <1>4, <2>1
<1>5. CASE m # 0
  <2>1. m - 1 \in 0..Len(list) /\ m - 1 \notin S
    BY <1>2, <1>3, <1>5
  <2>2. PICK g : IsHistory(g, m - 1, source, list)
    BY <2>1
  <2> DEFINE h == [n \in 0..m |-> IF n = m THEN After(list[m], g[m - 1]) ELSE g[n]]
  <2>3. ASSUME NEW n \in 0..m PROVE h[n] = IF n = 0 THEN source ELSE After(list[n], h[n - 1])
    <3>1. \A k \in 0..(m - 1) : g[k] = IF k = 0 THEN source ELSE After(list[k], g[k - 1])
      BY <2>2 DEF IsHistory
    <3>2. CASE n = m
      <4>1. n - 1 \in 0..m /\ n - 1 # m
        BY <1>3, <1>5, <3>2
      <4>2. h[n - 1] = g[n - 1]
        BY <4>1
      <4>3. h[n] = After(list[n], g[n - 1])
        BY <3>2
      <4> HIDE DEF h
      <4>4. QED BY <1>5, <3>2, <4>2, <4>3
    <3>3. CASE n # m /\ n # 0
      <4>1. n - 1 \in 0..m /\ n - 1 # m /\ n \in 0..(m - 1)
        BY <1>3, <3>3
      <4>2. h[n - 1] = g[n - 1] /\ h[n] = g[n]
        BY <3>3, <4>1
      <4> HIDE DEF h
      <4>3. QED BY <3>1, <3>3, <4>1, <4>2
    <3>4. CASE n # m /\ n = 0
      <4>1. n \in 0..(m - 1) /\ h[n] = g[n]
        BY <1>3, <3>4
      <4> HIDE DEF h
      <4>2. QED BY <3>1, <3>4, <4>1
    <3>5. QED BY <3>2, <3>3, <3>4
  <2>4. h = [n \in 0..m |-> h[n]]
    OBVIOUS
  <2> HIDE DEF h
  <2>5. IsHistory(h, m, source, list)
    BY <2>3, <2>4 DEF IsHistory
  <2>6. QED BY <1>3, <2>5
<1>6. QED BY <1>4, <1>5

\* The history starts with the source, and each step adds what it makes of the one before.
LEMMA HistoryUnfolds ==
    ASSUME NEW source, NEW list, Len(list) \in Nat
    PROVE  /\ History(source, list)[0] = source
           /\ \A n \in 1..Len(list) : History(source, list)[n] = After(list[n], History(source, list)[n - 1])
<1> DEFINE H == History(source, list)
<1>1. H = CHOOSE h : IsHistory(h, Len(list), source, list)
  BY DEF History, IsHistory
<1>2. \E h : IsHistory(h, Len(list), source, list)
  <2>1. Len(list) \in 0..Len(list)
    OBVIOUS
  <2>2. QED BY <2>1, HistoryExists
<1>3. IsHistory(H, Len(list), source, list)
  <2> HIDE DEF H
  <2>1. QED BY <1>1, <1>2
<1> HIDE DEF H
<1>4. H = [n \in 0..Len(list) |-> IF n = 0 THEN source ELSE After(list[n], H[n - 1])]
  BY <1>3 DEF IsHistory
<1>5. H[0] = source
  BY <1>4
<1>6. ASSUME NEW n \in 1..Len(list) PROVE H[n] = After(list[n], H[n - 1])
  <2>1. n \in 0..Len(list) /\ n # 0
    OBVIOUS
  <2>2. QED BY <1>4, <2>1
<1>7. QED BY <1>5, <1>6 DEF H
-----------------------------------------------------------------------------
\* One of the first n steps asks for a split.
Asked(n) == \E i \in 1..n : steps[i].outDir

\* What a run may publish.
Final(e) == {Result(e, Total)} \cup {Partial(e, n) : n \in {i \in 1..Total : steps[i].name = "resolve"}}

\* Before the end the frame is what the steps so far make of the source, and the split
\* is known: to the streaming engine from the start, to the other from its steps.
RunningInv(e) ==
    /\ pc[e] = "step" =>
          /\ frame[e] = Result(e, idx[e] - 1)
          /\ split[e] # 0 <=> Asked(IF e = "memory" THEN idx[e] - 1 ELSE Total)
    /\ pc[e] \in {"finalize", "split", "done"} =>
          Total > 0 /\ frame[e] = Result(e, Total) /\ (split[e] # 0 <=> Asked(Total))
    /\ pc[e] \in {"salvage", "splitPartial", "partial"} =>
          idx[e] \in 1..Total /\ steps[idx[e]].name = "resolve" /\ frame[e] = Partial(e, idx[e])

\* Nothing but final frames is published.
PublishedInv(e) ==
    /\ \A i \in DOMAIN out[e] : out[e][i] \in Final(e) \/ (LeadingMerge /\ out[e][i] = Empty)
    /\ \A n \in Nets : dir[e][n] # None => dir[e][n] \in Final(e)

\* A run that comes to its end has published its frame where it belongs.
EndingInv(e) ==
    /\ pc[e] = "finalize" => out[e] = IF e = "streaming" /\ split[e] = 0 THEN <<frame[e]>> ELSE <<>>
    /\ pc[e] = "done" => IF split[e] # 0 THEN out[e] = <<>> /\ \A n \in Nets : dir[e][n] = frame[e]
                                         ELSE out[e] = <<frame[e]>>
    /\ pc[e] = "partial" => \/ hint[e] = "out" /\ out[e] # <<>> /\ Last(out[e]) = frame[e]
                            \/ hint[e] = "dir" /\ \A n \in Nets : dir[e][n] = frame[e]

ContentInv(e) == RunningInv(e) /\ PublishedInv(e) /\ EndingInv(e)
ResultInv == Inv /\ \A e \in Engines : ContentInv(e)

\* The split requested by the list is one that some step asks for.
LEMMA RequestedAsked == ASSUME job \in Jobs PROVE RequestedBy(Total) # 0 <=> Asked(Total)
<1>1. Total \in Nat
  BY Steps_
<1>2. RequestedBy(Total) # 0 => RequestedBy(Total) \in 1..Total
  BY <1>1, Requested
<1>3. QED BY <1>2, Requested DEF Asked

\* Results go step by step.
LEMMA Results ==
    ASSUME job \in Jobs, NEW e \in Engines
    PROVE  /\ Result(e, 0) = Source(e)
           /\ \A n \in 1..Total : Result(e, n) = After(steps[n], Result(e, n - 1))
BY Steps_, HistoryUnfolds DEF Result, Total

\* What depends on the job alone stays.
LEMMA Fixed ==
    ASSUME job' = job, NEW e \in Engines
    PROVE  /\ steps' = steps /\ Total' = Total /\ LeadingMerge' = LeadingMerge
           /\ \A n : Result(e, n)' = Result(e, n) /\ Partial(e, n)' = Partial(e, n)
           /\ Final(e)' = Final(e) /\ \A n : Asked(n)' = Asked(n)
<1>1. steps' = steps /\ Total' = Total /\ LeadingMerge' = LeadingMerge
  BY DEF steps, Total, LeadingMerge
<1>2. Source(e)' = Source(e)
  BY <1>1 DEF Source
<1>3. \A n : Result(e, n)' = Result(e, n) /\ Partial(e, n)' = Partial(e, n)
  BY <1>1, <1>2 DEF Result, Partial
<1>4. Final(e)' = Final(e)
  BY <1>1, <1>3 DEF Final
<1>5. \A n : Asked(n)' = Asked(n)
  BY <1>1 DEF Asked
<1>6. QED BY <1>1, <1>3, <1>4, <1>5
-----------------------------------------------------------------------------
\* The other engine keeps its content.
LEMMA ContentUntouched ==
    ASSUME NEW d \in Engines, ContentInv(d), Same(d), job' = job
    PROVE  ContentInv(d)'
<1>1. RunningInv(d)'
  BY Fixed DEF ContentInv, RunningInv, Same
<1>2. PublishedInv(d)'
  BY Fixed DEF ContentInv, PublishedInv, Same
<1>3. EndingInv(d)'
  BY DEF ContentInv, EndingInv, Same
<1>4. QED BY <1>1, <1>2, <1>3 DEF ContentInv

\* A run that is over otherwise than by finishing publishes nothing more.
LEMMA ContentLeaving ==
    ASSUME NEW e \in Engines, ContentInv(e), UNCHANGED <<job, out, dir>>,
           pc'[e] \in Failed \cup {"raw", "killed", "cut"}
    PROVE  ContentInv(e)'
<1>1. RunningInv(e)' /\ EndingInv(e)'
  BY DEF RunningInv, EndingInv, Failed
<1>2. PublishedInv(e)'
  BY Fixed DEF ContentInv, PublishedInv
<1>3. QED BY <1>1, <1>2 DEF ContentInv

\* The start.
LEMMA ContentStart == ASSUME Inv, NEW e \in Engines, ContentInv(e), Start(e) PROVE ContentInv(e)'
<1>1. job' = job /\ job \in Jobs /\ out' = out /\ dir' = dir /\ idx' = idx /\ idx[e] = 1 /\ Total \in Nat
  BY Steps_ DEF Start, Inv, EngineInv, FlowInv
<1>2. pc'[e] \in {"failed", "step"}
  BY DEF Start, Goto, Inv, Shape
<1>3. CASE pc'[e] = "failed"
  BY <1>1, <1>3, ContentLeaving DEF Failed
<1>4. CASE pc'[e] = "step"
  <2>1. /\ split'[e] = (IF e = "streaming" THEN RequestedBy(Total) ELSE 0)
        /\ frame'[e] = Source(e)
    BY <1>4 DEF Start, Goto, Inv, Shape
  <2>2. frame'[e] = Result(e, 0)
    BY <1>1, <2>1, Results
  <2>3. e = "memory" => ~Asked(0)
    BY DEF Asked
  <2>4. e # "memory" => (split'[e] # 0 <=> Asked(Total))
    BY <1>1, <2>1, RequestedAsked DEF Engines
  <2>5. split'[e] # 0 <=> Asked(IF e = "memory" THEN idx[e] - 1 ELSE Total)
    BY <1>1, <2>1, <2>3, <2>4
  <2>6. RunningInv(e)'
    BY <1>1, <1>4, <2>2, <2>5, Fixed DEF RunningInv
  <2>7. PublishedInv(e)'
    BY <1>1, Fixed DEF ContentInv, PublishedInv
  <2>8. EndingInv(e)'
    BY <1>4 DEF EndingInv
  <2>9. QED BY <2>6, <2>7, <2>8 DEF ContentInv
<1>5. QED BY <1>2, <1>3, <1>4

\* What a step leaves at -o: nothing, or its result when it is the last of a streaming run
\* without split.
LEMMA PublishedByStep ==
    ASSUME Inv, NEW e \in Engines, pc[e] = "step", NEW f, StepOutput(e, f)
    PROVE  out'[e] = IF WritesOut(e) THEN <<f>> ELSE <<>>
<1>1. out[e] = <<>> /\ out = [d \in Engines |-> out[d]]
  BY DEF Inv, Shape, EngineInv, FlowInv
<1>2. QED BY <1>1 DEF StepOutput, WritesOut

\* A step that runs to its end.
LEMMA ContentRunStep == ASSUME Inv, NEW e \in Engines, ContentInv(e), RunStep(e) PROVE ContentInv(e)'
<1> DEFINE i == idx[e]
<1> DEFINE f == After(steps[i], frame[e])
<1>1. /\ job' = job /\ job \in Jobs /\ Total \in Nat /\ i \in 1..Total /\ dir' = dir /\ pc[e] = "step"
      /\ \A n \in Nets : dir[e][n] = None
  BY Steps_ DEF RunStep, Inv, EngineInv, TypeInv, FlowInv, SplitInv
<1>2. /\ frame'[e] = f /\ idx'[e] = i + 1
      /\ pc'[e] = IF i < Total THEN "step" ELSE "finalize"
      /\ split'[e] = IF e = "memory" /\ steps[i].outDir THEN i ELSE split[e]
  BY DEF RunStep, Goto, Inv, Shape
<1>3. f = Result(e, i)
  BY <1>1, Results DEF ContentInv, RunningInv
<1>4. out'[e] = IF WritesOut(e) THEN <<f>> ELSE <<>>
  BY <1>1, PublishedByStep DEF RunStep
<1>5. split'[e] # 0 <=> Asked(IF e = "memory" THEN i ELSE Total)
  <2>1. split[e] # 0 <=> Asked(IF e = "memory" THEN i - 1 ELSE Total)
    BY <1>1 DEF ContentInv, RunningInv
  <2>2. Asked(i) <=> Asked(i - 1) \/ steps[i].outDir
    BY <1>1 DEF Asked
  <2>3. CASE e = "memory"
    BY <1>1, <1>2, <2>1, <2>2, <2>3
  <2>4. CASE e # "memory"
    BY <1>2, <2>1, <2>4
  <2>5. QED BY <2>3, <2>4
<1> HIDE DEF f
<1>6. RunningInv(e)'
  <2>1. CASE i < Total
    BY <1>1, <1>2, <1>3, <1>5, <2>1, Fixed DEF RunningInv
  <2>2. CASE ~(i < Total)
    <3>1. i = Total /\ pc'[e] = "finalize"
      BY <1>1, <1>2, <2>2
    <3>2. split'[e] # 0 <=> Asked(Total)
      BY <1>5, <3>1
    <3>3. QED BY <1>1, <1>2, <1>3, <3>1, <3>2, Fixed DEF RunningInv
  <2>3. QED BY <2>1, <2>2
<1>7. PublishedInv(e)'
  <2>1. WritesOut(e) => f \in Final(e)
    BY <1>3 DEF WritesOut, Final
  <2>2. \A k \in DOMAIN out'[e] : out'[e][k] \in Final(e)
    BY <1>4, <2>1
  <2>3. QED BY <1>1, <2>2, Fixed DEF PublishedInv
<1>8. EndingInv(e)'
  <2>1. CASE i < Total
    BY <1>2, <2>1 DEF EndingInv
  <2>2. CASE ~(i < Total)
    <3>1. i = Total /\ pc'[e] = "finalize"
      BY <1>1, <1>2, <2>2
    <3>2. e = "streaming" => split'[e] = split[e]
      BY <1>2
    <3>3. WritesOut(e) <=> e = "streaming" /\ split'[e] = 0
      BY <3>1, <3>2 DEF WritesOut
    <3>4. QED BY <1>2, <1>4, <3>1, <3>3 DEF EndingInv
  <2>3. QED BY <2>1, <2>2
<1>9. QED BY <1>6, <1>7, <1>8 DEF ContentInv

\* A resolve step that is interrupted.
LEMMA ContentInterrupt == ASSUME Inv, NEW e \in Engines, ContentInv(e), InterruptResolve(e) PROVE ContentInv(e)'
<1>1. /\ job' = job /\ Total \in Nat /\ idx[e] \in 1..Total /\ dir' = dir /\ idx' = idx /\ pc[e] = "step"
      /\ steps[idx[e]].name = "resolve" /\ \A n \in Nets : dir[e][n] = None
  BY Steps_ DEF InterruptResolve, Inv, EngineInv, TypeInv, FlowInv, SplitInv
<1>2. frame'[e] = Append(frame[e], "partial") /\ pc'[e] = "salvage"
  BY DEF InterruptResolve, Goto, Inv, Shape
<1>3. frame'[e] = Partial(e, idx[e]) /\ Partial(e, idx[e]) \in Final(e)
  BY <1>1, <1>2 DEF ContentInv, RunningInv, Partial, Final
<1>4. out'[e] = IF WritesOut(e) THEN <<frame'[e]>> ELSE <<>>
  BY <1>1, <1>2, PublishedByStep DEF InterruptResolve
<1>5. RunningInv(e)'
  BY <1>1, <1>2, <1>3, Fixed DEF RunningInv
<1>6. PublishedInv(e)'
  BY <1>1, <1>3, <1>4, Fixed DEF PublishedInv
<1>7. EndingInv(e)'
  BY <1>2 DEF EndingInv
<1>8. QED BY <1>5, <1>6, <1>7 DEF ContentInv

\* The merge that finds no rows.
LEMMA ContentFailMerge == ASSUME Inv, NEW e \in Engines, ContentInv(e), FailMerge(e) PROVE ContentInv(e)'
<1>0. out[e] = <<>> /\ LeadingMerge
  BY Steps_ DEF FailMerge, Inv, EngineInv, TypeInv, FlowInv, LeadingMerge
<1>1. /\ job' = job /\ dir' = dir /\ pc'[e] \in {"failed", "cut"} /\ out'[e] = Append(<<>>, Empty)
  BY <1>0, Leaving DEF FailMerge, Inv, Shape
<1>2. RunningInv(e)' /\ EndingInv(e)'
  BY <1>1 DEF RunningInv, EndingInv
<1>3. \A k \in DOMAIN out'[e] : out'[e][k] = Empty
  BY <1>1
<1>4. PublishedInv(e)'
  BY <1>0, <1>1, <1>3, Fixed DEF ContentInv, PublishedInv
<1>5. QED BY <1>2, <1>4 DEF ContentInv

\* Publishing at the end, or opening the split.
LEMMA ContentFinalize == ASSUME Inv, NEW e \in Engines, ContentInv(e), Finalize(e) PROVE ContentInv(e)'
<1>1. /\ job' = job /\ dir' = dir /\ frame' = frame /\ split' = split /\ idx' = idx
      /\ pc[e] \in {"finalize", "salvage"}
  BY DEF Finalize
<1>2. CASE split[e] # 0 /\ ~job.cidrs
  <2>1. Leave(e, "refused") /\ out' = out
    BY <1>2 DEF Finalize
  <2>2. pc'[e] \in Failed \cup {"raw", "killed", "cut"}
    BY <2>1, Leaving DEF Inv, Failed
  <2>3. QED BY <1>1, <2>1, <2>2, ContentLeaving
<1>3. CASE split[e] # 0 /\ job.cidrs
  <2>1. pc'[e] = (IF pc[e] = "finalize" THEN "split" ELSE "splitPartial") /\ out' = out
    BY <1>3 DEF Finalize, Goto, Inv, Shape
  <2>2. RunningInv(e)'
    BY <1>1, <2>1, Fixed DEF ContentInv, RunningInv
  <2>3. PublishedInv(e)'
    BY <1>1, <2>1, Fixed DEF ContentInv, PublishedInv
  <2>4. EndingInv(e)'
    BY <2>1 DEF EndingInv
  <2>5. QED BY <2>2, <2>3, <2>4 DEF ContentInv
<1>4. CASE split[e] = 0
  <2>1. /\ pc'[e] \in {IF pc[e] = "finalize" THEN "done" ELSE "partial", "cut"}
        /\ out'[e] = IF e = "streaming" /\ pc[e] = "finalize" THEN out[e] ELSE Append(out[e], frame[e])
        /\ pc[e] = "salvage" => hint'[e] = "out"
    <3>1. Leave(e, IF pc[e] = "finalize" THEN "done" ELSE "partial")
      BY <1>4 DEF Finalize
    <3>2. QED BY <1>4, <3>1, Leaving DEF Finalize, HintFor, Inv, Shape
  <2>2. out[e] \in Seq(Frames) /\ frame[e] \in Frames
    BY DEF Inv, EngineInv, TypeInv
  <2>3. frame[e] \in Final(e)
    BY <1>1 DEF ContentInv, RunningInv, Final
  <2>4. RunningInv(e)'
    BY <1>1, <2>1, Fixed DEF ContentInv, RunningInv
  <2>5. PublishedInv(e)'
    <3>1. \A i \in DOMAIN out'[e] : (i \in DOMAIN out[e] /\ out'[e][i] = out[e][i]) \/ out'[e][i] = frame[e]
      BY <2>1, <2>2
    <3>2. QED BY <1>1, <2>3, <3>1, Fixed DEF ContentInv, PublishedInv
  <2>6. EndingInv(e)'
    <3>1. CASE pc[e] = "finalize" /\ pc'[e] # "cut"
      <4>1. out[e] = IF e = "streaming" THEN <<frame[e]>> ELSE <<>>
        BY <1>4, <3>1 DEF ContentInv, EndingInv
      <4>2. out'[e] = <<frame[e]>>
        BY <2>1, <3>1, <4>1
      <4>3. pc'[e] = "done" /\ frame'[e] = frame[e] /\ split'[e] = 0
        BY <1>1, <1>4, <2>1, <3>1
      <4>4. QED BY <4>2, <4>3 DEF EndingInv
    <3>2. CASE pc[e] = "salvage" /\ pc'[e] # "cut"
      <4>1. pc'[e] = "partial" /\ out'[e] = Append(out[e], frame[e]) /\ hint'[e] = "out" /\ frame'[e] = frame[e]
        BY <1>1, <2>1, <3>2
      <4>2. Append(out[e], frame[e]) # <<>> /\ Last(Append(out[e], frame[e])) = frame[e]
        BY <2>2 DEF Last
      <4>3. QED BY <4>1, <4>2 DEF EndingInv
    <3>3. CASE pc'[e] = "cut"
      BY <3>3 DEF EndingInv
    <3>4. QED BY <1>1, <3>1, <3>2, <3>3
  <2>7. QED BY <2>4, <2>5, <2>6 DEF ContentInv
<1>5. QED BY <1>2, <1>3, <1>4

\* One subnet's file.
LEMMA ContentWriteNet ==
    ASSUME Inv, NEW e \in Engines, ContentInv(e), NEW n \in Nets, WriteNet(e, n)
    PROVE  ContentInv(e)'
<1>1. /\ job' = job /\ pc' = pc /\ idx' = idx /\ frame' = frame /\ split' = split /\ out' = out
      /\ pc[e] \in {"split", "splitPartial"}
  BY DEF WriteNet
<1>2. dir'[e] = [dir[e] EXCEPT ![n] = frame[e]] /\ dir[e] = [m \in Nets |-> dir[e][m]]
  BY DEF WriteNet, Inv, Shape, EngineInv, TypeInv
<1>3. frame[e] \in Final(e)
  BY <1>1 DEF ContentInv, RunningInv, Final
<1>4. RunningInv(e)'
  BY <1>1, Fixed DEF ContentInv, RunningInv
<1>5. PublishedInv(e)'
  <2>1. \A m \in Nets : dir'[e][m] = IF m = n THEN frame[e] ELSE dir[e][m]
    BY <1>2
  <2>2. QED BY <1>1, <1>3, <2>1, Fixed DEF ContentInv, PublishedInv
<1>6. EndingInv(e)'
  BY <1>1 DEF EndingInv
<1>7. QED BY <1>4, <1>5, <1>6 DEF ContentInv

\* The end of the split.
LEMMA ContentSplitDone == ASSUME Inv, NEW e \in Engines, ContentInv(e), SplitDone(e) PROVE ContentInv(e)'
<1>1. /\ job' = job /\ idx' = idx /\ frame' = frame /\ split' = split /\ out' = out /\ dir' = dir
      /\ pc[e] \in {"split", "splitPartial"} /\ split[e] # 0
  BY DEF SplitDone, Inv, EngineInv, SplitInv
<1>2. \A n \in Nets : dir[e][n] = frame[e]
  BY DEF SplitDone, Inv, EngineInv, TypeInv
<1>3. /\ pc'[e] \in {IF pc[e] = "split" THEN "done" ELSE "partial", "cut"}
      /\ pc[e] = "splitPartial" => hint'[e] = "dir"
  <2>1. Leave(e, IF pc[e] = "split" THEN "done" ELSE "partial")
    BY DEF SplitDone
  <2>2. QED BY <1>1, <2>1, Leaving DEF SplitDone, HintFor, Inv, Shape
<1>4. RunningInv(e)'
  BY <1>1, <1>3, Fixed DEF ContentInv, RunningInv
<1>5. PublishedInv(e)'
  BY <1>1, Fixed DEF ContentInv, PublishedInv
<1>6. EndingInv(e)'
  <2>1. pc[e] = "split" => out[e] = <<>>
    BY DEF Inv, EngineInv, FlowInv
  <2>2. QED BY <1>1, <1>2, <1>3, <2>1 DEF EndingInv
<1>7. QED BY <1>4, <1>5, <1>6 DEF ContentInv
-----------------------------------------------------------------------------
\* Both engines start with nothing published.
LEMMA ResultInit == Init => ResultInv
<1> SUFFICES ASSUME Init PROVE ResultInv
  OBVIOUS
<1>1. ASSUME NEW e \in Engines PROVE ContentInv(e)
  <2>1. pc[e] = "start" /\ out[e] = <<>> /\ \A n \in Nets : dir[e][n] = None
    BY DEF Init
  <2>2. RunningInv(e) /\ EndingInv(e)
    BY <2>1 DEF RunningInv, EndingInv
  <2>3. PublishedInv(e)
    BY <2>1 DEF PublishedInv
  <2>4. QED BY <2>2, <2>3 DEF ContentInv
<1>2. QED BY <1>1, InvInit DEF ResultInv

\* Every step keeps what is published right.
LEMMA ResultStep == ResultInv /\ [Next]_vars => ResultInv'
<1> SUFFICES ASSUME ResultInv, [Next]_vars PROVE ResultInv'
  OBVIOUS
<1>1. Inv /\ Inv' /\ \A e \in Engines : ContentInv(e)
  BY InvStep DEF ResultInv
<1>2. ASSUME NEW e \in Engines, Acts(e) PROVE \A d \in Engines : ContentInv(d)'
  <2>1. Fail(e) => ContentInv(e)'
    <3>1. Fail(e) => Leave(e, "failed") /\ UNCHANGED <<job, out, dir>>
      BY DEF Fail
    <3>2. Fail(e) => pc'[e] \in {"failed", "cut"}
      BY <1>1, <3>1, Leaving DEF Inv
    <3>3. QED BY <1>1, <3>1, <3>2, ContentLeaving DEF Failed
  <2>2. InterruptElsewhere(e) => ContentInv(e)'
    <3>1. InterruptElsewhere(e) => Leave(e, "raw") /\ UNCHANGED <<job, out, dir>>
      BY DEF InterruptElsewhere
    <3>2. InterruptElsewhere(e) => pc'[e] \in {"raw", "cut"}
      BY <1>1, <3>1, Leaving DEF Inv
    <3>3. QED BY <1>1, <3>1, <3>2, ContentLeaving
  <2>3. Kill(e) => ContentInv(e)'
    BY <1>1, ContentLeaving DEF Kill, Goto, Inv, Shape
  <2>4. ContentInv(e)'
    BY <1>1, <1>2, <2>1, <2>2, <2>3, ContentStart, ContentRunStep, ContentInterrupt, ContentFailMerge,
       ContentFinalize, ContentWriteNet, ContentSplitDone DEF Acts
  <2>5. Alone(e)
    BY <1>1, <1>2, ActsAlone
  <2>6. ASSUME NEW d \in Engines, d # e PROVE ContentInv(d)'
    BY <1>1, <2>5, <2>6, ContentUntouched DEF Alone
  <2>7. QED BY <2>4, <2>6
<1>3. CASE UNCHANGED vars
  BY <1>1, <1>3, ContentUntouched DEF Same, vars, ResultInv
<1>4. QED BY <1>1, <1>2, <1>3 DEF Next, Acts, Work, Terminated, ResultInv

\* The invariant of what is published.
LEMMA ResultInvariance == Spec => []ResultInv
BY ResultInit, ResultStep, PTL DEF Spec

\* OnlyFinalFramesPublished: no engine ever publishes an intermediate stage.
THEOREM OnlyFinalFrames == Spec => []OnlyFinalFramesPublished
<1>1. ResultInv => OnlyFinalFramesPublished
  BY DEF ResultInv, ContentInv, PublishedInv, OnlyFinalFramesPublished, Final
<1>2. QED BY <1>1, ResultInvariance, PTL

\* DoneIsComplete: a finished run has published the result of all its steps, where it
\* was asked for and nowhere else.
THEOREM DoneRunsAreComplete == Spec => []DoneIsComplete
<1>1. ResultInv => DoneIsComplete
  <2> SUFFICES ASSUME ResultInv, NEW e \in Engines, pc[e] = "done"
               PROVE  IF RequestedBy(Total) # 0
                      THEN out[e] = <<>> /\ \A n \in Nets : dir[e][n] = Result(e, Total)
                      ELSE out[e] = <<Result(e, Total)>> /\ \A n \in Nets : dir[e][n] = None
    BY DEF DoneIsComplete
  <2>1. RequestedBy(Total) # 0 <=> Asked(Total)
    BY RequestedAsked DEF ResultInv, Inv
  <2>2. frame[e] = Result(e, Total) /\ (split[e] # 0 <=> Asked(Total))
    BY DEF ResultInv, ContentInv, RunningInv
  <2>3. IF split[e] # 0 THEN out[e] = <<>> /\ \A n \in Nets : dir[e][n] = frame[e]
                        ELSE out[e] = <<frame[e]>>
    BY DEF ResultInv, ContentInv, EndingInv
  <2>4. \A n \in Nets : dir[e][n] # None => split[e] # 0
    BY DEF ResultInv, Inv, EngineInv, SplitInv
  <2>5. QED BY <2>1, <2>2, <2>3, <2>4
<1>2. QED BY <1>1, ResultInvariance, PTL

\* HintNamesOutput: the resume hint names the place the partial frame is at.
THEOREM HintsNameOutput == Spec => []HintNamesOutput
<1>1. ResultInv => HintNamesOutput
  BY DEF ResultInv, ContentInv, RunningInv, EndingInv, HintNamesOutput
<1>2. QED BY <1>1, ResultInvariance, PTL

\* EnginesAgree: what both engines finish they have written alike.
THEOREM EnginesWriteTheSame == Spec => []EnginesAgree
<1>1. ResultInv => EnginesAgree
  <2> SUFFICES ASSUME ResultInv, \A e \in Engines : pc[e] = "done", ~(LeadingMerge /\ job.hasInput)
               PROVE  out["memory"] = out["streaming"] /\ dir["memory"] = dir["streaming"]
    BY DEF EnginesAgree
  <2>1. "memory" \in Engines /\ "streaming" \in Engines
    BY DEF Engines
  <2>2. \A e \in Engines : TypeInv(e) /\ SplitInv(e) /\ ContentInv(e)
    BY DEF ResultInv, Inv, EngineInv
  <2>3. Result("memory", Total) = Result("streaming", Total)
    <3>1. Total > 0
      BY <2>1, <2>2 DEF ContentInv, RunningInv
    <3>2. Source("memory") = Source("streaming")
      BY <3>1 DEF Source, LeadingMerge
    <3>3. QED BY <3>2 DEF Result
  <2>4. frame["memory"] = frame["streaming"] /\ (split["memory"] # 0 <=> split["streaming"] # 0)
    BY <2>1, <2>2, <2>3 DEF ContentInv, RunningInv
  <2>5. ASSUME NEW e \in Engines
        PROVE  /\ out[e] = IF split[e] # 0 THEN <<>> ELSE <<frame[e]>>
               /\ dir[e] = [n \in Nets |-> IF split[e] # 0 THEN frame[e] ELSE None]
    BY <2>2 DEF ContentInv, EndingInv, TypeInv, SplitInv
  <2>6. CASE split["memory"] = 0
    <3>1. split["streaming"] = 0
      BY <2>4, <2>6
    <3>2. \A e \in Engines : out[e] = <<frame[e]>> /\ dir[e] = [n \in Nets |-> None]
      <4> SUFFICES ASSUME NEW e \in Engines PROVE out[e] = <<frame[e]>> /\ dir[e] = [n \in Nets |-> None]
        OBVIOUS
      <4>1. split[e] = 0
        BY <2>6, <3>1 DEF Engines
      <4>2. QED BY <2>5, <4>1
    <3>3. QED BY <2>1, <2>4, <3>2
  <2>7. CASE split["memory"] # 0
    <3>1. split["streaming"] # 0
      BY <2>4, <2>7
    <3>2. \A e \in Engines : out[e] = <<>> /\ dir[e] = [n \in Nets |-> frame[e]]
      <4> SUFFICES ASSUME NEW e \in Engines PROVE out[e] = <<>> /\ dir[e] = [n \in Nets |-> frame[e]]
        OBVIOUS
      <4>1. split[e] # 0
        BY <2>7, <3>1 DEF Engines
      <4>2. QED BY <2>5, <4>1
    <3>3. QED BY <2>1, <2>4, <3>2
  <2>8. QED BY <2>6, <2>7
<1>2. QED BY <1>1, ResultInvariance, PTL
=============================================================================
