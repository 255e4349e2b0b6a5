--------------------------- MODULE PipelineRunner ---------------------------
(***************************************************************************)
(* runner.py: `pyresolv run`, both engines.  The in-memory engine hands a  *)
(* frame from step to step; the streaming engine chains the path-based     *)
(* stages through files of a temporary directory.  Both run the same job   *)
(* here, side by side and independently, so that their outcomes can be     *)
(* compared.                                                               *)
(*                                                                         *)
(* The content of a frame is the sequence of what produced it: "input" and *)
(* the names of the stages applied, "partial" for an interrupted resolve.  *)
(***************************************************************************)
EXTENDS Naturals, Sequences, SequencesExt

CONSTANTS
    Pipelines,      \* step lists a run may be given
    Nets,           \* subnets a split writes a file for
    MaxInterrupts   \* bound: signals delivered to one run

Engines == {"memory", "streaming"}

\* STEP_TABLE
Stages == {"collect", "trim", "merge", "aggregate", "resolve"}
Mistyped == "mistyped"      \* any other name

\* A step: its stage, whether its params are valid, whether it asks for a
\* per-subnet split, and whether it names input files of its own (merge).
Steps == [name : Stages \cup {Mistyped}, valid : BOOLEAN, outDir : BOOLEAN, inputs : BOOLEAN]

ASSUME PipelinesAssumption ==
    /\ Pipelines \subseteq Seq(Steps)
    /\ MaxInterrupts \in Nat
    /\ \A p \in Pipelines : \A i \in DOMAIN p :
          (p[i].outDir => p[i].name = "aggregate") /\ (p[i].inputs => p[i].name = "merge")

Marks == {"input", "partial", "empty"} \cup Stages
Frames == Seq(Marks)
None == <<>>            \* no frame yet
Empty == <<"empty">>    \* an output file of no bytes

VARIABLES
    job,        \* the run: steps, -i given, -o given, subnets configured
    pc,         \* per engine: where it is
    idx,        \* the step it is at
    frame,      \* content of the running frame, or of the current file
    split,      \* index of the step whose split is requested, 0 for none
    temps,      \* steps whose temporary file exists
    out,        \* what was written to -o or stdout, in order
    dir,        \* content of each per-subnet file
    hint,       \* where ResolveInterrupted says the partial result is
    interrupts  \* signals delivered

vars == <<job, pc, idx, frame, split, temps, out, dir, hint, interrupts>>

Jobs == [steps : Pipelines, hasInput : BOOLEAN, toFile : BOOLEAN, cidrs : BOOLEAN]

steps == job.steps
Total == Len(steps)
Failed == {"failed", "refused"}     \* exit 1; refused: a split without subnets
Ended == {"done", "partial", "raw", "killed", "cut"} \cup Failed
PCs == {"start", "step", "finalize", "salvage", "split", "splitPartial"} \cup Ended

Init ==
    /\ job \in Jobs
    /\ pc = [e \in Engines |-> "start"]
    /\ idx = [e \in Engines |-> 1]
    /\ frame = [e \in Engines |-> None]
    /\ split = [e \in Engines |-> 0]
    /\ temps = [e \in Engines |-> {}]
    /\ out = [e \in Engines |-> <<>>]
    /\ dir = [e \in Engines |-> [n \in Nets |-> None]]
    /\ hint = [e \in Engines |-> "none"]
    /\ interrupts = [e \in Engines |-> 0]

\* Stages that consume the running frame.
NeedsInput == {"trim", "aggregate", "resolve"}

\* load_pipeline_config: a list of known stages, not empty.
WellFormed == Total > 0 /\ \A i \in 1..Total : steps[i].name \in Stages

\* -i or stdin, for a first step that reads; a leading merge of the streaming
\* engine takes -i as one more file, the in-memory engine has no frame for it.
Source(e) ==
    IF \/ steps[1].name \in NeedsInput
       \/ e = "streaming" /\ steps[1].name = "merge" /\ job.hasInput
    THEN <<"input">> ELSE None

\* What a stage makes of the running frame; collect produces its own.
After(step, f) == IF step.name = "collect" THEN <<"collect">> ELSE Append(f, step.name)

\* _require_frame, and a merge with no frame and no files of its own has nothing to merge.
Runnable(step, f) ==
    /\ step.name \in NeedsInput => f # None
    /\ step.name = "merge" => f # None \/ step.inputs

\* The split requested by the last step among the first n that asks for one.
RequestedBy(n) ==
    LET asking == {i \in 1..n : steps[i].outDir}
    IN  IF asking = {} THEN 0 ELSE CHOOSE i \in asking : \A j \in asking : j <= i

Goto(e, p) == pc' = [pc EXCEPT ![e] = p]
\* Leaving the run; the streaming engine's TemporaryDirectory is removed, file by file.  A
\* signal or a kill on the way out cuts that short, and some of the files stay.
Leave(e, p) ==
    \/ Goto(e, p) /\ temps' = [temps EXCEPT ![e] = {}]
    \/ Goto(e, "cut") /\ \E left \in SUBSET temps[e] : temps' = [temps EXCEPT ![e] = left]
-----------------------------------------------------------------------------
\* A config that is no list of stages is refused before anything is done.  Then the
\* in-memory engine reads its input if the first step consumes one; the streaming
\* engine validates every step's params, notes the requested split and makes -i (or,
\* for a stage that reads, stdin) the first file.
Start(e) ==
    /\ pc[e] = "start"
    /\ IF ~WellFormed \/ (e = "streaming" /\ \E i \in 1..Total : ~steps[i].valid)
       THEN /\ Goto(e, "failed")
            /\ UNCHANGED <<split, frame>>
       ELSE /\ split' = [split EXCEPT ![e] = IF e = "streaming" THEN RequestedBy(Total) ELSE 0]
            /\ frame' = [frame EXCEPT ![e] = Source(e)]
            /\ Goto(e, "step")
    /\ UNCHANGED <<job, idx, temps, out, dir, hint, interrupts>>

\* Mutants: the last step goes to -o although its result is to be split, and
\* every step goes to -o.
LastStepToOut(e) == e = "streaming" /\ idx[e] = Total
EveryStepToOut(e) == e = "streaming" /\ split[e] = 0
\* A streaming step writes -o itself when it is the last one of a run without split.
WritesOut(e) == e = "streaming" /\ idx[e] = Total /\ split[e] = 0

\* Mutant: steps numbered from 0.
StepNumberFromZero(e) == idx[e] - 1
\* The number in the name of a step's temporary file.
StepNumber(e) == idx[e]

\* Mutant: the file a step has read is not kept.
LatestTempOnly(e) == {StepNumber(e)}
\* Temporary files stay until the directory goes.
TempsAfter(e) == temps[e] \cup {StepNumber(e)}

\* Where a step of the streaming engine leaves its result.
StepOutput(e, f) ==
    IF e = "memory" THEN UNCHANGED <<out, temps>>
    ELSE IF WritesOut(e)
         THEN out' = [out EXCEPT ![e] = Append(@, f)] /\ UNCHANGED temps
         ELSE temps' = [temps EXCEPT ![e] = TempsAfter(e)] /\ UNCHANGED out

\* A step runs to its end.  The in-memory engine captures its split request now.
RunStep(e) ==
    LET step == steps[idx[e]]
        f == After(step, frame[e])
    IN  /\ pc[e] = "step"
        /\ step.valid
        /\ Runnable(step, frame[e])
        /\ frame' = [frame EXCEPT ![e] = f]
        /\ StepOutput(e, f)
        /\ split' = [split EXCEPT ![e] = IF e = "memory" /\ step.outDir THEN idx[e] ELSE @]
        /\ idx' = [idx EXCEPT ![e] = @ + 1]
        /\ Goto(e, IF idx[e] < Total THEN "step" ELSE "finalize")
        /\ UNCHANGED <<job, dir, hint, interrupts>>

\* An unreadable input, invalid params, nothing to merge, an error of the stage or
\* of the write of its result: exit 1.  Subnet files already written stay.  When the
\* last streaming step has written -o there is nothing left to fail.
Fail(e) ==
    /\ pc[e] \notin Ended
    /\ ~(e = "streaming" /\ pc[e] = "finalize" /\ split[e] = 0)
    /\ Leave(e, "failed")
    /\ UNCHANGED <<job, idx, frame, split, out, dir, hint, interrupts>>

\* merge: finds only after its output is in place that all its inputs were empty.
\* The frames of earlier steps have a header, so this is a merge that comes first.
FailMerge(e) ==
    /\ pc[e] = "step"
    /\ idx[e] = 1 /\ steps[1].name = "merge"
    /\ Runnable(steps[1], frame[e])
    /\ WritesOut(e)
    /\ out' = [out EXCEPT ![e] = Append(@, Empty)]
    /\ Leave(e, "failed")
    /\ UNCHANGED <<job, idx, frame, split, dir, hint, interrupts>>

\* The resolve loop is interrupted: Resolver.resolve of the streaming engine has
\* already written the partial frame to the step's output when it arrives here.
InterruptResolve(e) ==
    /\ pc[e] = "step"
    /\ steps[idx[e]].name = "resolve" /\ steps[idx[e]].valid
    /\ interrupts[e] < MaxInterrupts
    /\ interrupts' = [interrupts EXCEPT ![e] = @ + 1]
    /\ frame' = [frame EXCEPT ![e] = Append(@, "partial")]
    /\ StepOutput(e, Append(frame[e], "partial"))
    /\ Goto(e, "salvage")
    /\ UNCHANGED <<job, idx, split, dir, hint>>

\* A signal anywhere else ends the run; a split keeps the files it has written.
InterruptElsewhere(e) ==
    /\ pc[e] \notin Ended
    /\ interrupts[e] < MaxInterrupts
    /\ interrupts' = [interrupts EXCEPT ![e] = @ + 1]
    /\ Leave(e, "raw")
    /\ UNCHANGED <<job, idx, frame, split, out, dir, hint>>

\* Mutant: the hint names -o whatever the sink was.
HintOutput(e) == "out"
\* _mark_partial_output.
HintFor(e) == IF split[e] # 0 THEN "dir" ELSE "out"

\* _finalize: to the subnets if a split is requested (an error if none are
\* configured), else to -o.  A streaming run without split wrote -o already.
Finalize(e) ==
    /\ pc[e] \in {"finalize", "salvage"}
    /\ IF split[e] # 0
       THEN /\ IF job.cidrs THEN Goto(e, IF pc[e] = "finalize" THEN "split" ELSE "splitPartial")
                                 /\ UNCHANGED temps
                            ELSE Leave(e, "refused")
            /\ UNCHANGED <<out, hint>>
       ELSE /\ out' = IF e = "streaming" /\ pc[e] = "finalize" THEN out
                      ELSE [out EXCEPT ![e] = Append(@, frame[e])]
            /\ hint' = IF pc[e] = "salvage" THEN [hint EXCEPT ![e] = HintFor(e)] ELSE hint
            /\ Leave(e, IF pc[e] = "finalize" THEN "done" ELSE "partial")
    /\ UNCHANGED <<job, idx, frame, split, dir, interrupts>>

\* write_split_by_subnet: one file per subnet, each written whole.
WriteNet(e, n) ==
    /\ pc[e] \in {"split", "splitPartial"}
    /\ dir[e][n] = None
    /\ dir' = [dir EXCEPT ![e][n] = frame[e]]
    /\ UNCHANGED <<job, pc, idx, frame, split, temps, out, hint, interrupts>>

SplitDone(e) ==
    /\ pc[e] \in {"split", "splitPartial"}
    /\ \A n \in Nets : dir[e][n] # None
    /\ hint' = IF pc[e] = "splitPartial" THEN [hint EXCEPT ![e] = HintFor(e)] ELSE hint
    /\ Leave(e, IF pc[e] = "split" THEN "done" ELSE "partial")
    /\ UNCHANGED <<job, idx, frame, split, out, dir, interrupts>>

\* SIGKILL before the run is on its way out: nothing is cleaned up.  A power loss may take
\* back what has been written, see PowerLoss in OutputFile.
Kill(e) ==
    /\ pc[e] \notin Ended
    /\ Goto(e, "killed")
    /\ UNCHANGED <<job, idx, frame, split, temps, out, dir, hint, interrupts>>

Work(e) ==
    Start(e) \/ RunStep(e) \/ Fail(e) \/ FailMerge(e) \/ Finalize(e) \/ SplitDone(e) \/ \E n \in Nets : WriteNet(e, n)

\* Both engines have come to an end.
Terminated == (\A e \in Engines : pc[e] \in Ended) /\ UNCHANGED vars

Next ==
    \/ \E e \in Engines : Work(e) \/ InterruptResolve(e) \/ InterruptElsewhere(e) \/ Kill(e)
    \/ Terminated

Spec == Init /\ [][Next]_vars
-----------------------------------------------------------------------------
(* Properties. *)

\* Every variable holds what the code can put there: no frame has more history than
\* steps were run, nothing is published more than twice, and a subnet's file holds the
\* frame of one of the engines.
TypeOK ==
    /\ job \in Jobs
    /\ pc \in [Engines -> PCs]
    /\ idx \in [Engines -> Nat] /\ \A e \in Engines : idx[e] \in 1..(Total + 1)
    /\ frame \in [Engines -> Frames] /\ \A e \in Engines : Len(frame[e]) <= Total + 1
    /\ split \in [Engines -> 0..Total]
    /\ temps \in [Engines -> SUBSET (1..Total)]
    /\ out \in [Engines -> Seq(Frames)] /\ \A e \in Engines : Len(out[e]) <= 2
    /\ dir \in [Engines -> [Nets -> {None} \cup {frame[e] : e \in Engines}]]
    /\ hint \in [Engines -> {"none", "out", "dir"}]
    /\ interrupts \in [Engines -> 0..MaxInterrupts]

\* What the first n steps of a list make of a source, for every n.
History(source, list) ==
    LET made[n \in 0..Len(list)] == IF n = 0 THEN source ELSE After(list[n], made[n - 1])
    IN  made

\* What the first n steps make of the source.
Result(e, n) == History(Source(e), steps)[n]

\* The frame a resolve at step n leaves when it is interrupted.
Partial(e, n) == Append(Result(e, n - 1), "partial")

\* The two places where the engines differ: -i of a leading merge, and the empty
\* file a leading merge can leave.
LeadingMerge == Total > 0 /\ steps[1].name = "merge"

\* Everything the engine ever puts at -o or in a subnet's file is the result of
\* all the steps, or the partial frame of the resolve step it was interrupted in:
\* never an intermediate stage, never the result of steps out of order.
OnlyFinalFramesPublished ==
    \A e \in Engines :
        LET final == {Result(e, Total)}
                       \cup {Partial(e, n) : n \in {i \in 1..Total : steps[i].name = "resolve"}}
        IN  /\ \A i \in DOMAIN out[e] : out[e][i] \in final \/ (LeadingMerge /\ out[e][i] = Empty)
            /\ \A n \in Nets : dir[e][n] # None => dir[e][n] \in final

\* A finished run has published the result of all its steps, in every subnet file
\* if any step asked for the split and at -o otherwise, and nowhere else.
DoneIsComplete ==
    \A e \in Engines : pc[e] = "done" =>
        IF RequestedBy(Total) # 0
        THEN out[e] = <<>> /\ \A n \in Nets : dir[e][n] = Result(e, Total)
        ELSE out[e] = <<Result(e, Total)>> /\ \A n \in Nets : dir[e][n] = None

\* An interrupt that promises a resume command names the place the partial frame is at.
HintNamesOutput ==
    \A e \in Engines : pc[e] = "partial" =>
        LET partial == Partial(e, idx[e])
        IN  \/ hint[e] = "out" /\ out[e] # <<>> /\ Last(out[e]) = partial
            \/ hint[e] = "dir" /\ \A n \in Nets : dir[e][n] = partial

\* A run that fails by itself, be it in the middle of writing the subnet files, leaves
\* what was at -o alone, unless that is a leading merge, and a run that asked for no
\* split writes no subnet file.
FailureLeavesOutput ==
    \A e \in Engines : pc[e] \in Failed /\ job.toFile =>
        /\ interrupts[e] = 0 /\ ~LeadingMerge => out[e] = <<>>
        /\ RequestedBy(Total) = 0 => \A n \in Nets : dir[e][n] = None

\* After a kill before the run was on its way out the files of all finished streaming steps
\* are still there to resume from, and a run that ended otherwise leaves none behind, unless
\* a further signal or a kill hit the removal of its temporary directory.
FinishedStagesSurvive ==
    /\ pc["streaming"] = "killed" =>
          \A i \in 1..(idx["streaming"] - 1) : i \in temps["streaming"] \/ i = Total
    /\ pc["streaming"] \in Ended \ {"killed", "cut"} => temps["streaming"] = {}

\* When both engines finish the same job they have written the same files, but for a
\* leading merge that is given -i as well.
EnginesAgree ==
    (\A e \in Engines : pc[e] = "done") /\ ~(LeadingMerge /\ job.hasInput) =>
        out["memory"] = out["streaming"] /\ dir["memory"] = dir["streaming"]
=============================================================================
