---------------------------- MODULE StageCliProofs ----------------------------
(***************************************************************************)
(* Proofs about StageCli, for any files, names, rows, command lines and    *)
(* settings: the type invariant, that rows which were read survive, that   *)
(* an input goes only when the output is in place, that exit code 0 means  *)
(* done, and that a partial result never shrinks.                          *)
(***************************************************************************)
EXTENDS StageCli, TLAPS

ReadRows == UNION {RowsOf(before[FileOf[n]]) : n \in Reads(cmd) \ {Stdio}}

\* The files of the output that are in place.
Placed == Targets(cmd, result) \ todo

Flushed == ToStdout(cmd) => buffered \cup sent = result.rows

\* Nothing made yet.
Fresh ==
    /\ disk = before
    /\ result = NoDoc /\ partial = FALSE
    /\ todo = {} /\ doomed = <<>> /\ buffered = {} /\ sent = {}

\* Why a file may be gone.
Deleted(f) ==
    /\ cmd.delete /\ ~partial /\ todo = {}
    /\ \E n \in ToSet(cmd.input) \ {Stdio} : FileOf[n] = f
    /\ code \in {NoCode, 0, 120, 130, 137}
    /\ Flushed \/ code \in {120, 137}

\* The stage has made its result.
Made ==
    /\ ReadRows \subseteq result.rows
    /\ todo \subseteq Targets(cmd, result)
    /\ partial => cmd.type = "resolve"
    /\ \A f \in Placed : disk[f] = Part(f)
    /\ \A f \in Files \ Placed : disk[f] = before[f] \/ (disk[f] = NoFile /\ Deleted(f))

LoadInv == pc = "load" => Fresh /\ code = NoCode

WriteInv == pc = "write" =>
    /\ Made
    /\ doomed = <<>> /\ code = NoCode
    /\ \A f \in Files \ Placed : disk[f] = before[f]

DeleteInv == pc = "delete" =>
    /\ Made
    /\ todo = {} /\ ~partial /\ code = NoCode /\ Flushed
    /\ doomed # <<>> => cmd.delete
    /\ \A i \in DOMAIN doomed : doomed[i] \in ToSet(cmd.input)

ZeroInv == code = 0 =>
    /\ pc \in {"flush", "idle"}
    /\ ToStdout(cmd) => disk = before \/ Flushed
    /\ ~ToStdout(cmd) => Made /\ ~partial /\ todo = {}

\* The file of the resume command, and the command that resumes it.
HintInv == hint # NoHint =>
    /\ hint \in Names /\ disk[FileOf[hint]] # NoFile
    /\ cmd.type = "resolve" /\ cmd.out = hint
    /\ pc \in {"load", "write", "delete"} => ~cmd.delete /\ cmd.input = <<hint>>
    /\ pc = "write" => before[FileOf[hint]].filled \subseteq result.filled

Stages == (Fresh \/ Made) /\ LoadInv /\ WriteInv /\ DeleteInv /\ ZeroInv /\ HintInv
Inv == TypeOK /\ Stages
-----------------------------------------------------------------------------
(* What the operators give. *)

\* A document is not the mark of a missing file.
LEMMA DocIsThere == ASSUME NEW d \in Docs PROVE d # NoFile
<1>1. DOMAIN d = {"header", "rows", "filled"}
  BY DEF Docs
<1>2. DOMAIN NoFile = {"absent"}
  BY DEF NoFile
<1>3. "header" # "absent"
  OBVIOUS
<1>4. QED BY <1>1, <1>2, <1>3

\* A name that is read is one the user gave, or stdin.
LEMMA ReadsTyped ==
    ASSUME NEW c \in CommandLines
    PROVE  /\ Inputs(c) \in Seq(Names \cup {Stdio}) /\ Len(Inputs(c)) > 0
           /\ First(c) \in Names \cup {Stdio}
           /\ Reads(c) \subseteq Names \cup {Stdio}
           /\ c.type # "collect" => First(c) \in Reads(c)
<1>1. c.input \in Seq(Names \cup {Stdio}) /\ c.type \in Types
  BY DEF CommandLines
<1>2. Inputs(c) \in Seq(Names \cup {Stdio}) /\ Len(Inputs(c)) > 0
  <2>1. CASE c.input = <<>>
    <3>1. Inputs(c) = <<Stdio>>
      BY <2>1 DEF Inputs
    <3>2. QED BY <3>1
  <2>2. CASE c.input # <<>>
    BY <1>1, <2>2 DEF Inputs
  <2>3. QED BY <2>1, <2>2
<1>3. First(c) \in Names \cup {Stdio} /\ First(c) \in ToSet(Inputs(c))
  BY <1>2 DEF First, ToSet
<1>4. ToSet(Inputs(c)) \subseteq Names \cup {Stdio}
  BY <1>2 DEF ToSet
<1>5. Reads(c) \subseteq Names \cup {Stdio} /\ (c.type # "collect" => First(c) \in Reads(c))
  BY <1>1, <1>3, <1>4 DEF Reads, Types
<1>6. QED BY <1>2, <1>3, <1>5

\* What stands under a name that is not missing.
LEMMA ContentTyped ==
    ASSUME disk \in Contents, NEW n \in Names \cup {Stdio}, Content(n) # NoFile
    PROVE  Content(n) \in SoundDocs
<1>1. CASE n = Stdio
  BY <1>1 DEF Content, SoundDocs, Docs
<1>2. CASE n # Stdio
  BY <1>2, StageAssumption DEF Content, Contents
<1>3. QED BY <1>1, <1>2

\* The files of an output are files.
LEMMA TargetsTyped ==
    ASSUME NEW c \in CommandLines, NEW d \in Docs
    PROVE  Targets(c, d) \subseteq Files
BY StageAssumption DEF Targets, CommandLines, Docs

\* A file that is named is none of a split.
LEMMA TargetsApart ==
    ASSUME NEW c \in CommandLines, NEW d \in Docs, NEW n \in Names, c.split
    PROVE  FileOf[n] \notin Targets(c, d)
BY StageAssumption DEF Targets, Docs

\* A part of a sound document is sound.
LEMMA PartTyped ==
    ASSUME result \in SoundDocs, NEW f
    PROVE  Part(f) \in SoundDocs
BY DEF Part, SoundDocs, Docs

\* Filling keeps the rows and what was filled.
LEMMA FillTyped ==
    ASSUME NEW d \in SoundDocs, NEW answers \in SUBSET Answerable
    PROVE  /\ Fill(d, answers) \in SoundDocs
           /\ Fill(d, answers).rows = d.rows
           /\ d.filled \subseteq Fill(d, answers).filled
           /\ Fill(d, answers).header = d.header
BY DEF Fill, SoundDocs, Docs

\* Every command line the code runs has a type.
LEMMA TypesOf ==
    ASSUME NEW c \in CommandLines
    PROVE  c.type \in {"collect", "trim", "merge", "aggregate", "resolve"}
BY DEF CommandLines, Types

\* A result is sound and has the rows that were read.
LEMMA ResultTyped ==
    ASSUME disk \in Contents, NEW c \in CommandLines, ~Missing(c)
    PROVE  /\ Result(c) \in SoundDocs
           /\ \A n \in Reads(c) : Content(n).rows \subseteq Result(c).rows
           /\ c.type = "resolve" => Content(First(c)).filled \subseteq Result(c).filled
<1>1. \A n \in Reads(c) : Content(n) \in SoundDocs
  BY ReadsTyped, ContentTyped DEF Missing
<1> DEFINE d == Content(First(c))
<1>2. c.type # "collect" => d \in SoundDocs
  BY <1>1, ReadsTyped
<1>3. c.type \notin {"collect", "merge"} => \A n \in Reads(c) : n = First(c)
  BY DEF Reads
<1>4. CASE c.type = "collect"
  <2>1. Result(c) = Collected
    BY <1>4 DEF Result
  <2>2. Collected \in SoundDocs
    BY DEF Collected, SoundDocs, Docs
  <2>3. Reads(c) = {}
    BY <1>4 DEF Reads
  <2>4. QED BY <1>4, <2>1, <2>2, <2>3
<1>5. CASE c.type = "trim"
  <2>1. Result(c) = d
    BY <1>5 DEF Result, Trimmed
  <2>2. QED BY <1>2, <1>3, <1>5, <2>1
<1>6. CASE c.type = "merge"
  <2> DEFINE docs == {Content(n) : n \in Reads(c)}
  <2>1. Result(c) = Merged(docs)
    BY <1>6 DEF Result
  <2>2. docs \subseteq SoundDocs
    BY <1>1
  <2> HIDE DEF docs
  <2>3. Merged(docs) \in SoundDocs /\ \A e \in docs : e.rows \subseteq Merged(docs).rows
    BY <2>2 DEF Merged, SoundDocs, Docs
  <2>4. \A n \in Reads(c) : Content(n) \in docs
    BY DEF docs
  <2>5. QED BY <1>6, <2>1, <2>3, <2>4
<1>7. CASE c.type = "aggregate"
  <2>1. Result(c) = Aggregated(d)
    BY <1>7 DEF Result
  <2>2. d \in SoundDocs
    BY <1>2, <1>7
  <2> HIDE DEF d
  <2>3. Aggregated(d) \in SoundDocs /\ Aggregated(d).rows = d.rows
    BY <2>2 DEF Aggregated, SoundDocs, Docs
  <2>4. \A n \in Reads(c) : Content(n) = d
    BY <1>3, <1>7 DEF d
  <2>5. QED BY <1>7, <2>1, <2>3, <2>4
<1>8. CASE c.type = "resolve"
  <2>1. Result(c) = Fill(d, Answerable)
    BY <1>8 DEF Result
  <2>2. d \in SoundDocs
    BY <1>2, <1>8
  <2>3. \A n \in Reads(c) : Content(n) = d
    BY <1>3, <1>8
  <2> HIDE DEF d
  <2>4. /\ Fill(d, Answerable) \in SoundDocs /\ Fill(d, Answerable).rows = d.rows
        /\ d.filled \subseteq Fill(d, Answerable).filled
    BY <2>2, FillTyped
  <2>5. QED BY <1>8, <2>1, <2>3, <2>4 DEF d
<1>9. QED BY <1>4, <1>5, <1>6, <1>7, <1>8, TypesOf

\* The exit codes.
LEMMA ExitCodes ==
    /\ ExitCode("done") = 0 /\ ExitCode("broken pipe") = 0 /\ ExitCode("error") = 1
    /\ ExitCode("configuration") = 2 /\ ExitCode("interrupted") = 130
<1>1. ExitCode("done") = 0
  BY DEF ExitCode
<1>2. ExitCode("broken pipe") = 0
  BY DEF ExitCode
<1>3. ExitCode("error") = 1
  BY DEF ExitCode
<1>4. ExitCode("configuration") = 2
  BY DEF ExitCode
<1>5. ExitCode("interrupted") = 130
  BY DEF ExitCode
<1>6. QED BY <1>1, <1>2, <1>3, <1>4, <1>5
-----------------------------------------------------------------------------
(* Types. *)

\* TypeOK but for the one Boolean.
Plain ==
    /\ disk \in Contents /\ before \in Contents
    /\ settings \in Environments /\ cmd \in CommandLines
    /\ pc \in {"idle", "load", "write", "delete", "flush"}
    /\ result \in SoundDocs
    /\ todo \subseteq Files /\ doomed \in Seq(Names \cup {Stdio})
    /\ sent \cup buffered \subseteq result.rows /\ sent \cap buffered = {}
    /\ code \in {NoCode, 0, 1, 2, 120, 130, 137}
    /\ hint \in Names \cup {NoHint}
    /\ runs \in 0..MaxRuns /\ faults \in 0..MaxFaults

LEMMA Typing == TypeOK <=> Plain /\ partial \in BOOLEAN
BY Zenon DEF TypeOK, Plain

LEMMA InitTypes == Init => TypeOK
<1> SUFFICES ASSUME Init PROVE TypeOK
  OBVIOUS
<1>1. disk \in Contents /\ before \in Contents /\ cmd \in CommandLines
  BY StageAssumption DEF Init
<1>2. NoDoc \in SoundDocs
  BY DEF NoDoc, SoundDocs, Docs
<1>3. partial \in BOOLEAN
  BY Zenon DEF Init
<1>4. Plain
  BY <1>1, <1>2, StageAssumption DEF Init, Plain, NoHint
<1>5. QED BY <1>3, <1>4, Typing

\* The command that resumes is a command line.
LEMMA ResumeTyped ==
    ASSUME NEW c \in CommandLines, NEW n \in Names
    PROVE  ResumeOf(c, n) \in CommandLines
<1>1. <<n>> \in Seq(Names \cup {Stdio})
  OBVIOUS
<1>2. c.gunter \in BOOLEAN
  BY DEF CommandLines
<1>3. QED BY <1>1, <1>2 DEF ResumeOf, CommandLines, Types, EnvFiles

\* Starting a command.
LEMMA RunTypes ==
    ASSUME Plain, NEW c \in CommandLines, Run(c), runs' \in 0..MaxRuns
    PROVE  Plain'
<1>1. NoDoc \in SoundDocs
  BY DEF NoDoc, SoundDocs, Docs
<1>2. QED BY <1>1 DEF Plain, Run

\* A result that is made.
LEMMA MadeTypes ==
    ASSUME TypeOK, pc = "load", Fresh, ~Refused(cmd)
    PROVE  /\ Result(cmd) \in SoundDocs
           /\ cmd.type = "resolve" => \A answers \in SUBSET Answerable :
                  Fill(Content(First(cmd)), answers) \in SoundDocs
<1>1. cmd \in CommandLines /\ disk \in Contents /\ ~Missing(cmd)
  BY DEF TypeOK, Refused
<1>2. cmd.type = "resolve" => Content(First(cmd)) \in SoundDocs
  BY <1>1, ReadsTyped, ContentTyped DEF Missing
<1>3. QED BY <1>1, <1>2, ResultTyped, FillTyped

\* A fault is counted.
LEMMA FaultCounted == ASSUME Plain, Fault PROVE faults' \in 0..MaxFaults
BY StageAssumption DEF Plain, Fault

\* Every action gives the other variables values of their types.
LEMMA StepPlain ==
    ASSUME TypeOK, Plain, LoadInv, [Next]_vars
    PROVE  Plain'
<1>1. ASSUME NEW c \in Commands, Start(c) PROVE Plain'
  <2>1. c \in CommandLines /\ Run(c) /\ runs' \in 0..MaxRuns
    BY <1>1, StageAssumption DEF Start, Plain
  <2>2. QED BY <2>1, RunTypes
<1>2. CASE Resume
  <2>1. ResumeOf(cmd, hint) \in CommandLines /\ Run(ResumeOf(cmd, hint)) /\ runs' \in 0..MaxRuns
    BY <1>2, ResumeTyped DEF Resume, Plain, NoHint
  <2>2. QED BY <2>1, RunTypes
<1>3. CASE Refuse
  BY <1>3, ExitCodes DEF Refuse, End, Plain, process, output
<1>4. CASE Load
  <2>1. result' \in SoundDocs /\ todo' \subseteq Files /\ buffered = {} /\ sent = {}
    BY <1>4, MadeTypes, TargetsTyped DEF Load, LoadInv, Fresh, Plain, SoundDocs
  <2>2. QED BY <1>4, <2>1 DEF Load, Plain
<1>5. CASE SomeAnswers
  <2>1. pc = "load" /\ Fresh /\ ~Refused(cmd) /\ cmd.type = "resolve"
    BY <1>5 DEF SomeAnswers, LoadInv
  <2>3. PICK answers \in SUBSET Answerable : result' = Fill(Content(First(cmd)), answers)
    BY <1>5 DEF SomeAnswers
  <2>4. result' \in SoundDocs
    BY <2>1, <2>3, MadeTypes
  <2>5. todo' \subseteq Files
    BY <1>5, <2>4, TargetsTyped DEF SomeAnswers, Plain, SoundDocs
  <2>6. buffered = {} /\ sent = {}
    BY <2>1 DEF Fresh
  <2>2. QED BY FaultCounted, <1>5, <2>4, <2>5, <2>6 DEF SomeAnswers, Plain
<1>6. ASSUME NEW f \in Files, Put(f) PROVE Plain'
  <2>1. Part(f) \in SoundDocs
    BY PartTyped DEF Plain
  <2>2. disk' \in Contents
    BY <1>6, <2>1 DEF Put, Plain, Contents
  <2>3. QED BY <1>6, <2>2 DEF Put, Plain, process
<1>7. ASSUME NEW rest \in SUBSET Rows, WriteRows(rest) PROVE Plain'
  BY <1>7 DEF WriteRows, Plain, process
<1>8. CASE BreakPipe
  BY FaultCounted, <1>8, ExitCodes DEF BreakPipe, Plain, process
<1>9. CASE Return
  <2>1. cmd.out \in Names \cup {NoHint} /\ cmd.input \in Seq(Names \cup {Stdio})
    BY DEF Plain, CommandLines, NoHint
  <2>2. hint' \in {hint, cmd.out} /\ doomed' \in {doomed, cmd.input, <<>>}
    BY <1>9 DEF Return, Hints
  <2>3. pc' \in {"flush", "delete"} /\ code' \in {code, 1, 130}
    BY <1>9, ExitCodes DEF Return, End
  <2>4. UNCHANGED <<settings, disk, cmd, before, result, todo, buffered, sent, runs, faults>>
    BY <1>9 DEF Return, process, output
  <2>a. doomed \in Seq(Names \cup {Stdio}) /\ hint \in Names \cup {NoHint}
    BY DEF Plain
  <2>b. hint' \in Names \cup {NoHint}
    BY <2>1, <2>2, <2>a
  <2>c. doomed' = doomed \/ doomed' = cmd.input \/ doomed' = <<>>
    BY <2>2
  <2>d. <<>> \in Seq(Names \cup {Stdio})
    OBVIOUS
  <2>5. doomed' \in Seq(Names \cup {Stdio})
    BY Zenon, <2>1, <2>a, <2>c, <2>d
  <2>6. pc' \in {"idle", "load", "write", "delete", "flush"} /\ code' \in {NoCode, 0, 1, 2, 120, 130, 137}
    BY <2>3 DEF Plain
  <2>7. QED BY <2>4, <2>5, <2>6, <2>b DEF Plain
<1>10. CASE Delete
  <2>1. disk' \in Contents
    BY <1>10 DEF Delete, Plain, Contents
  <2>2. doomed' \in Seq(Names \cup {Stdio})
    BY <1>10 DEF Delete, Plain
  <2>3. QED BY <1>10, <2>1, <2>2 DEF Delete, Plain, process, output
<1>11. CASE DeleteFails
  <2>1. doomed' \in Seq(Names \cup {Stdio})
    BY <1>11 DEF DeleteFails, Plain
  <2>2. QED BY FaultCounted, <1>11, <2>1 DEF DeleteFails, Plain, process, output
<1>12. CASE Finish
  BY <1>12, ExitCodes DEF Finish, End, Plain, process, output
<1>13. CASE Exit
  BY <1>13 DEF Exit, Plain, process, NoHint
<1>14. CASE ExitUnflushed
  BY FaultCounted, <1>14 DEF ExitUnflushed, Plain, process
<1>15. CASE Fail
  BY FaultCounted, <1>15, ExitCodes DEF Fail, End, Plain, process, output
<1>16. CASE Interrupt
  BY FaultCounted, <1>16, ExitCodes DEF Interrupt, End, Plain, process, output
<1>17. CASE Kill
  BY FaultCounted, <1>17 DEF Kill, Plain, process
<1>18. CASE Terminated \/ UNCHANGED vars
  BY <1>18 DEF Terminated, vars, Plain, process, output
<1>19. QED
  BY <1>1, <1>2, <1>3, <1>4, <1>5, <1>6, <1>7, <1>8, <1>9, <1>10, <1>11, <1>12, <1>13, <1>14, <1>15, <1>16, <1>17, <1>18
  DEF Next, Work, Trouble, InterruptLoop, LookupsFail

\* Each step leaves `partial` alone or gives it a value.
LEMMA StepPartial ==
    ASSUME [Next]_vars
    PROVE  partial' \in {partial, TRUE, FALSE}
<1>1. ASSUME NEW c, Run(c) PROVE partial' = FALSE
  BY Zenon, <1>1 DEF Run
<1>2. (\E c \in Commands : Start(c)) \/ Resume => partial' = FALSE
  BY Zenon, <1>1 DEF Start, Resume
<1>3. InterruptLoop => partial' = TRUE
  BY Zenon DEF InterruptLoop
<1>4. Load \/ LookupsFail => partial' = partial
  BY Zenon DEF Load, LookupsFail
<1>5. UNCHANGED process => partial' = partial
  BY Zenon DEF process
<1>6. Refuse \/ (\E f \in Files : Put(f)) \/ (\E rest \in SUBSET Rows : WriteRows(rest)) \/ Return \/ Delete
      \/ Finish \/ Exit \/ BreakPipe \/ DeleteFails \/ ExitUnflushed \/ Fail \/ Interrupt \/ Kill
      => UNCHANGED process
  BY Zenon DEF Refuse, Put, WriteRows, Return, Delete, Finish, Exit, BreakPipe, DeleteFails, ExitUnflushed,
               Fail, Interrupt, Kill
<1>7. Terminated \/ UNCHANGED vars => UNCHANGED process
  BY Zenon DEF Terminated, vars
<1>8. partial' = FALSE \/ partial' = TRUE \/ partial' = partial
  BY Zenon, <1>2, <1>3, <1>4, <1>5, <1>6, <1>7 DEF Next, Work, Trouble
<1>9. QED BY Zenon, <1>8

\* Types are kept, given that nothing has gone out while the stage loads.
LEMMA StepTypes == TypeOK /\ LoadInv /\ [Next]_vars => TypeOK'
<1> SUFFICES ASSUME TypeOK, LoadInv, [Next]_vars PROVE TypeOK'
  OBVIOUS
<1>1. Plain /\ partial \in BOOLEAN
  BY Typing
<1>2. Plain'
  BY <1>1, StepPlain
<1>3. partial' \in BOOLEAN
  BY Zenon, <1>1, StepPartial
<1>4. (Plain /\ partial \in BOOLEAN)'
  BY Zenon, <1>2, <1>3
<1>5. QED BY Zenon, <1>4 DEF TypeOK, Plain
-----------------------------------------------------------------------------
(* What the stage has made stays. *)

made == <<disk, before, cmd, result, partial, todo>>

LEMMA MadeKept ==
    ASSUME Made, UNCHANGED made,
           \A f \in Files \ Placed : disk[f] # before[f] /\ Deleted(f) => Deleted(f)'
    PROVE  Made'
<1>1. UNCHANGED <<disk, before, cmd, result, todo>> /\ partial' = partial
  BY Zenon DEF made
<1>2. ReadRows' = ReadRows /\ Placed' = Placed /\ Targets(cmd, result)' = Targets(cmd, result)
  BY <1>1 DEF ReadRows, Placed, Reads, Inputs, First
<1>3. ReadRows' \subseteq result.rows' /\ todo' \subseteq Targets(cmd, result)'
  BY <1>1, <1>2 DEF Made
<1>4. partial' => cmd'.type = "resolve"
  BY Zenon, <1>1 DEF Made
<1>5. \A f \in Placed' : disk'[f] = Part(f)'
  BY <1>1, <1>2 DEF Made, Part
<1>6. \A f \in Files \ Placed' : disk'[f] = before'[f] \/ (disk'[f] = NoFile /\ Deleted(f)')
  BY <1>1, <1>2 DEF Made
<1>7. QED BY Zenon, <1>3, <1>4, <1>5, <1>6 DEF Made

\* A deletion stays justified.
LEMMA DeletedKept ==
    ASSUME UNCHANGED <<cmd, partial, todo>>, code' \in {code, 0, 120, 130, 137}, code # NoCode => code' # NoCode,
           Flushed => Flushed' \/ code' \in {120, 137}, code \in {120, 137} => code' \in {120, 137},
           NEW f, Deleted(f)
    PROVE  Deleted(f)'
<1>1. cmd' = cmd /\ partial' = partial /\ todo' = todo
  BY Zenon
<1>2. cmd'.delete /\ ~partial' /\ todo' = {}
  <2>1. cmd.delete /\ ~partial /\ todo = {}
    BY Zenon DEF Deleted
  <2>2. cmd'.delete
    BY <1>1, <2>1
  <2>6. partial' = partial /\ ~partial
    BY Zenon, <1>1, <2>1
  <2>3. ~partial'
    BY <2>6
  <2>4. todo' = {}
    BY <1>1, <2>1
  <2>5. QED BY <2>2, <2>3, <2>4
<1>3. \E n \in ToSet(cmd'.input) \ {Stdio} : FileOf[n] = f
  BY <1>1 DEF Deleted
<1>4. code' \in {NoCode, 0, 120, 130, 137} /\ (Flushed' \/ code' \in {120, 137})
  BY DEF Deleted
<1>5. QED BY Zenon, <1>2, <1>3, <1>4 DEF Deleted

\* A process that ends, or is at its end, leaves everything as it is.
LEMMA Ending ==
    ASSUME Stages, UNCHANGED made, pc' \in {"flush", "idle"},
           Fresh => doomed' = doomed /\ buffered' = {} /\ sent' = {},
           \A f \in Files \ Placed : disk[f] # before[f] /\ Deleted(f) => Deleted(f)',
           ZeroInv', hint' \in {hint, NoHint}
    PROVE  Stages'
<1>1. cmd' = cmd /\ disk' = disk /\ before' = before /\ result' = result /\ partial' = partial /\ todo' = todo
  BY Zenon DEF made
<1>2. Fresh => Fresh'
  BY Zenon, <1>1 DEF Fresh
<1>3. Made => Made'
  BY MadeKept
<1>4. LoadInv' /\ WriteInv' /\ DeleteInv'
  BY DEF LoadInv, WriteInv, DeleteInv
<1>5. HintInv'
  <2>1. CASE hint' = hint /\ hint # NoHint
    BY <1>1, <2>1 DEF HintInv, Stages, NoHint
  <2>2. CASE hint' = NoHint
    BY <2>2 DEF HintInv, NoHint
  <2>3. QED BY <2>1, <2>2
<1>6. QED BY Zenon, <1>2, <1>3, <1>4, <1>5 DEF Stages-----------------------------------------------------------------------------
(* The stage at work. *)

\* A file that is in place is not missing.
LEMMA PlacedIsThere ==
    ASSUME Plain, Made, NEW f \in Placed
    PROVE  disk[f] # NoFile
<1>1. Part(f) \in Docs
  BY PartTyped DEF Plain, SoundDocs
<1>2. QED BY <1>1, DocIsThere DEF Made

\* Before anything is in place, a result that has the rows which were read is a beginning.
LEMMA Begun ==
    ASSUME Plain, Fresh, UNCHANGED <<disk, cmd, before>>, todo' = Targets(cmd, result'),
           \A n \in Reads(cmd) \ {Stdio} : RowsOf(disk[FileOf[n]]) \subseteq result'.rows,
           partial' => cmd.type = "resolve"
    PROVE  Made' /\ \A f \in (Files \ Placed)' : disk'[f] = before'[f]
<1>1. cmd' = cmd /\ disk' = disk /\ before' = before /\ disk = before
  BY Zenon DEF Fresh
<1>2. Placed' = {}
  BY <1>1 DEF Placed
<1>3. ReadRows' \subseteq result'.rows
  BY <1>1 DEF ReadRows, Reads, Inputs, First
<1>4. todo' \subseteq Targets(cmd, result)'
  BY <1>1
<1>5. partial' => cmd'.type = "resolve"
  BY Zenon, <1>1
<1>6. \A f \in (Files \ Placed)' : disk'[f] = before'[f]
  BY <1>1
<1>7. QED BY Zenon, <1>2, <1>3, <1>4, <1>5, <1>6 DEF Made

\* What a stage reads from files is what they hold.
LEMMA ContentRows ==
    ASSUME Plain, ~Missing(cmd)
    PROVE  \A n \in Reads(cmd) \ {Stdio} : RowsOf(disk[FileOf[n]]) = Content(n).rows /\ Content(n) = disk[FileOf[n]]
BY DEF Missing, Content, RowsOf

\* The file of a resume command is what resolve reads.
LEMMA ResumedInput ==
    ASSUME Plain, HintInv, hint # NoHint, pc = "load"
    PROVE  cmd.type = "resolve" /\ Content(First(cmd)) = disk[FileOf[hint]] /\ ~cmd.delete /\ cmd.input = <<hint>>
<1>1. hint \in Names /\ cmd.type = "resolve" /\ ~cmd.delete /\ cmd.input = <<hint>>
  BY DEF HintInv
<1>2. First(cmd) = hint
  BY <1>1 DEF First, Inputs
<1>3. hint # Stdio
  BY DEF NoHint
<1>4. QED BY <1>1, <1>2, <1>3 DEF Content

\* The stage runs to its end: nothing is in place yet.
LEMMA LoadStages ==
    ASSUME TypeOK, Plain, Stages, Load
    PROVE  Stages'
<1>1. pc = "load" /\ Fresh /\ ~Missing(cmd) /\ code = NoCode
  BY DEF Stages, Load, LoadInv, Refused
<1>2. disk' = disk /\ cmd' = cmd /\ before' = before /\ doomed' = doomed /\ code' = code /\ hint' = hint /\ pc' = "write"
  BY DEF Load
<1>3. result' = Result(cmd) /\ todo' = Targets(cmd, result')
  BY DEF Load
<1>4. ~partial'
  <2>1. partial' = partial
    BY Zenon DEF Load
  <2>2. QED BY Zenon, <1>1, <2>1 DEF Fresh
<1>5. /\ \A n \in Reads(cmd) : Content(n).rows \subseteq Result(cmd).rows
      /\ cmd.type = "resolve" => Content(First(cmd)).filled \subseteq Result(cmd).filled
  BY <1>1, ResultTyped DEF Plain
<1>6. \A n \in Reads(cmd) \ {Stdio} : RowsOf(disk[FileOf[n]]) \subseteq result'.rows
  BY <1>1, <1>3, <1>5, ContentRows
<1>7. Made' /\ \A f \in (Files \ Placed)' : disk'[f] = before'[f]
  BY <1>1, <1>2, <1>3, <1>4, <1>6, Begun
<1>8. doomed' = <<>> /\ code' = NoCode
  BY <1>1, <1>2 DEF Fresh
<1>9. HintInv'
  <2>1. CASE hint = NoHint
    BY <1>2, <2>1 DEF HintInv, NoHint
  <2>2. CASE hint # NoHint
    <3>1. cmd.type = "resolve" /\ Content(First(cmd)) = disk[FileOf[hint]] /\ ~cmd.delete /\ cmd.input = <<hint>>
      BY <1>1, <2>2, ResumedInput DEF Stages
    <3>2. before[FileOf[hint]].filled \subseteq result'.filled
      BY <1>1, <1>3, <1>5, <3>1 DEF Fresh
    <3>3. hint \in Names /\ disk[FileOf[hint]] # NoFile /\ cmd.out = hint
      BY <2>2 DEF Stages, HintInv
    <3>4. QED BY <1>2, <3>1, <3>2, <3>3 DEF HintInv
  <2>3. QED BY <2>1, <2>2
<1>10. LoadInv' /\ DeleteInv' /\ ZeroInv'
  BY <1>2, <1>8 DEF LoadInv, DeleteInv, ZeroInv, NoCode
<1>11. WriteInv'
  BY Zenon, <1>7, <1>8 DEF WriteInv
<1>12. QED BY Zenon, <1>7, <1>9, <1>10, <1>11 DEF Stages
\* Resolve has some of the answers, interrupted in its loop or done: the same with these.
LEMMA AnswersStages ==
    ASSUME TypeOK, Plain, Stages, SomeAnswers
    PROVE  Stages'
<1>1. pc = "load" /\ Fresh /\ ~Missing(cmd) /\ code = NoCode /\ cmd.type = "resolve"
  BY DEF Stages, SomeAnswers, LoadInv, Refused
<1>2. disk' = disk /\ cmd' = cmd /\ before' = before /\ doomed' = doomed /\ code' = code /\ hint' = hint /\ pc' = "write"
  BY DEF SomeAnswers
<1>3. PICK answers \in SUBSET Answerable : result' = Fill(Content(First(cmd)), answers)
  BY DEF SomeAnswers
<1>4. todo' = Targets(cmd, result')
  BY DEF SomeAnswers
<1>5. Content(First(cmd)) \in SoundDocs
  BY <1>1, ReadsTyped, ContentTyped DEF Plain, Missing
<1>6. result'.rows = Content(First(cmd)).rows /\ Content(First(cmd)).filled \subseteq result'.filled
  BY <1>3, <1>5, FillTyped
<1>7. \A n \in Reads(cmd) \ {Stdio} : RowsOf(disk[FileOf[n]]) \subseteq result'.rows
  <2>1. \A n \in Reads(cmd) : n = First(cmd)
    BY <1>1 DEF Reads
  <2>2. QED BY <1>1, <1>6, <2>1, ContentRows
<1>8. Made' /\ \A f \in (Files \ Placed)' : disk'[f] = before'[f]
  BY <1>1, <1>2, <1>4, <1>7, Begun
<1>9. doomed' = <<>> /\ code' = NoCode
  BY <1>1, <1>2 DEF Fresh
<1>10. HintInv'
  <2>1. CASE hint = NoHint
    BY <1>2, <2>1 DEF HintInv, NoHint
  <2>2. CASE hint # NoHint
    <3>1. Content(First(cmd)) = disk[FileOf[hint]] /\ ~cmd.delete /\ cmd.input = <<hint>>
      BY <1>1, <2>2, ResumedInput DEF Stages
    <3>2. before[FileOf[hint]].filled \subseteq result'.filled
      BY <1>1, <1>6, <3>1 DEF Fresh
    <3>3. hint \in Names /\ disk[FileOf[hint]] # NoFile /\ cmd.out = hint
      BY <2>2 DEF Stages, HintInv
    <3>4. QED BY <1>1, <1>2, <3>1, <3>2, <3>3 DEF HintInv
  <2>3. QED BY <2>1, <2>2
<1>11. LoadInv' /\ DeleteInv' /\ ZeroInv'
  BY <1>2, <1>9 DEF LoadInv, DeleteInv, ZeroInv, NoCode
<1>12. WriteInv'
  BY Zenon, <1>8, <1>9 DEF WriteInv
<1>13. QED BY Zenon, <1>8, <1>10, <1>11, <1>12 DEF Stages

\* One more file is in place.
LEMMA PutStages ==
    ASSUME Plain, Stages, NEW f \in Files, Put(f)
    PROVE  Stages'
<1>1. pc = "write" /\ Made /\ doomed = <<>> /\ code = NoCode /\ f \in todo
      /\ \A g \in Files \ Placed : disk[g] = before[g]
  BY DEF Stages, Put, WriteInv
<1>2. /\ disk' = [disk EXCEPT ![f] = Part(f)] /\ todo' = todo \ {f}
      /\ cmd' = cmd /\ before' = before /\ result' = result /\ partial' = partial
      /\ pc' = pc /\ doomed' = doomed /\ code' = code /\ hint' = hint
  BY Zenon DEF Put, process
<1>3. Placed' = Placed \cup {f} /\ f \notin Placed /\ Placed \subseteq Files
  BY <1>1, <1>2, TargetsTyped DEF Placed, Made, Plain, SoundDocs
<1>15. \A g : Part(g)' = Part(g)
  BY <1>2 DEF Part
<1>16. \A g \in Placed' : disk'[g] = Part(g)
  BY <1>1, <1>2, <1>3 DEF Made, Plain, Contents
<1>4. \A g \in Placed' : disk'[g] = Part(g)'
  BY <1>15, <1>16
<1>5. \A g \in (Files \ Placed)' : disk'[g] = before'[g]
  BY <1>1, <1>2, <1>3 DEF Plain, Contents
<1>6. ReadRows' \subseteq result'.rows
  BY <1>1, <1>2 DEF Made, ReadRows, Reads, Inputs, First
<1>7. todo' \subseteq Targets(cmd, result)'
  BY <1>1, <1>2 DEF Made
<1>8. partial' => cmd'.type = "resolve"
  BY Zenon, <1>1, <1>2 DEF Made
<1>9. Made'
  BY Zenon, <1>4, <1>5, <1>6, <1>7, <1>8 DEF Made
<1>10. HintInv'
  <2>1. Part(f) # NoFile
    BY PartTyped, DocIsThere DEF Plain, SoundDocs
  <2>2. \A g : disk[g] # NoFile => disk'[g] # NoFile
    BY <1>2, <2>1 DEF Plain, Contents
  <2>3. QED BY <1>1, <1>2, <2>2 DEF Stages, HintInv
<1>11. LoadInv' /\ DeleteInv' /\ ZeroInv'
  BY <1>1, <1>2 DEF LoadInv, DeleteInv, ZeroInv, NoCode
<1>12. doomed' = <<>> /\ code' = NoCode
  BY <1>1, <1>2
<1>13. WriteInv'
  BY Zenon, <1>5, <1>9, <1>12 DEF WriteInv
<1>14. QED BY Zenon, <1>9, <1>10, <1>11, <1>13 DEF Stages

\* Rows go to stdout.
LEMMA WriteRowsStages ==
    ASSUME Stages, NEW rest \in SUBSET Rows, WriteRows(rest)
    PROVE  Stages'
<1>1. pc = "write" /\ Made /\ doomed = <<>> /\ code = NoCode
      /\ \A g \in Files \ Placed : disk[g] = before[g]
  BY DEF Stages, WriteRows, WriteInv
<1>2. UNCHANGED made /\ pc' = pc /\ doomed' = doomed /\ code' = code /\ hint' = hint
  BY Zenon DEF WriteRows, process, made
<1>3. Made'
  BY <1>1, <1>2, MadeKept
<1>4. disk' = disk /\ before' = before /\ cmd' = cmd /\ result' = result /\ todo' = todo
  BY <1>2 DEF made
<1>5. \A g \in (Files \ Placed)' : disk'[g] = before'[g]
  BY <1>1, <1>4 DEF Placed
<1>6. HintInv'
  BY <1>2, <1>4 DEF Stages, HintInv
<1>7. LoadInv' /\ DeleteInv' /\ ZeroInv'
  BY <1>1, <1>2 DEF LoadInv, DeleteInv, ZeroInv, NoCode
<1>8. doomed' = <<>> /\ code' = NoCode
  BY <1>1, <1>2
<1>9. WriteInv'
  BY Zenon, <1>3, <1>5, <1>8 DEF WriteInv
<1>10. QED BY Zenon, <1>3, <1>6, <1>7, <1>9 DEF Stages
\* The stage returns: with a resume command for a file that is in place, with an error, or
\* to delete its inputs.
LEMMA ReturnStages ==
    ASSUME Plain, Stages, Return
    PROVE  Stages'
<1>1. pc = "write" /\ Made /\ doomed = <<>> /\ code = NoCode
      /\ \A g \in Files \ Placed : disk[g] = before[g]
  BY DEF Stages, Return, WriteInv
<1>2. UNCHANGED made /\ buffered' = buffered /\ sent' = sent /\ Written
  BY Zenon DEF Return, process, output, made
<1>3. Made'
  BY <1>1, <1>2, MadeKept
<1>4. disk' = disk /\ before' = before /\ cmd' = cmd /\ result' = result /\ todo' = todo
  BY <1>2 DEF made
<1>5. partial' = partial
  BY Zenon, <1>2 DEF made
<1>6. todo = {} /\ Flushed
  <2>1. CASE ToStdout(cmd)
    BY <1>1, <1>2, <2>1 DEF Written, Flushed, ToStdout, Targets, Made
  <2>2. CASE ~ToStdout(cmd)
    BY <1>2, <2>2 DEF Written, Flushed
  <2>3. QED BY <2>1, <2>2
<1>7. CASE partial
  <2>1. code' = 130 /\ pc' = "flush" /\ hint' = cmd.out
    BY <1>7, ExitCodes DEF Return, End, Hints
  <2>2. HintInv'
    <3>1. CASE cmd.out = Stdio
      BY <2>1, <3>1 DEF HintInv, NoHint
    <3>2. CASE cmd.out # Stdio
      <4>1. cmd.type = "resolve"
        BY Zenon, <1>1, <1>7 DEF Made
      <4>2. cmd.out \in Names /\ ~cmd.split
        BY <3>2, <4>1 DEF Plain, CommandLines
      <4>3. FileOf[cmd.out] \in Placed
        BY <1>6, <3>2, <4>2 DEF Placed, Targets
      <4>4. disk[FileOf[cmd.out]] # NoFile
        BY <1>1, <4>3, PlacedIsThere
      <4>5. QED BY <1>4, <2>1, <4>1, <4>2, <4>4 DEF HintInv
    <3>3. QED BY <3>1, <3>2
  <2>3. LoadInv' /\ WriteInv' /\ DeleteInv' /\ ZeroInv'
    BY <2>1 DEF LoadInv, WriteInv, DeleteInv, ZeroInv
  <2>4. QED BY Zenon, <1>3, <2>2, <2>3 DEF Stages
<1>8. CASE ~partial /\ ~result.header
  <2>1. code' = 1 /\ pc' = "flush" /\ hint' = hint
    BY <1>8, ExitCodes DEF Return, End
  <2>2. HintInv'
    BY <1>4, <2>1 DEF Stages, HintInv
  <2>3. LoadInv' /\ WriteInv' /\ DeleteInv' /\ ZeroInv'
    BY <2>1 DEF LoadInv, WriteInv, DeleteInv, ZeroInv
  <2>4. QED BY Zenon, <1>3, <2>2, <2>3 DEF Stages
<1>9. CASE ~partial /\ result.header
  <2>1. /\ doomed' = (IF cmd.delete /\ cmd.type # "collect" THEN cmd.input ELSE <<>>)
        /\ pc' = "delete" /\ code' = code /\ hint' = hint
    BY <1>9 DEF Return
  <2>2. HintInv'
    BY <1>1, <1>4, <2>1 DEF Stages, HintInv
  <2>3. LoadInv' /\ WriteInv' /\ ZeroInv'
    BY <1>1, <2>1 DEF LoadInv, WriteInv, ZeroInv, NoCode
  <2>4. ~partial' /\ todo' = {} /\ code' = NoCode
    BY <1>1, <1>4, <1>5, <1>6, <1>9, <2>1
  <2>5. Flushed'
    BY <1>2, <1>4, <1>6 DEF Flushed
  <2>6. doomed' # <<>> => cmd'.delete
    BY <1>4, <2>1
  <2>7. \A i \in DOMAIN doomed' : doomed'[i] \in ToSet(cmd'.input)
    BY <1>4, <2>1 DEF ToSet
  <2>8. DeleteInv'
    BY Zenon, <1>3, <2>4, <2>5, <2>6, <2>7 DEF DeleteInv
  <2>9. QED BY Zenon, <1>3, <2>2, <2>3, <2>8 DEF Stages
<1>10. QED BY <1>7, <1>8, <1>9

\* Deleting goes on with the rest, whatever becomes of the first.
LEMMA DeletingOn ==
    ASSUME Plain, Stages, pc = "delete", doomed # <<>>, doomed' = Tail(doomed), Made',
           UNCHANGED <<cmd, result, partial, todo, buffered, sent, pc, code, hint>>
    PROVE  Stages'
<1>1. todo = {} /\ ~partial /\ code = NoCode /\ Flushed /\ cmd.delete
      /\ \A i \in DOMAIN doomed : doomed[i] \in ToSet(cmd.input)
  BY DEF Stages, DeleteInv
<1>2. cmd' = cmd /\ result' = result /\ todo' = todo /\ buffered' = buffered /\ sent' = sent
      /\ pc' = pc /\ code' = code /\ hint' = hint
  OBVIOUS
<1>3. ~partial'
  BY <1>1
<1>4. hint' = NoHint
  BY <1>1, <1>2 DEF Stages, HintInv
<1>5. \A i \in DOMAIN doomed' : doomed'[i] \in ToSet(cmd'.input)
  <2>1. doomed \in Seq(Names \cup {Stdio})
    BY DEF Plain
  <2>2. \A i \in DOMAIN doomed' : i + 1 \in DOMAIN doomed /\ doomed'[i] = doomed[i + 1]
    BY <2>1
  <2>3. QED BY <1>1, <1>2, <2>2
<1>6. todo' = {} /\ code' = NoCode /\ cmd'.delete
  BY <1>1, <1>2
<1>7. Flushed'
  BY <1>1, <1>2 DEF Flushed
<1>8. DeleteInv'
  BY Zenon, <1>3, <1>5, <1>6, <1>7 DEF DeleteInv
<1>9. LoadInv' /\ WriteInv' /\ ZeroInv' /\ HintInv'
  BY <1>2, <1>4, <1>6 DEF LoadInv, WriteInv, ZeroInv, HintInv, NoCode
<1>10. QED BY Zenon, <1>8, <1>9 DEF Stages
\* What is deleted is not in the output.
LEMMA DeletableIsApart ==
    ASSUME Plain, NEW n \in Names, Deletable(n)
    PROVE  FileOf[n] \notin Placed
<1>1. result \in Docs /\ cmd \in CommandLines
  BY DEF Plain, SoundDocs
<1>2. CASE cmd.split
  BY <1>1, <1>2, TargetsApart DEF Placed
<1>3. CASE ~cmd.split /\ cmd.out = Stdio
  BY <1>3 DEF Placed, Targets
<1>4. CASE ~cmd.split /\ cmd.out # Stdio
  BY <1>4 DEF Placed, Targets, Deletable, IsOutput
<1>5. QED BY <1>2, <1>3, <1>4

\* One input goes, with a reason.
LEMMA DeleteStages ==
    ASSUME Plain, Stages, Delete
    PROVE  Stages'
<1>1. /\ pc = "delete" /\ Made /\ todo = {} /\ ~partial /\ code = NoCode /\ Flushed
      /\ doomed # <<>> => cmd.delete
      /\ \A i \in DOMAIN doomed : doomed[i] \in ToSet(cmd.input)
  BY DEF Stages, Delete, DeleteInv
<1>2. doomed # <<>> /\ doomed' = Tail(doomed)
      /\ disk' = IF Deletable(Head(doomed)) THEN [disk EXCEPT ![FileOf[Head(doomed)]] = NoFile] ELSE disk
  BY DEF Delete
<1>3. UNCHANGED <<cmd, result, partial, todo, buffered, sent, pc, code, hint, before>>
  BY Zenon DEF Delete, process, output
<1>4. Made'
  <2>4. \A f : Deleted(f) => Deleted(f)'
    <3>1. Flushed'
      BY <1>1, <1>3 DEF Flushed
    <3>2. code' \in {code, 0, 120, 130, 137} /\ code' = NoCode
      BY <1>1, <1>3
    <3>3. QED BY <1>1, <1>3, <3>1, <3>2, DeletedKept
  <2>1. CASE ~Deletable(Head(doomed))
    <3>1. UNCHANGED made
      BY Zenon, <1>2, <1>3, <2>1 DEF made
    <3>3. QED BY <1>1, <2>4, <3>1, MadeKept
  <2>2. CASE Deletable(Head(doomed))
    <3>1. PICK n \in Names : n = Head(doomed) /\ n \in ToSet(cmd.input) \ {Stdio} /\ FileOf[n] \in Files
      <4>1. doomed \in Seq(Names \cup {Stdio})
        BY DEF Plain
      <4>2. Head(doomed) = doomed[1] /\ 1 \in DOMAIN doomed /\ Head(doomed) \in Names \cup {Stdio}
        BY <1>2, <4>1
      <4>3. Head(doomed) # Stdio
        BY <2>2 DEF Deletable
      <4>4. QED BY <1>1, <4>2, <4>3, StageAssumption
    <3>2. disk' = [disk EXCEPT ![FileOf[n]] = NoFile]
      BY <1>2, <2>2, <3>1
    <3>3. FileOf[n] \notin Placed
      BY <2>2, <3>1, DeletableIsApart
    <3>4. Placed' = Placed /\ ReadRows' = ReadRows
      BY <1>3 DEF Placed, ReadRows, Reads, Inputs, First
    <3>5. ReadRows' \subseteq result'.rows /\ todo' \subseteq Targets(cmd, result)'
      BY <1>1, <1>3, <3>4 DEF Made
    <3>6. partial' => cmd'.type = "resolve"
      BY <1>1, <1>3
    <3>7. Placed \subseteq Files
      BY TargetsTyped DEF Placed, Plain, SoundDocs
    <3>8. \A f \in Files : disk'[f] = IF f = FileOf[n] THEN NoFile ELSE disk[f]
      BY <3>1, <3>2 DEF Plain, Contents
    <3>9. \A f : Part(f)' = Part(f)
      BY <1>3 DEF Part
    <3>10. \A f \in Placed' : disk'[f] = Part(f)'
      BY <1>1, <3>3, <3>4, <3>7, <3>8, <3>9 DEF Made
    <3>11. Deleted(FileOf[n])'
      <4>1. cmd'.delete /\ todo' = {} /\ code' = NoCode /\ ~partial'
        BY <1>1, <1>2, <1>3
      <4>2. \E m \in ToSet(cmd'.input) \ {Stdio} : FileOf[m] = FileOf[n]
        BY <1>3, <3>1
      <4>3. Flushed'
        BY <1>1, <1>3 DEF Flushed
      <4>4. QED BY Zenon, <4>1, <4>2, <4>3 DEF Deleted
    <3>12. \A f \in Files \ Placed' : disk'[f] = before'[f] \/ (disk'[f] = NoFile /\ Deleted(f)')
      <4>1. ASSUME NEW f \in Files \ Placed, f # FileOf[n]
            PROVE  disk'[f] = before'[f] \/ (disk'[f] = NoFile /\ Deleted(f)')
        BY <1>1, <1>3, <2>4, <3>8, <4>1 DEF Made
      <4>2. QED BY <3>4, <3>8, <3>11, <4>1
    <3>13. QED BY Zenon, <3>5, <3>6, <3>10, <3>12 DEF Made
  <2>3. QED BY <2>1, <2>2
<1>5. UNCHANGED <<cmd, result, partial, todo, buffered, sent, pc, code, hint>>
  BY Zenon, <1>3
<1>6. QED BY <1>1, <1>2, <1>4, <1>5, DeletingOn

\* One input stays.
LEMMA DeleteFailsStages ==
    ASSUME Plain, Stages, DeleteFails
    PROVE  Stages'
<1>1. /\ pc = "delete" /\ doomed # <<>> /\ doomed' = Tail(doomed) /\ Made /\ code = NoCode
  BY DEF DeleteFails, Stages, DeleteInv
<1>2. UNCHANGED made /\ UNCHANGED <<cmd, result, partial, todo, buffered, sent, pc, code, hint>>
  BY Zenon DEF DeleteFails, process, output, made
<1>3. \A f : Deleted(f) => Deleted(f)'
  <2>1. Flushed => Flushed'
    BY <1>2 DEF Flushed
  <2>2. QED BY <1>1, <1>2, <2>1, DeletedKept
<1>4. Made'
  BY <1>1, <1>2, <1>3, MadeKept
<1>5. QED BY <1>1, <1>2, <1>4, DeletingOn
\* A new command.
LEMMA RunStages ==
    ASSUME Stages, NEW c, Run(c),
           hint # NoHint => c.type = "resolve" /\ c.out = hint /\ ~c.delete /\ c.input = <<hint>>
    PROVE  Stages'
<1>1. cmd' = c /\ before' = disk /\ disk' = disk /\ result' = NoDoc /\ pc' = "load"
      /\ todo' = {} /\ doomed' = <<>> /\ buffered' = {} /\ sent' = {} /\ code' = NoCode /\ hint' = hint
  BY Zenon DEF Run
<1>2. partial' = FALSE
  BY Zenon DEF Run
<1>3. Fresh'
  BY Zenon, <1>1, <1>2 DEF Fresh
<1>4. LoadInv'
  BY Zenon, <1>1, <1>3 DEF LoadInv
<1>5. WriteInv' /\ DeleteInv' /\ ZeroInv'
  BY <1>1 DEF WriteInv, DeleteInv, ZeroInv, NoCode
<1>6. HintInv'
  BY <1>1 DEF HintInv, Stages
<1>7. QED BY Zenon, <1>3, <1>4, <1>5, <1>6 DEF Stages-----------------------------------------------------------------------------
(* Ways to end. *)

\* Up to the deletion nothing but the output has changed.
LEMMA Untouched ==
    ASSUME Stages, pc \in {"load", "write"}
    PROVE  \A f \in Files \ Placed : disk[f] = before[f]
BY DEF Stages, LoadInv, WriteInv, Fresh

\* Each way to end is an instance of Ending.
LEMMA RefuseStages == ASSUME Stages, Refuse PROVE Stages'
<1>1. pc = "load" /\ pc' = "flush" /\ hint' = hint /\ code' \in {1, 2}
  <2>1. CASE Misconfigured(cmd)
    BY <2>1, ExitCodes DEF Refuse, End
  <2>2. CASE ~Misconfigured(cmd)
    BY <2>2, ExitCodes DEF Refuse, End
  <2>3. QED BY <2>1, <2>2
<1>2. UNCHANGED made /\ UNCHANGED <<doomed, buffered, sent>>
  BY Zenon DEF Refuse, made, process, output
<1>3. ZeroInv'
  BY <1>1 DEF ZeroInv
<1>4. Fresh => doomed' = doomed /\ buffered' = {} /\ sent' = {}
  BY <1>2 DEF Fresh
<1>5. QED BY <1>1, <1>2, <1>3, <1>4, Untouched, Ending

LEMMA FailStages == ASSUME Stages, Fail PROVE Stages'
<1>1. pc \in {"load", "write"} /\ pc' = "flush" /\ code' = 1 /\ hint' = hint
  BY ExitCodes DEF Fail, End
<1>2. UNCHANGED made /\ UNCHANGED <<doomed, buffered, sent>>
  BY Zenon DEF Fail, made, process, output
<1>3. ZeroInv'
  BY <1>1 DEF ZeroInv
<1>4. Fresh => doomed' = doomed /\ buffered' = {} /\ sent' = {}
  BY <1>2 DEF Fresh
<1>5. QED BY <1>1, <1>2, <1>3, <1>4, Untouched, Ending

LEMMA InterruptStages == ASSUME Stages, Interrupt PROVE Stages'
<1>1. pc \in {"load", "write", "delete"} /\ pc' = "flush" /\ code' = 130 /\ hint' = hint
  BY ExitCodes DEF Interrupt, End, Running
<1>2. UNCHANGED made /\ UNCHANGED <<doomed, buffered, sent>>
  BY Zenon DEF Interrupt, made, process, output
<1>3. ZeroInv'
  BY <1>1 DEF ZeroInv
<1>4. Fresh => doomed' = doomed /\ buffered' = {} /\ sent' = {}
  BY <1>2 DEF Fresh
<1>5. \A f \in Files \ Placed : disk[f] # before[f] /\ Deleted(f) => Deleted(f)'
  <2>1. CASE pc \in {"load", "write"}
    BY <2>1, Untouched
  <2>2. CASE pc = "delete"
    <3>1. UNCHANGED <<cmd, partial, todo>>
      BY Zenon, <1>2 DEF made
    <3>2. code = NoCode
      BY <2>2 DEF Stages, DeleteInv
    <3>3. Flushed => Flushed'
      BY <1>2 DEF Flushed, made
    <3>4. QED BY <1>1, <3>1, <3>2, <3>3, DeletedKept DEF NoCode
  <2>3. QED BY <1>1, <2>1, <2>2
<1>6. QED BY <1>1, <1>2, <1>3, <1>4, <1>5, Ending

LEMMA KillStages == ASSUME Stages, Kill PROVE Stages'
<1>1. pc' = "idle" /\ code' = 137 /\ hint' = hint /\ buffered' = {} /\ UNCHANGED <<doomed, sent>>
  BY DEF Kill
<1>2. UNCHANGED made
  BY Zenon DEF Kill, made, process
<1>3. ZeroInv'
  BY <1>1 DEF ZeroInv
<1>4. Fresh => doomed' = doomed /\ buffered' = {} /\ sent' = {}
  BY <1>1 DEF Fresh
<1>5. \A f : Deleted(f) => Deleted(f)'
  <2>1. UNCHANGED <<cmd, partial, todo>>
    BY Zenon, <1>2 DEF made
  <2>2. QED BY <1>1, <2>1, DeletedKept DEF NoCode
<1>6. QED BY <1>1, <1>2, <1>3, <1>4, <1>5, Ending

\* A pipe that was closed: nothing has been put in place.
LEMMA BreakPipeStages == ASSUME Plain, Stages, BreakPipe PROVE Stages'
<1>1. pc = "write" /\ ToStdout(cmd) /\ pc' = "flush" /\ hint' = hint
      /\ buffered' = {} /\ UNCHANGED <<doomed, sent>>
  BY DEF BreakPipe
<1>2. UNCHANGED made
  BY Zenon DEF BreakPipe, made, process
<1>3. disk = before
  <2>1. Placed = {}
    BY <1>1 DEF Placed, Targets, ToStdout
  <2>2. \A f \in Files : disk[f] = before[f]
    BY <1>1, <2>1, Untouched
  <2>3. QED BY <2>2 DEF Plain, Contents
<1>4. disk' = before' /\ cmd' = cmd
  BY <1>2, <1>3 DEF made
<1>5. ToStdout(cmd')
  BY <1>1, <1>4
<1>6. ZeroInv'
  BY <1>1, <1>4, <1>5 DEF ZeroInv
<1>7. Fresh => doomed' = doomed /\ buffered' = {} /\ sent' = {}
  BY <1>1 DEF Fresh
<1>8. QED BY <1>1, <1>2, <1>3, <1>6, <1>7, Untouched, Ending

\* Exit code 0 after the deletion.
LEMMA FinishStages == ASSUME Stages, Finish PROVE Stages'
<1>1. pc = "delete" /\ pc' = "flush" /\ code' = 0 /\ hint' = hint
  BY ExitCodes DEF Finish, End
<1>2. UNCHANGED made /\ UNCHANGED <<doomed, buffered, sent>>
  BY Zenon DEF Finish, made, process, output
<1>3. Made /\ todo = {} /\ ~partial /\ Flushed /\ code = NoCode
  BY <1>1 DEF Stages, DeleteInv
<1>4. Flushed'
  BY <1>2, <1>3 DEF Flushed, made
<1>5. \A f : Deleted(f) => Deleted(f)'
  <2>1. UNCHANGED <<cmd, partial, todo>>
    BY Zenon, <1>2 DEF made
  <2>2. QED BY <1>1, <1>3, <1>4, <2>1, DeletedKept DEF NoCode
<1>6. Made'
  BY <1>2, <1>3, <1>5, MadeKept
<1>7. ~partial' /\ todo' = {}
  BY <1>2, <1>3 DEF made
<1>8. ZeroInv'
  BY Zenon, <1>1, <1>4, <1>6, <1>7 DEF ZeroInv
<1>9. Fresh => doomed' = doomed /\ buffered' = {} /\ sent' = {}
  BY <1>2 DEF Fresh
<1>10. QED BY <1>1, <1>2, <1>5, <1>8, <1>9, Ending

LEMMA ExitStages == ASSUME Stages, Exit PROVE Stages'
<1>1. pc' = "idle" /\ code' = code /\ hint' \in {hint, NoHint} /\ sent' = sent \cup buffered /\ buffered' = {} /\ doomed' = doomed
  BY DEF Exit
<1>2. UNCHANGED made
  BY Zenon DEF Exit, made, process
<1>3. Flushed => Flushed'
  BY <1>1, <1>2 DEF Flushed, made
<1>4. \A f : Deleted(f) => Deleted(f)'
  <2>1. UNCHANGED <<cmd, partial, todo>>
    BY Zenon, <1>2 DEF made
  <2>2. QED BY <1>1, <1>3, <2>1, DeletedKept
<1>5. Made => Made'
  BY <1>2, <1>4, MadeKept
<1>6. ZeroInv'
  <2>1. cmd' = cmd /\ disk' = disk /\ before' = before /\ todo' = todo
    BY <1>2 DEF made
  <2>2. partial' = partial
    BY Zenon, <1>2 DEF made
  <2>3. code' = 0 => (ToStdout(cmd') => disk' = before' \/ Flushed')
    BY <1>1, <1>3, <2>1 DEF Stages, ZeroInv
  <2>4. code' = 0 /\ ~ToStdout(cmd') => Made' /\ ~partial /\ todo' = {}
    BY <1>1, <1>5, <2>1 DEF Stages, ZeroInv
  <2>5. code' = 0 /\ ~ToStdout(cmd') => ~partial'
    BY <2>2, <2>4
  <2>6. pc' \in {"flush", "idle"}
    BY <1>1
  <2>7. QED BY Zenon, <2>3, <2>4, <2>5, <2>6 DEF ZeroInv
<1>7. Fresh => doomed' = doomed /\ buffered' = {} /\ sent' = {}
  BY <1>1 DEF Fresh
<1>8. QED BY <1>1, <1>2, <1>4, <1>6, <1>7, Ending

LEMMA ExitUnflushedStages == ASSUME Stages, ExitUnflushed PROVE Stages'
<1>1. pc' = "idle" /\ code' = 120 /\ hint' = hint /\ buffered' = {} /\ UNCHANGED <<doomed, sent>>
  BY DEF ExitUnflushed
<1>2. UNCHANGED made
  BY Zenon DEF ExitUnflushed, made, process
<1>3. ZeroInv'
  BY <1>1 DEF ZeroInv
<1>4. Fresh => doomed' = doomed /\ buffered' = {} /\ sent' = {}
  BY <1>1 DEF Fresh
<1>5. \A f : Deleted(f) => Deleted(f)'
  <2>1. UNCHANGED <<cmd, partial, todo>>
    BY Zenon, <1>2 DEF made
  <2>2. QED BY <1>1, <2>1, DeletedKept DEF NoCode
<1>6. QED BY <1>1, <1>2, <1>3, <1>4, <1>5, Ending-----------------------------------------------------------------------------
(* The invariant. *)

LEMMA InitStages == Init => Stages
<1> SUFFICES ASSUME Init PROVE Stages
  OBVIOUS
<1>1. Fresh
  BY Zenon DEF Init, Fresh
<1>2. pc = "idle" /\ code = NoCode /\ hint = NoHint
  BY DEF Init
<1>3. LoadInv /\ WriteInv /\ DeleteInv /\ ZeroInv /\ HintInv
  BY <1>2 DEF LoadInv, WriteInv, DeleteInv, ZeroInv, HintInv, NoCode
<1>4. QED BY Zenon, <1>1, <1>3 DEF Stages

LEMMA SameStages == ASSUME Stages, UNCHANGED vars PROVE Stages'
<1>1. UNCHANGED made /\ UNCHANGED <<pc, doomed, buffered, sent, code, hint>>
  BY Zenon DEF vars, made, process, output
<1>2. cmd' = cmd /\ disk' = disk /\ before' = before /\ result' = result /\ todo' = todo /\ partial' = partial
      /\ pc' = pc /\ doomed' = doomed /\ buffered' = buffered /\ sent' = sent /\ code' = code /\ hint' = hint
  BY Zenon, <1>1 DEF made
<1>3. Fresh => Fresh'
  BY Zenon, <1>2 DEF Fresh
<1>4. Flushed' <=> Flushed
  BY <1>2 DEF Flushed
<1>5. \A f : Deleted(f) => Deleted(f)'
  BY <1>2, <1>4, DeletedKept
<1>6. Made => Made'
  BY <1>1, <1>5, MadeKept
<1>7. (Fresh \/ Made)' /\ LoadInv'
  BY Zenon, <1>2, <1>3, <1>6 DEF Stages, LoadInv
<1>8. (\A f \in Files \ Placed : disk[f] = before[f]) => \A f \in (Files \ Placed)' : disk'[f] = before'[f]
  BY <1>2 DEF Placed
<1>9. WriteInv'
  BY <1>2, <1>6, <1>8 DEF Stages, WriteInv
<1>10. DeleteInv'
  BY <1>2, <1>4, <1>6 DEF Stages, DeleteInv
<1>11. ZeroInv'
  BY <1>2, <1>4, <1>6 DEF Stages, ZeroInv
<1>12. HintInv'
  BY <1>2 DEF Stages, HintInv
<1>13. QED BY Zenon, <1>7, <1>9, <1>10, <1>11, <1>12 DEF Stages

LEMMA StepStages ==
    ASSUME TypeOK, Plain, Stages, [Next]_vars
    PROVE  Stages'
<1>1. ASSUME NEW c \in Commands, Start(c) PROVE Stages'
  BY <1>1, RunStages DEF Start
<1>2. CASE Resume
  <2>1. hint # NoHint => ResumeOf(cmd, hint).type = "resolve" /\ ResumeOf(cmd, hint).out = hint
        /\ ~ResumeOf(cmd, hint).delete /\ ResumeOf(cmd, hint).input = <<hint>>
    BY DEF ResumeOf
  <2>2. QED BY <1>2, <2>1, RunStages DEF Resume
<1>3. (\E f \in Files : Put(f)) => Stages'
  BY PutStages
<1>4. (\E rest \in SUBSET Rows : WriteRows(rest)) => Stages'
  BY WriteRowsStages
<1>5. Terminated \/ UNCHANGED vars => Stages'
  BY SameStages DEF Terminated
<1>6. QED
  BY <1>1, <1>2, <1>3, <1>4, <1>5, RefuseStages, LoadStages, ReturnStages, DeleteStages, FinishStages, ExitStages,
    AnswersStages, BreakPipeStages, DeleteFailsStages, ExitUnflushedStages, FailStages, InterruptStages, KillStages
  DEF Next, Work, Trouble, InterruptLoop, LookupsFail

\* The invariant is inductive.
LEMMA StepInv == Inv /\ [Next]_vars => Inv'
<1> SUFFICES ASSUME TypeOK, Stages, [Next]_vars PROVE Inv'
  BY Zenon DEF Inv
<1>1. Plain
  BY Typing
<1>2. LoadInv
  BY DEF Stages
<1>3. TypeOK'
  BY <1>2, StepTypes
<1>4. Stages'
  BY <1>1, StepStages
<1>5. QED BY Zenon, <1>3, <1>4 DEF Inv

LEMMA InvHolds == Spec => []Inv
<1>1. Init => Inv
  BY Zenon, InitTypes, InitStages DEF Inv
<1>2. QED BY <1>1, StepInv, PTL DEF Spec
-----------------------------------------------------------------------------
(* The properties. *)

\* Every variable holds what the code can put there, no file has an answer without its row,
\* and a row goes through stdout once.
THEOREM StageTypeCorrect == Spec => []TypeOK
<1>1. Inv => TypeOK
  BY Zenon DEF Inv
<1>2. QED BY <1>1, InvHolds, PTL

\* A row that was read from a file that is as it was is still there; from one that is now an
\* output, it is in the result; if one is gone, the whole result is in place or was flushed.
LEMMA SurvivesHere == Inv => ReadRowsSurvive
<1> SUFFICES ASSUME TypeOK, Stages PROVE ReadRowsSurvive
  BY Zenon DEF Inv
<1> DEFINE kept == UNION {RowsOf(disk[f]) : f \in Files}
<1>1. Plain
  BY Typing
<1>2. \A n \in Reads(cmd) \ {Stdio} : FileOf[n] \in Files
  BY <1>1, ReadsTyped, StageAssumption DEF Plain
<1>3. CASE Fresh
  <2>1. disk = before
    BY <1>3 DEF Fresh
  <2>2. ReadRows \subseteq kept
    BY <1>2, <2>1 DEF ReadRows
  <2>3. QED BY <2>2 DEF ReadRows, ReadRowsSurvive
<1>4. ASSUME Made, \A f \in Files \ Placed : disk[f] = before[f]
      PROVE  ReadRows \subseteq kept
  <2>1. SUFFICES ASSUME NEW n \in Reads(cmd) \ {Stdio} PROVE RowsOf(before[FileOf[n]]) \subseteq kept
    BY DEF ReadRows
  <2>2. FileOf[n] \in Files /\ n \in Names
    BY <1>1, <1>2, ReadsTyped DEF Plain
  <2>3. CASE FileOf[n] \notin Placed
    BY <1>4, <2>2, <2>3
  <2>4. CASE FileOf[n] \in Placed
    <3>1. ~cmd.split
      BY <1>1, <2>2, <2>4, TargetsApart DEF Placed, Plain, SoundDocs
    <3>2. disk[FileOf[n]] = result
      BY <1>4, <2>4, <3>1 DEF Made, Part
    <3>3. RowsOf(disk[FileOf[n]]) = result.rows
      BY <1>1, <2>4, <1>4, <3>2, PlacedIsThere DEF RowsOf
    <3>4. RowsOf(before[FileOf[n]]) \subseteq ReadRows
      BY DEF ReadRows
    <3>5. QED BY <1>4, <2>2, <3>3, <3>4 DEF Made
  <2>5. QED BY <2>3, <2>4
<1>5. ASSUME Made, todo = {}, ~ToStdout(cmd)
      PROVE  result.rows \subseteq kept
  <2>1. Placed = Targets(cmd, result) /\ Placed \subseteq Files
    BY <1>1, <1>5, TargetsTyped DEF Placed, Plain, SoundDocs
  <2>2. \A f \in Placed : disk[f] = Part(f) /\ RowsOf(disk[f]) = Part(f).rows
    BY <1>1, <1>5, PlacedIsThere DEF Made, RowsOf
  <2>3. CASE cmd.split
    <3>1. \A r \in result.rows : Slice[r] \in Placed /\ r \in Part(Slice[r]).rows
      BY <2>1, <2>3 DEF Targets, Part
    <3>2. QED BY <2>1, <2>2, <3>1
  <2>4. CASE ~cmd.split
    <3>1. FileOf[cmd.out] \in Placed /\ Part(FileOf[cmd.out]) = result
      BY <1>5, <2>1, <2>4 DEF Targets, Part, ToStdout
    <3>2. QED BY <2>1, <2>2, <3>1
  <2>5. QED BY <2>3, <2>4
<1>6. ASSUME Made, NEW f \in Files \ Placed, disk[f] # before[f]
      PROVE  ReadRowsSurvive
  <2>1. Deleted(f)
    BY <1>6 DEF Made
  <2>2. todo = {} /\ cmd.delete /\ (Flushed \/ code \in {120, 137})
    BY <2>1 DEF Deleted
  <2>3. ReadRows \subseteq result.rows
    BY <1>6 DEF Made
  <2>4. CASE ~ToStdout(cmd)
    BY <1>5, <1>6, <2>2, <2>3, <2>4 DEF ReadRows, ReadRowsSurvive
  <2>5. CASE ToStdout(cmd) /\ Flushed
    <3>1. ReadRows \subseteq kept \cup sent \cup buffered
      BY <2>3, <2>5 DEF Flushed
    <3>2. QED BY <3>1 DEF ReadRows, ReadRowsSurvive
  <2>6. CASE ToStdout(cmd) /\ code \in {120, 137}
    BY <2>2, <2>6 DEF ReadRowsSurvive
  <2>7. QED BY <2>2, <2>4, <2>5, <2>6
<1>7. CASE Made
  BY <1>4, <1>6, <1>7 DEF ReadRows, ReadRowsSurvive
<1>8. QED BY <1>3, <1>7 DEF Stages

\* With --delete, signals, SIGKILL and failures at any point of any command, every row that
\* the command has read from files is in some file or has left through stdout, or is about
\* to; the exception is a run to stdout that says by its exit code that it failed.
THEOREM RowsThatWereReadSurvive == Spec => []ReadRowsSurvive
BY SurvivesHere, InvHolds, PTL

\* A file that is gone is not one of the output, so it was deleted.
LEMMA GoneHere == Inv => GoneMeansOutputThere
<1> SUFFICES ASSUME TypeOK, Stages PROVE GoneMeansOutputThere
  BY Zenon DEF Inv
<1> SUFFICES ASSUME NEW f \in Files, before[f] # NoFile, disk[f] = NoFile
             PROVE  /\ cmd.delete /\ ~partial /\ code \notin {1, 2}
                    /\ \E n \in ToSet(cmd.input) \ {Stdio} : FileOf[n] = f
                    /\ \A t \in Targets(cmd, result) : disk[t] # NoFile
  BY DEF GoneMeansOutputThere
<1>1. Plain
  BY Typing
<1>2. Made
  BY DEF Stages, Fresh
<1>3. Deleted(f)
  BY <1>1, <1>2, PlacedIsThere DEF Made
<1>4. todo = {} /\ code \in {NoCode, 0, 120, 130, 137} /\ cmd.delete
      /\ \E n \in ToSet(cmd.input) \ {Stdio} : FileOf[n] = f
  BY <1>3 DEF Deleted
<1>5. ~partial
  BY Zenon, <1>3 DEF Deleted
<1>6. \A t \in Targets(cmd, result) : disk[t] # NoFile
  BY <1>1, <1>2, <1>4, PlacedIsThere DEF Placed
<1>7. code \notin {1, 2}
  BY <1>4 DEF NoCode
<1>8. QED BY Zenon, <1>4, <1>5, <1>6, <1>7

\* A file that a command makes disappear was an input of a stage that had succeeded, and
\* every file of the output is in place, whatever names the files go by.
THEOREM InputsGoAfterOutput == Spec => []GoneMeansOutputThere
BY GoneHere, InvHolds, PTL

LEMMA ZeroHere == Inv => ZeroMeansDone
<1> SUFFICES ASSUME Stages, code = 0 PROVE ZeroMeansDone
  BY Zenon DEF Inv, ZeroMeansDone
<1>1. CASE ToStdout(cmd)
  BY <1>1 DEF Stages, ZeroInv, ZeroMeansDone, Flushed
<1>2. CASE ~ToStdout(cmd)
  <2>1. Made /\ todo = {}
    BY <1>2 DEF Stages, ZeroInv
  <2>2. ~partial
    BY Zenon, <1>2 DEF Stages, ZeroInv
  <2>3. \A t \in Targets(cmd, result) : disk[t] = Part(t)
    BY <2>1 DEF Made, Placed
  <2>4. QED BY Zenon, <1>2, <2>2, <2>3 DEF ZeroMeansDone
<1>3. QED BY <1>1, <1>2

\* Exit code 0 means that the result is where it was asked for, whole; into a pipe that was
\* closed, that nothing was deleted.
THEOREM ZeroIsDone == Spec => []ZeroMeansDone
BY ZeroHere, InvHolds, PTL

\* Only Put changes the file of the resume command, and it puts back what was filled.
LEMMA ProgressStep ==
    ASSUME Inv, [Next]_vars, hint # NoHint
    PROVE  disk'[FileOf[hint]] # NoFile /\ disk[FileOf[hint]].filled \subseteq disk'[FileOf[hint]].filled
<1>1. Plain /\ Stages
  BY Typing DEF Inv
<1>2. hint \in Names /\ disk[FileOf[hint]] # NoFile /\ cmd.type = "resolve"
      /\ (pc \in {"load", "write", "delete"} => ~cmd.delete)
      /\ (pc = "write" => before[FileOf[hint]].filled \subseteq result.filled)
  BY <1>1 DEF Stages, HintInv
<1>3. ASSUME NEW g \in Files, Put(g)
      PROVE  disk'[FileOf[hint]] # NoFile /\ disk[FileOf[hint]].filled \subseteq disk'[FileOf[hint]].filled
  <2>1. pc = "write" /\ g \in todo /\ disk' = [disk EXCEPT ![g] = Part(g)]
    BY <1>3 DEF Put
  <2>2. CASE g # FileOf[hint]
    BY <1>1, <1>2, <2>1, <2>2 DEF Plain, Contents
  <2>3. CASE g = FileOf[hint]
    <3>1. disk[g] = before[g]
      BY <1>1, <2>1 DEF Stages, WriteInv, Placed
    <3>2. ~cmd.split
      BY <1>1, <1>2 DEF Plain, CommandLines
    <3>3. disk'[g] = result
      BY <1>1, <2>1, <3>2 DEF Plain, Contents, Part
    <3>4. result # NoFile
      BY <1>1, DocIsThere DEF Plain, SoundDocs
    <3>5. QED BY <1>2, <2>1, <2>3, <3>1, <3>3, <3>4
  <2>4. QED BY <2>2, <2>3
<1>4. ~Delete
  BY <1>1, <1>2 DEF Delete, Stages, DeleteInv
<1>5. disk' = disk \/ \E g \in Files : Put(g)
  <2>1. (\E c \in Commands : Start(c)) \/ Resume => disk' = disk
    BY Zenon DEF Start, Resume, Run
  <2>2. Refuse \/ Load \/ Return \/ Finish \/ Exit \/ (\E rest \in SUBSET Rows : WriteRows(rest)) => disk' = disk
    BY Zenon DEF Refuse, Load, Return, Finish, Exit, WriteRows
  <2>3. Trouble => disk' = disk
    BY Zenon DEF Trouble, InterruptLoop, LookupsFail, SomeAnswers, BreakPipe, DeleteFails, ExitUnflushed, Fail, Interrupt, Kill
  <2>4. Terminated \/ UNCHANGED vars => disk' = disk
    BY Zenon DEF Terminated, vars
  <2>5. QED BY Zenon, <1>4, <2>1, <2>2, <2>3, <2>4 DEF Next, Work
<1>6. QED BY <1>2, <1>3, <1>5

\* From the moment a resume command is printed until it has succeeded, its file loses no
\* filled row, though signals, SIGKILL and failures meet the runs that resume it.
THEOREM ProgressIsKept == Spec => ProgressKept
<1>1. Inv /\ [Next]_vars =>
        [hint # NoHint => LET f == FileOf[hint] IN
            disk'[f] # NoFile /\ disk[f].filled \subseteq disk'[f].filled]_vars
  BY ProgressStep
<1>2. QED BY <1>1, InvHolds, PTL DEF Spec, ProgressKept
=============================================================================
