------------------------------ MODULE StageCli ------------------------------
(***************************************************************************)
(* pipeline.py and cli.py: `pyresolv --type ...`, one stage per process,   *)
(* and the user who runs such commands one after the other on the same     *)
(* files, with --delete to remove what was read, and with the command that *)
(* an interrupted resolve prints to continue it.                           *)
(*                                                                         *)
(* A file counts for the rows it holds or summarizes and for those among   *)
(* them that resolve has filled; columns are left out, so the inputs of a  *)
(* merge count as having the same.  Aggregation runs with min_count 0 here:*)
(* what a threshold drops is meant to go.  How a file is put in place is   *)
(* OutputFile, how resolve fills rows is ResolveEngine.                    *)
(***************************************************************************)
EXTENDS Naturals, Sequences, SequencesExt

CONSTANTS
    Files,          \* files on disk
    Names,          \* what the user calls them; one file may have several names
    FileOf,         \* the file a name stands for
    Rows,           \* rows of data
    Slice,          \* the file of the split a row belongs to
    Answerable,     \* rows whose lookup has an answer
    Commands,       \* command lines the user may give
    Environments,   \* what each settings file may lack
    Disks,          \* contents the disk may have at first
    MaxRuns,        \* bound: commands, those that resume not counted
    MaxFaults       \* bound: signals, kills and failures, of lookups too

Stdio == "-"        \* stdin or stdout, also when no path is given
Types == {"collect", "trim", "merge", "aggregate", "resolve"}

\* The settings: the default file, which may be missing, or that of --env.
EnvFiles == {".env", "given"}
Needs == {"existence", "validity", "graylog", "gunter"}

\* What a file of CSV holds; without a header it has no bytes.
Docs == [header : BOOLEAN, rows : SUBSET Rows, filled : SUBSET Rows]

\* No row has an answer that is not there.
SoundDocs == {d \in Docs : d.filled \subseteq d.rows}
NoFile == [absent |-> TRUE]
Contents == [Files -> SoundDocs \cup {NoFile}]

\* --out-dir counts for aggregate only.
CommandLines ==
    {c \in [type : Types, input : Seq(Names \cup {Stdio}), out : Names \cup {Stdio},
            split : BOOLEAN, delete : BOOLEAN, gunter : BOOLEAN, env : EnvFiles] :
        c.split => c.type = "aggregate"}

ASSUME StageAssumption ==
    /\ Stdio \notin Names
    /\ FileOf \in [Names -> Files] /\ Slice \in [Rows -> Files] /\ Answerable \subseteq Rows
    /\ Commands \subseteq CommandLines
    /\ Disks \subseteq Contents
    /\ \A n \in Names, r \in Rows : FileOf[n] # Slice[r]     \* these names carry the time
    /\ Environments \subseteq [EnvFiles -> SUBSET Needs]
    /\ \A e \in Environments : "existence" \notin e[".env"]
    /\ MaxRuns \in Nat /\ MaxFaults \in Nat

VARIABLES
    settings,   \* what each settings file lacks
    disk,       \* content of each file
    cmd,        \* the command
    before,     \* the disk when it started
    pc,         \* where it is
    result,     \* what the stage made of its input
    partial,    \* resolve was interrupted in its loop
    todo,       \* files of the output not yet in place
    doomed,     \* inputs --delete has not looked at yet
    buffered,   \* rows in stdout's buffer
    sent,       \* rows that left through stdout
    code,       \* exit code; NoCode while running
    hint,       \* the file in the resume command the user still has to follow
    runs,       \* commands given
    faults      \* faults so far

process == <<cmd, before, result, partial>>
output == <<todo, buffered, sent>>
vars == <<settings, disk, process, pc, output, doomed, code, hint, runs, faults>>

NoCode == 1000
NoDoc == [header |-> FALSE, rows |-> {}, filled |-> {}]
NoHint == Stdio

Init ==
    /\ settings \in Environments
    /\ disk \in Disks
    /\ cmd \in Commands
    /\ before = disk
    /\ pc = "idle"
    /\ result = NoDoc /\ partial = FALSE
    /\ todo = {} /\ doomed = <<>> /\ buffered = {} /\ sent = {}
    /\ code = NoCode
    /\ hint = NoHint
    /\ runs = 0 /\ faults = 0
-----------------------------------------------------------------------------
(* What a stage reads, makes and writes. *)

\* Without -i a stage reads stdin.
Inputs(c) == IF c.input = <<>> THEN <<Stdio>> ELSE c.input
First(c) == Inputs(c)[1]

\* run_*: merge is given all inputs, collect none, the others the first.
Reads(c) == {n \in ToSet(Inputs(c)) : c.type = "merge" \/ (c.type # "collect" /\ n = First(c))}

Content(n) == IF n = Stdio THEN [header |-> TRUE, rows |-> Rows, filled |-> {}] ELSE disk[FileOf[n]]

Missing(c) == \E n \in Reads(c) : Content(n) = NoFile

\* pandas refuses a file without a header; merge passes over it.
Unreadable(c) == ~Missing(c) /\ c.type \notin {"collect", "merge"} /\ ~Content(First(c)).header

\* collect: what the source has.
Collected == [header |-> TRUE, rows |-> Rows, filled |-> {}]

\* trim, chunk by chunk: columns go, every row stays.
Trimmed(d) == d

\* merge: the rows of all inputs under the first header there is.
Merged(docs) ==
    [header |-> \E d \in docs : d.header,
     rows |-> UNION {d.rows : d \in docs}, filled |-> UNION {d.filled : d \in docs}]

\* aggregate: the groups stand for all rows; the columns of resolve are not among theirs.
Aggregated(d) == [d EXCEPT !.filled = {}]

\* Mutants: the answers of this run replace those of an earlier one, or are appended
\* whether or not the input asks for them.
FillAnew(d, answers) == [d EXCEPT !.filled = answers \cap d.rows]
FillAll(d, answers) == [d EXCEPT !.filled = @ \cup answers]
\* resolve: rows that are filled already are skipped and stay.
Fill(d, answers) == [d EXCEPT !.filled = @ \cup (answers \cap d.rows)]

\* The result of a stage that runs to its end, all lookups answered.
Result(c) ==
    CASE c.type = "collect" -> Collected
      [] c.type = "trim" -> Trimmed(Content(First(c)))
      [] c.type = "merge" -> Merged({Content(n) : n \in Reads(c)})
      [] c.type = "aggregate" -> Aggregated(Content(First(c)))
      [] c.type = "resolve" -> Fill(Content(First(c)), Answerable)

ToStdout(c) == c.out = Stdio /\ ~c.split

\* The files a result goes to: that of -o, or those of the slices that have rows.
Targets(c, d) ==
    IF c.split THEN {Slice[r] : r \in d.rows} ELSE IF c.out = Stdio THEN {} ELSE {FileOf[c.out]}

\* What such a file is given.
Part(f) ==
    IF cmd.split THEN [header |-> TRUE, rows |-> {r \in result.rows : Slice[r] = f},
                       filled |-> {r \in result.filled : Slice[r] = f}]
    ELSE result

Lacks(c, need) == need \in settings[c.env]

\* --out-dir excludes -o, and needs the subnets, which are among Graylog's settings.
Contradictory(c) == c.split /\ (c.out # Stdio \/ Lacks(c, "graylog"))

\* A file given with --env that is not there stops every stage; settings that are not
\* valid those that read them; and a source or resolver that is not configured its own.
Misconfigured(c) ==
    \/ Lacks(c, "existence")
    \/ Lacks(c, "validity") /\ c.type \notin {"trim", "merge"}
    \/ Lacks(c, "graylog") /\ c.type = "collect"
    \/ Lacks(c, "gunter") /\ c.type = "resolve" /\ c.gunter
-----------------------------------------------------------------------------
(* The process. *)

\* Mutant: an interrupt is no failure.
LenientExit(outcome) == IF outcome = "interrupted" THEN 0 ELSE 1
\* _run_guarded.
ExitCode(outcome) ==
    CASE outcome \in {"done", "broken pipe"} -> 0
      [] outcome = "error" -> 1
      [] outcome = "configuration" -> 2
      [] outcome = "interrupted" -> 130

End(outcome) == pc' = "flush" /\ code' = ExitCode(outcome)
Fault == faults < MaxFaults /\ faults' = faults + 1
Running == pc \in {"load", "write", "delete"}

Run(c) ==
    /\ pc = "idle"
    /\ cmd' = c /\ before' = disk
    /\ pc' = "load"
    /\ result' = NoDoc /\ partial' = FALSE
    /\ todo' = {} /\ doomed' = <<>> /\ buffered' = {} /\ sent' = {}
    /\ code' = NoCode
    /\ UNCHANGED <<settings, disk, hint, faults>>

\* The user gives a command, unless an interrupted resolve is to be resumed first.
Start(c) ==
    /\ hint = NoHint /\ runs < MaxRuns
    /\ Run(c)
    /\ runs' = runs + 1

\* _resume_hint: the file is input and output, --resolver is that of the interrupted
\* run, and the settings are those of the default file, whatever --env said.
ResumeOf(c, file) ==
    [type |-> "resolve", input |-> <<file>>, out |-> file, split |-> FALSE, delete |-> FALSE,
     gunter |-> c.gunter, env |-> ".env"]

Resume ==
    /\ hint # NoHint
    /\ Run(ResumeOf(cmd, hint))
    /\ UNCHANGED runs

Refused(c) == Misconfigured(c) \/ Contradictory(c) \/ Missing(c) \/ Unreadable(c)

\* Settings first; contradictory options and inputs that are missing or empty are errors.
Refuse ==
    /\ pc = "load"
    /\ Refused(cmd)
    /\ End(IF Misconfigured(cmd) THEN "configuration" ELSE "error")
    /\ UNCHANGED <<settings, disk, process, output, doomed, hint, runs, faults>>

\* Else the stage works.  A merge that finds no header still puts its output in place.
Load ==
    /\ pc = "load"
    /\ ~Refused(cmd)
    /\ result' = Result(cmd)
    /\ todo' = Targets(cmd, result')
    /\ pc' = "write"
    /\ UNCHANGED <<settings, disk, cmd, before, partial, doomed, buffered, sent, code, hint, runs, faults>>

\* resolve is left with some of the answers.
SomeAnswers ==
    /\ pc = "load" /\ cmd.type = "resolve"
    /\ ~Refused(cmd)
    /\ Fault
    /\ \E answers \in SUBSET Answerable : result' = Fill(Content(First(cmd)), answers)
    /\ todo' = Targets(cmd, result')
    /\ pc' = "write"
    /\ UNCHANGED <<settings, disk, cmd, before, doomed, buffered, sent, code, hint, runs>>

\* A signal in the loop of resolve: what was answered so far is written.
InterruptLoop == SomeAnswers /\ partial' = TRUE

\* Lookups fail: their rows stay blank, and the run counts as done.
LookupsFail == SomeAnswers /\ UNCHANGED partial

\* open_output: a file is put in place whole.
Put(f) ==
    /\ pc = "write" /\ f \in todo
    /\ disk' = [disk EXCEPT ![f] = Part(f)]
    /\ todo' = todo \ {f}
    /\ UNCHANGED <<settings, process, pc, doomed, buffered, sent, code, hint, runs, faults>>

\* Rows to stdout stay in its buffer until that is full.
WriteRows(rest) ==
    /\ pc = "write" /\ ToStdout(cmd)
    /\ buffered = {} /\ sent = {} /\ rest \subseteq result.rows
    /\ sent' = result.rows \ rest /\ buffered' = rest
    /\ UNCHANGED <<settings, disk, process, pc, todo, doomed, code, hint, runs, faults>>

\* The next program of the shell pipe has stopped reading.  What is left in the buffer
\* fails once more when the interpreter flushes it, which makes the code 120.
BreakPipe ==
    /\ pc = "write" /\ ToStdout(cmd) /\ Fault
    /\ pc' = "flush" /\ code' \in {ExitCode("broken pipe"), 120}
    /\ buffered' = {}
    /\ UNCHANGED <<settings, disk, process, todo, doomed, sent, hint, runs>>

Written == IF ToStdout(cmd) THEN buffered \cup sent = result.rows ELSE todo = {}

\* Mutant: the resume command names the input.
HintsInput(c) == IF c.input # <<>> THEN Head(c.input) ELSE Stdio
\* _resume_hint: the file the partial result is in; there is none for stdout.
Hints(c) == c.out

\* The stage returns, or raises what it had to raise after writing.
Return ==
    /\ pc = "write" /\ Written
    /\ IF partial
       THEN End("interrupted") /\ hint' = Hints(cmd) /\ UNCHANGED doomed
       ELSE IF ~result.header THEN End("error") /\ UNCHANGED <<hint, doomed>>
       ELSE /\ doomed' = IF cmd.delete /\ cmd.type # "collect" THEN cmd.input ELSE <<>>
            /\ pc' = "delete" /\ UNCHANGED <<code, hint>>
    /\ UNCHANGED <<settings, disk, process, output, runs, faults>>

\* Mutant: the output is recognized by its name.
SameName(n) == n = cmd.out
\* Both paths are resolved.
IsOutput(n) == cmd.out # Stdio /\ FileOf[n] = FileOf[cmd.out]

\* Mutant: the output is an input like others.
AnyInput(n) == n # Stdio /\ disk[FileOf[n]] # NoFile
\* Real files given with -i, but the output.
Deletable(n) == n # Stdio /\ disk[FileOf[n]] # NoFile /\ ~IsOutput(n)

\* _delete_inputs, one path after the other.
Delete ==
    /\ pc = "delete" /\ doomed # <<>>
    /\ disk' = IF Deletable(Head(doomed)) THEN [disk EXCEPT ![FileOf[Head(doomed)]] = NoFile] ELSE disk
    /\ doomed' = Tail(doomed)
    /\ UNCHANGED <<settings, process, pc, output, code, hint, runs, faults>>

\* An input that cannot be deleted stays; a message says so.
DeleteFails ==
    /\ pc = "delete" /\ doomed # <<>> /\ Fault
    /\ doomed' = Tail(doomed)
    /\ UNCHANGED <<settings, disk, process, pc, output, code, hint, runs>>

Finish ==
    /\ pc = "delete" /\ doomed = <<>>
    /\ End("done")
    /\ UNCHANGED <<settings, disk, process, output, doomed, hint, runs, faults>>

\* The interpreter flushes stdout on exit, after all of the above.  The user is done
\* with a resume command once it has succeeded.
Exit ==
    /\ pc = "flush"
    /\ pc' = "idle"
    /\ sent' = sent \cup buffered /\ buffered' = {}
    /\ hint' = IF code = 0 THEN NoHint ELSE hint
    /\ UNCHANGED <<settings, disk, process, todo, doomed, code, runs, faults>>

ExitUnflushed ==
    /\ pc = "flush" /\ buffered # {} /\ Fault
    /\ pc' = "idle"
    /\ buffered' = {}
    /\ code' = 120
    /\ UNCHANGED <<settings, disk, process, todo, doomed, sent, hint, runs>>

\* An error of the stage, a full disk, a lost connection.
Fail ==
    /\ pc \in {"load", "write"} /\ Fault
    /\ End("error")
    /\ UNCHANGED <<settings, disk, process, output, doomed, hint, runs>>

\* A signal outside the loop of resolve.
Interrupt ==
    /\ Running /\ Fault
    /\ End("interrupted")
    /\ UNCHANGED <<settings, disk, process, output, doomed, hint, runs>>

\* SIGKILL.  What a power loss does to a file is in OutputFile.
Kill ==
    /\ pc # "idle" /\ Fault
    /\ pc' = "idle" /\ code' = 137
    /\ buffered' = {}
    /\ UNCHANGED <<settings, disk, process, todo, sent, doomed, hint, runs>>

Work == Refuse \/ Load \/ (\E f \in Files : Put(f)) \/ (\E rest \in SUBSET Rows : WriteRows(rest)) \/ Return \/ Delete \/ Finish \/ Exit
Trouble ==
    InterruptLoop \/ LookupsFail \/ BreakPipe \/ DeleteFails \/ ExitUnflushed \/ Fail \/ Interrupt \/ Kill

Terminated == pc = "idle" /\ hint = NoHint /\ runs = MaxRuns /\ UNCHANGED vars

Next == (\E c \in Commands : Start(c)) \/ Resume \/ Work \/ Trouble \/ Terminated

Spec == Init /\ [][Next]_vars

\* A running process runs on, and the user follows the resume command.
FairSpec == Spec /\ WF_vars(Work) /\ WF_vars(Resume)
-----------------------------------------------------------------------------
(* Properties. *)

\* Every variable holds what the code can put there; no file has an answer without its
\* row, and a row goes through stdout once.
TypeOK ==
    /\ disk \in Contents /\ before \in Contents
    /\ settings \in Environments /\ cmd \in CommandLines
    /\ pc \in {"idle", "load", "write", "delete", "flush"}
    /\ result \in SoundDocs /\ partial \in BOOLEAN
    /\ todo \subseteq Files /\ doomed \in Seq(Names \cup {Stdio})
    /\ sent \cup buffered \subseteq result.rows /\ sent \cap buffered = {}
    /\ code \in {NoCode, 0, 1, 2, 120, 130, 137}
    /\ hint \in Names \cup {NoHint}
    /\ runs \in 0..MaxRuns /\ faults \in 0..MaxFaults

RowsOf(d) == IF d = NoFile THEN {} ELSE d.rows

\* What a command has read from files is never nowhere: with --delete, signals, SIGKILL
\* and failures at any point, every row is in some file, or has left or is about to
\* leave through stdout.  Only a run that deletes its input, writes to stdout and says
\* by its exit code that it failed may lose what was in the buffer.
ReadRowsSurvive ==
    LET read == UNION {RowsOf(before[FileOf[n]]) : n \in Reads(cmd) \ {Stdio}}
        kept == UNION {RowsOf(disk[f]) : f \in Files}
    IN  \/ read \subseteq kept \cup sent \cup buffered
        \/ ToStdout(cmd) /\ cmd.delete /\ code \in {120, 137}

\* A file that a command makes disappear was an input of a stage that had succeeded, and
\* the output is in place, whatever other names the files have.
GoneMeansOutputThere ==
    \A f \in Files : before[f] # NoFile /\ disk[f] = NoFile =>
        /\ cmd.delete /\ ~partial /\ code \notin {1, 2}
        /\ \E n \in ToSet(cmd.input) \ {Stdio} : FileOf[n] = f
        /\ \A t \in Targets(cmd, result) : disk[t] # NoFile

\* Exit code 0 means that the result is where it was asked for, whole; into a pipe that
\* was closed, that nothing was deleted.
ZeroMeansDone ==
    code = 0 =>
        /\ ~ToStdout(cmd) => ~partial /\ \A t \in Targets(cmd, result) : disk[t] = Part(t)
        /\ ToStdout(cmd) => disk = before \/ sent \cup buffered = result.rows

\* From the moment a resume command is printed until it has succeeded, its file loses no
\* filled row, though signals, SIGKILL and failures meet the runs that resume it.
ProgressKept ==
    [][hint # NoHint => LET f == FileOf[hint] IN
          disk'[f] # NoFile /\ disk[f].filled \subseteq disk'[f].filled]_vars

Complete(f) == disk[f] # NoFile /\ disk[f].rows \cap Answerable \subseteq disk[f].filled

\* A run that is done though lookups have failed, which it only counts on stderr.
DoneWithBlanks(n) ==
    code = 0 /\ cmd.type = "resolve" /\ cmd.out = n /\ ~(result.rows \cap Answerable \subseteq result.filled)

\* An interrupted resolve that wrote -o and printed how to go on is completed in that file
\* by following the commands the runs print, once the faults are over, provided that the
\* settings it had from --env, which those commands do not name, are in the default file,
\* and unless lookups fail in the last of these runs.
ResumeFinishes ==
    \A n \in Names :
        (pc = "flush" /\ partial /\ hint # NoHint /\ cmd.out = n /\ ~Misconfigured(ResumeOf(cmd, n)))
            ~> Complete(FileOf[n]) \/ DoneWithBlanks(n)
=============================================================================
