------------------------------- MODULE LogTee -------------------------------
(***************************************************************************)
(* logfile.py: while --log-file is given, sys.stderr is an object that     *)
(* passes everything to the terminal and keeps a line-oriented copy in a   *)
(* file.  The unfinished line is one string, which the main thread, its    *)
(* progress bar and the lookup threads of the pool share without a lock.   *)
(*                                                                         *)
(* A thread can lose the interpreter between two characters and around the *)
(* calls that write.  Adding a character to the string, which reads it and *)
(* assigns it, is one step: CPython from 3.10 on, with its global lock,    *)
(* switches threads at calls and at the end of a loop's body only.  What a *)
(* thread prints is a sequence of calls, each a sequence of writes to the  *)
(* stderr it looked up at its start: print writes its text, then a newline.*)
(***************************************************************************)
EXTENDS Naturals, Sequences, SequencesExt, FiniteSets

CONSTANTS
    Threads,    \* threads that print
    main,       \* the one that installs and removes the tee
    Chars,      \* what may be printed
    Programs    \* what the threads may print

CR == "\r"
NL == "\n"

\* A call makes one write or more, a write has any number of characters.
Calls == Seq(Seq(Chars)) \ {<<>>}

ASSUME TeeAssumption ==
    /\ main \in Threads /\ IsFiniteSet(Threads)
    /\ Programs \subseteq [Threads -> Seq(Calls)]

VARIABLES
    prog,       \* what each thread prints: calls of writes of characters
    abandons,   \* signals arrive: the main thread does not wait for the others
    doing,      \* per thread: where it is
    at,         \* per thread: its call, its write in it, its character in that
    teed,       \* per thread: this call goes through the tee
    installed,  \* sys.stderr is the tee
    open,       \* the log file is open
    pending,    \* the unfinished line
    log,        \* lines of the log file
    terminal,   \* writes the terminal has received, with the thread of each
    raised      \* writes that have raised

teeVars == <<prog, abandons, doing, at, teed, installed, open, pending, log, terminal, raised>>
files == <<pending, log, terminal>>

Start == [call |-> 0, write |-> 0, char |-> 0]

TeeInit ==
    /\ prog \in Programs
    /\ abandons \in BOOLEAN
    /\ doing = [t \in Threads |-> "idle"]
    /\ at = [t \in Threads |-> Start]
    /\ teed = [t \in Threads |-> FALSE]
    /\ installed = TRUE
    /\ open = TRUE
    /\ pending = <<>>
    /\ log = <<>>
    /\ terminal = <<>>
    /\ raised = {}

Call(t) == prog[t][at[t].call]
Data(t) == Call(t)[at[t].write]
Char(t) == Data(t)[at[t].char]

Goto(t, p) == doing' = [doing EXCEPT ![t] = p]
Finished(t) == doing[t] = "idle" /\ at[t].call = Len(prog[t])
-----------------------------------------------------------------------------
\* Mutant: the log copy first.
LogFirst(p) == CASE p = "begin" -> "log" [] p = "log" -> "terminal" [] p = "terminal" -> "end"
\* _StderrTee.write: the terminal gets the data, then the log its characters.
After(p) == CASE p = "begin" -> "terminal" [] p = "terminal" -> "log" [] p = "log" -> "end"

\* print and tqdm look sys.stderr up and write.
Begin(t) ==
    /\ doing[t] = "idle" /\ at[t].call < Len(prog[t])
    /\ at' = [at EXCEPT ![t] = [call |-> @.call + 1, write |-> 1, char |-> 1]]
    /\ teed' = [teed EXCEPT ![t] = installed]
    /\ Goto(t, IF installed THEN After("begin") ELSE "terminal")
    /\ UNCHANGED <<prog, abandons, installed, open, files, raised>>

ToTerminal(t) ==
    /\ doing[t] = "terminal"
    /\ terminal' = Append(terminal, [thread |-> t, data |-> Data(t)])
    /\ Goto(t, IF teed[t] THEN After("terminal") ELSE "end")
    /\ UNCHANGED <<prog, abandons, at, teed, installed, open, pending, log, raised>>

\* Mutant: a carriage return is a character like others.
KeepsAll(line, c) == Append(line, c)
\* What a character other than a newline makes of the unfinished line.
Typed(line, c) == IF c = CR THEN <<>> ELSE Append(line, c)

Type(t) ==
    /\ doing[t] = "log" /\ at[t].char <= Len(Data(t)) /\ Char(t) # NL
    /\ pending' = Typed(pending, Char(t))
    /\ at' = [at EXCEPT ![t].char = @ + 1]
    /\ UNCHANGED <<prog, abandons, doing, teed, installed, open, log, terminal, raised>>

\* _write_line: writes the line.
WriteLine(t) ==
    /\ doing[t] = "log" /\ at[t].char <= Len(Data(t)) /\ Char(t) = NL
    /\ open
    /\ log' = Append(log, pending)
    /\ Goto(t, "flush")
    /\ UNCHANGED <<prog, abandons, at, teed, installed, open, pending, terminal, raised>>

\* Mutant: the line is not taken back.
LeftStanding == pending
\* Once written the line is empty.
Taken == <<>>

\* _write_line, after the flush, which lets other threads run: a new line begins.
TakeLine(t) ==
    /\ doing[t] = "flush"
    /\ pending' = Taken
    /\ at' = [at EXCEPT ![t].char = @ + 1]
    /\ Goto(t, "log")
    /\ UNCHANGED <<prog, abandons, teed, installed, open, log, terminal, raised>>

\* The log was closed meanwhile: ValueError, and the rest of the call is not done.
RaiseClosed(t) ==
    /\ ~open
    /\ doing[t] = "flush" \/ (doing[t] = "log" /\ at[t].char <= Len(Data(t)) /\ Char(t) = NL)
    /\ raised' = raised \cup {[thread |-> t, call |-> at[t].call, write |-> at[t].write]}
    /\ Goto(t, "idle")
    /\ UNCHANGED <<prog, abandons, at, teed, installed, open, files>>

\* Every character is in the log.
EndData(t) ==
    /\ doing[t] = "log" /\ at[t].char > Len(Data(t))
    /\ Goto(t, After("log"))
    /\ UNCHANGED <<prog, abandons, at, teed, installed, open, files, raised>>

\* A write returns; the next one of the call begins.
EndWrite(t) ==
    /\ doing[t] = "end"
    /\ IF at[t].write = Len(Call(t)) THEN Goto(t, "idle") /\ UNCHANGED at
       ELSE /\ at' = [at EXCEPT ![t].write = @ + 1, ![t].char = 1]
            /\ Goto(t, IF teed[t] THEN After("begin") ELSE "terminal")
    /\ UNCHANGED <<prog, abandons, teed, installed, open, files, raised>>
-----------------------------------------------------------------------------
(* tee_stderr ends: sys.stderr is restored, an unfinished line written, the file closed. *)

\* A signal may find the main thread in the middle of a write, which it does not finish.
Restore ==
    /\ installed
    /\ ~abandons => \A t \in Threads : Finished(t)
    /\ installed' = FALSE
    /\ Goto(main, "closing")
    /\ UNCHANGED <<prog, abandons, at, teed, open, files, raised>>

\* Mutant: an unfinished line is dropped.
NeverLeftOver == FALSE
\* There is an unfinished line.
LeftOver == pending # <<>>

CheckLeftOver ==
    /\ doing[main] = "closing"
    /\ Goto(main, IF LeftOver THEN "writing" ELSE "leaving")
    /\ UNCHANGED <<prog, abandons, at, teed, installed, open, files, raised>>

WriteLeftOver ==
    /\ doing[main] = "writing"
    /\ log' = Append(log, pending)
    /\ Goto(main, "taking")
    /\ UNCHANGED <<prog, abandons, at, teed, installed, open, pending, terminal, raised>>

TakeLeftOver ==
    /\ doing[main] = "taking"
    /\ pending' = Taken
    /\ Goto(main, "leaving")
    /\ UNCHANGED <<prog, abandons, at, teed, installed, open, log, terminal, raised>>

CloseLog ==
    /\ doing[main] = "leaving"
    /\ open' = FALSE
    /\ Goto(main, "closed")
    /\ UNCHANGED <<prog, abandons, at, teed, installed, files, raised>>

\* A second signal: the rest of the ending is not done.
BreakEnding ==
    /\ abandons /\ doing[main] \in {"closing", "writing", "taking", "leaving"}
    /\ Goto(main, "closed")
    /\ UNCHANGED <<prog, abandons, at, teed, installed, open, files, raised>>

Advance(t) == Begin(t) \/ ToTerminal(t) \/ Type(t) \/ WriteLine(t) \/ TakeLine(t) \/ RaiseClosed(t) \/ EndData(t) \/ EndWrite(t)
EndTee == Restore \/ CheckLeftOver \/ WriteLeftOver \/ TakeLeftOver \/ CloseLog \/ BreakEnding

Terminated ==
    /\ doing[main] = "closed" /\ \A t \in Threads \ {main} : Finished(t)
    /\ UNCHANGED teeVars

TeeNext == (\E t \in Threads : Advance(t)) \/ EndTee \/ Terminated

TeeSpec == TeeInit /\ [][TeeNext]_teeVars
-----------------------------------------------------------------------------
(* Properties *)

\* Every variable holds what the code can put there: no line has a carriage
\* return or a newline in it, and only a thread that outlived the log has raised.
TeeTypeOK ==
    /\ \A t \in Threads : at[t].call <= Len(prog[t])
    /\ \A t \in Threads :
        doing[t] \in {"idle", "terminal", "log", "flush", "end"}
                  \cup IF t = main THEN {"closing", "writing", "taking", "leaving", "closed"} ELSE {}
    /\ teed \in [Threads -> BOOLEAN] /\ installed \in BOOLEAN /\ open \in BOOLEAN
    /\ \A line \in Range(log) \cup {pending} : {CR, NL} \cap Range(line) = {}
    /\ installed => open
    /\ (~open => doing[main] = "closed") /\ (doing[main] = "closed" => ~open \/ abandons)
    /\ \A r \in raised : ~open /\ r.thread # main

\* The part of a stream before position i that a terminal would show on its last line:
\* what follows the last carriage return or newline.
LastPart(s, i) ==
    LET marks == {j \in 1..i-1 : s[j] \in {CR, NL}}
    IN  SubSeq(s, 1 + Max({0} \cup marks), i - 1)

\* The lines of a stream, without reference to how it was read: one per newline.
Lines(s) == FlattenSeq([i \in DOMAIN s |-> IF s[i] = NL THEN <<LastPart(s, i)>> ELSE <<>>])

\* The characters of the first calls of t.
Stream(t) == FlattenSeq([c \in 1..at[t].call |-> FlattenSeq(prog[t][c])])

\* While one thread alone has printed, the log is the text as a terminal would
\* leave it: each line once, redrawn lines in their last state (logfile.py:36-46).
SoloLogExact ==
    \A t \in Threads :
        doing[t] = "idle" /\ (\A u \in Threads \ {t} : at[u] = Start /\ doing[u] = "idle") =>
            log = Lines(Stream(t)) /\ pending = LastPart(Stream(t), Len(Stream(t)) + 1)

\* Where the character x is printed: thread, call, write and position.
Places(x) ==
    LET In(t, c, w) == {<<t, c, w, k>> : k \in {j \in DOMAIN prog[t][c][w] : prog[t][c][w][j] = x}}
    IN  UNION {UNION {UNION {In(t, c, w) : w \in DOMAIN prog[t][c]} : c \in DOMAIN prog[t]} : t \in Threads}

\* However the threads interleave, a text that is printed once stands in the log at most
\* once per thread: a line not yet taken back is written again by others only, and by the
\* end of the tee if a signal kept the main thread from taking it back (logfile.py:44-49).
LoggedOncePerThread ==
    \A i \in DOMAIN log : \A x \in Range(log[i]) :
        (\A p, q \in Places(x) : p = q) =>
            Cardinality({j \in DOMAIN log : x \in Range(log[j])})
                <= Cardinality(Threads) + IF abandons THEN 1 ELSE 0

\* The writes a thread made of its call c: all, or those up to the one that raised.
Made(t, c) ==
    LET stops == {r.write : r \in {q \in raised : q.thread = t /\ q.call = c}}
    IN  IF stops = {} THEN Len(prog[t][c]) ELSE Max(stops)

\* The writes of t the terminal has received, in order.
Shown(t) ==
    FlattenSeq([i \in DOMAIN terminal |-> IF terminal[i].thread = t THEN <<terminal[i].data>> ELSE <<>>])

\* The terminal has every write of every thread in its order, the one that
\* raised because the log was closed included (logfile.py:33-35, 92).
TerminalMissesNothing ==
    \A t \in Threads : doing[t] = "idle" =>
        Shown(t) = FlattenSeq([c \in 1..at[t].call |-> SubSeq(prog[t][c], 1, Made(t, c))])

\* When the main thread has waited for the others, nothing raised and the log
\* has a line per newline and one more for a line left unfinished (logfile.py:86-92).
OrderlyExitLogsAll ==
    doing[main] = "closed" /\ ~abandons =>
        /\ raised = {} /\ pending = <<>>
        /\ LET newlines == Cardinality(Places(NL)) IN Len(log) \in {newlines, newlines + 1}
=============================================================================
