----------------------------- MODULE FileProofs -----------------------------
(***************************************************************************)
(* Proofs about the two modules that write files.                          *)
(*                                                                         *)
(* LogTee, for any threads, any characters and any programs: the types,    *)
(* what the terminal and the log have of what is printed, how often a text *)
(* can stand in the log, and what an orderly end leaves.                   *)
(*                                                                         *)
(* OutputFile, for any set of processes and any document length: what is   *)
(* at the path is whole unless a power loss tore it, it changes only to a  *)
(* finished document, and no litter stays.                                 *)
(***************************************************************************)
EXTENDS OutputFile, LogTee, FiniteSetTheorems, SequenceTheorems, WellFoundedInduction, TLAPS

(* LogTee. *)

\* The main thread has begun to remove the tee.
Closing == {"closing", "writing", "taking", "leaving", "closed"}
\* A thread inside one of its writes.
Busy == {"terminal", "log", "flush", "end"}

\* No carriage return and no newline.
Plain(line) == \A k \in DOMAIN line : line[k] \notin {CR, NL}

\* The types of the variables.
TeeShape ==
    /\ prog \in Programs /\ abandons \in BOOLEAN /\ installed \in BOOLEAN /\ open \in BOOLEAN
    /\ at = [t \in Threads |-> at[t]] /\ doing = [t \in Threads |-> doing[t]]
    /\ teed \in [Threads -> BOOLEAN]
    /\ log \in Seq(Seq(Chars)) /\ pending \in Seq(Chars)
    /\ terminal \in Seq([thread : Threads, data : Seq(Chars)])

\* Where a thread is, in its program and in its write.
ThreadInv(t) ==
    /\ at[t] \in [call : 0..Len(prog[t]), write : Nat, char : Nat]
    /\ doing[t] \in Busy \cup {"idle"} \cup IF t = main THEN Closing ELSE {}
    /\ doing[t] \in Busy => at[t].call >= 1 /\ at[t].write \in 1..Len(Call(t)) /\ at[t].char \in 1..Len(Data(t)) + 1
    /\ doing[t] = "flush" => at[t].char <= Len(Data(t)) /\ Char(t) = NL
    /\ doing[t] \in {"log", "flush"} => teed[t]

\* The tee is removed before the log is closed, and only the main thread does either.
TeeInv ==
    /\ TeeShape
    /\ \A t \in Threads : ThreadInv(t)
    /\ Plain(pending) /\ \A i \in DOMAIN log : Plain(log[i])
    /\ ~installed <=> doing[main] \in Closing
    /\ ~open => doing[main] = "closed"
    /\ doing[main] = "closed" => ~open \/ abandons
    /\ doing[main] \in Closing /\ ~abandons => at[main].call = Len(prog[main])
    /\ \A r \in raised : ~open /\ r.thread \in Threads \ {main}

\* What the threads may print.
LEMMA ProgramsAre ==
    ASSUME prog \in Programs, NEW t \in Threads
    PROVE  /\ prog[t] \in Seq(Calls)
           /\ \A c \in 1..Len(prog[t]) :
                 /\ prog[t][c] \in Seq(Seq(Chars)) /\ Len(prog[t][c]) >= 1
                 /\ \A w \in 1..Len(prog[t][c]) : prog[t][c][w] \in Seq(Chars)
<1>1. prog[t] \in Seq(Calls)
  BY TeeAssumption
<1>2. ASSUME NEW c \in 1..Len(prog[t]) PROVE prog[t][c] \in Seq(Seq(Chars)) /\ Len(prog[t][c]) >= 1
  <2>1. prog[t][c] \in Calls
    BY <1>1
  <2>2. prog[t][c] \in Seq(Seq(Chars)) /\ prog[t][c] # <<>>
    BY <2>1 DEF Calls
  <2>3. QED BY <2>2
<1>3. QED BY <1>1, <1>2

\* The data a busy thread writes.
LEMMA BusyData ==
    ASSUME TeeInv, NEW t \in Threads, doing[t] \in Busy
    PROVE  /\ at[t].call \in 1..Len(prog[t]) /\ Len(prog[t]) \in Nat
           /\ Call(t) \in Seq(Seq(Chars)) /\ Len(Call(t)) \in Nat
           /\ Data(t) \in Seq(Chars) /\ Len(Data(t)) \in Nat
           /\ at[t].write \in 1..Len(Call(t)) /\ at[t].char \in 1..Len(Data(t)) + 1
           /\ at[t] = [call |-> at[t].call, write |-> at[t].write, char |-> at[t].char]
<1>1. prog \in Programs /\ ThreadInv(t)
  BY DEF TeeInv, TeeShape
<1>2. prog[t] \in Seq(Calls) /\ at[t].call \in 1..Len(prog[t]) /\ Len(prog[t]) \in Nat
  BY <1>1, ProgramsAre DEF ThreadInv
<1>3. Call(t) \in Seq(Seq(Chars)) /\ Len(Call(t)) \in Nat
  <2>1. \A c \in 1..Len(prog[t]) : prog[t][c] \in Seq(Seq(Chars))
    BY <1>1, ProgramsAre
  <2>2. prog[t][at[t].call] \in Seq(Seq(Chars))
    BY <1>2, <2>1
  <2>3. QED BY <2>2 DEF Call
<1>4. at[t].write \in 1..Len(Call(t)) /\ at[t].char \in 1..Len(Data(t)) + 1
  BY <1>1 DEF ThreadInv
<1>5. Data(t) \in Seq(Chars) /\ Len(Data(t)) \in Nat
  BY <1>3, <1>4 DEF Data
<1>6. at[t] = [call |-> at[t].call, write |-> at[t].write, char |-> at[t].char]
  BY <1>1 DEF ThreadInv
<1>7. QED BY <1>2, <1>3, <1>4, <1>5, <1>6
-----------------------------------------------------------------------------
\* A thread a step leaves as it is.
Stays(u) == at'[u] = at[u] /\ doing'[u] = doing[u] /\ teed'[u] = teed[u]

\* A thread a step leaves as it is keeps its part of the invariant.
LEMMA StaysInv ==
    ASSUME NEW u \in Threads, ThreadInv(u), Stays(u), prog' = prog
    PROVE  ThreadInv(u)'
BY DEF ThreadInv, Stays, Call, Data, Char

\* A step of one thread, of those that print.
Only(t) ==
    /\ prog' = prog /\ abandons' = abandons /\ installed' = installed /\ open' = open
    /\ \A u \in Threads \ {t} : Stays(u)
    /\ at' = [u \in Threads |-> at'[u]] /\ doing' = [u \in Threads |-> doing'[u]] /\ teed' \in [Threads -> BOOLEAN]

\* A thread that prints changes nothing of the others.
LEMMA AdvanceOnly == ASSUME TeeInv, NEW t \in Threads, Advance(t) PROVE Only(t) /\ doing[t] \in Busy \cup {"idle"}
<1> USE DEF TeeInv, TeeShape, Only, Stays, Goto, Busy
<1>1. CASE Begin(t)
  <2>1. teed' \in [Threads -> BOOLEAN]
    BY <1>1 DEF Begin
  <2>2. QED BY <1>1, <2>1 DEF Begin
<1>2. CASE ToTerminal(t)
  BY <1>2 DEF ToTerminal
<1>3. CASE Type(t)
  BY <1>3 DEF Type
<1>4. CASE WriteLine(t)
  BY <1>4 DEF WriteLine
<1>5. CASE TakeLine(t)
  BY <1>5 DEF TakeLine
<1>6. CASE RaiseClosed(t)
  BY <1>6 DEF RaiseClosed
<1>7. CASE EndData(t)
  BY <1>7 DEF EndData
<1>8. CASE EndWrite(t)
  BY <1>8 DEF EndWrite
<1>9. QED BY <1>1, <1>2, <1>3, <1>4, <1>5, <1>6, <1>7, <1>8 DEF Advance

\* The order of a write.
LEMMA AfterOrder == After("begin") = "terminal" /\ After("terminal") = "log" /\ After("log") = "end"
BY Zenon DEF After

\* What the step of a thread does to that thread.
LEMMA AdvanceThread == ASSUME TeeInv, NEW t \in Threads, Advance(t) PROVE ThreadInv(t)' /\ doing'[t] \notin Closing
<1> USE AfterOrder
<1>0. ThreadInv(t) /\ prog \in Programs /\ at = [u \in Threads |-> at[u]] /\ doing = [u \in Threads |-> doing[u]] /\ teed \in [Threads -> BOOLEAN]
  BY DEF TeeInv, TeeShape
<1>1. CASE Begin(t)
  <2>1. /\ prog' = prog /\ at'[t] = [call |-> at[t].call + 1, write |-> 1, char |-> 1] /\ doing'[t] = "terminal"
        /\ at[t].call < Len(prog[t])
    BY <1>0, <1>1 DEF Begin, Goto, ThreadInv
  <2>2. Len(prog[t]) \in Nat /\ at[t].call \in 0..Len(prog[t])
    BY <1>0, ProgramsAre DEF ThreadInv
  <2> DEFINE c == at[t].call + 1
  <2>3. c \in 1..Len(prog[t])
    BY <2>1, <2>2
  <2>4. prog[t][c] \in Seq(Seq(Chars)) /\ Len(prog[t][c]) >= 1
    BY <1>0, <2>3, ProgramsAre
  <2>5. Call(t)' = prog[t][c] /\ Data(t)' = prog[t][c][1]
    BY <2>1 DEF Call, Data
  <2>6. prog[t][c][1] \in Seq(Chars)
    BY <2>4
  <2>7. at'[t] \in [call : 0..Len(prog[t]), write : Nat, char : Nat] /\ at'[t].call >= 1 /\ at'[t].write = 1 /\ at'[t].char = 1
    BY <2>1, <2>2, <2>3
  <2>8. Len(Data(t)') \in Nat /\ Len(Call(t)') \in Nat /\ Len(Call(t)') >= 1
    BY <2>4, <2>5, <2>6
  <2> HIDE DEF c
  <2>9. QED BY <2>1, <2>7, <2>8 DEF ThreadInv, Busy, Closing
<1>2. CASE doing[t] \in Busy /\ ~EndWrite(t)
  <2>0. /\ at[t].call \in 1..Len(prog[t]) /\ Len(prog[t]) \in Nat /\ Call(t) \in Seq(Seq(Chars)) /\ Len(Call(t)) \in Nat
        /\ Data(t) \in Seq(Chars) /\ Len(Data(t)) \in Nat
        /\ at[t].write \in 1..Len(Call(t)) /\ at[t].char \in 1..Len(Data(t)) + 1
        /\ at[t] = [call |-> at[t].call, write |-> at[t].write, char |-> at[t].char]
    BY <1>2, BusyData
  <2>1. /\ prog' = prog /\ at'[t].call = at[t].call /\ at'[t].write = at[t].write
        /\ at'[t] = at[t] \/ (at'[t] = [at[t] EXCEPT !.char = @ + 1] /\ at[t].char <= Len(Data(t)))
        /\ teed'[t] = teed[t]
    <3>1. CASE Type(t)
      BY <1>0, <2>0, <3>1 DEF Type
    <3>2. CASE TakeLine(t)
      BY <1>0, <2>0, <3>2 DEF TakeLine, ThreadInv
    <3>3. CASE ToTerminal(t) \/ WriteLine(t) \/ RaiseClosed(t) \/ EndData(t)
      BY <1>0, <2>0, <3>3 DEF ToTerminal, WriteLine, RaiseClosed, EndData
    <3>4. ~Begin(t)
      BY <1>2 DEF Begin, Busy
    <3>5. QED BY <1>2, <3>1, <3>2, <3>3, <3>4 DEF Advance
  <2>2. Call(t)' = Call(t) /\ Data(t)' = Data(t) /\ (at'[t] = at[t] => Char(t)' = Char(t))
    BY <2>1 DEF Call, Data, Char
  <2>3. /\ doing'[t] \in Busy \cup {"idle"}
        /\ doing'[t] = "flush" => at'[t] = at[t] /\ at[t].char <= Len(Data(t)) /\ Char(t) = NL
        /\ doing'[t] \in {"log", "flush"} => teed[t]
    <3>1. CASE ToTerminal(t)
      BY <1>0, <3>1 DEF ToTerminal, Goto, Busy
    <3>2. CASE Type(t)
      BY <1>0, <3>2 DEF Type, Busy, ThreadInv
    <3>3. CASE WriteLine(t)
      BY <1>0, <3>3 DEF WriteLine, Goto, Busy, ThreadInv
    <3>4. CASE TakeLine(t)
      BY <1>0, <3>4 DEF TakeLine, Goto, Busy, ThreadInv
    <3>5. CASE RaiseClosed(t) \/ EndData(t)
      BY <1>0, <3>5 DEF RaiseClosed, EndData, Goto, Busy
    <3>6. ~Begin(t)
      BY <1>2 DEF Begin, Busy
    <3>7. QED BY <1>2, <3>1, <3>2, <3>3, <3>4, <3>5, <3>6 DEF Advance
  <2>4. at'[t] \in [call : 0..Len(prog[t]), write : Nat, char : Nat] /\ at'[t].char \in 1..Len(Data(t)) + 1
    BY <2>0, <2>1
  <2>5. doing'[t] \in Busy => at'[t].call >= 1 /\ at'[t].write \in 1..Len(Call(t)') /\ at'[t].char \in 1..Len(Data(t)') + 1
    BY <2>0, <2>1, <2>2, <2>4
  <2>6. doing'[t] = "flush" => at'[t].char <= Len(Data(t)') /\ Char(t)' = NL
    BY <2>2, <2>3
  <2>7. at'[t] \in [call : 0..Len(prog'[t]), write : Nat, char : Nat] /\ (doing'[t] \in {"log", "flush"} => teed'[t])
    BY <2>1, <2>3, <2>4
  <2>8. doing'[t] \notin Closing /\ doing'[t] \in Busy \cup {"idle"} \cup IF t = main THEN Closing ELSE {}
    BY <2>3 DEF Busy, Closing
  <2>9. QED BY <2>5, <2>6, <2>7, <2>8 DEF ThreadInv
<1>3. CASE EndWrite(t)
  <2>0. /\ at[t].call \in 1..Len(prog[t]) /\ Len(prog[t]) \in Nat /\ Call(t) \in Seq(Seq(Chars)) /\ Len(Call(t)) \in Nat
        /\ at[t].write \in 1..Len(Call(t))
        /\ at[t] = [call |-> at[t].call, write |-> at[t].write, char |-> at[t].char]
    BY <1>3, BusyData DEF EndWrite, Busy
  <2>1. CASE at[t].write = Len(Call(t))
    <3>1. doing'[t] = "idle" /\ at'[t] = at[t] /\ prog' = prog
      BY <1>0, <1>3, <2>1 DEF EndWrite, Goto
    <3>2. QED BY <1>0, <3>1 DEF ThreadInv, Busy, Closing
  <2>2. CASE at[t].write # Len(Call(t))
    <3>1. /\ doing'[t] = "terminal" /\ prog' = prog
          /\ at'[t] = [call |-> at[t].call, write |-> at[t].write + 1, char |-> 1]
      BY <1>0, <1>3, <2>0, <2>2 DEF EndWrite, Goto
    <3>2. Call(t)' = Call(t) /\ Data(t)' = Call(t)[at[t].write + 1]
      BY <3>1 DEF Call, Data
    <3>3. at[t].write + 1 \in 1..Len(Call(t))
      BY <2>0, <2>2
    <3>4. Call(t)[at[t].write + 1] \in Seq(Chars)
      BY <2>0, <3>3
    <3>5. QED BY <2>0, <3>1, <3>2, <3>3, <3>4 DEF ThreadInv, Busy, Closing
  <2>3. QED BY <2>1, <2>2
<1>4. QED
  <2>1. doing[t] = "idle" => Begin(t)
    BY DEF Advance, ToTerminal, Type, WriteLine, TakeLine, RaiseClosed, EndData, EndWrite
  <2>2. doing[t] \in Busy \cup {"idle"}
    BY AdvanceOnly
  <2>3. QED BY <1>1, <1>2, <1>3, <2>1, <2>2

\* What the step of a thread does to the buffer, the log and the terminal.
LEMMA AdvanceFiles ==
    ASSUME TeeInv, NEW t \in Threads, Advance(t)
    PROVE  /\ log' \in Seq(Seq(Chars)) /\ pending' \in Seq(Chars)
           /\ terminal' \in Seq([thread : Threads, data : Seq(Chars)])
           /\ Plain(pending') /\ \A i \in DOMAIN log' : Plain(log'[i])
           /\ \A r \in raised' : ~open /\ r.thread \in Threads \ {main}
<1> USE DEF files
<1>0. /\ log \in Seq(Seq(Chars)) /\ pending \in Seq(Chars) /\ terminal \in Seq([thread : Threads, data : Seq(Chars)])
      /\ Plain(pending) /\ \A i \in DOMAIN log : Plain(log[i])
      /\ \A r \in raised : ~open /\ r.thread \in Threads \ {main}
  BY DEF TeeInv, TeeShape
<1>1. CASE Begin(t) \/ EndData(t) \/ EndWrite(t)
  BY <1>0, <1>1 DEF Begin, EndData, EndWrite
<1>2. CASE ToTerminal(t)
  <2>1. Data(t) \in Seq(Chars)
    BY <1>2, BusyData DEF ToTerminal, Busy
  <2>2. [thread |-> t, data |-> Data(t)] \in [thread : Threads, data : Seq(Chars)]
    BY <2>1
  <2>3. QED BY <1>0, <1>2, <2>2 DEF ToTerminal
<1>3. CASE Type(t)
  <2>0. doing[t] \in Busy /\ at[t].char <= Len(Data(t))
    BY <1>3 DEF Type, Busy
  <2>1. Data(t) \in Seq(Chars) /\ Len(Data(t)) \in Nat /\ at[t].char \in 1..Len(Data(t)) + 1
    BY <2>0, BusyData
  <2>2. Char(t) \in Chars
    <3>1. at[t].char \in 1..Len(Data(t))
      BY <2>0, <2>1
    <3>2. QED BY <2>1, <3>1 DEF Char
  <2>3. CASE Char(t) = CR
    <3>1. pending' = <<>>
      BY <1>3, <2>3 DEF Type, Typed
    <3>2. QED BY <1>0, <1>3, <3>1 DEF Type, Plain
  <2>4. CASE Char(t) # CR
    <3>1. pending' = Append(pending, Char(t)) /\ Char(t) \notin {CR, NL}
      BY <1>3, <2>4 DEF Type, Typed
    <3>2. pending' \in Seq(Chars) /\ Plain(pending')
      BY <1>0, <2>2, <3>1 DEF Plain
    <3>3. QED BY <1>0, <1>3, <3>2 DEF Type
  <2>5. QED BY <2>3, <2>4
<1>4. CASE WriteLine(t)
  BY <1>0, <1>4 DEF WriteLine
<1>5. CASE TakeLine(t)
  BY <1>0, <1>5 DEF TakeLine, Taken, Plain
<1>6. CASE RaiseClosed(t)
  <2>1. t # main
    BY <1>6 DEF RaiseClosed, TeeInv
  <2>2. QED BY <1>0, <1>6, <2>1 DEF RaiseClosed
<1>7. QED BY <1>1, <1>2, <1>3, <1>4, <1>5, <1>6 DEF Advance

\* Every write of a thread keeps the invariant.
LEMMA AdvanceInv == ASSUME TeeInv, NEW t \in Threads, Advance(t) PROVE TeeInv'
<1>1. Only(t) /\ doing[t] \in Busy \cup {"idle"}
  BY AdvanceOnly
<1>2. ThreadInv(t)' /\ doing'[t] \notin Closing
  BY AdvanceThread
<1>3. \A u \in Threads : ThreadInv(u)'
  BY <1>1, <1>2, StaysInv DEF Only, TeeInv
<1>4. TeeShape'
  BY <1>1, AdvanceFiles DEF TeeInv, TeeShape, Only
<1>5. main \in Threads /\ doing[t] \notin Closing
  BY <1>1, TeeAssumption DEF Busy, Closing
<1>6. (doing'[main] \in Closing <=> doing[main] \in Closing) /\ (doing'[main] = "closed" <=> doing[main] = "closed")
  BY <1>1, <1>2, <1>5 DEF Only, Stays, Closing
<1>7. doing'[main] \in Closing /\ ~abandons' => at'[main].call = Len(prog'[main])
  BY <1>1, <1>2, <1>5 DEF Only, Stays, TeeInv
<1>8. installed' = installed /\ open' = open /\ abandons' = abandons
  BY <1>1 DEF Only
<1>9. /\ ~installed' <=> doing'[main] \in Closing
      /\ ~open' => doing'[main] = "closed"
      /\ doing'[main] = "closed" => ~open' \/ abandons'
  <2>1. /\ ~installed <=> doing[main] \in Closing
        /\ ~open => doing[main] = "closed"
        /\ doing[main] = "closed" => ~open \/ abandons
    BY DEF TeeInv
  <2>2. QED BY <1>6, <1>8, <2>1, Zenon
<1>10. \A r \in raised' : ~open' /\ r.thread \in Threads \ {main}
  BY <1>8, AdvanceFiles
<1>11. Plain(pending') /\ \A i \in DOMAIN log' : Plain(log'[i])
  BY AdvanceFiles
<1>12. QED BY <1>3, <1>4, <1>7, <1>9, <1>10, <1>11 DEF TeeInv, Plain

\* The end of the tee is the work of the main thread.
LEMMA EndTeeInv == ASSUME TeeInv, EndTee PROVE TeeInv'
<1> USE DEF TeeInv, TeeShape, files
<1>0. main \in Threads
  BY TeeAssumption
<1>1. /\ prog' = prog /\ abandons' = abandons /\ at' = at /\ teed' = teed /\ terminal' = terminal /\ raised' = raised
      /\ doing' = [doing EXCEPT ![main] = doing'[main]]
      /\ doing'[main] \in Closing /\ (~abandons => at[main].call = Len(prog[main])) /\ installed' = FALSE
  <2>1. CASE Restore
    BY <1>0, <2>1 DEF Restore, Goto, Finished, Closing
  <2>2. CASE CheckLeftOver
    <3>1. doing[main] \in Closing
      BY <2>2 DEF CheckLeftOver, Closing
    <3>2. installed' = installed
      BY <2>2 DEF CheckLeftOver
    <3>3. installed' = FALSE
      BY <3>1, <3>2
    <3>4. QED BY <1>0, <2>2, <3>1, <3>3 DEF CheckLeftOver, Goto, Closing
  <2>3. CASE WriteLeftOver
    <3>1. doing[main] \in Closing
      BY <2>3 DEF WriteLeftOver, Closing
    <3>2. installed' = installed
      BY <2>3 DEF WriteLeftOver
    <3>3. installed' = FALSE
      BY <3>1, <3>2
    <3>4. QED BY <1>0, <2>3, <3>1, <3>3 DEF WriteLeftOver, Goto, Closing
  <2>4. CASE TakeLeftOver
    <3>1. doing[main] \in Closing
      BY <2>4 DEF TakeLeftOver, Closing
    <3>2. installed' = installed
      BY <2>4 DEF TakeLeftOver
    <3>3. installed' = FALSE
      BY <3>1, <3>2
    <3>4. QED BY <1>0, <2>4, <3>1, <3>3 DEF TakeLeftOver, Goto, Closing
  <2>5. CASE CloseLog
    <3>1. doing[main] \in Closing
      BY <2>5 DEF CloseLog, Closing
    <3>2. installed' = installed
      BY <2>5 DEF CloseLog
    <3>3. installed' = FALSE
      BY <3>1, <3>2
    <3>4. QED BY <1>0, <2>5, <3>1, <3>3 DEF CloseLog, Goto, Closing
  <2>6. CASE BreakEnding
    <3>1. doing[main] \in Closing
      BY <2>6 DEF BreakEnding, Closing
    <3>2. installed' = installed
      BY <2>6 DEF BreakEnding
    <3>3. installed' = FALSE
      BY <3>1, <3>2
    <3>4. QED BY <1>0, <2>6, <3>1, <3>3 DEF BreakEnding, Goto, Closing
  <2>7. QED BY <2>1, <2>2, <2>3, <2>4, <2>5, <2>6 DEF EndTee
<1>2. /\ log' \in Seq(Seq(Chars)) /\ pending' \in Seq(Chars)
      /\ Plain(pending') /\ \A i \in DOMAIN log' : Plain(log'[i])
  <2>1. CASE Restore \/ CheckLeftOver \/ CloseLog \/ BreakEnding
    BY <2>1 DEF Restore, CheckLeftOver, CloseLog, BreakEnding
  <2>2. CASE WriteLeftOver
    BY <2>2 DEF WriteLeftOver
  <2>3. CASE TakeLeftOver
    BY <2>3 DEF TakeLeftOver, Taken, Plain
  <2>4. QED BY <2>1, <2>2, <2>3 DEF EndTee
<1>a. doing[main] # "closed"
  BY DEF EndTee, Restore, CheckLeftOver, WriteLeftOver, TakeLeftOver, CloseLog, BreakEnding, Closing
<1>3. open' \in BOOLEAN /\ (~open' => doing'[main] = "closed") /\ (doing'[main] = "closed" => ~open' \/ abandons')
  <2>1. CASE CloseLog
    BY <1>0, <2>1 DEF CloseLog, Goto
  <2>2. CASE BreakEnding
    BY <1>0, <2>2 DEF BreakEnding, Goto
  <2>3. CASE ~CloseLog /\ ~BreakEnding
    <3>0. open' = open
      BY <2>3 DEF EndTee, Restore, CheckLeftOver, WriteLeftOver, TakeLeftOver
    <3>1. doing'[main] # "closed"
      <4>1. Restore \/ WriteLeftOver \/ TakeLeftOver => doing'[main] # "closed"
        BY <1>0 DEF Restore, WriteLeftOver, TakeLeftOver, Goto
      <4>2. CheckLeftOver => doing'[main] # "closed"
        BY <1>0 DEF CheckLeftOver, Goto
      <4>3. QED BY <2>3, <4>1, <4>2 DEF EndTee
    <3>2. open /\ open'
      BY <1>a, <3>0
    <3>3. QED BY <3>1, <3>2
  <2>4. QED BY <2>1, <2>2, <2>3
<1>4. \A u \in Threads : ThreadInv(u)'
  <2>1. ASSUME NEW u \in Threads, u # main PROVE ThreadInv(u)'
    BY <1>0, <1>1, <2>1, StaysInv DEF Stays
  <2>2. ThreadInv(main)'
    BY <1>0, <1>1 DEF ThreadInv, Closing, Busy
  <2>3. QED BY <2>1, <2>2
<1>5. \A r \in raised' : ~open' /\ r.thread \in Threads \ {main}
  <2>1. raised # {} => doing[main] = "closed"
    OBVIOUS
  <2>2. QED BY <1>1, <1>a, <2>1
<1>6. TeeShape'
  BY <1>1, <1>2, <1>3
<1>7. QED BY <1>1, <1>2, <1>3, <1>4, <1>5, <1>6 DEF Plain

\* The invariant holds at the start.
LEMMA TeeInvInit == TeeInit => TeeInv
<1> SUFFICES ASSUME TeeInit PROVE TeeInv
  OBVIOUS
<1>0. main \in Threads
  BY TeeAssumption
<1>1. TeeShape
  BY DEF TeeInit, TeeShape
<1>2. ASSUME NEW t \in Threads PROVE ThreadInv(t)
  <2>1. Len(prog[t]) \in Nat
    BY ProgramsAre DEF TeeInit
  <2>2. at[t] = Start /\ doing[t] = "idle"
    BY DEF TeeInit
  <2>3. QED BY <2>1, <2>2 DEF ThreadInv, Start, Busy
<1>3. pending = <<>> /\ log = <<>> /\ installed /\ open /\ raised = {} /\ doing[main] = "idle"
  BY <1>0 DEF TeeInit
<1>4. QED BY <1>1, <1>2, <1>3 DEF TeeInv, Plain, Closing

\* Every step keeps it.
LEMMA TeeInvStep == TeeInv /\ [TeeNext]_teeVars => TeeInv'
<1> SUFFICES ASSUME TeeInv, [TeeNext]_teeVars PROVE TeeInv'
  OBVIOUS
<1>1. CASE UNCHANGED teeVars
  <2>1. \A u \in Threads : ThreadInv(u)'
    BY <1>1, StaysInv DEF TeeInv, teeVars, Stays
  <2>2. TeeShape'
    BY <1>1 DEF TeeInv, TeeShape, teeVars
  <2>3. UNCHANGED <<prog, abandons, at, doing, installed, open, pending, log, raised>>
    BY <1>1 DEF teeVars
  <2>4. QED BY <2>1, <2>2, <2>3 DEF TeeInv, Plain
<1>2. QED BY <1>1, AdvanceInv, EndTeeInv DEF TeeNext, Terminated

\* It holds always.
LEMMA TeeInvariance == TeeSpec => []TeeInv
BY TeeInvInit, TeeInvStep, PTL DEF TeeSpec

\* TeeTypeOK: a line of the log holds no carriage return and no newline, and only a thread that
\* outlived the tee finds the log closed, never the main thread (logfile.py:37-49, 86-92).
THEOREM TeeTypeCorrect == TeeSpec => []TeeTypeOK
<1>1. TeeInv => TeeTypeOK
  <2> SUFFICES ASSUME TeeInv PROVE TeeTypeOK
    OBVIOUS
  <2>1. \A t \in Threads : ThreadInv(t) /\ Len(prog[t]) \in Nat
    BY ProgramsAre DEF TeeInv, TeeShape
  <2>2. \A t \in Threads : at[t].call <= Len(prog[t])
    BY <2>1 DEF ThreadInv
  <2>3. \A line \in Range(log) \cup {pending} : {CR, NL} \cap Range(line) = {}
    BY DEF TeeInv, Plain, Range
  <2>4. (installed => open) /\ (~open => doing[main] = "closed") /\ (doing[main] = "closed" => ~open \/ abandons)
    BY DEF TeeInv, Closing
  <2>5. \A t \in Threads : doing[t] \in {"idle", "terminal", "log", "flush", "end"}
           \cup IF t = main THEN {"closing", "writing", "taking", "leaving", "closed"} ELSE {}
    BY <2>1 DEF ThreadInv, Busy, Closing
  <2>6. \A r \in raised : ~open /\ r.thread # main
    BY DEF TeeInv
  <2>7. teed \in [Threads -> BOOLEAN] /\ installed \in BOOLEAN /\ open \in BOOLEAN
    BY DEF TeeInv, TeeShape
  <2>8. QED BY <2>2, <2>3, <2>4, <2>5, <2>6, <2>7 DEF TeeTypeOK
<1>2. QED BY <1>1, TeeInvariance, PTL
-----------------------------------------------------------------------------
(* A text that is printed once. *)

\* A place is behind a thread that has gone on in its program.
Passed(p) ==
    LET a == at[p[1]]
    IN  p[2] < a.call \/ (p[2] = a.call /\ (p[3] < a.write \/ (p[3] = a.write /\ p[4] < a.char)))

\* The lines of the log with x in them.
Holding(x) == {j \in DOMAIN log : x \in Range(log[j])}

\* Who may write a line that is not taken back: each thread, and under signals the main
\* thread twice, in a write and at the end of the tee.
Again == CHOOSE a : a \notin Threads
Writers == Threads \cup IF abandons THEN {Again} ELSE {}

\* Those of them that have, or that a signal may have kept from taking it back.
InFlight ==
    {t \in Threads : doing[t] = "flush" \/ (t = main /\ IF abandons THEN ~installed ELSE doing[main] = "taking")}
        \cup IF abandons /\ doing[main] \in {"taking", "leaving", "closed"} THEN {Again} ELSE {}

\* A text that is printed once is neither in the buffer nor in the log before its thread has passed
\* its place; and while it is in the buffer of an open log, the lines that have it are no more than
\* the writers in flight.
OnceInv(x) ==
    (\A p, q \in Places(x) : p = q) =>
        /\ x \in Range(pending) \/ Holding(x) # {} => \E p \in Places(x) : Passed(p)
        /\ IsFiniteSet(Holding(x)) /\ Cardinality(Holding(x)) <= Cardinality(Writers)
        /\ x \in Range(pending) /\ open => Cardinality(Holding(x)) <= Cardinality(InFlight)

\* Where a thread goes next is later in its program.
LaterAt(a, b) ==
    b.call > a.call \/ (b.call = a.call /\ (b.write > a.write \/ (b.write = a.write /\ b.char >= a.char)))

\* A place a text is printed at is one of its places.
LEMMA InPlaces ==
    ASSUME NEW x, NEW t \in Threads, NEW c \in DOMAIN prog[t], NEW w \in DOMAIN prog[t][c],
           NEW k \in DOMAIN prog[t][c][w], prog[t][c][w][k] = x
    PROVE  <<t, c, w, k>> \in Places(x)
BY DEF Places

\* And there are no others.
LEMMA OfPlaces ==
    ASSUME NEW x, NEW p \in Places(x)
    PROVE  \E t \in Threads : \E c \in DOMAIN prog[t] : \E w \in DOMAIN prog[t][c] : \E k \in DOMAIN prog[t][c][w] :
              p = <<t, c, w, k>> /\ prog[t][c][w][k] = x
BY DEF Places

\* The parts of a place.
LEMMA PlaceParts ==
    ASSUME TeeInv, NEW x, NEW p \in Places(x)
    PROVE  /\ p = <<p[1], p[2], p[3], p[4]>>
           /\ p[1] \in Threads /\ p[2] \in 1..Len(prog[p[1]]) /\ p[2] \in Nat
           /\ p[3] \in 1..Len(prog[p[1]][p[2]]) /\ p[3] \in Nat
           /\ p[4] \in 1..Len(prog[p[1]][p[2]][p[3]]) /\ p[4] \in Nat
           /\ prog[p[1]][p[2]][p[3]][p[4]] = x
<1>1. PICK t \in Threads : \E c \in DOMAIN prog[t] : \E w \in DOMAIN prog[t][c] : \E k \in DOMAIN prog[t][c][w] :
         p = <<t, c, w, k>> /\ prog[t][c][w][k] = x
  BY OfPlaces
<1>2. PICK c \in DOMAIN prog[t] : \E w \in DOMAIN prog[t][c] : \E k \in DOMAIN prog[t][c][w] :
         p = <<t, c, w, k>> /\ prog[t][c][w][k] = x
  BY <1>1
<1>3. PICK w \in DOMAIN prog[t][c] : \E k \in DOMAIN prog[t][c][w] : p = <<t, c, w, k>> /\ prog[t][c][w][k] = x
  BY <1>2
<1>4. PICK k \in DOMAIN prog[t][c][w] : p = <<t, c, w, k>> /\ prog[t][c][w][k] = x
  BY <1>3
<1>5. prog \in Programs
  BY DEF TeeInv, TeeShape
<1>6. prog[t] \in Seq(Calls) /\ c \in 1..Len(prog[t]) /\ c \in Nat
  <2>1. prog[t] \in Seq(Calls)
    BY <1>5, ProgramsAre
  <2>2. QED BY <2>1
<1>7. prog[t][c] \in Seq(Seq(Chars)) /\ w \in 1..Len(prog[t][c]) /\ w \in Nat
  <2>1. prog[t][c] \in Seq(Seq(Chars))
    BY <1>5, <1>6, ProgramsAre
  <2>2. QED BY <2>1
<1>8. prog[t][c][w] \in Seq(Chars) /\ k \in 1..Len(prog[t][c][w]) /\ k \in Nat
  <2>1. prog[t][c][w] \in Seq(Chars)
    BY <1>7
  <2>2. QED BY <2>1
<1>9. p[1] = t /\ p[2] = c /\ p[3] = w /\ p[4] = k
  BY <1>4
<1>10. QED BY <1>4, <1>6, <1>7, <1>8, <1>9

\* What is behind a thread stays behind it.
LEMMA PassedStays ==
    ASSUME TeeInv, \A t \in Threads : at'[t] \in [call : Nat, write : Nat, char : Nat] /\ LaterAt(at[t], at'[t]),
           NEW x, NEW p \in Places(x), Passed(p)
    PROVE  Passed(p)'
<1>1. p[1] \in Threads /\ p[2] \in Nat /\ p[3] \in Nat /\ p[4] \in Nat
  BY PlaceParts
<1>2. at[p[1]] \in [call : Nat, write : Nat, char : Nat]
  <2>1. at[p[1]] \in [call : 0..Len(prog[p[1]]), write : Nat, char : Nat]
    BY <1>1 DEF TeeInv, ThreadInv
  <2>2. prog[p[1]] \in Seq(Calls)
    BY <1>1, ProgramsAre DEF TeeInv, TeeShape
  <2>3. Len(prog[p[1]]) \in Nat
    BY <2>2
  <2>4. QED BY <2>1, <2>3
<1>3. at'[p[1]] \in [call : Nat, write : Nat, char : Nat] /\ LaterAt(at[p[1]], at'[p[1]])
  BY <1>1
<1>4. QED BY <1>1, <1>2, <1>3 DEF Passed, LaterAt

\* Places do not depend on anything but the programs.
LEMMA PlacesFixed == ASSUME prog' = prog PROVE \A x : Places(x)' = Places(x)
BY DEF Places

\* A step leaves the programs and takes no thread back in its own.
LEMMA TeeLater ==
    ASSUME TeeInv, [TeeNext]_teeVars
    PROVE  /\ prog' = prog
           /\ \A t \in Threads : at'[t] \in [call : Nat, write : Nat, char : Nat] /\ LaterAt(at[t], at'[t])
<1>0. \A t \in Threads : at[t] \in [call : Nat, write : Nat, char : Nat]
  <2> SUFFICES ASSUME NEW t \in Threads PROVE at[t] \in [call : Nat, write : Nat, char : Nat]
    OBVIOUS
  <2>1. at[t] \in [call : 0..Len(prog[t]), write : Nat, char : Nat] /\ Len(prog[t]) \in Nat
    BY ProgramsAre DEF TeeInv, TeeShape, ThreadInv
  <2>2. QED BY <2>1
<1>1. ASSUME NEW t \in Threads, Advance(t) PROVE at'[t] \in [call : Nat, write : Nat, char : Nat] /\ LaterAt(at[t], at'[t])
  <2>0. at = [u \in Threads |-> at[u]] /\ at[t] \in [call : Nat, write : Nat, char : Nat]
    BY <1>0 DEF TeeInv, TeeShape
  <2>1. CASE Begin(t)
    BY <2>0, <2>1 DEF Begin, LaterAt
  <2>2. CASE ToTerminal(t) \/ WriteLine(t) \/ RaiseClosed(t) \/ EndData(t)
    BY <2>0, <2>2 DEF ToTerminal, WriteLine, RaiseClosed, EndData, LaterAt
  <2>3. CASE Type(t) \/ TakeLine(t)
    BY <2>0, <2>3 DEF Type, TakeLine, LaterAt
  <2>4. CASE EndWrite(t)
    BY <2>0, <2>4 DEF EndWrite, LaterAt
  <2>5. QED BY <1>1, <2>1, <2>2, <2>3, <2>4 DEF Advance
<1>2. ASSUME NEW t \in Threads, at'[t] = at[t] PROVE at'[t] \in [call : Nat, write : Nat, char : Nat] /\ LaterAt(at[t], at'[t])
  BY <1>0, <1>2 DEF LaterAt
<1>3. ASSUME NEW t \in Threads, Advance(t) PROVE prog' = prog /\ \A u \in Threads \ {t} : at'[u] = at[u]
  BY <1>3, AdvanceOnly DEF Only, Stays
<1>4. EndTee => prog' = prog /\ at' = at
  BY DEF EndTee, Restore, CheckLeftOver, WriteLeftOver, TakeLeftOver, CloseLog, BreakEnding
<1>5. UNCHANGED teeVars => prog' = prog /\ at' = at
  BY DEF teeVars
<1>6. CASE \E t \in Threads : Advance(t)
  <2>1. PICK t \in Threads : Advance(t)
    BY <1>6
  <2>2. prog' = prog /\ \A u \in Threads \ {t} : at'[u] = at[u]
    BY <1>3, <2>1
  <2>3. ASSUME NEW u \in Threads PROVE at'[u] \in [call : Nat, write : Nat, char : Nat] /\ LaterAt(at[u], at'[u])
    BY <1>1, <1>2, <2>1, <2>2
  <2>4. QED BY <2>2, <2>3
<1>7. CASE EndTee \/ UNCHANGED teeVars
  BY <1>2, <1>4, <1>5, <1>7
<1>8. QED BY <1>6, <1>7 DEF TeeNext, Terminated

\* One writer more under signals.
LEMMA WritersBound ==
    /\ Again \notin Threads
    /\ IsFiniteSet(Writers) /\ Cardinality(Writers) \in Nat
    /\ Cardinality(Writers) = Cardinality(Threads) + IF abandons THEN 1 ELSE 0
<1>1. \E a : a \notin Threads
  BY NoSetContainsEverything
<1>2. Again \notin Threads
  BY <1>1 DEF Again
<1>3. IsFiniteSet(Threads) /\ Cardinality(Threads) \in Nat
  BY TeeAssumption, FS_CardinalityType
<1>4. CASE abandons
  <2>1. Writers = Threads \cup {Again}
    BY <1>4 DEF Writers
  <2>2. IsFiniteSet(Writers) /\ Cardinality(Writers) = Cardinality(Threads) + 1
    BY <1>2, <1>3, <2>1, FS_AddElement
  <2>3. QED BY <1>2, <1>3, <1>4, <2>2
<1>5. CASE ~abandons
  <2>1. Writers = Threads
    BY <1>5 DEF Writers
  <2>2. QED BY <1>2, <1>3, <1>5, <2>1
<1>6. QED BY <1>4, <1>5

\* The writers in flight are some of a finite number.
LEMMA FlightBound == IsFiniteSet(InFlight) /\ Cardinality(InFlight) <= Cardinality(Writers) /\ Cardinality(InFlight) \in Nat
<1>1. InFlight \subseteq Writers /\ IsFiniteSet(Writers)
  BY WritersBound DEF InFlight, Writers
<1>2. QED BY <1>1, FS_Subset, FS_CardinalityType

\* A line is written, and its writer has yet to take it back.
LEMMA OnceWritten ==
    ASSUME TeeInv, NEW x, OnceInv(x), \A p, q \in Places(x) : p = q,
           \A p \in Places(x) : Passed(p) => Passed(p)', Places(x)' = Places(x),
           NEW t, t \notin InFlight, InFlight' = InFlight \cup {t}, Writers' = Writers,
           log' = Append(log, pending), pending' = pending, open, open' = open
    PROVE  OnceInv(x)'
<1>1. log \in Seq(Seq(Chars)) /\ Len(log) \in Nat
  BY DEF TeeInv, TeeShape
<1>2. /\ x \in Range(pending) \/ Holding(x) # {} => \E p \in Places(x) : Passed(p)
      /\ IsFiniteSet(Holding(x)) /\ Cardinality(Holding(x)) <= Cardinality(Writers)
      /\ x \in Range(pending) => Cardinality(Holding(x)) <= Cardinality(InFlight)
  BY DEF OnceInv
<1>3. IsFiniteSet(InFlight) /\ Cardinality(InFlight) \in Nat /\ Cardinality(Holding(x)) \in Nat
  BY <1>2, FlightBound, FS_CardinalityType
<1>4. CASE x \notin Range(pending)
  <2>1. Holding(x)' = Holding(x)
    <3>1. \A j \in DOMAIN log' : (j \in DOMAIN log /\ log'[j] = log[j]) \/ (j = Len(log) + 1 /\ log'[j] = pending)
      BY <1>1
    <3>2. \A j \in DOMAIN log : j \in DOMAIN log' /\ log'[j] = log[j]
      BY <1>1
    <3>3. QED BY <1>4, <3>1, <3>2 DEF Holding
  <2>2. QED BY <1>2, <1>4, <2>1 DEF OnceInv
<1>5. CASE x \in Range(pending)
  <2>1. Holding(x)' = Holding(x) \cup {Len(log) + 1} /\ Len(log) + 1 \notin Holding(x)
    <3>1. \A j \in DOMAIN log' : (j \in DOMAIN log /\ log'[j] = log[j]) \/ (j = Len(log) + 1 /\ log'[j] = pending)
      BY <1>1
    <3>2. \A j \in DOMAIN log : j \in DOMAIN log' /\ log'[j] = log[j]
      BY <1>1
    <3>3. Len(log) + 1 \in DOMAIN log' /\ log'[Len(log) + 1] = pending /\ Len(log) + 1 \notin DOMAIN log
      BY <1>1
    <3>4. QED BY <1>5, <3>1, <3>2, <3>3 DEF Holding
  <2>2. IsFiniteSet(Holding(x)') /\ Cardinality(Holding(x)') = Cardinality(Holding(x)) + 1
    BY <1>2, <2>1, FS_AddElement
  <2>3. Cardinality(InFlight') = Cardinality(InFlight) + 1
    BY <1>3, FS_AddElement
  <2>4. Cardinality(InFlight') <= Cardinality(Writers)
    <3>1. InFlight' \subseteq Writers' /\ IsFiniteSet(Writers)
      BY WritersBound DEF InFlight, Writers
    <3>2. QED BY <3>1, FS_Subset
  <2>5. Cardinality(Holding(x)') <= Cardinality(InFlight') /\ Cardinality(Holding(x)') \in Nat
    BY <1>2, <1>3, <1>5, <2>2, <2>3
  <2>6. Cardinality(Holding(x)') <= Cardinality(Writers)
    <3>1. Cardinality(Writers) \in Nat /\ Cardinality(InFlight') \in Nat
      BY <1>3, <2>3, WritersBound
    <3>2. QED BY <2>4, <2>5, <3>1
  <2>7. \E p \in Places(x) : Passed(p)'
    BY <1>2, <1>5
  <2>8. QED BY <2>2, <2>5, <2>6, <2>7 DEF OnceInv
<1>6. QED BY <1>4, <1>5

\* Nothing is added to the log; the buffer loses the text or keeps it.
LEMMA OnceKept ==
    ASSUME NEW x, OnceInv(x), \A p \in Places(x) : Passed(p) => Passed(p)', Places(x)' = Places(x),
           log' = log, x \in Range(pending') => x \in Range(pending), Writers' = Writers,
           x \in Range(pending') /\ open' => InFlight \subseteq InFlight' /\ open
    PROVE  OnceInv(x)'
<1>1. Holding(x)' = Holding(x)
  BY DEF Holding
<1>2. InFlight' \subseteq Writers' /\ IsFiniteSet(Writers)
  BY WritersBound DEF InFlight, Writers
<1>3. IsFiniteSet(InFlight') /\ Cardinality(InFlight') \in Nat
  BY <1>2, FS_Subset, FS_CardinalityType
<1>4. InFlight \subseteq InFlight' => Cardinality(InFlight) <= Cardinality(InFlight')
  BY <1>3, FS_Subset
<1>5. (\A p, q \in Places(x) : p = q) =>
        (x \in Range(pending') /\ open' => Cardinality(Holding(x)') <= Cardinality(InFlight'))
  <2> SUFFICES ASSUME \A p, q \in Places(x) : p = q, x \in Range(pending'), open'
               PROVE  Cardinality(Holding(x)') <= Cardinality(InFlight')
    OBVIOUS
  <2>1. Cardinality(Holding(x)) <= Cardinality(InFlight) /\ IsFiniteSet(Holding(x))
    BY DEF OnceInv
  <2>2. Cardinality(Holding(x)) \in Nat /\ Cardinality(InFlight) \in Nat
    BY <2>1, FlightBound, FS_CardinalityType
  <2>3. QED BY <1>1, <1>3, <1>4, <2>1, <2>2
<1>6. QED BY <1>1, <1>5 DEF OnceInv

\* The text is typed.
LEMMA OnceTyped ==
    ASSUME TeeInv, NEW x, OnceInv(x), \A p, q \in Places(x) : p = q, NEW t \in Threads, Type(t), Char(t) = x
    PROVE  OnceInv(x)'
<1>1. /\ prog' = prog /\ log' = log /\ doing[t] \in Busy /\ at[t].char <= Len(Data(t))
      /\ at'[t] = [at[t] EXCEPT !.char = @ + 1]
  BY DEF Type, TeeInv, TeeShape, Busy
<1>2. /\ prog[t] \in Seq(Calls) /\ at[t].call \in 1..Len(prog[t]) /\ Call(t) \in Seq(Seq(Chars)) /\ at[t].write \in 1..Len(Call(t))
      /\ Data(t) \in Seq(Chars) /\ Len(Data(t)) \in Nat /\ at[t].char \in 1..Len(Data(t)) + 1
      /\ at[t] = [call |-> at[t].call, write |-> at[t].write, char |-> at[t].char]
  BY <1>1, BusyData, ProgramsAre DEF TeeInv, TeeShape
<1>3. PICK p \in Places(x) : p[1] = t /\ p[2] = at[t].call /\ p[3] = at[t].write /\ p[4] = at[t].char
  <2>1. at[t].call \in DOMAIN prog[t] /\ at[t].write \in DOMAIN prog[t][at[t].call]
    BY <1>2 DEF Call
  <2>2. at[t].char \in 1..Len(Data(t))
    BY <1>1, <1>2
  <2>3. at[t].char \in DOMAIN prog[t][at[t].call][at[t].write]
    BY <1>2, <2>2 DEF Call, Data
  <2>4. prog[t][at[t].call][at[t].write][at[t].char] = x
    BY DEF Call, Data, Char
  <2>5. <<t, at[t].call, at[t].write, at[t].char>> \in Places(x)
    BY <2>1, <2>3, <2>4, InPlaces
  <2>6. QED BY <2>5
<1>4. ~Passed(p)
  BY <1>2, <1>3 DEF Passed
<1>5. Passed(p)'
  <2>1. at'[t].call = at[t].call /\ at'[t].write = at[t].write /\ at'[t].char = at[t].char + 1
    BY <1>1, <1>2
  <2>2. at[t].char < at'[t].char
    BY <1>2, <2>1
  <2>3. QED BY <1>3, <2>1, <2>2 DEF Passed
<1>6. x \notin Range(pending) /\ Holding(x) = {}
  BY <1>3, <1>4 DEF OnceInv
<1>7. Holding(x)' = {} /\ Places(x)' = Places(x)
  BY <1>1, <1>6, PlacesFixed DEF Holding
<1>8. Cardinality({}) = 0 /\ IsFiniteSet({})
  BY FS_EmptySet
<1>9. Cardinality(Writers') \in Nat /\ Cardinality(InFlight') \in Nat
  <2>0. Writers' = Writers
    BY DEF Type, Writers
  <2>1. InFlight' \subseteq Writers /\ IsFiniteSet(Writers)
    BY <2>0, WritersBound DEF InFlight, Writers
  <2>2. QED BY <2>0, <2>1, FS_Subset, FS_CardinalityType
<1>10. IsFiniteSet(Holding(x)') /\ Cardinality(Holding(x)') = 0
  BY <1>7, <1>8
<1>11. \E q \in Places(x)' : Passed(q)'
  BY <1>3, <1>5, <1>7
<1>12. QED BY <1>9, <1>10, <1>11 DEF OnceInv

\* Every step keeps what is known of a text that is printed once.
LEMMA OnceStep ==
    ASSUME TeeInv, [TeeNext]_teeVars, NEW x, OnceInv(x), \A p, q \in Places(x) : p = q
    PROVE  OnceInv(x)'
<1> USE DEF files
<1>1. Places(x)' = Places(x) /\ \A p \in Places(x) : Passed(p) => Passed(p)'
  BY TeeLater, PassedStays, PlacesFixed
<1>2. doing = [t \in Threads |-> doing[t]] /\ main \in Threads /\ \A t \in Threads : ThreadInv(t)
  BY TeeAssumption DEF TeeInv, TeeShape
<1>a. Writers' = Writers
  <2>1. \A t \in Threads : Advance(t) => abandons' = abandons
    BY AdvanceOnly DEF Only
  <2>2. EndTee \/ UNCHANGED teeVars => abandons' = abandons
    BY DEF EndTee, Restore, CheckLeftOver, WriteLeftOver, TakeLeftOver, CloseLog, BreakEnding, teeVars
  <2>3. QED BY <2>1, <2>2 DEF Writers, TeeNext, Terminated
<1>b. ~installed <=> doing[main] \in Closing
  BY DEF TeeInv
<1>3. ASSUME NEW t \in Threads, Advance(t) PROVE OnceInv(x)'
  <2>0. open' = open /\ installed' = installed /\ abandons' = abandons
    BY <1>3, AdvanceOnly DEF Only
  <2>a. doing[t] \notin Closing /\ doing'[t] \notin Closing /\ \A u \in Threads \ {t} : doing'[u] = doing[u]
    BY <1>3, AdvanceOnly, AdvanceThread DEF Only, Stays, Busy, Closing
  <2>b. (doing[t] = "flush" <=> doing'[t] = "flush") => InFlight' = InFlight
    <3> HAVE doing[t] = "flush" <=> doing'[t] = "flush"
    <3>1. \A u \in Threads : doing[u] = "flush" <=> doing'[u] = "flush"
      BY <2>a
    <3>2. (doing[main] = "taking" <=> doing'[main] = "taking")
          /\ (doing[main] \in {"taking", "leaving", "closed"} <=> doing'[main] \in {"taking", "leaving", "closed"})
      BY <1>2, <2>a DEF Closing
    <3>3. QED BY <2>0, <3>1, <3>2 DEF InFlight
  <2>1. CASE Begin(t) \/ ToTerminal(t) \/ EndData(t) \/ EndWrite(t)
    <3>1. pending' = pending /\ log' = log
      BY <2>1 DEF Begin, ToTerminal, EndData, EndWrite
    <3>2. doing[t] # "flush" /\ doing'[t] # "flush"
      BY <1>2, <2>1, AfterOrder DEF Begin, ToTerminal, EndData, EndWrite, Goto
    <3>3. InFlight' = InFlight
      BY <2>b, <3>2
    <3>4. QED BY <1>1, <1>a, <2>0, <3>1, <3>3, OnceKept
  <2>2. CASE Type(t) /\ Char(t) # x
    <3>1. log' = log /\ doing' = doing
      BY <2>2 DEF Type
    <3>2. x \in Range(pending') => x \in Range(pending)
      <4>1. pending \in Seq(Chars)
        BY DEF TeeInv, TeeShape
      <4>2. CASE Char(t) = CR
        BY <2>2, <4>2 DEF Type, Typed, Range
      <4>3. CASE Char(t) # CR
        <5>1. pending' = Append(pending, Char(t))
          BY <2>2, <4>3 DEF Type, Typed
        <5>2. \A k \in DOMAIN pending' : pending'[k] = Char(t) \/ (k \in DOMAIN pending /\ pending'[k] = pending[k])
          BY <4>1, <5>1
        <5>3. QED BY <2>2, <5>2 DEF Range
      <4>4. QED BY <4>2, <4>3
    <3>3. InFlight' = InFlight
      BY <2>b, <3>1
    <3>4. QED BY <1>1, <1>a, <2>0, <3>1, <3>2, <3>3, OnceKept
  <2>3. CASE Type(t) /\ Char(t) = x
    BY <2>3, OnceTyped
  <2>4. CASE WriteLine(t)
    <3>1. doing[t] = "log" /\ doing' = [doing EXCEPT ![t] = "flush"] /\ open /\ pending' = pending /\ log' = Append(log, pending)
      BY <2>4 DEF WriteLine, Goto
    <3>2. t \notin InFlight
      BY <1>b, <2>a, <3>1, WritersBound DEF InFlight, Closing
    <3>3. InFlight' = InFlight \cup {t}
      <4>1. \A u \in Threads : doing'[u] = "flush" <=> doing[u] = "flush" \/ u = t
        BY <1>2, <3>1
      <4>2. (doing[main] = "taking" <=> doing'[main] = "taking")
            /\ (doing[main] \in {"taking", "leaving", "closed"} <=> doing'[main] \in {"taking", "leaving", "closed"})
        BY <1>2, <2>a DEF Closing
      <4>3. QED BY <2>0, <4>1, <4>2 DEF InFlight
    <3>4. QED BY <1>1, <1>a, <2>0, <3>1, <3>2, <3>3, OnceWritten
  <2>5. CASE TakeLine(t)
    <3>1. log' = log /\ pending' = <<>>
      BY <2>5 DEF TakeLine, Taken
    <3>2. x \notin Range(pending')
      BY <3>1 DEF Range
    <3>3. QED BY <1>1, <1>a, <3>1, <3>2, OnceKept
  <2>6. CASE RaiseClosed(t)
    <3>1. log' = log /\ pending' = pending /\ ~open
      BY <2>6 DEF RaiseClosed
    <3>2. QED BY <1>1, <1>a, <2>0, <3>1, OnceKept
  <2>7. QED BY <1>3, <2>1, <2>2, <2>3, <2>4, <2>5, <2>6 DEF Advance
<1>4. CASE EndTee
  <2>0. \A u \in Threads \ {main} : doing'[u] = doing[u]
    BY <1>2, <1>4 DEF EndTee, Restore, CheckLeftOver, WriteLeftOver, TakeLeftOver, CloseLog, BreakEnding, Goto
  <2>a. abandons' = abandons /\ installed' = FALSE
    BY <1>4, <1>b DEF EndTee, Restore, CheckLeftOver, WriteLeftOver, TakeLeftOver, CloseLog, BreakEnding, Closing
  <2>1. CASE Restore \/ CheckLeftOver \/ CloseLog \/ BreakEnding
    <3>1. log' = log /\ pending' = pending /\ (open' => open)
      BY <2>1 DEF Restore, CheckLeftOver, CloseLog, BreakEnding
    <3>2. ~abandons => doing[main] \notin {"flush", "taking"}
      BY <1>2, <2>1 DEF Restore, CheckLeftOver, CloseLog, BreakEnding, Finished
    <3>3. CASE doing[main] \in {"taking", "leaving", "closed"}
      <4>1. doing'[main] = "closed"
        BY <1>2, <1>b, <2>1, <3>3 DEF Restore, CheckLeftOver, CloseLog, BreakEnding, Goto, Closing
      <4>2. QED BY <1>1, <1>a, <1>b, <2>0, <2>a, <3>1, <3>2, <3>3, <4>1, OnceKept DEF InFlight, Closing
    <3>4. CASE doing[main] \notin {"taking", "leaving", "closed"}
      <4>1. InFlight \subseteq InFlight'
        BY <2>0, <2>a, <3>2, <3>4 DEF InFlight
      <4>2. QED BY <1>1, <1>a, <3>1, <4>1, OnceKept
    <3>5. QED BY <3>3, <3>4
  <2>2. CASE WriteLeftOver
    <3>1. doing[main] = "writing" /\ doing' = [doing EXCEPT ![main] = "taking"] /\ pending' = pending
          /\ log' = Append(log, pending) /\ open' = open
      BY <2>2 DEF WriteLeftOver, Goto
    <3>2. open
      BY <3>1 DEF TeeInv
    <3>3. CASE abandons
      <4>1. Again \notin InFlight /\ InFlight' = InFlight \cup {Again}
        BY <1>2, <1>b, <2>0, <2>a, <3>1, <3>3, WritersBound DEF InFlight, Closing
      <4>2. QED BY <1>1, <1>a, <3>1, <3>2, <4>1, OnceWritten
    <3>4. CASE ~abandons
      <4>1. main \notin InFlight /\ InFlight' = InFlight \cup {main}
        BY <1>2, <2>0, <2>a, <3>1, <3>4 DEF InFlight
      <4>2. QED BY <1>1, <1>a, <3>1, <3>2, <4>1, OnceWritten
    <3>5. QED BY <3>3, <3>4
  <2>3. CASE TakeLeftOver
    <3>1. log' = log /\ pending' = <<>>
      BY <2>3 DEF TakeLeftOver, Taken
    <3>2. x \notin Range(pending')
      BY <3>1 DEF Range
    <3>3. QED BY <1>1, <1>a, <3>1, <3>2, OnceKept
  <2>4. QED BY <1>4, <2>1, <2>2, <2>3 DEF EndTee
<1>5. CASE UNCHANGED teeVars
  <2>1. log' = log /\ pending' = pending /\ open' = open /\ doing' = doing /\ installed' = installed /\ abandons' = abandons
    BY <1>5 DEF teeVars
  <2>2. InFlight' = InFlight
    BY <2>1 DEF InFlight
  <2>3. QED BY <1>1, <1>a, <2>1, <2>2, OnceKept
<1>6. QED BY <1>3, <1>4, <1>5 DEF TeeNext, Terminated

\* LoggedOncePerThread: whatever the interleaving, no text that is printed once is logged more
\* often than there are threads, and once more where signals arrive (logfile.py:44-49).
THEOREM LoggedOncePerThreadAtMost == TeeSpec => []LoggedOncePerThread
<1> DEFINE I == TeeInv /\ \A x : OnceInv(x)
<1>1. TeeInit => I
  <2> SUFFICES ASSUME TeeInit, NEW x PROVE OnceInv(x)
    BY TeeInvInit
  <2>1. Holding(x) = {} /\ x \notin Range(pending)
    BY DEF TeeInit, Holding, Range
  <2>2. Cardinality({}) = 0 /\ IsFiniteSet({}) /\ Cardinality(Writers) \in Nat
    BY FS_EmptySet, WritersBound
  <2>3. QED BY <2>1, <2>2 DEF OnceInv
<1>2. I /\ [TeeNext]_teeVars => I'
  <2> SUFFICES ASSUME I, [TeeNext]_teeVars PROVE I'
    OBVIOUS
  <2>1. ASSUME NEW x PROVE OnceInv(x)'
    <3>1. CASE \A p, q \in Places(x) : p = q
      BY <3>1, OnceStep
    <3>2. CASE ~ \A p, q \in Places(x) : p = q
      <4>1. Places(x)' = Places(x)
        BY TeeLater, PlacesFixed
      <4>2. QED BY <3>2, <4>1 DEF OnceInv
    <3>3. QED BY <3>1, <3>2
  <2>2. QED BY <2>1, TeeInvStep
<1>3. I => LoggedOncePerThread
  BY WritersBound DEF OnceInv, LoggedOncePerThread, Holding
<1> HIDE DEF I
<1>4. QED BY <1>1, <1>2, <1>3, PTL DEF TeeSpec
-----------------------------------------------------------------------------
(* A run that waits for its threads. *)

\* The newline at p has been written to the log.
Behind(p) ==
    LET a == at[p[1]]
    IN  Passed(p) \/ (p[2] = a.call /\ p[3] = a.write /\ p[4] = a.char /\ doing[p[1]] = "flush")
Logged == {p \in Places(NL) : Behind(p)}

\* As long as the tee is there a thread that has ended a write has done all of it.
EndsInv(t) ==
    /\ doing[t] \in Busy => teed[t]
    /\ doing[t] = "end" => at[t].char = Len(Data(t)) + 1
    /\ doing[t] = "idle" /\ at[t].call > 0 => at[t].write = Len(Call(t)) /\ at[t].char = Len(Data(t)) + 1

\* The log has a line per newline that is behind the threads.  After the tee is gone, and all
\* threads have finished, it has one per newline, and one more once the rest is written.
OrderInv ==
    /\ installed => /\ \A t \in Threads : EndsInv(t)
                    /\ IsFiniteSet(Logged) /\ Len(log) = Cardinality(Logged)
    /\ ~installed /\ ~abandons =>
          /\ raised = {} /\ \A t \in Threads : at[t].call = Len(prog[t]) /\ (t # main => doing[t] = "idle")
          /\ Cardinality(Places(NL)) \in Nat
          /\ doing[main] \in {"closing", "writing"} => Len(log) = Cardinality(Places(NL))
          /\ doing[main] = "taking" => Len(log) = Cardinality(Places(NL)) + 1
          /\ doing[main] \in {"leaving", "closed"} =>
                pending = <<>> /\ Len(log) \in {Cardinality(Places(NL)), Cardinality(Places(NL)) + 1}

\* What a thread that prints has done of its write.
LEMMA EndsStep ==
    ASSUME TeeInv, NEW t \in Threads, Advance(t), EndsInv(t), installed
    PROVE  EndsInv(t)'
<1> USE AfterOrder
<1>0. /\ prog' = prog /\ at = [u \in Threads |-> at[u]] /\ doing = [u \in Threads |-> doing[u]]
      /\ teed \in [Threads -> BOOLEAN] /\ open /\ at[t] \in [call : 0..Len(prog[t]), write : Nat, char : Nat]
  BY AdvanceOnly DEF TeeInv, TeeShape, ThreadInv, Only, Closing
<1>1. CASE Begin(t)
  <2>1. doing'[t] = "terminal"
    BY <1>0, <1>1 DEF Begin, Goto
  <2>2. teed'[t] = installed
    BY <1>0, <1>1, Zenon DEF Begin
  <2>3. teed'[t]
    BY <2>2
  <2>4. QED BY <2>1, <2>3 DEF EndsInv
<1>2. CASE ToTerminal(t)
  <2>1. doing'[t] = "log" /\ teed'[t] = teed[t] /\ teed[t]
    BY <1>0, <1>2 DEF ToTerminal, Goto, EndsInv, Busy
  <2>2. QED BY <2>1 DEF EndsInv
<1>3. CASE Type(t) \/ WriteLine(t) \/ TakeLine(t)
  <2>1. doing'[t] \in {"log", "flush"} /\ teed'[t] = teed[t] /\ teed[t]
    BY <1>0, <1>3 DEF Type, WriteLine, TakeLine, Goto, EndsInv, Busy
  <2>2. QED BY <2>1 DEF EndsInv
<1>4. CASE RaiseClosed(t)
  BY <1>0, <1>4 DEF RaiseClosed
<1>5. CASE EndData(t)
  <2>1. doing'[t] = "end" /\ teed'[t] = teed[t] /\ teed[t] /\ at' = at /\ doing[t] \in Busy /\ at[t].char > Len(Data(t))
    BY <1>0, <1>5 DEF EndData, Goto, EndsInv, Busy
  <2>2. at[t].char \in 1..Len(Data(t)) + 1 /\ Len(Data(t)) \in Nat
    BY <2>1, BusyData
  <2>3. at[t].char = Len(Data(t)) + 1
    BY <2>1, <2>2
  <2>4. Data(t)' = Data(t)
    BY <1>0, <2>1 DEF Data, Call
  <2>5. QED BY <2>1, <2>3, <2>4 DEF EndsInv
<1>6. CASE EndWrite(t)
  <2>1. teed'[t] = teed[t] /\ teed[t] /\ at[t].char = Len(Data(t)) + 1 /\ doing[t] = "end"
    BY <1>6 DEF EndWrite, EndsInv, Busy
  <2>2. CASE at[t].write = Len(Call(t))
    <3>1. doing'[t] = "idle" /\ at' = at
      BY <1>0, <1>6, <2>2 DEF EndWrite, Goto
    <3>2. Call(t)' = Call(t) /\ Data(t)' = Data(t)
      BY <1>0, <3>1 DEF Data, Call
    <3>3. QED BY <2>1, <2>2, <3>1, <3>2 DEF EndsInv, Busy
  <2>3. CASE at[t].write # Len(Call(t))
    <3>1. doing'[t] = "terminal"
      BY <1>0, <1>6, <2>1, <2>3 DEF EndWrite, Goto
    <3>2. QED BY <2>1, <3>1 DEF EndsInv
  <2>4. QED BY <2>2, <2>3
<1>7. QED BY <1>1, <1>2, <1>3, <1>4, <1>5, <1>6 DEF Advance

\* A newline is behind a thread from the moment its line is in the log: no other step
\* of the thread changes which are.
LEMMA BehindStep ==
    ASSUME TeeInv, NEW t \in Threads, Advance(t), EndsInv(t), installed, NEW p \in Places(NL)
    PROVE  Behind(p)' <=> Behind(p) \/ (WriteLine(t) /\ p = <<t, at[t].call, at[t].write, at[t].char>>)
<1> USE AfterOrder
<1>0. /\ prog' = prog /\ at = [u \in Threads |-> at[u]] /\ doing = [u \in Threads |-> doing[u]]
      /\ \A u \in Threads \ {t} : Stays(u)
      /\ open
  BY AdvanceOnly DEF TeeInv, TeeShape, ThreadInv, Only, Closing
<1>1. /\ p = <<p[1], p[2], p[3], p[4]>>
      /\ p[1] \in Threads /\ p[2] \in 1..Len(prog[p[1]]) /\ p[2] \in Nat
      /\ p[3] \in 1..Len(prog[p[1]][p[2]]) /\ p[3] \in Nat
      /\ p[4] \in 1..Len(prog[p[1]][p[2]][p[3]]) /\ p[4] \in Nat
      /\ prog[p[1]][p[2]][p[3]][p[4]] = NL
  BY PlaceParts
<1>2. CASE p[1] # t
  <2>1. at'[p[1]] = at[p[1]] /\ doing'[p[1]] = doing[p[1]]
    BY <1>0, <1>1, <1>2 DEF Stays
  <2>2. p # <<t, at[t].call, at[t].write, at[t].char>>
    BY <1>2
  <2>3. QED BY <2>1, <2>2 DEF Behind, Passed
<1>3. CASE p[1] = t
  <2> DEFINE a == at[t]
  <2> DEFINE b == at'[t]
  <2>1. /\ Behind(p) <=> p[2] < a.call \/ (p[2] = a.call /\ (p[3] < a.write \/ (p[3] = a.write /\ (p[4] < a.char \/ (p[4] = a.char /\ doing[t] = "flush")))))
        /\ Behind(p)' <=> p[2] < b.call \/ (p[2] = b.call /\ (p[3] < b.write \/ (p[3] = b.write /\ (p[4] < b.char \/ (p[4] = b.char /\ doing'[t] = "flush")))))
    BY <1>3 DEF Behind, Passed
  <2>2. a.call \in Nat /\ a.write \in Nat /\ a.char \in Nat /\ a = [call |-> a.call, write |-> a.write, char |-> a.char]
    <3>1. at[t] \in [call : 0..Len(prog[t]), write : Nat, char : Nat] /\ Len(prog[t]) \in Nat
      BY ProgramsAre DEF TeeInv, TeeShape, ThreadInv
    <3>2. QED BY <3>1
  <2>3. CASE Begin(t)
    <3>1. doing[t] = "idle" /\ doing'[t] # "flush" /\ b.call = a.call + 1 /\ b.write = 1 /\ b.char = 1
      BY <1>0, <2>2, <2>3 DEF Begin, Goto
    <3>2. p[2] = a.call => a.write = Len(prog[t][p[2]]) /\ a.char = Len(prog[t][p[2]][a.write]) + 1
      BY <1>1, <3>1 DEF EndsInv, Call, Data
    <3>3. ~WriteLine(t)
      BY <3>1 DEF WriteLine
    <3>4. Behind(p)' <=> p[2] <= a.call
      <4>1. Behind(p)' <=> p[2] < a.call + 1
        BY <1>1, <2>1, <3>1
      <4>2. QED BY <1>1, <2>2, <4>1
    <3>5. p[2] = a.call => Behind(p)
      <4> HAVE p[2] = a.call
      <4>1. CASE p[3] < a.write
        BY <2>1, <4>1
      <4>2. CASE ~(p[3] < a.write)
        <5>1. p[3] = a.write
          BY <1>1, <1>3, <2>2, <3>2, <4>2
        <5>2. p[4] < a.char
          BY <1>1, <1>3, <2>2, <3>2, <5>1
        <5>3. QED BY <2>1, <5>1, <5>2
      <4>3. QED BY <4>1, <4>2
    <3>6. Behind(p) => p[2] <= a.call
      BY <1>1, <2>1, <2>2
    <3>7. p[2] <= a.call => Behind(p)
      BY <1>1, <2>1, <2>2, <3>5
    <3>8. QED BY <3>3, <3>4, <3>6, <3>7
  <2>4. CASE ToTerminal(t) \/ EndData(t)
    <3>1. b = a /\ doing'[t] # "flush" /\ doing[t] # "flush" /\ ~WriteLine(t)
      BY <1>0, <2>4 DEF ToTerminal, EndData, Goto, WriteLine
    <3> HIDE DEF a, b
    <3>2. QED BY <2>1, <3>1
  <2>5. CASE Type(t) \/ TakeLine(t)
    <3>1. b.call = a.call /\ b.write = a.write /\ b.char = a.char + 1 /\ doing'[t] # "flush" /\ ~WriteLine(t)
      BY <1>0, <2>2, <2>5 DEF Type, TakeLine, Goto, WriteLine
    <3>2. p[2] = a.call /\ p[3] = a.write /\ p[4] = a.char => doing[t] = "flush"
      BY <1>1, <1>3, <2>5 DEF Type, TakeLine, Char, Data, Call
    <3> HIDE DEF a, b
    <3>3. QED BY <1>1, <2>1, <2>2, <3>1, <3>2
  <2>6. CASE WriteLine(t)
    <3>1. b = a /\ doing[t] # "flush" /\ doing'[t] = "flush"
      BY <1>0, <2>6 DEF WriteLine, Goto
    <3>2. p = <<t, a.call, a.write, a.char>> <=> p[2] = a.call /\ p[3] = a.write /\ p[4] = a.char
      BY <1>1, <1>3
    <3>3. Behind(p)' <=> Behind(p) \/ (p[2] = a.call /\ p[3] = a.write /\ p[4] = a.char)
      <4> HIDE DEF a, b
      <4>1. QED BY <1>1, <2>1, <2>2, <3>1
    <3>4. QED BY <2>6, <3>2, <3>3
  <2>7. CASE RaiseClosed(t)
    BY <1>0, <2>7 DEF RaiseClosed
  <2>8. CASE EndWrite(t)
    <3>1. doing[t] = "end" /\ doing'[t] # "flush" /\ ~WriteLine(t) /\ a.char = Len(Data(t)) + 1
      BY <1>0, <2>8 DEF EndWrite, Goto, WriteLine, EndsInv
    <3>2. CASE a.write = Len(Call(t))
      <4>1. b = a
        BY <2>8, <3>2 DEF EndWrite
      <4> HIDE DEF a, b
      <4>2. QED BY <2>1, <3>1, <4>1
    <3>3. CASE a.write # Len(Call(t))
      <4>1. b.call = a.call /\ b.write = a.write + 1 /\ b.char = 1
        BY <1>0, <2>2, <2>8, <3>3 DEF EndWrite
      <4>2. p[2] = a.call /\ p[3] = a.write => p[4] < a.char
        <5> HAVE p[2] = a.call /\ p[3] = a.write
        <5>1. Data(t) = prog[t][p[2]][p[3]]
          BY DEF Data, Call
        <5>2. p[4] \in 1..Len(Data(t)) /\ Len(Data(t)) \in Nat
          BY <1>1, <1>3, <3>1, <5>1, BusyData DEF Busy
        <5>3. QED BY <3>1, <5>2
      <4> HIDE DEF a, b
      <4>3. QED BY <1>1, <2>1, <2>2, <3>1, <4>1, <4>2
    <3>4. QED BY <3>2, <3>3
  <2>9. QED BY <2>3, <2>4, <2>5, <2>6, <2>7, <2>8 DEF Advance
<1>4. QED BY <1>2, <1>3

\* While the tee is there: one line more for one newline more.
LEMMA OrderAdvance ==
    ASSUME TeeInv, OrderInv, NEW t \in Threads, Advance(t), installed
    PROVE  OrderInv'
<1>0. /\ prog' = prog /\ installed' = installed /\ \A u \in Threads \ {t} : Stays(u)
      /\ IsFiniteSet(Logged) /\ Len(log) = Cardinality(Logged) /\ \A u \in Threads : EndsInv(u)
  BY AdvanceOnly DEF Only, OrderInv
<1>1. \A u \in Threads : EndsInv(u)'
  <2>1. EndsInv(t)'
    BY <1>0, EndsStep
  <2>2. ASSUME NEW u \in Threads \ {t} PROVE EndsInv(u)'
    BY <1>0 DEF EndsInv, Stays, Call, Data
  <2>3. QED BY <2>1, <2>2
<1>2. Places(NL)' = Places(NL)
  BY <1>0, PlacesFixed
<1>3. \A p \in Places(NL) : Behind(p)' <=> Behind(p) \/ (WriteLine(t) /\ p = <<t, at[t].call, at[t].write, at[t].char>>)
  BY <1>0, BehindStep
<1>4. IsFiniteSet(Logged') /\ Len(log') = Cardinality(Logged')
  <2>1. CASE ~WriteLine(t)
    <3>1. Logged' = Logged
      BY <1>2, <1>3, <2>1 DEF Logged
    <3>2. log' = log
      BY <2>1 DEF Advance, Begin, ToTerminal, Type, TakeLine, RaiseClosed, EndData, EndWrite, files
    <3>3. QED BY <1>0, <3>1, <3>2
  <2>2. CASE WriteLine(t)
    <3>1. doing[t] = "log" /\ at[t].char <= Len(Data(t)) /\ Char(t) = NL /\ log' = Append(log, pending)
      BY <2>2 DEF WriteLine
    <3>2. /\ prog[t] \in Seq(Calls) /\ at[t].call \in 1..Len(prog[t]) /\ Call(t) \in Seq(Seq(Chars)) /\ at[t].write \in 1..Len(Call(t))
          /\ Data(t) \in Seq(Chars) /\ Len(Data(t)) \in Nat /\ at[t].char \in 1..Len(Data(t)) + 1
      BY <3>1, BusyData, ProgramsAre DEF TeeInv, TeeShape, Busy
    <3>3. PICK q \in Places(NL) : q = <<t, at[t].call, at[t].write, at[t].char>>
      <4>1. at[t].call \in DOMAIN prog[t] /\ at[t].write \in DOMAIN prog[t][at[t].call]
        BY <3>2 DEF Call
      <4>2. at[t].char \in 1..Len(Data(t))
        BY <3>1, <3>2
      <4>3. at[t].char \in DOMAIN prog[t][at[t].call][at[t].write]
        <5>1. Data(t) = prog[t][at[t].call][at[t].write]
          BY DEF Call, Data
        <5>2. at[t].char \in DOMAIN Data(t)
          BY <3>2, <4>2
        <5>3. QED BY <5>1, <5>2
      <4>4. prog[t][at[t].call][at[t].write][at[t].char] = NL
        BY <3>1 DEF Call, Data, Char
      <4>5. QED BY <4>1, <4>3, <4>4, InPlaces
    <3>4. Logged' = Logged \cup {q}
      BY <1>2, <1>3, <2>2, <3>3 DEF Logged
    <3>5. q \notin Logged
      <4>1. q[1] = t /\ q[2] = at[t].call /\ q[3] = at[t].write /\ q[4] = at[t].char
        BY <3>3
      <4>2. at[t].call \in Int /\ at[t].write \in Int /\ at[t].char \in Int
        BY <3>2
      <4>3. ~Passed(q)
        BY <4>1, <4>2 DEF Passed
      <4>4. doing[t] # "flush"
        BY <3>1
      <4>5. ~Behind(q)
        BY <4>1, <4>3, <4>4 DEF Behind
      <4>6. QED BY <4>5 DEF Logged
    <3>6. IsFiniteSet(Logged') /\ Cardinality(Logged') = Cardinality(Logged) + 1
      BY <1>0, <3>4, <3>5, FS_AddElement
    <3>7. Len(log') = Len(log) + 1
      BY <3>1 DEF TeeInv, TeeShape
    <3>8. QED BY <1>0, <3>6, <3>7
  <2>3. QED BY <2>1, <2>2
<1>5. QED BY <1>0, <1>1, <1>4 DEF OrderInv

\* When all have finished every newline is behind its thread.
LEMMA AllLogged ==
    ASSUME TeeInv, \A t \in Threads : EndsInv(t), \A t \in Threads : Finished(t)
    PROVE  Logged = Places(NL)
<1> SUFFICES ASSUME NEW p \in Places(NL) PROVE Behind(p)
  BY DEF Logged
<1>0. PICK t : t = p[1]
  OBVIOUS
<1>1. /\ t \in Threads /\ p[2] \in 1..Len(prog[t]) /\ p[2] \in Nat
      /\ p[3] \in 1..Len(prog[t][p[2]]) /\ p[3] \in Nat
      /\ p[4] \in 1..Len(prog[t][p[2]][p[3]]) /\ p[4] \in Nat
  BY <1>0, PlaceParts
<1>2. doing[t] = "idle" /\ at[t].call = Len(prog[t]) /\ Len(prog[t]) \in Nat
  BY <1>1, ProgramsAre DEF Finished, TeeInv, TeeShape
<1>3. CASE p[2] < at[t].call
  BY <1>0, <1>3 DEF Behind, Passed
<1>4. CASE p[2] = at[t].call
  <2>1. at[t].write = Len(prog[t][p[2]]) /\ at[t].char = Len(Data(t)) + 1
    BY <1>1, <1>2, <1>4 DEF EndsInv, Call
  <2>2. at[t].write \in Nat
    BY <1>1 DEF TeeInv, ThreadInv
  <2>3. CASE p[3] < at[t].write
    BY <1>0, <1>4, <2>3 DEF Behind, Passed
  <2>4. CASE p[3] = at[t].write
    <3>1. Data(t) = prog[t][p[2]][p[3]]
      BY <1>4, <2>4 DEF Data, Call
    <3>2. Len(prog[t][p[2]][p[3]]) \in Nat
      <4>1. prog \in Programs
        BY DEF TeeInv, TeeShape
      <4>2. prog[t][p[2]][p[3]] \in Seq(Chars)
        BY <1>1, <4>1, ProgramsAre
      <4>3. QED BY <4>2
    <3>3. p[4] < at[t].char
      <4> DEFINE D == Data(t)
      <4>1. p[4] \in 1..Len(D) /\ Len(D) \in Nat /\ at[t].char = Len(D) + 1
        BY <1>1, <2>1, <3>1, <3>2
      <4> HIDE DEF D
      <4>2. QED BY <4>1
    <3>4. QED BY <1>0, <1>4, <2>4, <3>3 DEF Behind, Passed
  <2>5. QED BY <1>1, <2>1, <2>2, <2>3, <2>4
<1>5. QED BY <1>1, <1>2, <1>3, <1>4

\* The end of the tee.
LEMMA OrderEnd == ASSUME TeeInv, OrderInv, EndTee, ~abandons PROVE OrderInv'
<1> USE DEF files
<1>0. main \in Threads /\ doing = [u \in Threads |-> doing[u]] /\ log \in Seq(Seq(Chars))
  BY TeeAssumption DEF TeeInv, TeeShape
<1>1. /\ prog' = prog /\ abandons' = abandons /\ at' = at /\ raised' = raised
      /\ \A t \in Threads \ {main} : doing'[t] = doing[t]
  BY <1>0 DEF EndTee, Restore, CheckLeftOver, WriteLeftOver, TakeLeftOver, CloseLog, BreakEnding, Goto
<1>2. Places(NL)' = Places(NL)
  BY <1>1, PlacesFixed
<1>3. CASE Restore
  <2>1. installed /\ installed' = FALSE /\ log' = log /\ doing'[main] = "closing" /\ \A t \in Threads : Finished(t)
    BY <1>0, <1>3 DEF Restore, Goto
  <2>2. Logged = Places(NL) /\ IsFiniteSet(Logged) /\ Len(log) = Cardinality(Logged)
    BY <2>1, AllLogged DEF OrderInv
  <2>3. raised = {}
    BY <2>1 DEF TeeInv, Closing
  <2>4. Cardinality(Places(NL)) \in Nat
    BY <2>2, FS_CardinalityType
  <2>5. QED BY <1>1, <1>2, <2>1, <2>2, <2>3, <2>4 DEF OrderInv, Finished
<1>4. CASE ~Restore
  <2>1. doing[main] \in Closing /\ installed' = installed
    BY <1>4 DEF EndTee, CheckLeftOver, WriteLeftOver, TakeLeftOver, CloseLog, BreakEnding, Closing
  <2>2. ~installed
    BY <2>1 DEF TeeInv
  <2>3. /\ raised = {} /\ \A t \in Threads : at[t].call = Len(prog[t]) /\ (t # main => doing[t] = "idle")
        /\ Cardinality(Places(NL)) \in Nat
        /\ doing[main] \in {"closing", "writing"} => Len(log) = Cardinality(Places(NL))
        /\ doing[main] = "taking" => Len(log) = Cardinality(Places(NL)) + 1
        /\ doing[main] \in {"leaving", "closed"} =>
              pending = <<>> /\ Len(log) \in {Cardinality(Places(NL)), Cardinality(Places(NL)) + 1}
    BY <2>2 DEF OrderInv
  <2>4. /\ doing'[main] \in {"closing", "writing"} => Len(log') = Cardinality(Places(NL))
        /\ doing'[main] = "taking" => Len(log') = Cardinality(Places(NL)) + 1
        /\ doing'[main] \in {"leaving", "closed"} =>
              pending' = <<>> /\ Len(log') \in {Cardinality(Places(NL)), Cardinality(Places(NL)) + 1}
    <3>1. CASE CheckLeftOver
      <4>1. log' = log /\ pending' = pending /\ doing[main] = "closing"
            /\ doing'[main] = IF pending # <<>> THEN "writing" ELSE "leaving"
        BY <1>0, <3>1 DEF CheckLeftOver, LeftOver, Goto
      <4>2. QED BY <2>3, <4>1
    <3>2. CASE WriteLeftOver
      <4>1. Len(log') = Len(log) + 1 /\ doing[main] = "writing" /\ doing'[main] = "taking"
        BY <1>0, <3>2 DEF WriteLeftOver, Goto
      <4>2. QED BY <2>3, <4>1
    <3>3. CASE TakeLeftOver
      <4>1. log' = log /\ pending' = <<>> /\ doing[main] = "taking" /\ doing'[main] = "leaving"
        BY <1>0, <3>3 DEF TakeLeftOver, Taken, Goto
      <4>2. QED BY <2>3, <4>1
    <3>4. CASE CloseLog
      <4>1. log' = log /\ pending' = pending /\ doing[main] = "leaving" /\ doing'[main] = "closed"
        BY <1>0, <3>4 DEF CloseLog, Goto
      <4>2. QED BY <2>3, <4>1
    <3>5. QED BY <1>4, <3>1, <3>2, <3>3, <3>4 DEF EndTee, BreakEnding
  <2>5. QED BY <1>1, <1>2, <2>1, <2>2, <2>3, <2>4 DEF OrderInv
<1>5. QED BY <1>3, <1>4

\* After that no thread prints any more.
LEMMA NobodyPrints == ASSUME TeeInv, OrderInv, ~installed, ~abandons, NEW t \in Threads PROVE ~Advance(t)
<1>1. doing[main] \in Closing
  BY DEF TeeInv
<1>2. (t # main => doing[t] = "idle") /\ at[t].call = Len(prog[t]) /\ Len(prog[t]) \in Nat
  BY ProgramsAre DEF OrderInv, TeeInv, TeeShape
<1>3. ~Begin(t)
  BY <1>2 DEF Begin
<1>4. doing[t] \notin Busy
  BY <1>1, <1>2 DEF Closing, Busy
<1>5. QED BY <1>3, <1>4 DEF Advance, ToTerminal, Type, WriteLine, TakeLine, RaiseClosed, EndData, EndWrite, Busy

\* What is known of a run that waits holds always.
LEMMA OrderInvariance == TeeSpec => []OrderInv
<1> DEFINE I == TeeInv /\ OrderInv
<1>1. TeeInit => I
  <2> SUFFICES ASSUME TeeInit PROVE OrderInv
    BY TeeInvInit
  <2>0. TeeInv
    BY TeeInvInit
  <2>1. installed /\ log = <<>> /\ \A t \in Threads : at[t] = [call |-> 0, write |-> 0, char |-> 0] /\ doing[t] = "idle"
    BY DEF TeeInit, Start
  <2>2. \A t \in Threads : EndsInv(t)
    BY <2>1 DEF EndsInv, Busy
  <2>3. Logged = {}
    <3> SUFFICES ASSUME NEW p \in Places(NL) PROVE ~Behind(p)
      BY DEF Logged
    <3>1. p[1] \in Threads /\ p[2] \in 1..Len(prog[p[1]]) /\ p[2] \in Nat
      BY <2>0, PlaceParts
    <3>2. at[p[1]].call = 0 /\ p[2] > 0
      BY <2>1, <3>1
    <3>3. QED BY <3>1, <3>2 DEF Behind, Passed
  <2>4. IsFiniteSet({}) /\ Cardinality({}) = 0
    BY FS_EmptySet
  <2>5. QED BY <2>1, <2>2, <2>3, <2>4 DEF OrderInv
<1>2. I /\ [TeeNext]_teeVars => I'
  <2> SUFFICES ASSUME TeeInv, OrderInv, [TeeNext]_teeVars PROVE OrderInv'
    BY TeeInvStep
  <2>1. CASE UNCHANGED teeVars
    <3>1. UNCHANGED <<prog, abandons, at, doing, teed, installed, pending, log, raised>>
      BY <2>1 DEF teeVars
    <3>2. Places(NL)' = Places(NL)
      BY <3>1, PlacesFixed
    <3>3. \A t \in Threads : EndsInv(t)' <=> EndsInv(t)
      BY <3>1 DEF EndsInv, Call, Data
    <3>4. Logged' = Logged
      BY <3>1, <3>2 DEF Logged, Behind, Passed
    <3>5. QED BY <3>1, <3>2, <3>3, <3>4 DEF OrderInv
  <2>2. ASSUME NEW t \in Threads, Advance(t) PROVE OrderInv'
    <3>1. CASE installed
      BY <2>2, <3>1, OrderAdvance
    <3>2. CASE ~installed
      <4>1. abandons
        BY <2>2, <3>2, NobodyPrints
      <4>2. installed' = installed /\ abandons' = abandons
        BY <2>2, AdvanceOnly DEF Only
      <4>3. QED BY <3>2, <4>1, <4>2 DEF OrderInv
    <3>3. QED BY <3>1, <3>2
  <2>3. CASE EndTee
    <3>1. CASE ~abandons
      BY <2>3, <3>1, OrderEnd
    <3>2. CASE abandons
      <4>1. abandons' = abandons
        BY <2>3 DEF EndTee, Restore, CheckLeftOver, WriteLeftOver, TakeLeftOver, CloseLog, BreakEnding
      <4>2. TeeInv' /\ doing'[main] \in Closing
        <5>1. TeeInv'
          BY TeeInvStep
        <5>2. main \in Threads /\ doing = [u \in Threads |-> doing[u]]
          BY TeeAssumption DEF TeeInv, TeeShape
        <5>3. doing'[main] \in Closing
          BY <2>3, <5>2 DEF EndTee, Restore, CheckLeftOver, WriteLeftOver, TakeLeftOver, CloseLog, BreakEnding, Goto, Closing
        <5>4. QED BY <5>1, <5>3
      <4>3. ~installed'
        BY <4>2 DEF TeeInv
      <4>4. QED BY <3>2, <4>1, <4>3 DEF OrderInv
    <3>3. QED BY <3>1, <3>2
  <2>4. QED BY <2>1, <2>2, <2>3 DEF TeeNext, Terminated
<1>3. I => OrderInv
  OBVIOUS
<1> HIDE DEF I
<1>4. QED BY <1>1, <1>2, <1>3, PTL DEF TeeSpec

\* OrderlyExitLogsAll: a run that waits for its threads has logged every line, the unfinished
\* one included, and nothing has raised (logfile.py:86-92).
THEOREM OrderlyExitsLogAll == TeeSpec => []OrderlyExitLogsAll
<1>1. TeeSpec => []TeeInv
  BY TeeInvariance
<1>2. TeeSpec => []OrderInv
  BY OrderInvariance
<1>3. TeeInv /\ OrderInv => OrderlyExitLogsAll
  <2> SUFFICES ASSUME TeeInv, OrderInv, doing[main] = "closed", ~abandons
               PROVE  /\ raised = {} /\ pending = <<>>
                      /\ Len(log) \in {Cardinality(Places(NL)), Cardinality(Places(NL)) + 1}
    BY DEF OrderlyExitLogsAll
  <2>1. ~installed
    BY DEF TeeInv, Closing
  <2>2. QED BY <2>1 DEF OrderInv
<1>4. QED BY <1>1, <1>2, <1>3, PTL
-----------------------------------------------------------------------------
(* Lists joined together. *)

\* A set of numbers that is not empty has a least.
LEMMA Least ==
    ASSUME NEW S, S \subseteq Nat, S # {}
    PROVE  \E x \in S : \A y \in S : x <= y
<1>1. IsWellFoundedOn(OpToRel(<, Nat), Nat)
  BY NatLessThanWellFounded
<1>2. PICK x \in S : \A y \in S : <<y, x>> \notin OpToRel(<, Nat)
  BY <1>1, WFMin
<1>3. OpToRel(<, Nat) = {ss \in Nat \X Nat : ss[1] < ss[2]}
  BY DEF OpToRel
<1>4. ASSUME NEW y \in S PROVE x <= y
  <2>1. x \in Nat /\ y \in Nat /\ <<y, x>> \in Nat \X Nat
    OBVIOUS
  <2>2. ~ (y < x)
    BY <1>2, <1>3, <2>1
  <2>3. QED BY <2>1, <2>2
<1>5. QED BY <1>4

\* f joins the first i members of s, for every i up to m.
Joins(f, m, s) == f = [i \in 1..m |-> IF i = 1 THEN s[i] ELSE f[i - 1] \o s[i]]

\* There is such an f: a least m without one would have the one of m - 1, and a member more.
LEMMA JoinsExist ==
    ASSUME NEW s, NEW m \in Nat
    PROVE  \E f : Joins(f, m, s)
<1> DEFINE Lacks(n) == ~ \E f : Joins(f, n, s)
<1> DEFINE S == {n \in Nat : Lacks(n)}
<1>1. SUFFICES ASSUME S # {} PROVE FALSE
  OBVIOUS
<1>2. PICK n \in S : \A y \in S : n <= y
  <2>1. S \subseteq Nat
    OBVIOUS
  <2> HIDE DEF S
  <2>2. QED BY <1>1, <2>1, Least
<1>3. n \in Nat /\ Lacks(n)
  OBVIOUS
<1>4. CASE n = 0
  <2> DEFINE f == [i \in 1..0 |-> s[i]]
  <2>1. Joins(f, 0, s)
    BY DEF Joins
  <2>2. QED BY <1>3, <1>4, <2>1
<1>5. CASE n # 0
  <2>1. n - 1 \in Nat /\ n - 1 \notin S
    BY <1>2, <1>3, <1>5
  <2>2. PICK g : Joins(g, n - 1, s)
    BY <2>1
  <2> DEFINE f == [i \in 1..n |-> IF i = n THEN IF n = 1 THEN s[1] ELSE g[n - 1] \o s[n] ELSE g[i]]
  <2>3. ASSUME NEW i \in 1..n PROVE f[i] = IF i = 1 THEN s[i] ELSE f[i - 1] \o s[i]
    <3>1. \A k \in 1..(n - 1) : g[k] = IF k = 1 THEN s[k] ELSE g[k - 1] \o s[k]
      BY <2>2 DEF Joins
    <3>2. CASE i = n /\ n = 1
      <4>1. f[i] = s[1]
        BY <3>2
      <4> HIDE DEF f
      <4>2. QED BY <3>2, <4>1
    <3>3. CASE i = n /\ n # 1
      <4>1. i - 1 \in 1..n /\ i - 1 # n
        BY <1>3, <1>5, <3>3
      <4>2. f[i - 1] = g[i - 1] /\ f[i] = g[i - 1] \o s[i]
        BY <3>3, <4>1
      <4> HIDE DEF f
      <4>3. QED BY <3>3, <4>2
    <3>4. CASE i # n
      <4>1. i \in 1..(n - 1) /\ f[i] = g[i]
        BY <1>3, <3>4
      <4>2. i # 1 => i - 1 \in 1..n /\ i - 1 # n
        BY <1>3, <4>1
      <4>3. i # 1 => f[i - 1] = g[i - 1]
        BY <4>2
      <4> HIDE DEF f
      <4>4. QED BY <3>1, <4>1, <4>3
    <3>5. QED BY <3>2, <3>3, <3>4
  <2>4. f = [i \in 1..n |-> f[i]]
    OBVIOUS
  <2> HIDE DEF f
  <2>5. Joins(f, n, s)
    BY <2>3, <2>4 DEF Joins
  <2>6. QED BY <1>3, <2>5
<1>6. QED BY <1>4, <1>5

\* The first m members are the same.
Agree(s, r, m) == \A i \in 1..m : s[i] = r[i]

\* Two that join the same members agree.
LEMMA JoinsAgree ==
    ASSUME NEW s, NEW r, NEW m \in Nat, NEW n \in Nat, m <= n, NEW f, NEW g,
           Joins(f, m, s), Joins(g, n, r), Agree(s, r, m)
    PROVE  Agree(f, g, m)
<1> DEFINE S == {i \in 1..m : f[i] # g[i]}
<1>1. SUFFICES ASSUME S # {} PROVE FALSE
  BY DEF Agree
<1>2. PICK i \in S : \A y \in S : i <= y
  <2>1. S \subseteq Nat
    OBVIOUS
  <2> HIDE DEF S
  <2>2. QED BY <1>1, <2>1, Least
<1>3. i \in 1..m /\ i \in 1..n /\ f[i] # g[i] /\ s[i] = r[i]
  BY DEF Agree
<1>4. /\ f[i] = IF i = 1 THEN s[i] ELSE f[i - 1] \o s[i]
      /\ g[i] = IF i = 1 THEN r[i] ELSE g[i - 1] \o r[i]
  BY <1>3 DEF Joins
<1>5. i # 1 => i - 1 \in 1..m /\ i - 1 \notin S
  BY <1>2, <1>3
<1>6. i # 1 => f[i - 1] = g[i - 1]
  BY <1>5
<1>7. QED BY <1>3, <1>4, <1>6

\* FlattenSeq is such a function's last value.
LEMMA FlattenUnfolds ==
    ASSUME NEW X, NEW s \in Seq(X), s # <<>>
    PROVE  \E f : Joins(f, Len(s), s) /\ FlattenSeq(s) = f[Len(s)]
<1>1. Len(s) \in Nat /\ Len(s) # 0
  OBVIOUS
<1> DEFINE F == CHOOSE f : Joins(f, Len(s), s)
<1>2. Joins(F, Len(s), s)
  <2>1. \E f : Joins(f, Len(s), s)
    BY <1>1, JoinsExist
  <2>2. QED BY <2>1
<1>3. FlattenSeq(s) = F[Len(s)]
  BY <1>1 DEF FlattenSeq, Joins
<1> HIDE DEF F
<1>4. QED BY <1>2, <1>3

\* What is joined is a sequence of the same things.
LEMMA FlattenType ==
    ASSUME NEW X, NEW s \in Seq(Seq(X))
    PROVE  FlattenSeq(s) \in Seq(X)
<1>1. CASE s = <<>>
  BY <1>1 DEF FlattenSeq
<1>2. CASE s # <<>>
  <2>1. PICK f : Joins(f, Len(s), s) /\ FlattenSeq(s) = f[Len(s)]
    BY <1>2, FlattenUnfolds
  <2> DEFINE S == {i \in 1..Len(s) : f[i] \notin Seq(X)}
  <2>2. SUFFICES ASSUME S # {} PROVE FALSE
    BY <1>2, <2>1
  <2>3. PICK i \in S : \A y \in S : i <= y
    <3>1. S \subseteq Nat
      OBVIOUS
    <3> HIDE DEF S
    <3>2. QED BY <2>2, <3>1, Least
  <2>4. i \in 1..Len(s) /\ f[i] \notin Seq(X) /\ s[i] \in Seq(X) /\ Len(s) \in Nat
    OBVIOUS
  <2>5. f[i] = IF i = 1 THEN s[i] ELSE f[i - 1] \o s[i]
    BY <2>1, <2>4 DEF Joins
  <2>6. i # 1 => i - 1 \in 1..Len(s) /\ i - 1 \notin S
    BY <2>3, <2>4
  <2>7. i # 1 => f[i - 1] \in Seq(X)
    BY <2>6
  <2> HIDE DEF S
  <2>8. i # 1 => f[i - 1] \o s[i] \in Seq(X)
    BY <2>4, <2>7, ConcatProperties
  <2>9. QED BY <2>4, <2>5, <2>8
<1>3. QED BY <1>1, <1>2

\* One member more.
LEMMA FlattenAppend ==
    ASSUME NEW X, NEW s \in Seq(Seq(X)), NEW e \in Seq(X)
    PROVE  FlattenSeq(Append(s, e)) = FlattenSeq(s) \o e
<1>0. PICK r : r = Append(s, e)
  OBVIOUS
<1>1. r \in Seq(Seq(X)) /\ r # <<>> /\ Len(r) = Len(s) + 1 /\ Len(s) \in Nat
      /\ (\A i \in 1..Len(s) : s[i] = r[i]) /\ r[Len(s) + 1] = e
  BY <1>0, AppendProperties
<1>2. PICK g : Joins(g, Len(r), r) /\ FlattenSeq(r) = g[Len(r)]
  BY <1>1, FlattenUnfolds
<1>3. FlattenSeq(r) = IF Len(r) = 1 THEN e ELSE g[Len(s)] \o e
  <2>1. Len(r) \in 1..Len(r) /\ Len(r) - 1 = Len(s) /\ r[Len(r)] = e
    BY <1>1
  <2>2. g[Len(r)] = IF Len(r) = 1 THEN r[Len(r)] ELSE g[Len(r) - 1] \o r[Len(r)]
    BY <1>2, <2>1 DEF Joins
  <2>3. QED BY <1>2, <2>1, <2>2
<1>4. CASE s = <<>>
  <2>1. FlattenSeq(s) = <<>> /\ Len(r) = 1
    BY <1>1, <1>4 DEF FlattenSeq
  <2>2. FlattenSeq(r) = e
    BY <1>3, <2>1
  <2>3. <<>> \o e = e
    BY ConcatEmptySeq
  <2>4. QED BY <1>0, <2>1, <2>2, <2>3
<1>5. CASE s # <<>>
  <2>1. PICK f : Joins(f, Len(s), s) /\ FlattenSeq(s) = f[Len(s)]
    BY <1>5, FlattenUnfolds
  <2>2. Len(s) \in 1..Len(s) /\ Len(s) <= Len(r) /\ Len(r) \in Nat /\ Len(r) # 1
    BY <1>1, <1>5
  <2>3. \A i \in 1..Len(s) : f[i] = g[i]
    <3>1. Joins(f, Len(s), s) /\ Joins(g, Len(r), r) /\ Len(s) \in Nat /\ Agree(s, r, Len(s))
      BY <1>1, <1>2, <2>1 DEF Agree
    <3>2. Agree(f, g, Len(s))
      BY <2>2, <3>1, JoinsAgree
    <3>3. QED BY <3>2 DEF Agree
  <2>4. f[Len(s)] = g[Len(s)]
    BY <2>2, <2>3
  <2>5. QED BY <1>3, <2>1, <2>2, <2>4, <1>0
<1>6. QED BY <1>4, <1>5

\* A list given by a function, and one member more.
LEMMA FlattenMore ==
    ASSUME NEW X, NEW n \in Nat, NEW F \in [1..n + 1 -> Seq(X)]
    PROVE  FlattenSeq([i \in 1..n + 1 |-> F[i]]) = FlattenSeq([i \in 1..n |-> F[i]]) \o F[n + 1]
<1> DEFINE s == [i \in 1..n |-> F[i]]
<1> DEFINE r == [i \in 1..n + 1 |-> F[i]]
<1>1. s \in Seq(Seq(X)) /\ Len(s) = n /\ F[n + 1] \in Seq(X)
  OBVIOUS
<1>2. r \in Seq(Seq(X)) /\ Len(r) = n + 1
  OBVIOUS
<1>3. \A i \in 1..n : s[i] = F[i]
  OBVIOUS
<1>4. \A i \in 1..n + 1 : r[i] = F[i]
  OBVIOUS
<1> HIDE DEF s, r
<1>5. /\ Append(s, F[n + 1]) \in Seq(Seq(X)) /\ Len(Append(s, F[n + 1])) = n + 1
      /\ \A i \in 1..n : Append(s, F[n + 1])[i] = s[i]
      /\ Append(s, F[n + 1])[n + 1] = F[n + 1]
  BY <1>1, AppendProperties
<1>6. \A i \in 1..n + 1 : r[i] = Append(s, F[n + 1])[i]
  BY <1>3, <1>4, <1>5
<1>7. r = Append(s, F[n + 1])
  BY <1>2, <1>5, <1>6, SeqEqual
<1>8. FlattenSeq(r) = FlattenSeq(s) \o F[n + 1]
  BY <1>1, <1>7, FlattenAppend
<1>9. QED BY <1>8 DEF s, r

\* An empty list.
LEMMA FlattenNone == FlattenSeq(<<>>) = <<>> /\ \A X : \A F \in [1..0 -> X] : FlattenSeq(F) = <<>>
<1>1. FlattenSeq(<<>>) = <<>>
  BY DEF FlattenSeq
<1>2. ASSUME NEW X, NEW F \in [1..0 -> X] PROVE F = <<>>
  OBVIOUS
<1>3. QED BY <1>1, <1>2

\* A beginning of a list.
LEMMA Parts ==
    ASSUME NEW X, NEW s \in Seq(X), NEW k \in 0..Len(s)
    PROVE  SubSeq(s, 1, k) \in Seq(X)
<1>1. (\A i \in 1..k : s[i] \in X) /\ k \in Int /\ 1 \in Int
  OBVIOUS
<1>2. QED BY <1>1, SubSeqProperties
-----------------------------------------------------------------------------
(* What the terminal has received. *)

\* The writes a thread made in its first n calls.
Sofar(t, n) == FlattenSeq([c \in 1..n |-> SubSeq(prog[t][c], 1, Made(t, c))])

\* A thread has raised at most once in a call, and nothing of that call is made afterwards.
RaisedInv ==
    /\ \A r \in raised :
          /\ r.thread \in Threads /\ r.call \in 1..at[r.thread].call /\ r.write \in 1..Len(prog[r.thread][r.call])
          /\ r.call = at[r.thread].call => doing[r.thread] = "idle" /\ r.write = at[r.thread].write
    /\ \A r, s \in raised : r.thread = s.thread /\ r.call = s.call => r.write = s.write

\* The terminal has what a thread made of its earlier calls, and its writes in this one.
ShownInv(t) ==
    /\ doing[t] = "idle" => Shown(t) = Sofar(t, at[t].call)
    /\ doing[t] = "terminal" => Shown(t) = Sofar(t, at[t].call - 1) \o SubSeq(Call(t), 1, at[t].write - 1)
    /\ doing[t] \in {"log", "flush", "end"} => Shown(t) = Sofar(t, at[t].call - 1) \o SubSeq(Call(t), 1, at[t].write)

\* The writes made of a call are writes of it.
LEMMA MadeType ==
    ASSUME TeeInv, RaisedInv, NEW t \in Threads, NEW c \in 1..Len(prog[t])
    PROVE  Made(t, c) \in 1..Len(prog[t][c]) /\ SubSeq(prog[t][c], 1, Made(t, c)) \in Seq(Seq(Chars))
<1> DEFINE stops == {r.write : r \in {q \in raised : q.thread = t /\ q.call = c}}
<1>1. prog[t][c] \in Seq(Seq(Chars)) /\ Len(prog[t][c]) \in Nat /\ Len(prog[t][c]) >= 1
  <2>1. prog[t][c] \in Seq(Seq(Chars)) /\ Len(prog[t][c]) >= 1
    BY ProgramsAre DEF TeeInv, TeeShape
  <2>2. QED BY <2>1
<1>2. Made(t, c) = IF stops = {} THEN Len(prog[t][c]) ELSE Max(stops)
  BY DEF Made
<1>3. stops \subseteq 1..Len(prog[t][c])
  BY DEF RaisedInv
<1>4. \A w, v \in stops : w = v
  BY DEF RaisedInv
<1> HIDE DEF stops
<1>5. Made(t, c) \in 1..Len(prog[t][c])
  <2>1. CASE stops = {}
    BY <1>1, <1>2, <2>1
  <2>2. CASE stops # {}
    <3>1. PICK w \in stops : TRUE
      BY <2>2
    <3>2. w \in Nat /\ \A v \in stops : v = w
      BY <1>1, <1>3, <1>4
    <3>3. \A v \in stops : w >= v
      BY <3>2
    <3>4. Max(stops) \in stops
      BY <3>3 DEF Max
    <3>5. QED BY <1>2, <1>3, <2>2, <3>4
  <2>3. QED BY <2>1, <2>2
<1>6. SubSeq(prog[t][c], 1, Made(t, c)) \in Seq(Seq(Chars))
  <2>1. \A i \in 1..Made(t, c) : prog[t][c][i] \in Seq(Chars)
    BY <1>1, <1>5
  <2>2. Made(t, c) \in Int /\ 1 \in Int
    BY <1>1, <1>5
  <2>3. QED BY <2>1, <2>2, SubSeqProperties
<1>7. QED BY <1>5, <1>6

\* One call more.
LEMMA SofarMore ==
    ASSUME TeeInv, RaisedInv, NEW t \in Threads, NEW n \in Nat, n + 1 \in 1..Len(prog[t])
    PROVE  /\ Sofar(t, n + 1) = Sofar(t, n) \o SubSeq(prog[t][n + 1], 1, Made(t, n + 1))
           /\ Sofar(t, n) \in Seq(Seq(Chars))
<1>1. Len(prog[t]) \in Nat
  BY ProgramsAre DEF TeeInv, TeeShape
<1> DEFINE F == [c \in 1..n + 1 |-> SubSeq(prog[t][c], 1, Made(t, c))]
<1>2. F \in [1..n + 1 -> Seq(Seq(Chars))]
  <2>1. \A c \in 1..n + 1 : c \in 1..Len(prog[t])
    BY <1>1
  <2>2. \A c \in 1..n + 1 : SubSeq(prog[t][c], 1, Made(t, c)) \in Seq(Seq(Chars))
    BY <2>1, MadeType
  <2>3. QED BY <2>2
<1>3. Sofar(t, n) = FlattenSeq([c \in 1..n |-> F[c]])
  <2>1. \A c \in 1..n : c \in 1..n + 1
    OBVIOUS
  <2>2. [c \in 1..n |-> SubSeq(prog[t][c], 1, Made(t, c))] = [c \in 1..n |-> F[c]]
    BY <2>1
  <2>3. QED BY <2>2 DEF Sofar
<1>4. Sofar(t, n + 1) = FlattenSeq([c \in 1..n + 1 |-> F[c]])
  <2>1. F = [c \in 1..n + 1 |-> F[c]]
    OBVIOUS
  <2>2. Sofar(t, n + 1) = FlattenSeq(F)
    BY DEF Sofar
  <2> HIDE DEF F
  <2>3. QED BY <2>1, <2>2
<1>5. F[n + 1] = SubSeq(prog[t][n + 1], 1, Made(t, n + 1))
  <2>1. n + 1 \in 1..n + 1
    OBVIOUS
  <2>2. QED BY <2>1
<1> HIDE DEF F
<1>6. Sofar(t, n + 1) = Sofar(t, n) \o F[n + 1]
  BY <1>2, <1>3, <1>4, FlattenMore
<1>7. [c \in 1..n |-> F[c]] \in Seq(Seq(Seq(Chars)))
  BY <1>2
<1>8. Sofar(t, n) \in Seq(Seq(Chars))
  BY <1>3, <1>7, FlattenType
<1>9. QED BY <1>5, <1>6, <1>8

\* The terminal has one write more.
LEMMA ShownMore ==
    ASSUME TeeInv, NEW t \in Threads, NEW u \in Threads, NEW d \in Seq(Chars),
           terminal' = Append(terminal, [thread |-> u, data |-> d])
    PROVE  Shown(t)' = Shown(t) \o IF t = u THEN <<d>> ELSE <<>>
<1>1. terminal \in Seq([thread : Threads, data : Seq(Chars)]) /\ Len(terminal) \in Nat
  BY DEF TeeInv, TeeShape
<1>2. PICK T : T = terminal'
  OBVIOUS
<1> DEFINE R == [thread : Threads, data : Seq(Chars)]
<1> DEFINE e == [thread |-> u, data |-> d]
<1> DEFINE n == Len(terminal)
<1>3. T \in Seq(R) /\ Len(T) = n + 1 /\ (\A i \in 1..n : T[i] = terminal[i]) /\ T[n + 1] = e
  <2>1. e \in R /\ terminal \in Seq(R)
    BY <1>1
  <2>2. T = Append(terminal, e)
    BY <1>2
  <2> HIDE DEF e, R
  <2>3. QED BY <2>1, <2>2, AppendProperties
<1> DEFINE F == [i \in 1..n + 1 |-> IF T[i].thread = t THEN <<T[i].data>> ELSE <<>>]
<1>4. F \in [1..n + 1 -> Seq(Seq(Chars))]
  <2>1. \A i \in 1..n + 1 : T[i] \in R
    <3> HIDE DEF R, e
    <3>1. QED BY <1>1, <1>3, ElementOfSeq
  <2>2. \A i \in 1..n + 1 : T[i].data \in Seq(Chars)
    BY <2>1
  <2>3. \A i \in 1..n + 1 : (IF T[i].thread = t THEN <<T[i].data>> ELSE <<>>) \in Seq(Seq(Chars))
    BY <2>2
  <2>4. QED BY <2>3
<1>5. Shown(t)' = FlattenSeq([i \in 1..n + 1 |-> F[i]])
  <2>1. DOMAIN T = 1..n + 1
    BY <1>1, <1>3
  <2>2. F = [i \in 1..n + 1 |-> F[i]]
    OBVIOUS
  <2>3. Shown(t)' = FlattenSeq(F)
    BY <1>2, <2>1 DEF Shown
  <2> HIDE DEF F
  <2>4. QED BY <2>2, <2>3
<1>6. Shown(t) = FlattenSeq([i \in 1..n |-> F[i]])
  <2>1. DOMAIN terminal = 1..n /\ \A i \in 1..n : i \in 1..n + 1
    BY <1>1
  <2>2. \A i \in 1..n : F[i] = IF terminal[i].thread = t THEN <<terminal[i].data>> ELSE <<>>
    BY <1>3, <2>1
  <2>3. [i \in 1..n |-> F[i]] = [i \in 1..n |-> IF terminal[i].thread = t THEN <<terminal[i].data>> ELSE <<>>]
    BY <2>2
  <2>4. QED BY <2>1, <2>3 DEF Shown
<1>7. F[n + 1] = IF t = u THEN <<d>> ELSE <<>>
  <2>1. n + 1 \in 1..n + 1
    BY <1>1
  <2>2. QED BY <1>3, <2>1
<1>8. n \in Nat
  BY <1>1
<1> HIDE DEF F, n
<1>9. FlattenSeq([i \in 1..n + 1 |-> F[i]]) = FlattenSeq([i \in 1..n |-> F[i]]) \o F[n + 1]
  BY <1>4, <1>8, FlattenMore
<1>10. QED BY <1>5, <1>6, <1>7, <1>9

\* What the terminal has of a thread are writes.
LEMMA ShownType == ASSUME TeeInv, NEW t \in Threads PROVE Shown(t) \in Seq(Seq(Chars))
<1>1. terminal \in Seq([thread : Threads, data : Seq(Chars)]) /\ Len(terminal) \in Nat /\ DOMAIN terminal = 1..Len(terminal)
  BY DEF TeeInv, TeeShape
<1> DEFINE F == [i \in 1..Len(terminal) |-> IF terminal[i].thread = t THEN <<terminal[i].data>> ELSE <<>>]
<1>2. \A i \in 1..Len(terminal) : terminal[i] \in [thread : Threads, data : Seq(Chars)]
  BY <1>1, ElementOfSeq
<1>3. \A i \in 1..Len(terminal) : terminal[i].data \in Seq(Chars)
  BY <1>2
<1>4. \A i \in 1..Len(terminal) : (IF terminal[i].thread = t THEN <<terminal[i].data>> ELSE <<>>) \in Seq(Seq(Chars))
  BY <1>3
<1>5. F \in Seq(Seq(Seq(Chars)))
  BY <1>1, <1>4
<1>6. Shown(t) = FlattenSeq(F)
  BY <1>1 DEF Shown
<1> HIDE DEF F
<1>7. QED BY <1>5, <1>6, FlattenType

\* What a thread has made so far depends on the program and on what it has raised.
LEMMA MadeSame ==
    ASSUME NEW t, NEW c, prog' = prog, \A r : r.thread = t /\ r.call = c => (r \in raised' <=> r \in raised)
    PROVE  Made(t, c)' = Made(t, c)
<1>1. {q \in raised' : q.thread = t /\ q.call = c} = {q \in raised : q.thread = t /\ q.call = c}
  OBVIOUS
<1>2. PICK S : S = {r.write : r \in {q \in raised : q.thread = t /\ q.call = c}}
  OBVIOUS
<1>3. {r.write : r \in {q \in raised' : q.thread = t /\ q.call = c}} = S
  BY <1>1, <1>2
<1>4. Made(t, c) = IF S = {} THEN Len(prog[t][c]) ELSE Max(S)
  BY <1>2 DEF Made
<1>5. Made(t, c)' = IF S = {} THEN Len(prog[t][c]) ELSE Max(S)
  BY <1>3 DEF Made
<1>6. QED BY <1>4, <1>5

\* The same of several calls.
LEMMA SofarSame ==
    ASSUME NEW t, NEW n, prog' = prog,
           \A r : r.thread = t /\ r.call \in 1..n => (r \in raised' <=> r \in raised)
    PROVE  Sofar(t, n)' = Sofar(t, n)
<1>1. ASSUME NEW c \in 1..n PROVE Made(t, c)' = Made(t, c)
  BY MadeSame
<1>2. [c \in 1..n |-> SubSeq(prog[t][c], 1, Made(t, c))]' = [c \in 1..n |-> SubSeq(prog[t][c], 1, Made(t, c))]
  BY <1>1
<1>3. QED BY <1>2 DEF Sofar

\* What is known of the terminal.
TerminalInv == RaisedInv /\ \A t \in Threads : ShownInv(t)

\* A step that leaves what has been raised, and takes no thread back.
LEMMA RaisedKept ==
    ASSUME TeeInv, RaisedInv, prog' = prog, raised' = raised,
           \A t \in Threads : \/ at'[t] = at[t] /\ (doing'[t] = doing[t] \/ doing[t] # "idle" \/ t = main)
                              \/ at'[t].call = at[t].call /\ doing[t] # "idle"
                              \/ at'[t].call = at[t].call + 1
    PROVE  RaisedInv'
<1>1. ASSUME NEW r \in raised
      PROVE  /\ r.thread \in Threads /\ r.call \in 1..at'[r.thread].call /\ r.write \in 1..Len(prog[r.thread][r.call])
             /\ r.call = at'[r.thread].call => doing'[r.thread] = "idle" /\ r.write = at'[r.thread].write
  <2> DEFINE t == r.thread
  <2>1. /\ t \in Threads \ {main} /\ r.call \in 1..at[t].call /\ r.write \in 1..Len(prog[t][r.call])
        /\ r.call = at[t].call => doing[t] = "idle" /\ r.write = at[t].write
    BY DEF RaisedInv, TeeInv
  <2>2. at[t].call \in Nat
    <3>1. at[t].call \in 0..Len(prog[t]) /\ Len(prog[t]) \in Nat
      BY <2>1, ProgramsAre DEF TeeInv, TeeShape, ThreadInv
    <3>2. QED BY <3>1
  <2>3. \/ at'[t] = at[t] /\ (doing'[t] = doing[t] \/ doing[t] # "idle")
        \/ at'[t].call = at[t].call /\ doing[t] # "idle"
        \/ at'[t].call = at[t].call + 1
    BY <2>1
  <2> HIDE DEF t
  <2>4. r.call \in 1..at'[t].call
    BY <2>1, <2>2, <2>3
  <2>5. r.call = at'[t].call => doing'[t] = "idle" /\ r.write = at'[t].write
    BY <2>1, <2>2, <2>3
  <2>6. QED BY <2>1, <2>4, <2>5 DEF t
<1>2. QED BY <1>1 DEF RaisedInv

\* The thread that steps, with its program.
LEMMA Stepping ==
    ASSUME TeeInv, NEW t \in Threads
    PROVE  /\ at = [u \in Threads |-> at[u]] /\ doing = [u \in Threads |-> doing[u]] /\ prog \in Programs
           /\ at[t].call \in Nat /\ at[t].call \in 0..Len(prog[t]) /\ Len(prog[t]) \in Nat
           /\ at[t].write \in Nat /\ at[t].char \in Nat
           /\ at[t] = [call |-> at[t].call, write |-> at[t].write, char |-> at[t].char]
<1>1. /\ at[t] \in [call : 0..Len(prog[t]), write : Nat, char : Nat] /\ Len(prog[t]) \in Nat
      /\ at = [u \in Threads |-> at[u]] /\ doing = [u \in Threads |-> doing[u]] /\ prog \in Programs
  BY ProgramsAre DEF TeeInv, TeeShape, ThreadInv
<1>2. QED BY <1>1

\* Nothing is raised: what each thread has made stays.
LEMMA ShownBegin ==
    ASSUME TeeInv, TerminalInv, NEW t \in Threads, Begin(t)
    PROVE  RaisedInv' /\ ShownInv(t)'
<1> USE AfterOrder
<1>0. /\ at = [u \in Threads |-> at[u]] /\ doing = [u \in Threads |-> doing[u]]
      /\ at[t].call \in Nat /\ Len(prog[t]) \in Nat
  BY Stepping
<1>1. /\ prog' = prog /\ raised' = raised /\ terminal' = terminal
      /\ at'[t] = [call |-> at[t].call + 1, write |-> 1, char |-> 1] /\ doing'[t] = "terminal"
      /\ doing[t] = "idle" /\ at[t].call < Len(prog[t])
      /\ \A u \in Threads \ {t} : at'[u] = at[u] /\ doing'[u] = doing[u]
  BY <1>0 DEF Begin, Goto, files
<1>2. RaisedInv'
  BY <1>1, RaisedKept DEF TerminalInv
<1>3. Shown(t)' = Shown(t)
  BY <1>1 DEF Shown
<1>4. PICK n \in Nat : n = at[t].call
  BY <1>0
<1>5. Sofar(t, n)' = Sofar(t, n)
  BY <1>1, SofarSame
<1>6. Shown(t) = Sofar(t, n)
  BY <1>1, <1>4 DEF TerminalInv, ShownInv
<1>7. Sofar(t, n) \in Seq(Seq(Chars))
  BY <1>0, <1>1, <1>4, SofarMore DEF TerminalInv
<1>8. Sofar(t, at[t].call - 1)' = Sofar(t, n)'
  <2>1. at'[t].call - 1 = n
    BY <1>0, <1>1, <1>4
  <2>2. QED BY <2>1 DEF Sofar
<1>9. SubSeq(Call(t), 1, at[t].write - 1)' = <<>>
  <2>1. SubSeq(prog[t][n + 1], 1, 0) = <<>>
    BY SubSeqEmpty
  <2>2. QED BY <1>1, <1>4, <2>1 DEF Call
<1>10. Sofar(t, n) \o <<>> = Sofar(t, n)
  BY <1>7, ConcatEmptySeq
<1>11. ShownInv(t)'
  BY <1>1, <1>3, <1>5, <1>6, <1>8, <1>9, <1>10 DEF ShownInv
<1>12. QED BY <1>2, <1>11

\* A write the terminal receives.
LEMMA ShownTerminal ==
    ASSUME TeeInv, TerminalInv, NEW t \in Threads, ToTerminal(t)
    PROVE  RaisedInv' /\ ShownInv(t)' /\ \A u \in Threads \ {t} : Shown(u)' = Shown(u)
<1> USE AfterOrder
<1>0. /\ at = [u \in Threads |-> at[u]] /\ doing = [u \in Threads |-> doing[u]]
      /\ at[t].call \in 1..Len(prog[t]) /\ Len(prog[t]) \in Nat
      /\ Call(t) \in Seq(Seq(Chars)) /\ at[t].write \in 1..Len(Call(t)) /\ Data(t) \in Seq(Chars) /\ Len(Call(t)) \in Nat
  BY Stepping, BusyData DEF ToTerminal, Busy
<1>1. /\ prog' = prog /\ raised' = raised /\ at' = at
      /\ terminal' = Append(terminal, [thread |-> t, data |-> Data(t)])
      /\ doing[t] = "terminal" /\ doing'[t] \in {"log", "end"}
      /\ \A u \in Threads \ {t} : doing'[u] = doing[u]
  BY <1>0 DEF ToTerminal, Goto
<1>2. RaisedInv'
  BY <1>1, RaisedKept DEF TerminalInv
<1>3. ASSUME NEW u \in Threads \ {t} PROVE Shown(u)' = Shown(u)
  <2>1. Shown(u)' = Shown(u) \o <<>>
    BY <1>0, <1>1, ShownMore
  <2>2. Shown(u) \in Seq(Seq(Chars))
    BY ShownType
  <2>3. QED BY <2>1, <2>2, ConcatEmptySeq
<1>4. Shown(t)' = Shown(t) \o <<Data(t)>>
  BY <1>0, <1>1, ShownMore
<1>5. PICK n \in Nat : n = at[t].call - 1
  BY <1>0
<1>6. Shown(t) = Sofar(t, n) \o SubSeq(Call(t), 1, at[t].write - 1)
  BY <1>1, <1>5 DEF TerminalInv, ShownInv
<1>7. Sofar(t, n) \in Seq(Seq(Chars))
  <2>1. n + 1 \in 1..Len(prog[t])
    BY <1>0, <1>5
  <2>2. QED BY <2>1, SofarMore DEF TerminalInv
<1>8. SubSeq(Call(t), 1, at[t].write) = SubSeq(Call(t), 1, at[t].write - 1) \o <<Data(t)>>
  <2>1. 1 \in 1..Len(Call(t)) /\ at[t].write \in 1..Len(Call(t))
    BY <1>0
  <2>2. QED BY <1>0, <2>1, SubSeqRecursiveSecond DEF Data
<1>9. SubSeq(Call(t), 1, at[t].write - 1) \in Seq(Seq(Chars)) /\ <<Data(t)>> \in Seq(Seq(Chars))
  <2>1. at[t].write - 1 \in 0..Len(Call(t))
    BY <1>0
  <2>2. SubSeq(Call(t), 1, at[t].write - 1) \in Seq(Seq(Chars))
    BY <1>0, <2>1, Parts
  <2>3. QED BY <1>0, <2>2
<1>10. Shown(t)' = Sofar(t, n) \o SubSeq(Call(t), 1, at[t].write)
  <2>1. PICK a \in Seq(Seq(Chars)), b \in Seq(Seq(Chars)), c \in Seq(Seq(Chars)) :
          a = Sofar(t, n) /\ b = SubSeq(Call(t), 1, at[t].write - 1) /\ c = <<Data(t)>>
    BY <1>7, <1>9
  <2>2. (a \o b) \o c = a \o (b \o c)
    BY ConcatAssociative
  <2>3. QED BY <1>4, <1>6, <1>8, <2>1, <2>2
<1>11. Sofar(t, at[t].call - 1)' = Sofar(t, n)
  <2>1. Sofar(t, n)' = Sofar(t, n)
    BY <1>1, SofarSame
  <2>2. at'[t].call - 1 = n
    BY <1>1, <1>5
  <2>3. Sofar(t, at[t].call - 1)' = Sofar(t, n)'
    BY <2>2 DEF Sofar
  <2>4. QED BY <2>1, <2>3
<1>12. SubSeq(Call(t), 1, at[t].write)' = SubSeq(Call(t), 1, at[t].write)
  BY <1>1 DEF Call
<1>13. ShownInv(t)'
  BY <1>1, <1>10, <1>11, <1>12 DEF ShownInv
<1>14. QED BY <1>2, <1>3, <1>13

\* The log copy of a write.
LEMMA ShownLogging ==
    ASSUME TeeInv, TerminalInv, NEW t \in Threads, Type(t) \/ WriteLine(t) \/ TakeLine(t) \/ EndData(t)
    PROVE  RaisedInv' /\ ShownInv(t)'
<1> USE AfterOrder
<1>0. /\ at = [u \in Threads |-> at[u]] /\ doing = [u \in Threads |-> doing[u]]
      /\ at[t].call \in Nat /\ at[t] = [call |-> at[t].call, write |-> at[t].write, char |-> at[t].char]
  BY Stepping
<1>1. /\ prog' = prog /\ raised' = raised /\ terminal' = terminal
      /\ at'[t].call = at[t].call /\ at'[t].write = at[t].write
      /\ doing[t] \in {"log", "flush"} /\ doing'[t] \in {"log", "flush", "end"}
      /\ \A u \in Threads \ {t} : at'[u] = at[u] /\ doing'[u] = doing[u]
  <2>1. CASE Type(t)
    BY <1>0, <2>1 DEF Type
  <2>2. CASE WriteLine(t)
    BY <1>0, <2>2 DEF WriteLine, Goto
  <2>3. CASE TakeLine(t)
    BY <1>0, <2>3 DEF TakeLine, Goto
  <2>4. CASE EndData(t)
    BY <1>0, <2>4 DEF EndData, Goto, files
  <2>5. QED BY <2>1, <2>2, <2>3, <2>4
<1>2. RaisedInv'
  BY <1>1, RaisedKept DEF TerminalInv
<1>3. Shown(t)' = Shown(t)
  BY <1>1 DEF Shown
<1>4. PICK n : n = at[t].call - 1
  OBVIOUS
<1>5. Sofar(t, at[t].call - 1)' = Sofar(t, n)
  <2>1. Sofar(t, n)' = Sofar(t, n)
    BY <1>1, SofarSame
  <2>2. at'[t].call - 1 = n
    BY <1>1, <1>4
  <2>3. Sofar(t, at[t].call - 1)' = Sofar(t, n)'
    BY <2>2 DEF Sofar
  <2>4. QED BY <2>1, <2>3
<1>6. SubSeq(Call(t), 1, at[t].write)' = SubSeq(Call(t), 1, at[t].write)
  BY <1>1 DEF Call
<1>7. Shown(t) = Sofar(t, n) \o SubSeq(Call(t), 1, at[t].write)
  BY <1>1, <1>4 DEF TerminalInv, ShownInv
<1>8. ShownInv(t)'
  BY <1>1, <1>3, <1>5, <1>6, <1>7 DEF ShownInv
<1>9. QED BY <1>2, <1>8

\* The write that raises was made, and is the last of its call.
LEMMA ShownRaise ==
    ASSUME TeeInv, TerminalInv, NEW t \in Threads, RaiseClosed(t)
    PROVE  RaisedInv' /\ ShownInv(t)' /\ \A u \in Threads \ {t} : \A r : r.thread = u => (r \in raised' <=> r \in raised)
<1>0. /\ at = [u \in Threads |-> at[u]] /\ doing = [u \in Threads |-> doing[u]]
      /\ doing[t] \in {"log", "flush"}
      /\ at[t].call \in 1..Len(prog[t]) /\ Len(prog[t]) \in Nat
      /\ Call(t) \in Seq(Seq(Chars)) /\ at[t].write \in 1..Len(Call(t)) /\ Len(Call(t)) \in Nat
  BY Stepping, BusyData DEF RaiseClosed, Busy
<1>1. /\ prog' = prog /\ at' = at /\ terminal' = terminal /\ doing'[t] = "idle"
      /\ raised' = raised \cup {[thread |-> t, call |-> at[t].call, write |-> at[t].write]}
      /\ \A u \in Threads \ {t} : doing'[u] = doing[u]
  BY <1>0 DEF RaiseClosed, Goto, files
<1>2. \A r \in raised : r.thread = t => r.call \in 1..at[t].call /\ r.call # at[t].call
  BY <1>0 DEF TerminalInv, RaisedInv
<1>3. PICK q : q = [thread |-> t, call |-> at[t].call, write |-> at[t].write]
  OBVIOUS
<1>4. raised' = raised \cup {q} /\ q.thread = t /\ q.call = at[t].call /\ q.write = at[t].write
  BY <1>1, <1>3
<1>5. RaisedInv'
  <2>1. ASSUME NEW r \in raised'
        PROVE  /\ r.thread \in Threads /\ r.call \in 1..at'[r.thread].call /\ r.write \in 1..Len(prog'[r.thread][r.call])
               /\ r.call = at'[r.thread].call => doing'[r.thread] = "idle" /\ r.write = at'[r.thread].write
    <3>1. CASE r = q
      BY <1>0, <1>1, <1>4, <3>1 DEF Call
    <3>2. CASE r \in raised
      <4>1. CASE r.thread = t
        BY <1>1, <1>2, <3>2, <4>1 DEF TerminalInv, RaisedInv
      <4>2. CASE r.thread # t
        BY <1>1, <3>2, <4>2 DEF TerminalInv, RaisedInv
      <4>3. QED BY <4>1, <4>2
    <3>3. QED BY <1>4, <3>1, <3>2
  <2>2. ASSUME NEW r \in raised', NEW s \in raised', r.thread = s.thread, r.call = s.call PROVE r.write = s.write
    <3>1. CASE r \in raised /\ s \in raised
      BY <2>2, <3>1 DEF TerminalInv, RaisedInv
    <3>2. CASE r = q \/ s = q
      BY <1>2, <1>4, <2>2, <3>2
    <3>3. QED BY <1>4, <3>1, <3>2
  <2>3. QED BY <2>1, <2>2 DEF RaisedInv
<1>6. Shown(t)' = Shown(t)
  BY <1>1 DEF Shown
<1>7. PICK n \in Nat : n = at[t].call - 1
  BY <1>0
<1>8. Shown(t) = Sofar(t, n) \o SubSeq(Call(t), 1, at[t].write)
  BY <1>0, <1>7 DEF TerminalInv, ShownInv
<1>9. Sofar(t, n)' = Sofar(t, n)
  <2>1. \A r : r.thread = t /\ r.call \in 1..n => (r \in raised' <=> r \in raised)
    BY <1>0, <1>4, <1>7
  <2>2. QED BY <1>1, <2>1, SofarSame
<1>10. Made(t, n + 1)' = at[t].write
  <2>1. {r \in raised' : r.thread = t /\ r.call = n + 1} = {q}
    BY <1>0, <1>2, <1>4, <1>7
  <2>2. {r.write : r \in {p \in raised' : p.thread = t /\ p.call = n + 1}} = {q.write}
    BY <2>1
  <2>3. PICK w \in Nat : w = q.write
    BY <1>0, <1>4
  <2>4. Made(t, n + 1)' = Max({w})
    BY <2>2, <2>3 DEF Made
  <2>5. Max({w}) = w
    BY DEF Max
  <2>6. QED BY <1>4, <2>3, <2>4, <2>5
<1>11. Sofar(t, n + 1)' = Sofar(t, n) \o SubSeq(Call(t), 1, at[t].write)
  <2>1. n + 1 \in 1..Len(prog[t]) /\ prog[t][n + 1] = Call(t)
    BY <1>0, <1>7 DEF Call
  <2> DEFINE F == [c \in 1..n + 1 |-> IF c = n + 1 THEN SubSeq(Call(t), 1, at[t].write) ELSE SubSeq(prog[t][c], 1, Made(t, c))]
  <2>2. \A c \in 1..n : Made(t, c)' = Made(t, c)
    <3>1. \A c \in 1..n : \A r : r.thread = t /\ r.call = c => (r \in raised' <=> r \in raised)
      BY <1>0, <1>4, <1>7
    <3>2. QED BY <1>1, <3>1, MadeSame
  <2>3. Sofar(t, n + 1)' = FlattenSeq([c \in 1..n + 1 |-> F[c]])
    <3>1. ASSUME NEW c \in 1..n + 1 PROVE SubSeq(prog[t][c], 1, Made(t, c))' = F[c]
      <4>1. CASE c = n + 1
        <5>1. F[c] = SubSeq(Call(t), 1, at[t].write)
          BY <4>1
        <5> HIDE DEF F
        <5>2. QED BY <1>1, <1>10, <2>1, <4>1, <5>1
      <4>2. CASE c # n + 1
        <5>1. F[c] = SubSeq(prog[t][c], 1, Made(t, c))
          BY <4>2
        <5>2. c \in 1..n
          BY <4>2
        <5> HIDE DEF F
        <5>3. QED BY <1>1, <2>2, <5>1, <5>2
      <4>3. QED BY <4>1, <4>2
    <3> HIDE DEF F
    <3>2. [c \in 1..n + 1 |-> SubSeq(prog[t][c], 1, Made(t, c))]' = [c \in 1..n + 1 |-> F[c]]
      BY <3>1
    <3>3. QED BY <3>2 DEF Sofar
  <2>4. Sofar(t, n) = FlattenSeq([c \in 1..n |-> F[c]])
    <3>1. \A c \in 1..n : F[c] = SubSeq(prog[t][c], 1, Made(t, c))
      <4>1. \A c \in 1..n : c \in 1..n + 1 /\ c # n + 1
        OBVIOUS
      <4>2. QED BY <4>1
    <3> HIDE DEF F
    <3>2. [c \in 1..n |-> SubSeq(prog[t][c], 1, Made(t, c))] = [c \in 1..n |-> F[c]]
      BY <3>1
    <3>3. QED BY <3>2 DEF Sofar
  <2>5. F[n + 1] = SubSeq(Call(t), 1, at[t].write)
    <3>1. n + 1 \in 1..n + 1
      OBVIOUS
    <3>2. QED BY <3>1
  <2>6. F \in [1..n + 1 -> Seq(Seq(Chars))]
    <3>1. \A c \in 1..n : SubSeq(prog[t][c], 1, Made(t, c)) \in Seq(Seq(Chars))
      <4>1. \A c \in 1..n : c \in 1..Len(prog[t])
        BY <1>0, <2>1
      <4>2. QED BY <4>1, MadeType DEF TerminalInv
    <3>2. SubSeq(Call(t), 1, at[t].write) \in Seq(Seq(Chars))
      BY <1>0, Parts
    <3>3. \A c \in 1..n + 1 : c # n + 1 => c \in 1..n
      OBVIOUS
    <3>4. QED BY <3>1, <3>2, <3>3
  <2> HIDE DEF F
  <2>7. FlattenSeq([c \in 1..n + 1 |-> F[c]]) = FlattenSeq([c \in 1..n |-> F[c]]) \o F[n + 1]
    BY <2>6, FlattenMore
  <2>8. QED BY <2>3, <2>4, <2>5, <2>7
<1>12. Sofar(t, at[t].call)' = Sofar(t, n + 1)'
  <2>1. at'[t].call = n + 1
    BY <1>0, <1>1, <1>7
  <2>2. QED BY <2>1 DEF Sofar
<1>13. ShownInv(t)'
  BY <1>1, <1>6, <1>8, <1>11, <1>12 DEF ShownInv
<1>14. QED BY <1>4, <1>5, <1>13

\* The end of a write.
LEMMA ShownEnd ==
    ASSUME TeeInv, TerminalInv, NEW t \in Threads, EndWrite(t)
    PROVE  RaisedInv' /\ ShownInv(t)'
<1> USE AfterOrder
<1>0. /\ at = [u \in Threads |-> at[u]] /\ doing = [u \in Threads |-> doing[u]]
      /\ at[t] = [call |-> at[t].call, write |-> at[t].write, char |-> at[t].char]
      /\ doing[t] = "end"
      /\ at[t].call \in 1..Len(prog[t]) /\ Len(prog[t]) \in Nat
      /\ Call(t) \in Seq(Seq(Chars)) /\ at[t].write \in 1..Len(Call(t)) /\ Len(Call(t)) \in Nat
  BY Stepping, BusyData DEF EndWrite, Busy
<1>1. /\ prog' = prog /\ raised' = raised /\ terminal' = terminal
      /\ \A u \in Threads \ {t} : at'[u] = at[u] /\ doing'[u] = doing[u]
      /\ \/ at' = at /\ at[t].write = Len(Call(t)) /\ doing'[t] = "idle"
         \/ at'[t].call = at[t].call /\ at'[t].write = at[t].write + 1 /\ doing'[t] = "terminal"
  <2>1. CASE at[t].write = Len(Call(t))
    BY <1>0, <2>1 DEF EndWrite, Goto, files
  <2>2. CASE at[t].write # Len(Call(t))
    BY <1>0, <2>2 DEF EndWrite, Goto, files
  <2>3. QED BY <2>1, <2>2
<1>2. RaisedInv'
  <2>1. \A u \in Threads : \/ at'[u] = at[u] /\ (doing'[u] = doing[u] \/ doing[u] # "idle" \/ u = main)
                           \/ at'[u].call = at[u].call /\ doing[u] # "idle"
    BY <1>0, <1>1
  <2>2. QED BY <1>1, <2>1, RaisedKept DEF TerminalInv
<1>3. Shown(t)' = Shown(t)
  BY <1>1 DEF Shown
<1>4. PICK n \in Nat : n = at[t].call - 1
  BY <1>0
<1>5. Shown(t) = Sofar(t, n) \o SubSeq(Call(t), 1, at[t].write)
  BY <1>0, <1>4 DEF TerminalInv, ShownInv
<1>6. Sofar(t, n)' = Sofar(t, n) /\ Sofar(t, n + 1)' = Sofar(t, n + 1)
  BY <1>1, SofarSame
<1>7. CASE at' = at /\ at[t].write = Len(Call(t)) /\ doing'[t] = "idle"
  <2>1. Made(t, n + 1) = Len(Call(t))
    <3>1. prog[t][n + 1] = Call(t)
      BY <1>0, <1>4 DEF Call
    <3>2. {q \in raised : q.thread = t /\ q.call = n + 1} = {}
      BY <1>0, <1>4 DEF TerminalInv, RaisedInv
    <3>3. {r.write : r \in {q \in raised : q.thread = t /\ q.call = n + 1}} = {}
      BY <3>2
    <3>4. QED BY <3>1, <3>3 DEF Made
  <2>2. Sofar(t, n + 1) = Sofar(t, n) \o SubSeq(Call(t), 1, at[t].write)
    <3>1. n + 1 \in 1..Len(prog[t]) /\ prog[t][n + 1] = Call(t)
      BY <1>0, <1>4 DEF Call
    <3>2. Sofar(t, n + 1) = Sofar(t, n) \o SubSeq(prog[t][n + 1], 1, Made(t, n + 1))
      BY <3>1, SofarMore DEF TerminalInv
    <3>3. QED BY <1>7, <2>1, <3>1, <3>2
  <2>3. Sofar(t, at[t].call)' = Sofar(t, n + 1)'
    <3>1. at'[t].call = n + 1
      BY <1>0, <1>4, <1>7
    <3>2. QED BY <3>1 DEF Sofar
  <2>4. QED BY <1>2, <1>3, <1>5, <1>6, <1>7, <2>2, <2>3 DEF ShownInv
<1>8. CASE at'[t].call = at[t].call /\ at'[t].write = at[t].write + 1 /\ doing'[t] = "terminal"
  <2>1. Sofar(t, at[t].call - 1)' = Sofar(t, n)'
    <3>1. at'[t].call - 1 = n
      BY <1>4, <1>8
    <3>2. QED BY <3>1 DEF Sofar
  <2>2. SubSeq(Call(t), 1, at[t].write - 1)' = SubSeq(Call(t), 1, at[t].write)
    <3>1. at'[t].write - 1 = at[t].write
      BY <1>0, <1>8
    <3>2. Call(t)' = Call(t)
      BY <1>1, <1>8 DEF Call
    <3>3. QED BY <3>1, <3>2
  <2>3. QED BY <1>2, <1>3, <1>5, <1>6, <1>8, <2>1, <2>2 DEF ShownInv
<1>9. QED BY <1>1, <1>7, <1>8

\* A thread that does not step.
LEMMA ShownOthers ==
    ASSUME NEW u \in Threads, ShownInv(u), prog' = prog, at'[u] = at[u], doing'[u] = doing[u] \/ doing'[u] \in Closing,
           Shown(u)' = Shown(u), \A r : r.thread = u => (r \in raised' <=> r \in raised)
    PROVE  ShownInv(u)'
<1>1. PICK n, m : n = at[u].call /\ m = at[u].call - 1
  OBVIOUS
<1>2. Sofar(u, n)' = Sofar(u, n) /\ Sofar(u, m)' = Sofar(u, m)
  BY SofarSame
<1>3. Sofar(u, at[u].call)' = Sofar(u, n)' /\ Sofar(u, at[u].call - 1)' = Sofar(u, m)'
  <2>1. at'[u].call = n /\ at'[u].call - 1 = m
    BY <1>1
  <2>2. QED BY <2>1 DEF Sofar
<1>4. Sofar(u, at[u].call)' = Sofar(u, at[u].call) /\ Sofar(u, at[u].call - 1)' = Sofar(u, at[u].call - 1)
  BY <1>1, <1>2, <1>3
<1>5. Call(u)' = Call(u)
  BY DEF Call
<1>6. QED BY <1>4, <1>5 DEF ShownInv, Closing

\* Every step keeps what is known of the terminal.
LEMMA TerminalStep == TeeInv /\ TerminalInv /\ [TeeNext]_teeVars => TerminalInv'
<1> SUFFICES ASSUME TeeInv, TerminalInv, [TeeNext]_teeVars PROVE TerminalInv'
  OBVIOUS
<1>1. ASSUME NEW t \in Threads, Advance(t) PROVE TerminalInv'
  <2>0. prog' = prog /\ \A u \in Threads \ {t} : Stays(u)
    BY <1>1, AdvanceOnly DEF Only
  <2>1. RaisedInv' /\ ShownInv(t)'
    BY <1>1, ShownBegin, ShownTerminal, ShownLogging, ShownRaise, ShownEnd DEF Advance
  <2>2. ASSUME NEW u \in Threads \ {t} PROVE Shown(u)' = Shown(u) /\ \A r : r.thread = u => (r \in raised' <=> r \in raised)
    <3>1. CASE ToTerminal(t)
      <4>1. raised' = raised
        BY <3>1 DEF ToTerminal
      <4>2. QED BY <3>1, <4>1, ShownTerminal
    <3>2. CASE RaiseClosed(t)
      <4>1. terminal' = terminal
        BY <3>2 DEF RaiseClosed, files
      <4>2. Shown(u)' = Shown(u)
        BY <4>1 DEF Shown
      <4>3. QED BY <3>2, <4>2, ShownRaise
    <3>3. CASE Begin(t) \/ Type(t) \/ WriteLine(t) \/ TakeLine(t) \/ EndData(t) \/ EndWrite(t)
      <4>1. terminal' = terminal /\ raised' = raised
        BY <3>3 DEF Begin, Type, WriteLine, TakeLine, EndData, EndWrite, files
      <4>2. QED BY <4>1 DEF Shown
    <3>4. QED BY <1>1, <3>1, <3>2, <3>3 DEF Advance
  <2>3. ASSUME NEW u \in Threads \ {t} PROVE ShownInv(u)'
    BY <2>0, <2>2, ShownOthers DEF TerminalInv, Stays
  <2>4. QED BY <2>1, <2>3 DEF TerminalInv
<1>2. CASE EndTee \/ UNCHANGED teeVars
  <2>0. main \in Threads /\ doing = [u \in Threads |-> doing[u]]
    BY TeeAssumption, Stepping
  <2>1. /\ prog' = prog /\ at' = at /\ terminal' = terminal /\ raised' = raised
        /\ \A u \in Threads \ {main} : doing'[u] = doing[u]
        /\ doing'[main] = doing[main] \/ doing'[main] \in Closing
    BY <1>2, <2>0 DEF EndTee, Restore, CheckLeftOver, WriteLeftOver, TakeLeftOver, CloseLog, BreakEnding, Goto, Closing, teeVars, files
  <2>2. RaisedInv'
    BY <2>1, RaisedKept DEF TerminalInv
  <2>3. ASSUME NEW u \in Threads PROVE ShownInv(u)'
    <3>1. Shown(u)' = Shown(u)
      BY <2>1 DEF Shown
    <3>2. QED BY <2>1, <3>1, ShownOthers DEF TerminalInv
  <2>4. QED BY <2>2, <2>3 DEF TerminalInv
<1>3. QED BY <1>1, <1>2 DEF TeeNext, Terminated

\* It holds at the start.
LEMMA TerminalInit == TeeInit => TerminalInv
<1> SUFFICES ASSUME TeeInit PROVE TerminalInv
  OBVIOUS
<1>1. RaisedInv
  BY DEF TeeInit, RaisedInv
<1>2. ASSUME NEW t \in Threads PROVE ShownInv(t)
  <2>1. doing[t] = "idle" /\ at[t].call = 0 /\ terminal = <<>>
    BY DEF TeeInit, Start
  <2>2. Shown(t) = <<>>
    <3>1. [i \in DOMAIN terminal |-> IF terminal[i].thread = t THEN <<terminal[i].data>> ELSE <<>>] = <<>>
      BY <2>1
    <3>2. QED BY <3>1, FlattenNone DEF Shown
  <2>3. Sofar(t, 0) = <<>>
    <3>1. [c \in 1..0 |-> SubSeq(prog[t][c], 1, Made(t, c))] = <<>>
      OBVIOUS
    <3>2. QED BY <3>1, FlattenNone DEF Sofar
  <2>4. QED BY <2>1, <2>2, <2>3 DEF ShownInv
<1>3. QED BY <1>1, <1>2 DEF TerminalInv

\* The terminal has every write of every thread in its order, whatever becomes of the log
\* (logfile.py:33-35): TerminalMissesNothing.
THEOREM TerminalHasEverything == TeeSpec => []TerminalMissesNothing
<1>1. TeeSpec => []TeeInv
  BY TeeInvariance
<1>2. TeeInit => TerminalInv
  BY TerminalInit
<1>3. TeeInv /\ TerminalInv /\ [TeeNext]_teeVars => TerminalInv'
  BY TerminalStep
<1>4. TerminalInv => TerminalMissesNothing
  BY DEF TerminalInv, ShownInv, TerminalMissesNothing, Sofar
<1>5. QED BY <1>1, <1>2, <1>3, <1>4, PTL DEF TeeSpec
-----------------------------------------------------------------------------
(* One thread alone: the lines of a stream. *)

\* The greatest of a set of numbers that is bounded.
LEMMA MaxIs ==
    ASSUME NEW n \in Nat, NEW S, S \subseteq 0..n, S # {}
    PROVE  Max(S) \in S /\ \A j \in S : j <= Max(S)
<1> DEFINE D == {n - i : i \in S}
<1>1. D \subseteq Nat /\ D # {}
  <2>1. PICK i \in S : TRUE
    OBVIOUS
  <2>2. n - i \in D
    OBVIOUS
  <2>3. \A j \in S : n - j \in Nat
    OBVIOUS
  <2>4. D \subseteq Nat
    BY <2>3
  <2>5. QED BY <2>2, <2>4
<1>2. \E x \in D : \A y \in D : x <= y
  <2> HIDE DEF D
  <2>1. QED BY <1>1, Least
<1>3. PICK x \in D : \A y \in D : x <= y
  BY <1>2
<1>4. PICK i \in S : x = n - i
  BY <1>3
<1>5. ASSUME NEW j \in S PROVE i >= j
  <2>1. n - j \in D
    OBVIOUS
  <2>2. n - i <= n - j
    BY <1>3, <1>4, <2>1
  <2>3. i \in Nat /\ j \in Nat
    OBVIOUS
  <2> HIDE DEF D
  <2>4. QED BY <2>2, <2>3
<1>6. Max(S) \in S /\ \A j \in S : Max(S) >= j
  BY <1>5 DEF Max
<1>7. QED BY <1>6

\* A member that is not below any other is the greatest.
LEMMA MaxOf ==
    ASSUME NEW n \in Nat, NEW S, S \subseteq 0..n, NEW m \in S, \A j \in S : j <= m
    PROVE  Max(S) = m
<1>1. Max(S) \in S /\ \A j \in S : j <= Max(S)
  BY MaxIs
<1>2. PICK x \in S : x = Max(S)
  BY <1>1
<1>3. m <= x /\ x <= m
  BY <1>1, <1>2
<1>4. m \in Nat /\ x \in Nat
  OBVIOUS
<1>5. m = x
  BY <1>3, <1>4
<1>6. QED BY <1>2, <1>5

\* Carriage returns and newlines before position i.
Marks(s, i) == {0} \cup {j \in 1..i - 1 : s[j] \in {CR, NL}}

\* The last part follows the last mark.
LEMMA LastPartIs == \A s, i : LastPart(s, i) = SubSeq(s, 1 + Max(Marks(s, i)), i - 1)
BY DEF LastPart, Marks

\* The last part is text, and the mark before it lies before the position.
LEMMA LastPartType ==
    ASSUME NEW s \in Seq(Chars), NEW i \in 1..Len(s) + 1
    PROVE  Max(Marks(s, i)) \in 0..i - 1 /\ LastPart(s, i) \in Seq(Chars)
<1>1. Marks(s, i) \subseteq 0..i - 1 /\ Marks(s, i) # {} /\ i - 1 \in Nat
  BY DEF Marks
<1>2. Max(Marks(s, i)) \in 0..i - 1
  BY <1>1, MaxIs
<1>3. PICK b \in 0..i - 1 : b = Max(Marks(s, i))
  BY <1>2
<1>4. SubSeq(s, 1 + b, i - 1) \in Seq(Chars)
  <2>1. 1 + b \in Int /\ i - 1 \in Int /\ \A j \in 1 + b..i - 1 : s[j] \in Chars
    BY <1>3
  <2>2. QED BY <2>1, SubSeqProperties
<1>5. QED BY <1>2, <1>3, <1>4, LastPartIs

\* What comes later does not matter.
LEMMA LastPartSame ==
    ASSUME NEW s \in Seq(Chars), NEW c \in Chars, NEW i \in 1..Len(s) + 1
    PROVE  LastPart(Append(s, c), i) = LastPart(s, i)
<1>1. PICK r \in Seq(Chars) : r = Append(s, c)
  BY AppendProperties
<1>2. Len(r) = Len(s) + 1 /\ (\A j \in 1..Len(s) : r[j] = s[j]) /\ Len(s) \in Nat
  BY <1>1, AppendProperties
<1>3. \A j \in 1..i - 1 : r[j] = s[j]
  BY <1>2
<1>4. Marks(r, i) = Marks(s, i)
  BY <1>3 DEF Marks
<1>5. PICK b \in 0..i - 1 : b = Max(Marks(s, i))
  BY LastPartType
<1>6. SubSeq(r, 1 + b, i - 1) = SubSeq(s, 1 + b, i - 1)
  <2>0. 1 + b \in Int /\ i - 1 \in Int
    BY <1>5
  <2>1. (\A j \in 1 + b..i - 1 : r[j] \in Chars) /\ (\A j \in 1 + b..i - 1 : s[j] \in Chars)
    BY <1>2, <1>5
  <2> DEFINE p == SubSeq(r, 1 + b, i - 1)
  <2> DEFINE q == SubSeq(s, 1 + b, i - 1)
  <2> DEFINE n == IF 1 + b <= i - 1 THEN (i - 1) - (1 + b) + 1 ELSE 0
  <2>2. p \in Seq(Chars) /\ Len(p) = n /\ \A k \in 1..(i - 1) - (1 + b) + 1 : p[k] = r[1 + b + k - 1]
    BY <2>0, <2>1, SubSeqProperties
  <2>3. q \in Seq(Chars) /\ Len(q) = n /\ \A k \in 1..(i - 1) - (1 + b) + 1 : q[k] = s[1 + b + k - 1]
    BY <2>0, <2>1, SubSeqProperties
  <2> HIDE DEF p, q
  <2>4. ASSUME NEW k \in 1..Len(p) PROVE p[k] = q[k]
    <3>1. k \in 1..(i - 1) - (1 + b) + 1 /\ 1 + b + k - 1 \in 1..i - 1
      BY <1>5, <2>2
    <3>2. QED BY <1>3, <2>2, <2>3, <3>1
  <2>5. p = q
    BY <2>2, <2>3, <2>4, SeqEqual
  <2>6. QED BY <2>5 DEF p, q
<1>7. QED BY <1>1, <1>4, <1>5, <1>6, LastPartIs

\* A carriage return or a newline begins the last part anew; another character is added to it.
LEMMA LastPartAppend ==
    ASSUME NEW s \in Seq(Chars), NEW c \in Chars
    PROVE  /\ c \in {CR, NL} => LastPart(Append(s, c), Len(s) + 2) = <<>>
           /\ c \notin {CR, NL} => LastPart(Append(s, c), Len(s) + 2) = Append(LastPart(s, Len(s) + 1), c)
<1>1. PICK r \in Seq(Chars) : r = Append(s, c)
  BY AppendProperties
<1>2. Len(r) = Len(s) + 1 /\ (\A j \in 1..Len(s) : r[j] = s[j]) /\ r[Len(s) + 1] = c /\ Len(s) \in Nat
  BY <1>1, AppendProperties
<1>3. PICK n \in Nat : n = Len(s)
  BY <1>2
<1>4. Marks(r, n + 2) = Marks(s, n + 1) \cup IF c \in {CR, NL} THEN {n + 1} ELSE {}
  <2>1. 1..(n + 2) - 1 = (1..(n + 1) - 1) \cup {n + 1}
    BY <1>3
  <2>2. \A j \in 1..(n + 1) - 1 : r[j] = s[j]
    BY <1>2, <1>3
  <2>3. r[n + 1] = c
    BY <1>2, <1>3
  <2>4. QED BY <2>1, <2>2, <2>3 DEF Marks
<1>5. PICK b \in 0..n : b = Max(Marks(s, n + 1))
  <2>1. n + 1 \in 1..Len(s) + 1 /\ (n + 1) - 1 = n
    BY <1>3
  <2>2. QED BY <2>1, LastPartType
<1>7. ASSUME c \in {CR, NL} PROVE LastPart(r, n + 2) = <<>>
  <2>1. Max(Marks(r, n + 2)) = n + 1
    <3>1. Marks(s, n + 1) \subseteq 0..n
      BY DEF Marks
    <3>2. Marks(r, n + 2) = Marks(s, n + 1) \cup {n + 1}
      BY <1>4, <1>7
    <3>3. Marks(r, n + 2) \subseteq 0..n + 1 /\ n + 1 \in Marks(r, n + 2) /\ \A j \in Marks(r, n + 2) : j <= n + 1
      BY <3>1, <3>2
    <3>4. QED BY <3>3, MaxOf
  <2>2. LastPart(r, n + 2) = SubSeq(r, 1 + (n + 1), (n + 2) - 1)
    BY <2>1, LastPartIs
  <2>3. 1 + (n + 1) = n + 2 /\ (n + 2) - 1 = n + 1 /\ n + 1 < n + 2 /\ n + 2 \in Int /\ n + 1 \in Int
    OBVIOUS
  <2>4. QED BY <2>2, <2>3, SubSeqEmpty
<1>8. ASSUME c \notin {CR, NL} PROVE LastPart(r, n + 2) = Append(LastPart(s, n + 1), c)
  <2>1. Max(Marks(r, n + 2)) = b
    BY <1>4, <1>5, <1>8
  <2>2. LastPart(r, n + 2) = SubSeq(r, 1 + b, n + 1)
    <3>1. (n + 2) - 1 = n + 1
      OBVIOUS
    <3>2. QED BY <2>1, <3>1, LastPartIs
  <2>3. SubSeq(r, 1 + b, n + 1) = SubSeq(r, 1 + b, n) \o <<c>>
    <3>1. 1 + b \in 1..Len(r) /\ n + 1 \in 1 + b..Len(r) /\ (n + 1) - 1 = n /\ r[n + 1] = c
      BY <1>2, <1>3, <1>5
    <3>2. QED BY <3>1, SubSeqRecursiveSecond
  <2>4. SubSeq(r, 1 + b, n) = LastPart(s, n + 1)
    <3>1. n + 1 \in 1..Len(s) + 1 /\ (n + 1) - 1 = n
      BY <1>3
    <3>2. LastPart(r, n + 1) = LastPart(s, n + 1)
      BY <1>1, <3>1, LastPartSame
    <3>3. Marks(r, n + 1) = Marks(s, n + 1)
      <4>1. \A j \in 1..n : r[j] = s[j]
        BY <1>2, <1>3
      <4>2. QED BY <3>1, <4>1 DEF Marks
    <3>4. LastPart(r, n + 1) = SubSeq(r, 1 + b, n)
      BY <1>5, <3>1, <3>3, LastPartIs
    <3>5. QED BY <3>2, <3>4
  <2>5. LastPart(s, n + 1) \in Seq(Chars)
    <3>1. n + 1 \in 1..Len(s) + 1
      BY <1>3
    <3>2. QED BY <3>1, LastPartType
  <2>6. LastPart(s, n + 1) \o <<c>> = Append(LastPart(s, n + 1), c)
    BY <2>5, AppendIsConcat
  <2>7. QED BY <2>2, <2>3, <2>4, <2>6
<1>9. QED BY <1>1, <1>3, <1>7, <1>8

\* A newline makes a line of the last part.
LEMMA LinesAppend ==
    ASSUME NEW s \in Seq(Chars), NEW c \in Chars
    PROVE  /\ c # NL => Lines(Append(s, c)) = Lines(s)
           /\ c = NL => Lines(Append(s, c)) = Append(Lines(s), LastPart(s, Len(s) + 1))
<1>1. PICK r \in Seq(Chars) : r = Append(s, c)
  BY AppendProperties
<1>2. Len(r) = Len(s) + 1 /\ (\A j \in 1..Len(s) : r[j] = s[j]) /\ r[Len(s) + 1] = c /\ Len(s) \in Nat
  BY <1>1, AppendProperties
<1>3. PICK n \in Nat : n = Len(s)
  BY <1>2
<1> DEFINE F == [i \in 1..n + 1 |-> IF r[i] = NL THEN <<LastPart(r, i)>> ELSE <<>>]
<1>4. F \in [1..n + 1 -> Seq(Seq(Chars))]
  <2>1. \A i \in 1..n + 1 : LastPart(r, i) \in Seq(Chars)
    <3>1. \A i \in 1..n + 1 : i \in 1..Len(r) + 1
      BY <1>2, <1>3
    <3>2. QED BY <3>1, LastPartType
  <2>2. \A i \in 1..n + 1 : (IF r[i] = NL THEN <<LastPart(r, i)>> ELSE <<>>) \in Seq(Seq(Chars))
    BY <2>1
  <2>3. QED BY <2>2
<1>5. Lines(r) = FlattenSeq([i \in 1..n + 1 |-> F[i]])
  <2>1. DOMAIN r = 1..n + 1
    BY <1>2, <1>3
  <2>2. F = [i \in 1..n + 1 |-> F[i]]
    OBVIOUS
  <2>3. Lines(r) = FlattenSeq(F)
    BY <2>1 DEF Lines
  <2> HIDE DEF F
  <2>4. QED BY <2>2, <2>3
<1>6. Lines(s) = FlattenSeq([i \in 1..n |-> F[i]])
  <2>1. DOMAIN s = 1..n
    BY <1>3
  <2>2. \A i \in 1..n : r[i] = s[i] /\ LastPart(r, i) = LastPart(s, i)
    <3>1. \A i \in 1..n : i \in 1..Len(s) + 1
      BY <1>3
    <3>2. \A i \in 1..n : LastPart(r, i) = LastPart(s, i)
      BY <1>1, <3>1, LastPartSame
    <3>3. QED BY <1>2, <1>3, <3>2
  <2>3. \A i \in 1..n : F[i] = IF s[i] = NL THEN <<LastPart(s, i)>> ELSE <<>>
    <3>1. \A i \in 1..n : i \in 1..n + 1
      OBVIOUS
    <3>2. \A i \in 1..n : F[i] = IF r[i] = NL THEN <<LastPart(r, i)>> ELSE <<>>
      BY <3>1
    <3> HIDE DEF F
    <3>3. QED BY <2>2, <3>2
  <2> HIDE DEF F
  <2>4. [i \in 1..n |-> F[i]] = [i \in 1..n |-> IF s[i] = NL THEN <<LastPart(s, i)>> ELSE <<>>]
    BY <2>3
  <2>5. QED BY <2>1, <2>4 DEF Lines
<1>7. F[n + 1] = IF c = NL THEN <<LastPart(s, n + 1)>> ELSE <<>>
  <2>1. n + 1 \in 1..n + 1 /\ n + 1 \in 1..Len(s) + 1 /\ r[n + 1] = c
    BY <1>2, <1>3
  <2>2. LastPart(r, n + 1) = LastPart(s, n + 1)
    BY <1>1, <2>1, LastPartSame
  <2>3. F[n + 1] = IF r[n + 1] = NL THEN <<LastPart(r, n + 1)>> ELSE <<>>
    BY <2>1
  <2> HIDE DEF F
  <2>4. QED BY <2>1, <2>2, <2>3
<1> HIDE DEF F
<1>8. Lines(r) = Lines(s) \o F[n + 1]
  BY <1>4, <1>5, <1>6, FlattenMore
<1>9. Lines(s) \in Seq(Seq(Chars))
  <2>1. [i \in 1..n |-> F[i]] \in Seq(Seq(Seq(Chars)))
    BY <1>4
  <2>2. QED BY <1>6, <2>1, FlattenType
<1>10. c # NL => Lines(r) = Lines(s)
  BY <1>7, <1>8, <1>9, ConcatEmptySeq
<1>11. c = NL => Lines(r) = Append(Lines(s), LastPart(s, n + 1))
  <2>1. n + 1 \in 1..Len(s) + 1
    BY <1>3
  <2>2. LastPart(s, n + 1) \in Seq(Chars)
    BY <2>1, LastPartType
  <2>3. QED BY <1>7, <1>8, <1>9, <2>2, AppendIsConcat
<1>12. QED BY <1>1, <1>3, <1>10, <1>11

\* Nothing has been printed.
LEMMA NoText == Lines(<<>>) = <<>> /\ LastPart(<<>>, 1) = <<>>
<1>1. LastPart(<<>>, 1) = <<>>
  <2>1. LastPart(<<>>, 1) = SubSeq(<<>>, 1 + Max(Marks(<<>>, 1)), 0)
    BY LastPartIs
  <2>2. Max(Marks(<<>>, 1)) \in 0..0
    <3>0. <<>> \in Seq(Chars)
      BY EmptySeq
    <3>1. PICK e \in Seq(Chars) : e = <<>>
      BY <3>0, Zenon
    <3>2. 1 \in 1..Len(e) + 1
      BY <3>1
    <3>3. Max(Marks(e, 1)) \in 0..1 - 1
      BY <3>2, LastPartType
    <3>4. QED BY <3>1, <3>3
  <2>3. 1 + Max(Marks(<<>>, 1)) = 1
    BY <2>2
  <2>4. QED BY <2>1, <2>3, SubSeqEmpty
<1>2. Lines(<<>>) = <<>>
  <2>1. [i \in DOMAIN <<>> |-> IF <<>>[i] = NL THEN <<LastPart(<<>>, i)>> ELSE <<>>] = <<>>
    OBVIOUS
  <2>2. QED BY <2>1, FlattenNone DEF Lines
<1>3. QED BY <1>1, <1>2

\* The characters of the first n calls of a program, and those of the writes before, and in, write w of call c.
Text(p, n) == FlattenSeq([c \in 1..n |-> FlattenSeq(p[c])])
Joined(p, c, w, k) == Text(p, c - 1) \o FlattenSeq(SubSeq(p[c], 1, w - 1)) \o SubSeq(p[c][w], 1, k - 1)

\* One call more.
LEMMA TextMore ==
    ASSUME NEW p \in Seq(Calls), NEW n \in Nat, n + 1 \in 1..Len(p)
    PROVE  /\ Text(p, n) \in Seq(Chars)
           /\ Text(p, n + 1) = Text(p, n) \o FlattenSeq(p[n + 1])
           /\ Text(p, n + 1) \in Seq(Chars)
<1>1. \A c \in 1..n + 1 : FlattenSeq(p[c]) \in Seq(Chars)
  <2>1. ASSUME NEW c \in 1..n + 1 PROVE p[c] \in Seq(Seq(Chars))
    <3>1. c \in 1..Len(p)
      OBVIOUS
    <3>2. p[c] \in Calls
      BY <3>1
    <3>3. QED BY <3>2 DEF Calls
  <2>2. QED BY <2>1, FlattenType
<1> DEFINE F == [c \in 1..n + 1 |-> FlattenSeq(p[c])]
<1>2. F \in [1..n + 1 -> Seq(Chars)]
  BY <1>1
<1>3. Text(p, n + 1) = FlattenSeq([c \in 1..n + 1 |-> F[c]])
  <2>1. F = [c \in 1..n + 1 |-> F[c]]
    OBVIOUS
  <2>2. Text(p, n + 1) = FlattenSeq(F)
    BY DEF Text
  <2> HIDE DEF F
  <2>3. QED BY <2>1, <2>2
<1>4. Text(p, n) = FlattenSeq([c \in 1..n |-> F[c]])
  <2>1. \A c \in 1..n : c \in 1..n + 1
    OBVIOUS
  <2>2. \A c \in 1..n : F[c] = FlattenSeq(p[c])
    BY <2>1
  <2> HIDE DEF F
  <2>3. [c \in 1..n |-> F[c]] = [c \in 1..n |-> FlattenSeq(p[c])]
    BY <2>2
  <2>4. QED BY <2>3 DEF Text
<1>5. F[n + 1] = FlattenSeq(p[n + 1])
  <2>1. n + 1 \in 1..n + 1
    OBVIOUS
  <2>2. QED BY <2>1
<1> HIDE DEF F
<1>6. Text(p, n + 1) = Text(p, n) \o FlattenSeq(p[n + 1])
  BY <1>2, <1>3, <1>4, <1>5, FlattenMore
<1>7. Text(p, n) \in Seq(Chars)
  <2>1. [c \in 1..n |-> F[c]] \in Seq(Seq(Chars))
    BY <1>2
  <2>2. QED BY <1>4, <2>1, FlattenType
<1>8. Text(p, n + 1) \in Seq(Chars)
  <2>1. [c \in 1..n + 1 |-> F[c]] \in Seq(Seq(Chars))
    BY <1>2
  <2>2. QED BY <1>3, <2>1, FlattenType
<1>9. QED BY <1>6, <1>7, <1>8

\* Texts are joined in any grouping.
LEMMA Associates == \A s, t, u \in Seq(Chars) : (s \o t) \o u = s \o (t \o u)
BY ConcatAssociative

\* Reading a program character by character, write by write and call by call.
LEMMA JoinedMore ==
    ASSUME NEW p \in Seq(Calls), NEW c \in 1..Len(p), NEW w \in 1..Len(p[c])
    PROVE  /\ Joined(p, c, 1, 1) = Text(p, c - 1)
           /\ \A k \in 1..Len(p[c][w]) : Joined(p, c, w, k + 1) = Append(Joined(p, c, w, k), p[c][w][k])
           /\ \A k \in 1..Len(p[c][w]) + 1 : Joined(p, c, w, k) \in Seq(Chars)
           /\ w # Len(p[c]) => Joined(p, c, w + 1, 1) = Joined(p, c, w, Len(p[c][w]) + 1)
           /\ w = Len(p[c]) => Text(p, c) = Joined(p, c, w, Len(p[c][w]) + 1)
<1>1. PICK q \in Seq(Seq(Chars)) : q = p[c] /\ Len(q) >= 1
  <2>1. p[c] \in Calls
    OBVIOUS
  <2>2. p[c] \in Seq(Seq(Chars)) /\ p[c] # <<>>
    BY <2>1 DEF Calls
  <2>3. QED BY <2>2
<1>2. PICK d \in Seq(Chars) : d = p[c][w] /\ Len(d) \in Nat
  BY <1>1
<1>3. w \in 1..Len(q) /\ Len(q) \in Nat /\ w \in Nat /\ d = q[w] /\ c \in Nat /\ Len(p) \in Nat
  BY <1>1, <1>2
<1>4. PICK a \in Seq(Chars) : a = Text(p, c - 1)
  <2>1. PICK n \in Nat : n = c - 1
    OBVIOUS
  <2>2. n + 1 \in 1..Len(p)
    BY <2>1
  <2>3. Text(p, n) \in Seq(Chars)
    BY <2>2, TextMore
  <2>4. QED BY <2>1, <2>3
<1>5. \A v \in 0..Len(q) : SubSeq(q, 1, v) \in Seq(Seq(Chars)) /\ FlattenSeq(SubSeq(q, 1, v)) \in Seq(Chars)
  <2>1. \A v \in 0..Len(q) : SubSeq(q, 1, v) \in Seq(Seq(Chars))
    BY Parts
  <2>2. QED BY <2>1, FlattenType
<1>6. PICK b \in Seq(Chars) : b = FlattenSeq(SubSeq(q, 1, w - 1))
  <2>1. w - 1 \in 0..Len(q)
    BY <1>3
  <2>2. QED BY <1>5, <2>1
<1>7. PICK e \in Seq(Chars) : e = a \o b
  BY ConcatProperties
<1>8. \A k \in 0..Len(d) : SubSeq(d, 1, k) \in Seq(Chars)
  BY Parts
<1>9. \A k : Joined(p, c, w, k) = e \o SubSeq(d, 1, k - 1)
  BY <1>1, <1>2, <1>4, <1>6, <1>7 DEF Joined
<1>10. Joined(p, c, 1, 1) = Text(p, c - 1)
  <2>1. SubSeq(q, 1, 1 - 1) = <<>> /\ SubSeq(p[c][1], 1, 1 - 1) = <<>>
    BY SubSeqEmpty
  <2>2. Joined(p, c, 1, 1) = (a \o FlattenSeq(<<>>)) \o <<>>
    BY <1>1, <1>4, <2>1 DEF Joined
  <2>3. a \o <<>> = a /\ FlattenSeq(<<>>) = <<>>
    BY ConcatEmptySeq, FlattenNone
  <2>4. QED BY <1>4, <2>2, <2>3
<1>11. ASSUME NEW k \in 1..Len(p[c][w]) PROVE Joined(p, c, w, k + 1) = Append(Joined(p, c, w, k), p[c][w][k])
  <2>1. k \in 1..Len(d) /\ 1 \in 1..Len(d) /\ k - 1 \in 0..Len(d) /\ (k + 1) - 1 = k
    BY <1>2
  <2>2. SubSeq(d, 1, k) = SubSeq(d, 1, k - 1) \o <<d[k]>>
    BY <2>1, SubSeqRecursiveSecond
  <2>3. PICK f \in Seq(Chars) : f = SubSeq(d, 1, k - 1)
    BY <1>8, <2>1
  <2>0. d[k] \in Chars
    BY <2>1, ElementOfSeq
  <2>4. PICK g \in Seq(Chars) : g = <<d[k]>>
    <3>1. <<d[k]>> \in Seq(Chars)
      BY <2>0
    <3>2. QED BY <3>1, Zenon
  <2>5. (e \o f) \o g = e \o (f \o g)
    BY Associates, Zenon
  <2>6. e \o f \in Seq(Chars)
    BY ConcatProperties
  <2>7. (e \o f) \o <<d[k]>> = Append(e \o f, d[k])
    BY <2>0, <2>6, AppendIsConcat
  <2>8. Joined(p, c, w, k) = e \o f
    BY <1>9, <2>3
  <2>9. Joined(p, c, w, k + 1) = e \o (f \o g)
    BY <1>9, <2>1, <2>2, <2>3, <2>4
  <2>10. QED BY <1>2, <2>4, <2>5, <2>7, <2>8, <2>9
<1>12. ASSUME NEW k \in 1..Len(p[c][w]) + 1 PROVE Joined(p, c, w, k) \in Seq(Chars)
  <2>1. k - 1 \in 0..Len(d)
    BY <1>2
  <2>2. PICK f \in Seq(Chars) : f = SubSeq(d, 1, k - 1)
    BY <1>8, <2>1
  <2>3. e \o f \in Seq(Chars)
    BY ConcatProperties
  <2>4. QED BY <1>9, <2>2, <2>3
<1>13. Joined(p, c, w, Len(p[c][w]) + 1) = a \o FlattenSeq(SubSeq(q, 1, w))
  <2>1. Joined(p, c, w, Len(d) + 1) = e \o d
    <3>1. (Len(d) + 1) - 1 = Len(d)
      BY <1>2
    <3>2. SubSeq(d, 1, Len(d)) = d
      BY SubSeqFull
    <3>3. Joined(p, c, w, Len(d) + 1) = e \o SubSeq(d, 1, (Len(d) + 1) - 1)
      BY <1>9
    <3>4. QED BY <3>1, <3>2, <3>3
  <2>2. FlattenSeq(SubSeq(q, 1, w)) = b \o d
    <3>1. w - 1 \in 0..Len(q) /\ w \in 1..Len(q) /\ 1 \in 1..Len(q)
      BY <1>3
    <3>2. PICK r \in Seq(Seq(Chars)) : r = SubSeq(q, 1, w - 1)
      BY <1>5, <3>1
    <3>3. SubSeq(q, 1, w) = r \o <<q[w]>>
      BY <3>1, <3>2, SubSeqRecursiveSecond
    <3>4. r \o <<d>> = Append(r, d)
      BY AppendIsConcat
    <3>5. FlattenSeq(Append(r, d)) = FlattenSeq(r) \o d
      BY FlattenAppend
    <3>6. QED BY <1>3, <1>6, <3>2, <3>3, <3>4, <3>5
  <2>3. e \o d = a \o (b \o d)
    <3>1. (a \o b) \o d = a \o (b \o d)
      BY Associates
    <3>2. QED BY <1>7, <3>1
  <2>4. QED BY <1>2, <2>1, <2>2, <2>3
<1>14. ASSUME w # Len(p[c]) PROVE Joined(p, c, w + 1, 1) = Joined(p, c, w, Len(p[c][w]) + 1)
  <2>1. (w + 1) - 1 = w /\ w \in 0..Len(q)
    BY <1>3
  <2>2. SubSeq(p[c][w + 1], 1, 1 - 1) = <<>>
    BY SubSeqEmpty
  <2>3. Joined(p, c, w + 1, 1) = (a \o FlattenSeq(SubSeq(q, 1, w))) \o <<>>
    BY <1>1, <1>4, <2>1, <2>2 DEF Joined
  <2>4. PICK f \in Seq(Chars) : f = FlattenSeq(SubSeq(q, 1, w))
    BY <1>5, <2>1
  <2>5. a \o f \in Seq(Chars)
    BY ConcatProperties
  <2>6. (a \o f) \o <<>> = a \o f
    BY <2>5, ConcatEmptySeq
  <2>7. QED BY <1>13, <2>3, <2>4, <2>6
<1>15. ASSUME w = Len(p[c]) PROVE Text(p, c) = Joined(p, c, w, Len(p[c][w]) + 1)
  <2>1. PICK n \in Nat : n = c - 1 /\ n + 1 = c
    BY <1>3
  <2>2. n + 1 \in 1..Len(p)
    BY <2>1
  <2>3. Text(p, n + 1) = Text(p, n) \o FlattenSeq(p[n + 1])
    BY <2>2, TextMore
  <2>4. SubSeq(q, 1, w) = q
    BY <1>1, <1>15, SubSeqFull
  <2>5. QED BY <1>1, <1>4, <1>13, <2>1, <2>3, <2>4
<1>16. QED BY <1>10, <1>11, <1>12, <1>14, <1>15

\* No other thread has printed.
Alone(t) == \A u \in Threads \ {t} : at[u] = Start /\ doing[u] = "idle"

\* What the log has read of t.
Said(t) ==
    IF doing[t] \in Busy THEN Joined(prog[t], at[t].call, at[t].write, at[t].char) ELSE Text(prog[t], at[t].call)

\* As long as t is alone, the file and the buffer are the lines and the last part of what the log
\* has read of t; a line that is written but not taken back is not read yet.
SoloInv(t) ==
    /\ doing[t] = "terminal" => at[t].char = 1
    /\ Alone(t) /\ doing[t] \notin Closing =>
          /\ pending = LastPart(Said(t), Len(Said(t)) + 1)
          /\ log = Lines(IF doing[t] = "flush" THEN Append(Said(t), NL) ELSE Said(t))

\* The step of another thread ends the solitude of t.
LEMMA NotAlone ==
    ASSUME TeeInv, NEW t \in Threads, NEW u \in Threads \ {t}, Advance(u)
    PROVE  ~Alone(t)'
<1>1. at'[u].call \in Nat /\ at'[u].call >= 1
  <2>1. at = [v \in Threads |-> at[v]] /\ at[u].call \in Nat
        /\ at[u] = [call |-> at[u].call, write |-> at[u].write, char |-> at[u].char]
    BY Stepping
  <2>2. CASE Begin(u)
    BY <2>1, <2>2 DEF Begin
  <2>3. CASE ~Begin(u)
    <3>1. doing[u] \in Busy
      BY <2>3 DEF Advance, ToTerminal, Type, WriteLine, TakeLine, RaiseClosed, EndData, EndWrite, Busy
    <3>2. at[u].call >= 1
      BY <3>1, BusyData, <2>1
    <3>3. at'[u].call = at[u].call
      BY <2>1, <2>3 DEF Advance, ToTerminal, Type, WriteLine, TakeLine, RaiseClosed, EndData, EndWrite
    <3>4. QED BY <2>1, <3>2, <3>3
  <2>4. QED BY <2>2, <2>3
<1>2. at'[u] # Start
  BY <1>1 DEF Start
<1>3. QED BY <1>2 DEF Alone

\* A write begins with its first character.
LEMMA TerminalFresh ==
    ASSUME TeeInv, NEW t \in Threads, Advance(t)
    PROVE  doing'[t] = "terminal" => at'[t].char = 1
<1> USE AfterOrder
<1>1. /\ at = [u \in Threads |-> at[u]] /\ doing = [u \in Threads |-> doing[u]]
      /\ at[t] = [call |-> at[t].call, write |-> at[t].write, char |-> at[t].char]
  BY Stepping
<1>2. CASE Begin(t) \/ EndWrite(t)
  <2>1. CASE Begin(t)
    BY <1>1, <2>1 DEF Begin
  <2>2. CASE EndWrite(t) /\ at[t].write = Len(Call(t))
    BY <1>1, <2>2 DEF EndWrite, Goto
  <2>3. CASE EndWrite(t) /\ at[t].write # Len(Call(t))
    BY <1>1, <2>3 DEF EndWrite
  <2>4. QED BY <1>2, <2>1, <2>2, <2>3
<1>3. CASE ToTerminal(t) \/ Type(t) \/ WriteLine(t) \/ TakeLine(t) \/ RaiseClosed(t) \/ EndData(t)
  <2>1. doing'[t] # "terminal"
    BY <1>1, <1>3 DEF ToTerminal, Type, WriteLine, TakeLine, RaiseClosed, EndData, Goto
  <2>2. QED BY <2>1
<1>4. QED BY <1>2, <1>3 DEF Advance

\* The step of a thread that is alone.
LEMMA SoloStep ==
    ASSUME TeeInv, NEW t \in Threads, SoloInv(t), EndsInv(t), Alone(t), installed, Advance(t)
    PROVE  SoloInv(t)'
<1> USE AfterOrder
<1>0. /\ at = [u \in Threads |-> at[u]] /\ doing = [u \in Threads |-> doing[u]]
      /\ at[t] = [call |-> at[t].call, write |-> at[t].write, char |-> at[t].char]
      /\ at[t].call \in Nat /\ Len(prog[t]) \in Nat
      /\ doing[t] \in Busy \cup {"idle"} /\ doing[t] \notin Closing
      /\ log \in Seq(Seq(Chars)) /\ pending \in Seq(Chars) /\ open
      /\ teed \in [Threads -> BOOLEAN] /\ prog \in Programs
  BY Stepping, AdvanceOnly DEF TeeInv, TeeShape, Busy, Closing
<1>1. PICK p \in Seq(Calls) : p = prog[t] /\ p = prog'[t]
  BY <1>0, ProgramsAre, AdvanceOnly DEF Only
<1>2. /\ pending = LastPart(Said(t), Len(Said(t)) + 1)
      /\ log = Lines(IF doing[t] = "flush" THEN Append(Said(t), NL) ELSE Said(t))
  BY <1>0 DEF SoloInv
<1>3. SUFFICES /\ doing'[t] = "terminal" => at'[t].char = 1
               /\ pending' = LastPart(Said(t)', Len(Said(t)') + 1)
               /\ log' = Lines(IF doing'[t] = "flush" THEN Append(Said(t)', NL) ELSE Said(t)')
  BY DEF SoloInv
<1>4. doing[t] \in Busy => Said(t) = Joined(p, at[t].call, at[t].write, at[t].char)
  BY <1>1 DEF Said
<1>5. doing[t] = "idle" => Said(t) = Text(p, at[t].call)
  BY <1>1 DEF Said, Busy
<1>6. doing'[t] \in Busy => Said(t)' = Joined(p, at'[t].call, at'[t].write, at'[t].char)
  BY <1>1 DEF Said
<1>7. doing'[t] = "idle" => Said(t)' = Text(p, at'[t].call)
  BY <1>1 DEF Said, Busy
<1>8. CASE Begin(t)
  <2>1. /\ doing[t] = "idle" /\ at[t].call < Len(p) /\ doing'[t] = "terminal"
        /\ at'[t].call = at[t].call + 1 /\ at'[t].write = 1 /\ at'[t].char = 1
        /\ pending' = pending /\ log' = log
    BY <1>0, <1>1, <1>8 DEF Begin, Goto, files
  <2>2. PICK c \in 1..Len(p) : c = at[t].call + 1 /\ c - 1 = at[t].call
    BY <1>0, <1>1, <2>1
  <2>3. 1 \in 1..Len(p[c])
    <3>1. p[c] \in Calls
      OBVIOUS
    <3>2. p[c] \in Seq(Seq(Chars)) /\ p[c] # <<>>
      BY <3>1 DEF Calls
    <3>3. QED BY <3>2
  <2>4. Joined(p, c, 1, 1) = Text(p, c - 1)
    BY <2>3, JoinedMore
  <2>5. Said(t)' = Said(t)
    BY <1>5, <1>6, <2>1, <2>2, <2>4 DEF Busy
  <2>6. QED BY <1>2, <2>1, <2>5
<1>9. CASE ~Begin(t)
  <2>1. doing[t] \in Busy
    BY <1>9 DEF Advance, ToTerminal, Type, WriteLine, TakeLine, RaiseClosed, EndData, EndWrite, Busy
  <2>2. PICK c \in 1..Len(p) : \E w \in 1..Len(p[c]) :
          /\ c = at[t].call /\ w = at[t].write /\ p[c] = Call(t) /\ p[c][w] = Data(t)
    BY <1>1, <2>1, BusyData DEF Call, Data
  <2>3. PICK w \in 1..Len(p[c]) : c = at[t].call /\ w = at[t].write /\ p[c] = Call(t) /\ p[c][w] = Data(t)
    BY <2>2
  <2>4. PICK k \in 1..Len(p[c][w]) + 1 : k = at[t].char
    BY <2>1, <2>3, BusyData
  <2>5. Said(t) = Joined(p, c, w, k) /\ Said(t) \in Seq(Chars)
    BY <1>4, <2>1, <2>3, <2>4, JoinedMore
  <2>6. PICK s \in Seq(Chars) : s = Said(t)
    BY <2>5
  <2>7. CASE ToTerminal(t) \/ EndData(t)
    <3>1. /\ at' = at /\ pending' = pending /\ log' = log /\ doing'[t] \in Busy
          /\ doing'[t] # "terminal" /\ doing'[t] # "flush" /\ doing[t] # "flush"
      BY <1>0, <2>7 DEF ToTerminal, EndData, Goto, files, Busy
    <3>2. Said(t)' = Said(t)
      BY <1>4, <1>6, <2>1, <3>1
    <3>3. QED BY <1>2, <3>1, <3>2
  <2>8. CASE Type(t)
    <3>1. /\ doing[t] = "log" /\ doing' = doing /\ at'[t].call = c /\ at'[t].write = w /\ at'[t].char = k + 1
          /\ k <= Len(p[c][w]) /\ Char(t) # NL /\ log' = log
          /\ pending' = Typed(pending, Char(t))
      BY <1>0, <2>3, <2>4, <2>8 DEF Type
    <3>2. k \in 1..Len(p[c][w]) /\ Char(t) = p[c][w][k]
      BY <2>3, <2>4, <3>1 DEF Char
    <3>3. Said(t)' = Append(s, Char(t))
      BY <1>6, <2>1, <2>5, <2>6, <3>1, <3>2, JoinedMore
    <3>4. PICK x \in Chars : x = Char(t)
      <4>1. Data(t) \in Seq(Chars)
        BY <2>1, BusyData
      <4>2. QED BY <2>3, <3>2, <4>1
    <3>5. Len(Append(s, x)) + 1 = Len(s) + 2
      OBVIOUS
    <3>6. Lines(Append(s, x)) = Lines(s)
      BY <3>1, <3>4, LinesAppend
    <3>7. LastPart(Append(s, x), Len(s) + 2) = Typed(LastPart(s, Len(s) + 1), x)
      <4>1. CASE x = CR
        BY <4>1, LastPartAppend DEF Typed
      <4>2. CASE x # CR
        BY <3>1, <3>4, <4>2, LastPartAppend DEF Typed
      <4>3. QED BY <4>1, <4>2
    <3>8. pending = LastPart(s, Len(s) + 1) /\ log = Lines(s)
      BY <1>2, <2>6, <3>1
    <3>9. QED BY <3>1, <3>3, <3>4, <3>5, <3>6, <3>7, <3>8
  <2>9. CASE WriteLine(t)
    <3>1. doing[t] = "log" /\ doing'[t] = "flush" /\ at' = at /\ pending' = pending /\ log' = Append(log, pending) /\ Char(t) = NL
      BY <1>0, <2>9 DEF WriteLine, Goto
    <3>2. Said(t)' = s
      BY <1>4, <1>6, <2>1, <2>6, <3>1 DEF Busy
    <3>3. NL \in Chars
      <4>1. Data(t) \in Seq(Chars) /\ at[t].char \in 1..Len(Data(t))
        <5>1. at[t].char <= Len(Data(t))
          BY <2>9 DEF WriteLine
        <5>2. Data(t) \in Seq(Chars) /\ Len(Data(t)) \in Nat /\ at[t].char \in 1..Len(Data(t)) + 1
          BY <2>1, BusyData
        <5>3. QED BY <5>1, <5>2
      <4>2. Char(t) \in Chars
        BY <4>1 DEF Char
      <4>3. QED BY <3>1, <4>2
    <3>4. Lines(Append(s, NL)) = Append(Lines(s), LastPart(s, Len(s) + 1))
      BY <3>3, LinesAppend
    <3>5. pending = LastPart(s, Len(s) + 1) /\ log = Lines(s)
      BY <1>2, <2>6, <3>1
    <3>6. QED BY <3>1, <3>2, <3>4, <3>5
  <2>10. CASE TakeLine(t)
    <3>1. doing[t] = "flush" /\ doing'[t] = "log" /\ at'[t].call = c /\ at'[t].write = w /\ at'[t].char = k + 1
          /\ log' = log /\ pending' = <<>>
      BY <1>0, <2>3, <2>4, <2>10 DEF TakeLine, Taken, Goto
    <3>2. at[t].char <= Len(Data(t)) /\ Char(t) = NL
      BY <3>1 DEF TeeInv, ThreadInv
    <3>3. Data(t) \in Seq(Chars) /\ Len(Data(t)) \in Nat
      BY <2>1, BusyData
    <3>4. k \in 1..Len(p[c][w]) /\ p[c][w][k] = NL /\ NL \in Chars
      <4>1. k \in 1..Len(p[c][w])
        BY <2>3, <2>4, <3>2, <3>3
      <4>2. p[c][w][k] = NL
        BY <2>3, <2>4, <3>2 DEF Char
      <4>3. p[c][w][k] \in Chars
        BY <2>3, <3>3, <4>1
      <4>4. QED BY <4>1, <4>2, <4>3
    <3>5. Said(t)' = Append(s, NL)
      BY <1>6, <2>5, <2>6, <3>1, <3>4, JoinedMore DEF Busy
    <3>6. LastPart(Append(s, NL), Len(s) + 2) = <<>>
      BY <3>4, LastPartAppend
    <3>7. Len(Append(s, NL)) + 1 = Len(s) + 2
      OBVIOUS
    <3>8. log = Lines(Append(s, NL))
      BY <1>2, <2>6, <3>1
    <3>9. QED BY <3>1, <3>5, <3>6, <3>7, <3>8
  <2>11. CASE RaiseClosed(t)
    BY <1>0, <2>11 DEF RaiseClosed
  <2>12. CASE EndWrite(t)
    <3>1. doing[t] = "end" /\ teed[t] /\ pending' = pending /\ log' = log
      BY <1>0, <2>12 DEF EndWrite, EndsInv, Busy, files
    <3>2. k = Len(p[c][w]) + 1
      BY <2>3, <2>4, <3>1 DEF EndsInv
    <3>3. CASE w = Len(p[c])
      <4>1. at' = at /\ doing'[t] = "idle"
        BY <1>0, <2>3, <2>12, <3>3 DEF EndWrite, Goto
      <4>2. Text(p, c) = Joined(p, c, w, Len(p[c][w]) + 1)
        BY <3>3, JoinedMore
      <4>3. Said(t)' = s
        BY <1>7, <2>3, <2>5, <2>6, <3>2, <4>1, <4>2
      <4>4. QED BY <1>2, <2>6, <3>1, <4>1, <4>3
    <3>4. CASE w # Len(p[c])
      <4>1. at'[t].call = c /\ at'[t].write = w + 1 /\ at'[t].char = 1 /\ doing'[t] = "terminal"
        <5>1. at[t].write # Len(Call(t))
          BY <2>3, <3>4
        <5>2. at' = [at EXCEPT ![t].write = @ + 1, ![t].char = 1] /\ Goto(t, "terminal")
          BY <2>12, <3>1, <5>1 DEF EndWrite
        <5>3. QED BY <1>0, <2>3, <5>2 DEF Goto
      <4>2. Joined(p, c, w + 1, 1) = Joined(p, c, w, Len(p[c][w]) + 1)
        BY <3>4, JoinedMore
      <4>3. Said(t)' = s
        BY <1>6, <2>5, <2>6, <3>2, <4>1, <4>2 DEF Busy
      <4>4. QED BY <1>2, <2>6, <3>1, <4>1, <4>3
    <3>5. QED BY <3>3, <3>4
  <2>13. QED BY <1>9, <2>7, <2>8, <2>9, <2>10, <2>11, <2>12 DEF Advance
<1>10. QED BY <1>8, <1>9

\* Every step keeps what is known of a thread that is alone.
LEMMA SoloKept ==
    TeeInv /\ OrderInv /\ (\A t \in Threads : SoloInv(t)) /\ [TeeNext]_teeVars => (\A t \in Threads : SoloInv(t))'
<1> SUFFICES ASSUME TeeInv, OrderInv, \A t \in Threads : SoloInv(t), [TeeNext]_teeVars, NEW t \in Threads
             PROVE  SoloInv(t)'
  OBVIOUS
<1>0. /\ main \in Threads /\ at = [v \in Threads |-> at[v]] /\ doing = [v \in Threads |-> doing[v]] /\ SoloInv(t)
      /\ doing[main] \in Closing => doing[main] # "idle"
  BY TeeAssumption, Stepping DEF Closing
<1>1. ASSUME NEW u \in Threads, Advance(u) PROVE SoloInv(t)'
  <2>0. /\ prog' = prog /\ \A v \in Threads \ {u} : Stays(v)
        /\ doing[u] \in Busy \cup {"idle"}
    BY <1>1, AdvanceOnly DEF Only
  <2>1. CASE u = t /\ Alone(t)
    <3>1. doing[main] \notin Closing
      BY <1>0, <2>0, <2>1 DEF Alone, Busy, Closing
    <3>2. installed
      BY <3>1 DEF TeeInv
    <3>3. EndsInv(t)
      BY <3>2 DEF OrderInv
    <3>4. QED BY <1>0, <1>1, <2>1, <3>2, <3>3, SoloStep
  <2>2. CASE u = t /\ ~Alone(t)
    <3>1. ~Alone(t)'
      BY <2>0, <2>2 DEF Alone, Stays
    <3>2. doing'[t] = "terminal" => at'[t].char = 1
      BY <1>1, <2>2, TerminalFresh
    <3>3. QED BY <3>1, <3>2 DEF SoloInv
  <2>3. CASE u # t
    <3>1. ~Alone(t)'
      BY <1>1, <2>3, NotAlone
    <3>2. doing'[t] = doing[t] /\ at'[t] = at[t]
      BY <2>0, <2>3 DEF Stays
    <3>3. QED BY <1>0, <3>1, <3>2 DEF SoloInv
  <2>4. QED BY <2>1, <2>2, <2>3
<1>2. CASE EndTee
  <2>1. at' = at /\ doing'[main] \in Closing /\ \A v \in Threads \ {main} : doing'[v] = doing[v]
    BY <1>0, <1>2 DEF EndTee, Restore, CheckLeftOver, WriteLeftOver, TakeLeftOver, CloseLog, BreakEnding, Goto, Closing
  <2>2. CASE t = main
    BY <2>1, <2>2 DEF SoloInv, Closing
  <2>3. CASE t # main
    <3>1. ~Alone(t)'
      BY <1>0, <2>1, <2>3 DEF Alone, Closing
    <3>2. QED BY <1>0, <2>1, <2>3, <3>1 DEF SoloInv
  <2>4. QED BY <2>2, <2>3
<1>3. CASE UNCHANGED teeVars
  BY <1>0, <1>3 DEF SoloInv, Alone, Said, teeVars
<1>4. QED BY <1>1, <1>2, <1>3 DEF TeeNext, Terminated

\* It holds at the start: nothing has been printed.
LEMMA SoloInit == TeeInit => \A t \in Threads : SoloInv(t)
<1> SUFFICES ASSUME TeeInit, NEW t \in Threads PROVE SoloInv(t)
  OBVIOUS
<1>1. doing[t] = "idle" /\ at[t].call = 0 /\ pending = <<>> /\ log = <<>>
  BY DEF TeeInit, Start
<1>2. Text(prog[t], 0) = <<>>
  <2>1. [c \in 1..0 |-> FlattenSeq(prog[t][c])] = <<>>
    OBVIOUS
  <2>2. QED BY <2>1, FlattenNone DEF Text
<1>3. Said(t) = <<>>
  BY <1>1, <1>2 DEF Said, Busy
<1>4. Lines(<<>>) = <<>> /\ LastPart(<<>>, 1) = <<>>
  BY NoText
<1>5. Len(<<>>) + 1 = 1
  OBVIOUS
<1>6. QED BY <1>1, <1>3, <1>4, <1>5 DEF SoloInv

\* While one thread alone has printed the log is what a terminal would show of it, line by
\* line (logfile.py:36-46): SoloLogExact.
THEOREM SoloLogIsExact == TeeSpec => []SoloLogExact
<1> DEFINE I == \A t \in Threads : SoloInv(t)
<1>1. TeeSpec => []TeeInv
  BY TeeInvariance
<1>2. TeeSpec => []OrderInv
  BY OrderInvariance
<1>3. TeeInit => I
  BY SoloInit
<1>4. TeeInv /\ OrderInv /\ I /\ [TeeNext]_teeVars => I'
  BY SoloKept
<1>5. I => SoloLogExact
  <2> SUFFICES ASSUME I, NEW t \in Threads, doing[t] = "idle", \A u \in Threads \ {t} : at[u] = Start /\ doing[u] = "idle"
               PROVE  log = Lines(Stream(t)) /\ pending = LastPart(Stream(t), Len(Stream(t)) + 1)
    BY DEF SoloLogExact
  <2>1. Alone(t) /\ SoloInv(t)
    BY DEF Alone
  <2>2. Said(t) = Stream(t)
    BY DEF Said, Stream, Text, Busy
  <2>3. QED BY <2>1, <2>2 DEF SoloInv, Closing
<1> HIDE DEF I
<1>6. QED BY <1>1, <1>2, <1>3, <1>4, <1>5, PTL DEF TeeSpec
-----------------------------------------------------------------------------
(* OutputFile. *)

USE OutputAssumption

\* What each process knows of its own temporary file.
TempInv ==
    /\ \A p \in Procs : pc[p] = "closed" => tmp[p] = Doc(p, Length)
    /\ \A p \in Procs : pc[p] = "writing" => tmp[p].by = p
    /\ \A p \in Procs : pc[p] \in {"idle", "ok", "failed", "moved"} => tmp[p] = Missing

\* The inductive invariant.
Inv == TypeOK /\ TempInv

\* Init gives the inductive invariant.
LEMMA InitInv == Init => Inv
<1> SUFFICES ASSUME Init PROVE Inv
  OBVIOUS
<1>1. Missing \in Docs /\ Doc(Nobody, Length) \in Docs
  BY DEF Docs, Doc, Missing
<1>2. TypeOK
  <2>1. synced \in BOOLEAN /\ torn \in BOOLEAN
    BY Zenon DEF Init
  <2>2. target \in Docs /\ disk \in Docs /\ tmp \in [Procs -> Docs]
    BY <1>1, Zenon DEF Init
  <2>3. pc \in [Procs -> PCs] /\ runs \in [Procs -> 0..MaxRuns]
    <3>1. runs = [p \in Procs |-> 0] /\ pc = [p \in Procs |-> "idle"]
      BY Zenon DEF Init
    <3>2. QED BY <3>1 DEF PCs
  <2>4. QED BY <2>1, <2>2, <2>3, Zenon DEF TypeOK
<1>3. TempInv
  BY DEF Init, TempInv
<1>4. QED BY <1>2, <1>3 DEF Inv

\* Every step of open_output, every kill and every power loss keeps it.
LEMMA StepInv == ASSUME Inv, [Next]_vars PROVE Inv'
<1> USE DEF Inv, Temp
<1>0. Missing \in Docs
  BY DEF Missing, Docs, Doc
<1>1. ASSUME NEW p \in Procs, Open(p) PROVE Inv'
  <2>1. runs' \in [Procs -> 0..MaxRuns]
    BY <1>1 DEF Open, TypeOK
  <2>2. tmp' \in [Procs -> Docs]
    BY <1>1 DEF Open, TypeOK, Docs, Doc
  <2>3. pc' \in [Procs -> PCs]
    BY <1>1 DEF Open, TypeOK, PCs, Active
  <2>4. TempInv'
    BY <1>1 DEF Open, TypeOK, TempInv, Doc
  <2>5. QED
    BY <1>1, <2>1, <2>2, <2>3, <2>4 DEF Open, TypeOK
<1>2. ASSUME NEW p \in Procs, Write(p) PROVE Inv'
  <2>1. tmp[p] \in Docs /\ tmp[p].len \in 0..Length /\ tmp[p].len < Length
    BY <1>2 DEF Write, MoreParts, TypeOK, Docs
  <2>2. Doc(p, tmp[p].len + 1) \in Docs /\ Doc(p, tmp[p].len + 1).by = p
    BY <2>1 DEF Docs, Doc
  <2>3. tmp' = [tmp EXCEPT ![p] = Doc(p, tmp[p].len + 1)]
    BY <1>2 DEF Write
  <2>4. UNCHANGED <<pc, target, disk, synced, torn, runs>> /\ pc[p] = "writing"
    BY <1>2 DEF Write
  <2>5. TypeOK'
    BY <2>2, <2>3, <2>4 DEF TypeOK
  <2>6. TempInv'
    BY <2>2, <2>3, <2>4 DEF TypeOK, TempInv
  <2>7. QED BY <2>5, <2>6
<1>3. ASSUME NEW p \in Procs, Close(p) PROVE Inv'
  <2>1. tmp[p] \in Docs /\ tmp[p].by = p /\ tmp[p].len = Length
    BY <1>3 DEF Close, LeavesClean, Whole, TypeOK, TempInv
  <2>2. tmp[p] = Doc(p, Length)
    BY <2>1 DEF Docs, Doc
  <2>3. pc' = [pc EXCEPT ![p] = "closed"] /\ UNCHANGED <<target, tmp, disk, synced, torn, runs>>
    BY <1>3 DEF Close
  <2>4. TypeOK'
    BY <2>3 DEF TypeOK, PCs, Active
  <2>5. TempInv'
    BY <2>2, <2>3 DEF TypeOK, TempInv
  <2>6. QED BY <2>4, <2>5
<1>4. ASSUME NEW p \in Procs, Replace(p) PROVE Inv'
  <2>1. TypeOK'
    BY <1>4, <1>0 DEF Replace, TypeOK, PCs, Active
  <2>2. TempInv'
    BY <1>4 DEF Replace, TypeOK, TempInv
  <2>3. QED BY <2>1, <2>2
<1>5. ASSUME NEW p \in Procs, Raise(p) PROVE Inv'
  BY <1>5 DEF Raise, TypeOK, TempInv, PCs, Active
<1>6. ASSUME NEW p \in Procs, Unlink(p) PROVE Inv'
  <2>1. TypeOK'
    BY <1>6, <1>0 DEF Unlink, Unlinked, TypeOK, PCs, Active
  <2>2. TempInv'
    BY <1>6 DEF Unlink, Unlinked, TypeOK, TempInv
  <2>3. QED BY <2>1, <2>2
<1>7. ASSUME NEW p \in Procs, Kill(p) PROVE Inv'
  BY <1>7 DEF Kill, TypeOK, TempInv, PCs
<1>8. ASSUME NEW p \in Procs, Abort(p) PROVE Inv'
  <2>1. TypeOK'
    BY <1>8 DEF Abort, TypeOK, PCs, Active
  <2>2. TempInv'
    BY <1>8 DEF Abort, TypeOK, TempInv
  <2>3. QED BY <2>1, <2>2
<1>9. CASE Sync
  BY <1>9 DEF Sync, TypeOK, TempInv
<1>10. CASE PowerLoss
  <2>1. target' \in Docs
    BY <1>10 DEF PowerLoss, TypeOK, Docs
  <2>2. tmp' \in [Procs -> Docs]
    BY <1>0, <1>10 DEF PowerLoss, Docs
  <2>3. TypeOK'
    BY <1>10, <2>1, <2>2 DEF PowerLoss, TypeOK, PCs, Active
  <2>4. TempInv'
    BY <1>10 DEF PowerLoss, TypeOK, TempInv
  <2>5. QED BY <2>3, <2>4
<1>11. CASE UNCHANGED vars
  BY <1>11 DEF vars, TypeOK, TempInv
<1>12. QED
  BY <1>1, <1>2, <1>3, <1>4, <1>5, <1>6, <1>7, <1>8, <1>9, <1>10, <1>11 DEF Next

\* The inductive invariant holds always.
LEMMA Invariance == Spec => []Inv
BY InitInv, StepInv, PTL DEF Spec

\* TypeOK of OutputFile: at the path and in a temporary file is nothing but a document of some
\* writer, no longer than the whole, or none (io.py:42-57).
THEOREM OutputTypeCorrect == Spec => []TypeOK
<1>1. Inv => TypeOK
  BY DEF Inv
<1>2. QED BY <1>1, Invariance, PTL

\* A step changes the target only by moving a finished document there, or by losing
\* one that was not on disk yet.
LEMMA TargetStep ==
    ASSUME Inv, [Next]_vars, target' # target
    PROVE  \/ \E p \in Procs : pc[p] = "closed" /\ pc'[p] = "moved" /\ target' = Doc(p, Length)
           \/ ~synced /\ torn' /\ target'.by \in {target.by, disk.by}
<1>1. CASE \E p \in Procs : Replace(p)
  <2>1. PICK p \in Procs : Replace(p)
    BY <1>1
  <2>2. QED
    BY <2>1 DEF Inv, TypeOK, TempInv, Replace, Temp
<1>2. CASE PowerLoss
  <2>1. ~synced /\ torn'
    BY <1>2 DEF PowerLoss
  <2>2. target'.by \in {target.by, disk.by}
    BY <1>2 DEF PowerLoss, Inv, TypeOK, Docs
  <2>3. QED BY <2>1, <2>2
<1>3. QED
  BY <1>1, <1>2 DEF Next, vars, Open, Write, Close, Raise, Unlink, Abort, Kill, Sync

\* OnlyFinishedReplace: failing, killed and overlapping writers never disturb the
\* document at the path.
THEOREM OnlyFinishedDocumentsAppear == Spec => OnlyFinishedReplace
<1>1. Inv /\ [Next]_vars =>
        [target' # target =>
          \/ \E p \in Procs : pc[p] = "closed" /\ pc'[p] = "moved" /\ target' = Doc(p, Length)
          \/ ~synced /\ torn' /\ target'.by \in {target.by, disk.by}]_vars
  BY TargetStep
<1>2. QED
  BY <1>1, Invariance, PTL DEF Spec, OnlyFinishedReplace

\* Once torn, the target stays so until a finished document replaces it.
LEMMA StaysTorn ==
    ASSUME Inv, [Next]_vars, torn, ~torn'
    PROVE  \E p \in Procs : Replace(p)
BY DEF Next, vars, Open, Write, Close, Raise, Unlink, Abort, Kill, Sync, PowerLoss

\* TargetWhole: a reader always finds a whole document, or one a power loss tore.
THEOREM ReadersFindWholeDocuments == Spec => []TargetWhole
<1>1. Init => TargetWhole
  BY DEF Init, TargetWhole, Whole, Doc
<1>2. ASSUME Inv, TargetWhole, [Next]_vars PROVE TargetWhole'
  <2>1. CASE \E p \in Procs : Replace(p)
    <3>1. PICK p \in Procs : pc[p] = "closed" /\ target' = tmp[p]
      BY <2>1, Zenon DEF Replace, Temp
    <3>2. target' = Doc(p, Length)
      BY <1>2, <3>1 DEF Inv, TempInv
    <3>3. QED
      BY <3>2 DEF TargetWhole, Whole, Doc
  <2>2. CASE target' = target /\ ~\E p \in Procs : Replace(p)
    BY <1>2, <2>2, StaysTorn DEF TargetWhole, Whole
  <2>3. CASE target' # target /\ ~\E p \in Procs : Replace(p)
    <3>1. PowerLoss
      BY <1>2, <2>3 DEF Next, vars, Open, Write, Close, Raise, Unlink, Abort, Kill, Sync
    <3>2. QED
      BY <2>3, <3>1 DEF PowerLoss, TargetWhole
  <2>4. QED BY <2>1, <2>2, <2>3
<1>3. QED
  BY <1>1, <1>2, Invariance, PTL DEF Spec

\* NoLitter: a run that ends by itself leaves no temporary file behind, its own or an
\* earlier one with its pid.  Left behind is one only by a kill, a power loss, or a second
\* signal or error in the clean-up.
THEOREM NothingLeftBehind == Spec => []NoLitter
<1>1. Inv => NoLitter
  BY DEF Inv, TempInv, NoLitter
<1>2. QED BY <1>1, Invariance, PTL
=============================================================================
