------------------------------ MODULE MCLogTee ------------------------------
(* LogTee for TLC: a main thread and a lookup thread, with texts of their own. *)
EXTENDS LogTee

MCChars == {"10%", "20%", "50%", "done", "saved", "head", "tail", "warning", "timeout", CR, NL}

Line(text) == << <<text>>, <<NL>> >>
Bar(text) == << <<CR, text>> >>

\* Three redraws of a bar, its end and a line; nothing else prints.
Redraws == <<Bar("10%"), Bar("20%"), << <<CR, "done", NL>> >>, Line("saved")>>
\* A bar that is still unfinished when the run ends, after a line of two parts.
Unfinished == << << <<"head">>, <<"tail", NL>> >>, Bar("50%")>>

MCPrograms ==
    {[main |-> Redraws, worker |-> <<>>],
     [main |-> Unfinished, worker |-> <<Line("warning")>>],
     [main |-> <<Bar("50%"), Line("saved")>>, worker |-> <<Line("warning"), Line("timeout")>>]}
=============================================================================
