-------------------------- MODULE ResolveContract --------------------------
(***************************************************************************)
(* What Resolver.resolve promises its caller, without threads, cache or    *)
(* interrupts: answers for keys become known one at a time, in any order,  *)
(* and the target file changes at most once - to the input frame with the  *)
(* known answers written into the rows that asked for them.  A normal      *)
(* finish publishes only when every key is answered; an interrupted run    *)
(* publishes what is known.  A failure before that leaves the file as it   *)
(* was; one after it (a signal between the move into place and the return) *)
(* leaves what was published, which no return value reports.               *)
(***************************************************************************)
EXTENDS ResolveFrame

VARIABLES
    input,   \* the frame that was read
    known,   \* known[k]: the answer for key k, or Unknown
    file,    \* what is at the output path
    status   \* "running", "published", "salvaged", or how it ended: "complete", "partial", "failed"

cvars == <<input, known, file, status>>

CInit ==
    /\ input \in [Rows -> [Columns -> {Blank, Given}]]
    /\ known = [k \in Keys |-> Unknown]
    /\ file = Before
    /\ status = "running"

Learn(k) ==
    /\ status = "running"
    /\ k \in KeysToEnrich(input)
    /\ known[k] = Unknown
    /\ \E a \in AnswersOf(k) : known' = [known EXCEPT ![k] = a]
    /\ UNCHANGED <<input, file, status>>

Publish ==
    /\ status = "running"
    /\ \A k \in KeysToEnrich(input) : known[k] # Unknown
    /\ file' = Applied(input, known)
    /\ status' = "published"
    /\ UNCHANGED <<input, known>>

Salvage ==
    /\ status = "running"
    /\ file' = Applied(input, known)
    /\ status' = "salvaged"
    /\ UNCHANGED <<input, known>>

Finish ==
    /\ status \in {"published", "salvaged"}
    /\ status' = IF status = "published" THEN "complete" ELSE "partial"
    /\ UNCHANGED <<input, known, file>>

Fail ==
    /\ status \in {"running", "published", "salvaged"}
    /\ status' = "failed"
    /\ UNCHANGED <<input, known, file>>

CNext == (\E k \in Keys : Learn(k)) \/ Publish \/ Salvage \/ Finish \/ Fail

CSpec == CInit /\ [][CNext]_cvars
=============================================================================
