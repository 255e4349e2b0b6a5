----------------------------- MODULE OutputFile -----------------------------
(***************************************************************************)
(* io.py: open_output on a file path.  Several processes (overlapping cron *)
(* runs, a resumed run, a process that was killed and its successor with   *)
(* the same pid) write the same target, each through a temporary file of   *)
(* its own next to it.                                                     *)
(***************************************************************************)
EXTENDS Naturals

CONSTANTS
    Procs,      \* pids of the writing processes
    Length,     \* parts a whole document is written in
    Nobody,     \* the author of what was at the target before
    MaxRuns     \* bound: runs of each process

ASSUME OutputAssumption ==
    /\ Length \in Nat \ {0}
    /\ Nobody \notin Procs
    /\ MaxRuns \in Nat

VARIABLES
    pc,         \* where each process is in open_output
    target,     \* what is at the path
    tmp,        \* the temporary file of each process
    disk,       \* the last target known to be on disk
    synced,     \* whether the data of the target has reached the disk
    torn,       \* whether a power loss hit the target before it was on disk
    runs        \* runs each process has started

vars == <<pc, target, tmp, disk, synced, torn, runs>>

\* A document: who wrote it and how many of its parts are there.
Docs == [by : Procs \cup {Nobody}, len : 0..Length]
Doc(p, n) == [by |-> p, len |-> n]
Whole(d) == d.len = Length
Missing == Doc(Nobody, 0)

Active == {"writing", "closed", "moved", "unwinding"}
PCs == Active \cup {"idle", "ok", "failed", "aborted", "killed", "lost"}

Init ==
    /\ pc = [p \in Procs |-> "idle"]
    /\ target = Doc(Nobody, Length)
    /\ tmp = [p \in Procs |-> Missing]
    /\ disk = target
    /\ synced = TRUE
    /\ torn = FALSE
    /\ runs = [p \in Procs |-> 0]

\* Mutant: a name without the pid.
SharedTemp(p) == CHOOSE q \in Procs : TRUE
\* .<name>.<pid>.tmp
Temp(p) == p

\* A run reaches open_output: the temporary file is created, or emptied when a
\* predecessor with this pid left one.
Open(p) ==
    /\ pc[p] \notin Active
    /\ runs[p] < MaxRuns
    /\ runs' = [runs EXCEPT ![p] = @ + 1]
    /\ tmp' = [tmp EXCEPT ![Temp(p)] = Doc(p, 0)]
    /\ pc' = [pc EXCEPT ![p] = "writing"]
    /\ UNCHANGED <<target, disk, synced, torn>>

\* Mutant: the last part is written a second time.
LastPartTwice(d) == d.len <= Length
\* The document is not complete yet.
MoreParts(d) == d.len < Length

\* The body writes its next part.
Write(p) ==
    /\ pc[p] = "writing"
    /\ MoreParts(tmp[Temp(p)])
    /\ tmp' = [tmp EXCEPT ![Temp(p)] = Doc(p, @.len + 1)]
    /\ UNCHANGED <<pc, target, disk, synced, torn, runs>>

\* Mutant: the block may be left before its end without an exception.
LeavesEarly(d) == TRUE
\* The body has returned: everything was written.
LeavesClean(d) == Whole(d)

\* The block exits cleanly: buffers are flushed, the file is closed.
Close(p) ==
    /\ pc[p] = "writing"
    /\ LeavesClean(tmp[Temp(p)])
    /\ pc' = [pc EXCEPT ![p] = "closed"]
    /\ UNCHANGED <<target, tmp, disk, synced, torn, runs>>

\* os.replace
Replace(p) ==
    /\ pc[p] = "closed"
    /\ target' = tmp[Temp(p)]
    /\ tmp' = [tmp EXCEPT ![Temp(p)] = Missing]
    /\ synced' = FALSE
    /\ torn' = FALSE
    /\ pc' = [pc EXCEPT ![p] = "moved"]
    /\ UNCHANGED <<disk, runs>>

\* A full disk, an error or a signal in the block or before the move.
Raise(p) ==
    /\ pc[p] \in {"writing", "closed"}
    /\ pc' = [pc EXCEPT ![p] = "unwinding"]
    /\ UNCHANGED <<target, tmp, disk, synced, torn, runs>>

\* Mutant: no unlink on the way out.
LeftBehind(p) == tmp
\* unlink(missing_ok=True)
Unlinked(p) == [tmp EXCEPT ![Temp(p)] = Missing]

\* finally
Unlink(p) ==
    /\ pc[p] \in {"moved", "unwinding"}
    /\ tmp' = Unlinked(p)
    /\ pc' = [pc EXCEPT ![p] = IF @ = "moved" THEN "ok" ELSE "failed"]
    /\ UNCHANGED <<target, disk, synced, torn, runs>>

\* A second signal, or an error of the unlink itself, in the finally block: a temporary
\* file that has not been moved stays.
Abort(p) ==
    /\ pc[p] \in {"moved", "unwinding"}
    /\ pc' = [pc EXCEPT ![p] = IF @ = "moved" THEN "failed" ELSE "aborted"]
    /\ UNCHANGED <<target, tmp, disk, synced, torn, runs>>

\* SIGKILL: no handler runs.
Kill(p) ==
    /\ pc[p] \in Active
    /\ pc' = [pc EXCEPT ![p] = "killed"]
    /\ UNCHANGED <<target, tmp, disk, synced, torn, runs>>

\* The kernel writes the data of the target to disk.
Sync ==
    /\ ~synced
    /\ disk' = target
    /\ synced' = TRUE
    /\ UNCHANGED <<pc, target, tmp, torn, runs>>

\* What may be under the name of the temporary file of p after a power loss: nothing, or
\* some parts of its document.  The file was not fsynced, and its rename or its unlink may
\* be undone.
Recovered(p) == {Missing} \cup {Doc(p, n) : n \in 0..Length}

\* Every process dies.  Nothing was fsynced: of a target moved into place but not yet
\* on disk, its predecessor may come back, or only some of its parts.  Whoever has opened
\* a temporary file by then may have left one.
PowerLoss ==
    /\ pc' = [p \in Procs |-> IF pc[p] = "idle" THEN "idle" ELSE "lost"]
    /\ tmp' \in [Procs -> Docs]
    /\ \A p \in Procs : IF pc[p] \in {"idle", "lost"} THEN tmp'[p] = tmp[p] ELSE tmp'[p] \in Recovered(p)
    /\ IF synced THEN UNCHANGED target
       ELSE \/ target' = disk
            \/ \E n \in 0..target.len : target' = [target EXCEPT !.len = n]
    /\ disk' = target'
    /\ torn' = (torn \/ ~synced)
    /\ synced' = TRUE
    /\ UNCHANGED runs

Next ==
    \/ \E p \in Procs : Open(p) \/ Write(p) \/ Close(p) \/ Replace(p) \/ Raise(p) \/ Unlink(p) \/ Abort(p) \/ Kill(p)
    \/ Sync
    \/ PowerLoss

Spec == Init /\ [][Next]_vars
-----------------------------------------------------------------------------
(* Properties. *)

TypeOK ==
    /\ pc \in [Procs -> PCs]
    /\ target \in Docs
    /\ tmp \in [Procs -> Docs]
    /\ disk \in Docs
    /\ synced \in BOOLEAN
    /\ torn \in BOOLEAN
    /\ runs \in [Procs -> 0..MaxRuns]

\* Whoever reads the path at any moment, and whichever writers are killed, fail or
\* overlap, finds a whole document, unless a power loss hit it before it was on disk.
TargetWhole == ~torn => Whole(target)

\* The document at the path changes only to the one a process has just finished: a run
\* that fails or is killed before that leaves what was there, and so does a power loss
\* once what was there is on disk.
OnlyFinishedReplace ==
    [][target' # target =>
          \/ \E p \in Procs : pc[p] = "closed" /\ pc'[p] = "moved" /\ target' = Doc(p, Length)
          \/ ~synced /\ torn' /\ target'.by \in {target.by, disk.by}]_vars

\* A run that ends by itself, finished or not, leaves no temporary file, and none of an
\* earlier run with its pid.  Left behind is one only by a kill, a power loss, or a second
\* signal or an error while the first is cleaned up after.
NoLitter == \A p \in Procs : pc[p] \in {"idle", "ok", "failed"} => tmp[p] = Missing
=============================================================================
