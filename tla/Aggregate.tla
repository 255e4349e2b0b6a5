------------------------------ MODULE Aggregate ------------------------------
(***************************************************************************)
(* stages/aggregate.py: the two modes, full load and chunks, reading the   *)
(* same rows side by side; min_count; and the split into one file per      *)
(* subnet.  A row is reduced to its group; a table maps every group to its *)
(* count, 0 if the group is not in it.                                     *)
(***************************************************************************)
EXTENDS Naturals, Sequences

CONSTANTS
    Groups,     \* values of the grouping columns
    Addresses,  \* source addresses
    SrcIP,      \* the source address of each group
    Networks,   \* GRAYLOG__SRC_IP_CIDR: a sequence of sets of addresses, overlaps allowed
    ChunkSizes, \* --chunk-size
    MinCounts,  \* --min-count
    MaxRows     \* bound: rows of the input

ASSUME AggregateAssumption ==
    /\ SrcIP \in [Groups -> Addresses]
    /\ Networks \in Seq(SUBSET Addresses)
    /\ ChunkSizes \subseteq Nat \ {0}
    /\ MinCounts \subseteq Nat
    /\ MaxRows \in Nat

VARIABLES
    chunkSize, minCount,
    pc,         \* "reading", "counted", "writing", "done", "stopped"
    rows,       \* rows read
    inChunk,    \* rows of the current chunk
    size,       \* full load: .size() of the rows read
    partial,    \* chunks: .size() of the current chunk
    total,      \* chunks: the sum of the earlier partials
    result,     \* the table each mode ends with
    files       \* what the split has written under each label

settings == <<chunkSize, minCount>>
counts == <<rows, inChunk, size, partial, total>>
vars == <<settings, pc, counts, result, files>>

Modes == {"full", "streaming"}
Tables == [Groups -> 0..MaxRows]
NoRows == [g \in Groups |-> 0]

Other == 0
Labels == DOMAIN Networks \cup {Other}

Init ==
    /\ chunkSize \in ChunkSizes
    /\ minCount \in MinCounts
    /\ pc = "reading"
    /\ rows = 0
    /\ inChunk = 0
    /\ size = NoRows /\ partial = NoRows /\ total = NoRows
    /\ result = [m \in Modes |-> NoRows]
    /\ files = [l \in Labels |-> NoRows]

\* groupby(..., dropna=False).size()
Counted(table, g) == [table EXCEPT ![g] = @ + 1]

\* Mutant: the threshold is applied to each chunk.
SumOfFrequent(t, p) == [g \in Groups |-> IF p[g] < minCount THEN t[g] ELSE t[g] + p[g]]
\* groupby(...)["count"].sum()
Sum(t, p) == [g \in Groups |-> t[g] + p[g]]

\* Groups below min_count are dropped.
Frequent(table) == [g \in Groups |-> IF table[g] < minCount THEN 0 ELSE table[g]]

\* Mutant: the last network that contains the address.
LastLabel(g) ==
    LET containing == {n \in DOMAIN Networks : SrcIP[g] \in Networks[n]}
    IN  IF containing = {} THEN Other
        ELSE CHOOSE n \in containing : \A m \in containing : m <= n
\* Mutant: an address outside every network has no label, and groupby drops its rows.
ListedLabel(g) ==
    LET containing == {n \in DOMAIN Networks : SrcIP[g] \in Networks[n]}
    IN  IF containing = {} THEN Len(Networks) + 1
        ELSE CHOOSE n \in containing : \A m \in containing : n <= m
\* assign_label: the first network that contains the address.
Label(g) ==
    LET containing == {n \in DOMAIN Networks : SrcIP[g] \in Networks[n]}
    IN  IF containing = {} THEN Other
        ELSE CHOOSE n \in containing : \A m \in containing : n <= m

\* The rows of a table under one label.
Bucket(table, l) == [g \in Groups |-> IF Label(g) = l THEN table[g] ELSE 0]

\* Mutant: a chunk takes one row too many.
OneMore == inChunk <= chunkSize
MoreInChunk == inChunk < chunkSize
-----------------------------------------------------------------------------
\* Both modes read the next row; it is of any group.
ReadRow(g) ==
    /\ pc = "reading"
    /\ rows < MaxRows
    /\ MoreInChunk
    /\ rows' = rows + 1
    /\ inChunk' = inChunk + 1
    /\ size' = Counted(size, g)
    /\ partial' = Counted(partial, g)
    /\ UNCHANGED <<settings, pc, total, result, files>>

\* The chunk is full: its partial counts join the others.
EndChunk ==
    /\ pc = "reading"
    /\ inChunk = chunkSize
    /\ total' = Sum(total, partial)
    /\ partial' = NoRows
    /\ inChunk' = 0
    /\ UNCHANGED <<settings, pc, rows, size, result, files>>

\* The input ends, in the middle of a chunk or at its end.
EndInput ==
    /\ pc = "reading"
    /\ MoreInChunk
    /\ total' = Sum(total, partial)
    /\ partial' = NoRows
    /\ inChunk' = 0
    /\ pc' = "counted"
    /\ UNCHANGED <<settings, rows, size, result, files>>

\* _finalize and _apply_min_count, the same code in both modes; the order of the rows
\* depends on the table alone.
Finalize ==
    /\ pc = "counted"
    /\ result' = [m \in Modes |-> Frequent(IF m = "full" THEN size ELSE total)]
    /\ pc' = "writing"
    /\ UNCHANGED <<settings, counts, files>>

\* The labels that have rows and no file yet.
Unwritten == {l \in Labels : Bucket(result["streaming"], l) # NoRows /\ files[l] = NoRows}

\* One file of the split: open_output, whole or not at all.
WriteFile(l) ==
    /\ pc = "writing"
    /\ l \in Unwritten
    /\ files' = [files EXCEPT ![l] = Bucket(result["streaming"], l)]
    /\ UNCHANGED <<settings, pc, counts, result>>

AllWritten ==
    /\ pc = "writing"
    /\ Unwritten = {}
    /\ pc' = "done"
    /\ UNCHANGED <<settings, counts, result, files>>

\* An error or a signal, also between two files.
Stop ==
    /\ pc \notin {"done", "stopped"}
    /\ pc' = "stopped"
    /\ UNCHANGED <<settings, counts, result, files>>

Terminated == pc \in {"done", "stopped"} /\ UNCHANGED vars

Next ==
    \/ \E g \in Groups : ReadRow(g)
    \/ EndChunk \/ EndInput \/ Finalize
    \/ \E l \in Labels : WriteFile(l)
    \/ AllWritten \/ Stop \/ Terminated

Spec == Init /\ [][Next]_vars
-----------------------------------------------------------------------------
(* Properties. *)

TypeOK ==
    /\ chunkSize \in ChunkSizes /\ minCount \in MinCounts
    /\ pc \in {"reading", "counted", "writing", "done", "stopped"}
    /\ rows \in 0..MaxRows
    /\ inChunk \in 0..chunkSize
    /\ size \in Tables /\ partial \in Tables /\ total \in Tables
    /\ result \in [Modes -> Tables]
    /\ files \in [Labels -> Tables]

\* The module docstring's key requirement: both modes end with the same table, for every
\* cut into chunks and every threshold, groups that span chunks included.
ModesAgree == result["full"] = result["streaming"]

\* Every file of the split is whole, and a group that is in one is in the file of the
\* first network that contains its address, and in no other, whenever the split stops.
RowsInTheirFile ==
    \A l \in Labels, g \in Groups : files[l][g] # 0 =>
        /\ files[l][g] = result["full"][g]
        /\ \A n \in DOMAIN Networks : SrcIP[g] \in Networks[n] => l # Other /\ l <= n
        /\ l # Other => SrcIP[g] \in Networks[l]

\* A split that ran to its end has lost no row.
SplitIsComplete ==
    pc = "done" => \A g \in Groups : result["full"][g] # 0 => \E l \in Labels : files[l][g] # 0
=============================================================================
