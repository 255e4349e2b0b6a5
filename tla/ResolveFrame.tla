---------------------------- MODULE ResolveFrame ----------------------------
(***************************************************************************)
(* The frame `resolve` works on and the operators base.py applies to it:   *)
(* which rows still need enriching, which keys they ask for, and how the   *)
(* answers are written back.  Cell contents are reduced to where they came *)
(* from: blank, filled in the input, or returned by a lookup of key k.     *)
(***************************************************************************)
EXTENDS Integers

CONSTANTS
    NumKeys,    \* distinct non-empty keys, in the order `sorted` gives them
    Rows,       \* rows of the frame
    KeyOf,      \* KeyOf[r]: normalized key of row r, 0 when it is blank
    Columns,    \* RESOLVE_COLUMNS
    Blank,      \* an empty cell
    Given,      \* a cell the input frame had filled
    Unknown,    \* no answer for a key yet
    Before,     \* the target file as it was before the run
    SkipAlreadyEnriched

Keys == 1..NumKeys

\* A cell is blank, as given by the input, or what a lookup of key k returned.
Cells == {Blank, Given} \cup Keys
Answer == [Columns -> Cells]
Frame == [Rows -> Answer]

\* The answers a lookup of k can give: any subset of the columns filled.
AnswersOf(k) == {[c \in Columns |-> IF c \in S THEN k ELSE Blank] : S \in SUBSET Columns}
Empty == [c \in Columns |-> Blank]

\* _is_already_enriched: every resolve column of the row is filled.
Enriched(row) == \A c \in Columns : row[c] # Blank

RowsToEnrich(df) == {r \in Rows : ~SkipAlreadyEnriched \/ ~Enriched(df[r])}
\* Mutant: the keys of every row, filled ones included.
KeysOfAllRows(df) == {KeyOf[r] : r \in Rows} \ {0}

KeysToEnrich(df) == {KeyOf[r] : r \in RowsToEnrich(df)} \ {0}

\* Mutant: the mask of filled rows is not taken out.
AppliedToEveryRow(df, known) ==
    [r \in Rows |-> IF KeyOf[r] # 0 /\ known[KeyOf[r]] # Unknown
                    THEN known[KeyOf[r]] ELSE df[r]]

\* _apply_results: the rows of an answered key that asked for it take the
\* whole answer; every other row keeps its cells.
Applied(df, known) ==
    [r \in Rows |-> IF r \in RowsToEnrich(df) /\ KeyOf[r] # 0 /\ known[KeyOf[r]] # Unknown
                    THEN known[KeyOf[r]] ELSE df[r]]

\* The normalized key of every row is blank or one of the keys.
ASSUME FrameAssumption ==
    /\ NumKeys \in Nat
    /\ KeyOf \in [Rows -> 0..NumKeys]
    /\ SkipAlreadyEnriched \in BOOLEAN
    /\ Columns # {}
    /\ Blank # Given
    /\ Blank \notin Keys
    /\ Given \notin Keys
    /\ Unknown \notin Answer
    /\ Before \notin Frame
=============================================================================
