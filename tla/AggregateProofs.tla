--------------------------- MODULE AggregateProofs ---------------------------
(***************************************************************************)
(* Proofs about Aggregate for any groups, networks, chunk sizes and number *)
(* of rows: the modes agree, and the split puts every row into one file.   *)
(***************************************************************************)
EXTENDS Aggregate, WellFoundedInduction, TLAPS

USE AggregateAssumption

\* The label of a group is the first network that contains its address.
LEMMA LabelIsFirst ==
    ASSUME NEW g \in Groups
    PROVE  /\ Label(g) \in Labels
           /\ \A n \in DOMAIN Networks :
                 SrcIP[g] \in Networks[n] => Label(g) # Other /\ Label(g) <= n
           /\ Label(g) # Other => SrcIP[g] \in Networks[Label(g)]
<1> DEFINE containing == {n \in DOMAIN Networks : SrcIP[g] \in Networks[n]}
<1>1. DOMAIN Networks \subseteq Nat \ {0}
  OBVIOUS
<1>2. CASE containing = {}
  BY <1>2 DEF Label, Labels, Other
<1>3. CASE containing # {}
  <2>1. containing \subseteq Nat
    BY <1>1
  <2>2. \E x \in containing : \A y \in containing : <<y, x>> \notin OpToRel(<, Nat)
    <3>1. IsWellFoundedOn(OpToRel(<, Nat), Nat)
      BY NatLessThanWellFounded
    <3> HIDE DEF containing
    <3>2. QED BY <1>3, <2>1, <3>1, WFMin
  <2>3. \E n \in containing : \A m \in containing : n <= m
    <3>1. PICK x \in containing : \A y \in containing : <<y, x>> \notin OpToRel(<, Nat)
      BY <2>2
    <3>2. ASSUME NEW m \in containing PROVE x <= m
      <4>1. OpToRel(<, Nat) = {ss \in Nat \X Nat : ss[1] < ss[2]}
        BY DEF OpToRel
      <4>2. <<m, x>> \in Nat \X Nat /\ m \in Nat /\ x \in Nat
        BY <2>1, <3>1, <3>2
      <4>3. ~ (m < x)
        BY <3>1, <3>2, <4>1, <4>2
      <4>4. QED BY <4>2, <4>3
    <3>3. QED BY <3>2
  <2>4. Label(g) = CHOOSE n \in containing : \A m \in containing : n <= m
    BY <1>3 DEF Label
  <2>5. Label(g) \in containing /\ \A m \in containing : Label(g) <= m
    BY <2>3, <2>4
  <2>6. QED BY <1>1, <2>5 DEF Labels, Other
<1>4. QED BY <1>2, <1>3

\* The counters, bounded by the rows read.
CountInv ==
    /\ rows \in 0..MaxRows
    /\ size \in [Groups -> Nat] /\ partial \in [Groups -> Nat] /\ total \in [Groups -> Nat]
    /\ \A g \in Groups : size[g] <= rows /\ total[g] + partial[g] = size[g]

\* Once the input has ended the last chunk is in the sum.
PhaseInv ==
    /\ pc = "counted" => partial = NoRows
    /\ pc \in {"reading", "counted"} => files = [l \in Labels |-> NoRows]
    /\ pc = "done" => Unwritten = {}

\* A file is either not there or the whole bucket of its label.
FilesInv ==
    \A l \in Labels : files[l] = NoRows \/ files[l] = Bucket(result["streaming"], l)

IInv == TypeOK /\ CountInv /\ PhaseInv /\ ModesAgree /\ FilesInv

\* A count is at most the number of rows.
LEMMA BoundedTable ==
    ASSUME NEW t \in [Groups -> Nat], \A g \in Groups : t[g] \in 0..MaxRows
    PROVE  t \in Tables
  BY DEF Tables

\* The counts of a group after n rows are within the bound of the rows.
LEMMA CountsInBounds ==
    ASSUME NEW n \in 0..MaxRows, NEW s \in Nat, NEW p \in Nat, NEW t \in Nat, s <= n, t + p = s
    PROVE  s \in 0..MaxRows /\ p \in 0..MaxRows /\ t \in 0..MaxRows
  OBVIOUS

\* Init gives the invariant: nothing is counted and nothing is written.
LEMMA InitIInv == Init => IInv
<1> SUFFICES ASSUME Init PROVE IInv
  OBVIOUS
<1> USE DEF Init, NoRows
<1>1. TypeOK
  BY DEF TypeOK, Tables
<1>2. CountInv
  BY DEF CountInv
<1>3. PhaseInv
  BY DEF PhaseInv
<1>4. ModesAgree
  BY DEF ModesAgree, Modes
<1>5. FilesInv
  BY DEF FilesInv
<1>6. QED BY <1>1, <1>2, <1>3, <1>4, <1>5 DEF IInv

\* Counting a row, in both modes.
LEMMA ReadRowKeeps == ASSUME IInv, NEW g \in Groups, ReadRow(g) PROVE IInv'
<1> USE DEF IInv, ReadRow, settings
<1>1. CountInv'
  <2>1. \A h \in Groups : /\ size'[h] = IF h = g THEN size[h] + 1 ELSE size[h]
                          /\ partial'[h] = IF h = g THEN partial[h] + 1 ELSE partial[h]
    BY DEF Counted, CountInv
  <2>2. size' \in [Groups -> Nat] /\ partial' \in [Groups -> Nat]
    BY DEF Counted, CountInv
  <2>3. /\ rows' \in 0..MaxRows /\ rows' = rows + 1 /\ rows \in Nat
        /\ total' = total /\ total \in [Groups -> Nat]
    BY DEF CountInv
  <2>4. ASSUME NEW h \in Groups PROVE size'[h] <= rows' /\ total'[h] + partial'[h] = size'[h]
    <3>1. size[h] \in Nat /\ partial[h] \in Nat /\ total[h] \in Nat
          /\ size[h] <= rows /\ total[h] + partial[h] = size[h]
      BY DEF CountInv
    <3>2. size'[h] = size[h] + 1 \/ size'[h] = size[h]
      BY <2>1
    <3>3. size'[h] <= rows'
      BY <3>1, <3>2, <2>3
    <3>4. total'[h] + partial'[h] = size'[h]
      BY <3>1, <2>1, <2>3
    <3>5. QED BY <3>3, <3>4
  <2>5. QED BY <2>2, <2>3, <2>4 DEF CountInv
<1>2. TypeOK'
  <2>1. size' \in Tables /\ partial' \in Tables /\ total' \in Tables
    <3>1. /\ size' \in [Groups -> Nat] /\ partial' \in [Groups -> Nat] /\ total' \in [Groups -> Nat]
          /\ \A h \in Groups : size'[h] \in 0..MaxRows /\ partial'[h] \in 0..MaxRows
                                                   /\ total'[h] \in 0..MaxRows
      BY <1>1, CountsInBounds DEF CountInv
    <3>2. QED BY <3>1, BoundedTable
  <2>2. inChunk' \in 0..chunkSize /\ chunkSize' = chunkSize /\ rows' \in 0..MaxRows
    BY DEF TypeOK, MoreInChunk
  <2>3. QED BY <2>1, <2>2 DEF TypeOK
<1>3. PhaseInv'
  BY DEF PhaseInv
<1>4. ModesAgree'
  BY DEF ModesAgree
<1>5. FilesInv'
  BY DEF FilesInv, Bucket
<1>6. QED BY <1>1, <1>2, <1>3, <1>4, <1>5

\* Adding the partial counts of a chunk, the last one included.
LEMMA SumKeeps ==
    ASSUME CountInv, rows' = rows, size' = size, total' = Sum(total, partial), partial' = NoRows
    PROVE  CountInv' /\ size' \in Tables /\ partial' \in Tables /\ total' \in Tables
<1>1. /\ total' \in [Groups -> Nat]
      /\ \A g \in Groups : total'[g] = total[g] + partial[g]
  BY DEF CountInv, Sum
<1>2. partial' \in [Groups -> Nat] /\ \A g \in Groups : partial'[g] = 0
  BY DEF NoRows
<1>3. CountInv'
  BY <1>1, <1>2 DEF CountInv
<1>4. \A g \in Groups : size'[g] \in 0..MaxRows /\ partial'[g] \in 0..MaxRows
                                              /\ total'[g] \in 0..MaxRows
  BY <1>3, CountsInBounds DEF CountInv
<1>5. QED BY <1>3, <1>4, BoundedTable DEF CountInv

\* What is left of a table is within its bounds.
LEMMA FrequentIsTable == ASSUME NEW t \in Tables PROVE Frequent(t) \in Tables
  BY DEF Frequent, Tables

\* So is one file of the split.
LEMMA BucketIsTable == ASSUME NEW t \in Tables, NEW l PROVE Bucket(t, l) \in Tables
  BY DEF Bucket, Tables

\* Every step of reading, counting and splitting keeps the invariant.
LEMMA StepIInv == ASSUME IInv, [Next]_vars PROVE IInv'
<1> USE DEF IInv
<1>1. ASSUME NEW g \in Groups, ReadRow(g) PROVE IInv'
  BY <1>1, ReadRowKeeps
<1>2. CASE EndChunk
  <2> USE <1>2 DEF EndChunk, settings
  <2>1. CountInv' /\ size' \in Tables /\ partial' \in Tables /\ total' \in Tables
    BY SumKeeps
  <2>2. TypeOK'
    BY <2>1 DEF TypeOK
  <2>3. PhaseInv' /\ ModesAgree'
    BY DEF PhaseInv, ModesAgree
  <2>4. FilesInv'
    BY DEF FilesInv, Bucket
  <2>5. QED BY <2>1, <2>2, <2>3, <2>4
<1>3. CASE EndInput
  <2> USE <1>3 DEF EndInput, settings
  <2>1. CountInv' /\ size' \in Tables /\ partial' \in Tables /\ total' \in Tables
    BY SumKeeps
  <2>2. TypeOK'
    BY <2>1 DEF TypeOK
  <2>3. PhaseInv' /\ ModesAgree'
    BY DEF PhaseInv, ModesAgree
  <2>4. FilesInv'
    BY DEF FilesInv, Bucket
  <2>5. QED BY <2>1, <2>2, <2>3, <2>4
<1>4. CASE Finalize
  <2> USE <1>4 DEF Finalize, settings, counts
  <2>1. total = size
    BY DEF CountInv, PhaseInv, NoRows
  <2>2. /\ result' \in [Modes -> Tables]
        /\ result'["full"] = Frequent(size) /\ result'["streaming"] = Frequent(total)
    BY FrequentIsTable DEF TypeOK, Modes
  <2>3. TypeOK'
    BY <2>2 DEF TypeOK
  <2>4. ModesAgree'
    BY <2>1, <2>2 DEF ModesAgree
  <2>5. CountInv' /\ PhaseInv'
    BY DEF CountInv, PhaseInv
  <2>6. FilesInv'
    BY DEF FilesInv, PhaseInv
  <2>7. QED BY <2>3, <2>4, <2>5, <2>6
<1>5. ASSUME NEW l \in Labels, WriteFile(l) PROVE IInv'
  <2> USE <1>5 DEF WriteFile, settings, counts
  <2>1. Bucket(result["streaming"], l) \in Tables
    BY BucketIsTable DEF TypeOK, Modes
  <2>2. TypeOK'
    BY <2>1 DEF TypeOK
  <2>3. CountInv' /\ PhaseInv' /\ ModesAgree'
    BY DEF CountInv, PhaseInv, ModesAgree
  <2>4. FilesInv'
    <3>1. \A k \in Labels : Bucket(result["streaming"], k)' = Bucket(result["streaming"], k)
      BY DEF Bucket
    <3>2. QED BY <3>1 DEF FilesInv, TypeOK
  <2>5. QED BY <2>2, <2>3, <2>4
<1>6. ASSUME files' = files, result' = result, UNCHANGED <<settings, counts>>,
             \/ pc' = pc \/ pc' = "stopped" \/ (pc' = "done" /\ Unwritten = {})
      PROVE IInv'
  <2> USE <1>6 DEF settings, counts
  <2>1. Unwritten' = Unwritten
    BY DEF Unwritten, Bucket
  <2>2. TypeOK' /\ CountInv' /\ ModesAgree'
    BY DEF TypeOK, CountInv, ModesAgree
  <2>3. PhaseInv'
    BY <2>1 DEF PhaseInv
  <2>4. FilesInv'
    BY DEF FilesInv, Bucket
  <2>5. QED BY <2>2, <2>3, <2>4
<1>7. CASE AllWritten \/ Stop \/ Terminated \/ UNCHANGED vars
  BY <1>6, <1>7 DEF AllWritten, Stop, Terminated, vars
<1>8. QED
  BY <1>1, <1>2, <1>3, <1>4, <1>5, <1>7 DEF Next

\* The inductive invariant of the aggregation.
THEOREM AggregateInvariance == Spec => []IInv
  BY InitIInv, StepIInv, PTL DEF Spec

\* The types hold for every number of rows and every chunk size.
THEOREM AggregateTypeCorrect == Spec => []TypeOK
<1>1. IInv => TypeOK
  BY DEF IInv
<1>2. QED BY <1>1, AggregateInvariance, PTL

\* Chunked and full aggregation end with the same table, however the input is cut.
THEOREM ChunksDoNotMatter == Spec => []ModesAgree
<1>1. IInv => ModesAgree
  BY DEF IInv
<1>2. QED BY <1>1, AggregateInvariance, PTL

\* The files of a split hold whole counts, each under the first network that contains it.
THEOREM SplitFilesAreRight == Spec => []RowsInTheirFile
<1>1. IInv => RowsInTheirFile
  <2> SUFFICES ASSUME IInv, NEW l \in Labels, NEW g \in Groups, files[l][g] # 0
               PROVE  /\ files[l][g] = result["full"][g]
                      /\ \A n \in DOMAIN Networks : SrcIP[g] \in Networks[n] => l # Other /\ l <= n
                      /\ l # Other => SrcIP[g] \in Networks[l]
    BY DEF RowsInTheirFile
  <2>1. files[l] = Bucket(result["streaming"], l)
    BY DEF IInv, FilesInv, NoRows
  <2>2. Label(g) = l /\ files[l][g] = result["streaming"][g]
    BY <2>1 DEF Bucket
  <2>3. QED BY <2>2, LabelIsFirst DEF IInv, ModesAgree
<1>2. QED BY <1>1, AggregateInvariance, PTL

\* A split that ran to its end has every row of the table in some file.
THEOREM SplitLosesNothing == Spec => []SplitIsComplete
<1>1. IInv => SplitIsComplete
  <2> SUFFICES ASSUME IInv, pc = "done", NEW g \in Groups, result["full"][g] # 0
               PROVE  \E l \in Labels : files[l][g] # 0
    BY DEF SplitIsComplete
  <2>1. Label(g) \in Labels
    BY LabelIsFirst
  <2>2. Bucket(result["streaming"], Label(g))[g] # 0
    BY DEF Bucket, IInv, ModesAgree
  <2>3. Bucket(result["streaming"], Label(g)) # NoRows
    BY <2>2 DEF NoRows
  <2>4. files[Label(g)] # NoRows
    BY <2>1, <2>3 DEF IInv, PhaseInv, Unwritten
  <2>5. files[Label(g)] = Bucket(result["streaming"], Label(g))
    BY <2>1, <2>4 DEF IInv, FilesInv
  <2>6. QED BY <2>1, <2>2, <2>5
<1>2. QED BY <1>1, AggregateInvariance, PTL
=============================================================================
