------------------------- MODULE MCPipelineRunner -------------------------
(* Pipelines for PipelineRunner. *)
EXTENDS PipelineRunner

Step(n) == [name |-> n, valid |-> TRUE, outDir |-> FALSE, inputs |-> FALSE]
Collect == Step("collect")
Trim == Step("trim")
Aggregate == Step("aggregate")
Resolve == Step("resolve")
Split == [Aggregate EXCEPT !.outDir = TRUE]
Merge == [Step("merge") EXCEPT !.inputs = TRUE]
BareMerge == Step("merge")
Invalid == [Resolve EXCEPT !.valid = FALSE]

\* The README's pipeline with and without split, resolve before and after
\* aggregate, two resolves, merge in the middle and at the front, a late typo.
MCPipelines == {
    <<Collect, Trim, Split, Resolve>>,
    <<Trim, Aggregate, Resolve>>,
    <<Resolve, Aggregate>>,
    <<Resolve, Split, Resolve>>,
    <<Collect, Merge, Split>>,
    <<Merge>>,
    <<Merge, Trim>>,
    <<BareMerge, Trim>>,
    <<Trim, Invalid>>,
    <<Collect, Step(Mistyped)>>,
    <<>> }
=============================================================================
