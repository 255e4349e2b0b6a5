SPECIFICATION Spec
CONSTANTS
    Pipelines <- MCPipelines
    Nets = {n1, n2}
    MaxInterrupts = 2
INVARIANTS
    OnlyFinalFramesPublished
    DoneIsComplete
    HintNamesOutput
    FailureLeavesOutput
    FinishedStagesSurvive
    EnginesAgree
