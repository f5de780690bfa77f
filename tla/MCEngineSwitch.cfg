\* Two engines, one of them the default; two models beside the bootstrap one.
CONSTANTS
    vllm = vllm
    sglang = sglang
    Engines = {vllm, sglang}
    DefaultEngine = vllm
    None = None
    NeedsBuild = {"other"}
    MaxJobs = 3
    MaxRestarts = 1
\* The machine stops when the bounds are used up.
CHECK_DEADLOCK FALSE
SPECIFICATION MCSpec
INVARIANTS
    RuntimeIsTheSelection
    AbortHolds
    PromotionReportsWhatRuns
PROPERTIES
    LaunchRecordsClose
