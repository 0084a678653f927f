\* A stream of either driver, and a bid for a task that wants memory or not, and a model
\* that is there or not.
SPECIFICATION FairProviders
CONSTANTS
    vllm = vllm
    ollama = ollama
    c1 = c1
    a1 = a1
    qwen = qwen
    sdxl = sdxl
    none = none
    Providers = {vllm, ollama}
    Driver <- DriverOf
    Models <- ModelsOf
    TotalVRAM <- VRAMOf
    Used <- UsedBy
    Calls = {c1}
    ChLen = 2
    MaxChunks = 3
    Ads = {a1}
    Specs <- Wishes
    FreeGB = {0, 1}
    None = none
CHECK_DEADLOCK FALSE
INVARIANTS
    ProvidersTypeOK
    DoneMeansAll
    BidsAreBacked
PROPERTIES
    GoroutinesEnd
