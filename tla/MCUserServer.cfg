\* Two prompts, a planner's channel of one, and two requests for streams.
SPECIFICATION FairServer
CONSTANTS
    p1 = p1
    p2 = p2
    a = a
    b = b
    c1 = c1
    c2 = c2
    none = none
    Plans = {p1, p2}
    Nodes = {a, b}
    PlanOf <- PlanOfTask
    Dags <- Plannable
    Streams = {c1, c2}
    TopicLen = 1
    None = none
CHECK_DEADLOCK FALSE
INVARIANTS
    ServerTypeOK
    EntryUntilServed
    OneReaderGetsTheTruth
    QuietMeansQuiet
PROPERTIES
    StreamsEnd
