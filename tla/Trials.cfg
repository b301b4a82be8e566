SPECIFICATION FairSpec
CONSTANTS
    Specs = {v1, v2}
    None = None
    Platforms = {"kubernetes", "nomad"}
    MaxRevision = 7
    MaxEvents = 1
    Configurations <- SomeConfigurations
    Values = {197, 198, 401, 402}
    NoLimit = NoLimit
    NaNAsInt <- NaNOnBuilds
    HasTest = TRUE
    RequiredTestPasses = 2
    ErrorThreshold = 2
    InitialTraffic = 20
    TrafficStep = 40
    MaxTraffic = 100
INVARIANT TypeOK
 
 
PROPERTY ScalesWhatItSaw
PROPERTY PromotesJudged
 
 
PROPERTY Decides
CHECK_DEADLOCK FALSE
