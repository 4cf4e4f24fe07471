\* Four ids, a page of two effects: ids, crashes and paging.
CONSTANTS
    NumIds = 4
    Paths <- MCPaths
    StepLists <- StepsOf
    SampleSteps <- Sample
    PageSize = 2
    NoBlob = NoBlob
    NoCounter = NoCounter
SPECIFICATION Spec
INVARIANTS TypeOK CreatesAreFresh
PROPERTIES HealthyStoreLoads WritesWhatItNames
