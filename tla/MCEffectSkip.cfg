\* Does a broken effect leave the others alone?
CONSTANTS
    NumIds = 4
    Paths <- MCPaths
    StepLists <- StepsOf
    SampleSteps <- Sample
    PageSize = 2
    NoBlob = NoBlob
    NoCounter = NoCounter
SPECIFICATION Spec
PROPERTY BrokenEffectIsSkipped
