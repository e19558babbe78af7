SPECIFICATION Spec
CONSTANTS
    Openai = Openai
    Voyage = Voyage
    Small = Small
    V4 = V4
    Nothing = Nothing
    Models <- ModelsOf
    Dimensions <- DimensionsOf
    DefaultConfig <- Defaults
    EnvironmentKeys <- Keys
    Scenarios <- Four
    BatchSize = 2
    MaxGeneration = 1
INVARIANTS
    PermitsMatch
    OneVectorEach
    PaidWorkWasCovered
PROPERTIES
    SearchesItsOwnSpace
    RestartKeepsSettings
