SPECIFICATION Spec
CONSTANTS
    Vocab <- MCVocab
    Scores <- MCScores
    BosId <- MCBosId
    EosIds <- MCEosIds
    MaxTokenLength = 4
    Follow <- MCFollow
    SeqLen = 5
    NBatches = 2
    Prompts <- MCPrompts
    StepLimits = {0, 4, 6}
    Inputs <- MCInputs
    Samples <- MCSamples
    Templates <- MCTemplates
INVARIANTS
    FedInOrder
    TextIsWhole
    FailsOnlyAsKnown
PROPERTY GenerationEnds
\* The application ends.
CHECK_DEADLOCK FALSE
