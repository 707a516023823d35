SPECIFICATION Spec
CONSTANTS
    Batches <- MCBatches
    Inputs <- MCInputs
    Transcripts <- MCTranscripts
    MaxMessages = 4
    MaxInputs = 1
    MaxFolds = 2
    MaxCuts = 2
INVARIANT Remembered
INVARIANT ToolPairs
INVARIANT RestartResumes
CHECK_DEADLOCK FALSE
