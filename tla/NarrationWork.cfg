SPECIFICATION NarrationSpec
CONSTANTS
    ChosenWorlds = {"requests", "executions", "results", "captions", "frames",
                    "scenes", "videos", "sounds", "timings"}
    Worlds <- MCWorlds
    Evidence <- MCEvidence
    Alterations <- MCAlterations
    Room <- MCRoom
    RequestModes = {"LOCAL", "FREE_API", "REPLAY"}
    ExecutionModes = {"PAID_API", "REPLAY"}
    Intents = {"first", "second"}
    Rates = {0, 10, 25}
    CoarseRates = {10}
    Manifests = {1, 2}
    Narrations <- MCNarrations
    Edited <- MCEdited
    MaxRevisions = 2
INVARIANTS
    FilesAreExact
    LineageHolds
PROPERTIES
    OneLineage
    ReplaysAnOriginal
    NothingFromDrift
CHECK_DEADLOCK FALSE
