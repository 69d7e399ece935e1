SPECIFICATION Spec
CONSTANTS
    Nothing = Nothing
    SlugOf <- MCSlugOf
    Workspaces <- MCWorkspaces
    Calls <- MCCalls
    Again <- MCAgain
    Packs <- MCPacks
    MaxCalls = 2
    MaxEdits = 1
INVARIANTS
    AcceptedIsATree
    MigratedIsAccepted
    DestinationsHold
    OutputAgrees
CHECK_DEADLOCK FALSE
