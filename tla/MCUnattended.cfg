SPECIFICATION Spec
CONSTANTS
    LtscNames = {"ltsc 2024"}
    ServerNames = {"server std"}
    None = None
    Categories = {"privacy"}
    Libraries <- MCLibraries
    Images <- MCImages
    WinDefaults <- MCWinDefaults
    DebDefaults <- MCDebDefaults
    WinPatches <- MCWinPatches
    DebPatches <- MCDebPatches
    WinStored <- MCWinStored
    MaxSaves = 3
INVARIANTS
    StoredIsAccepted
    InstallsAlone
    WritesOnce
    PreseedIsSound
PROPERTY SavedEditionIsUsed
CHECK_DEADLOCK FALSE
