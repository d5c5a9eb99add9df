SPECIFICATION Spec
CONSTANTS
    Files <- MCFiles
    Folders <- MCFolders
    ValidNames = {"a", "b"}
    InfNames = {"raid.inf", "net.inf"}
    WinpeNames = {"raid.inf", "net.inf", "raid.sys", "pci.sys", "raid.cat"}
    UsefulNames = {"raid.inf", "net.inf", "raid.sys", "pci.sys", "raid.cat", "log.dll"}
    SystemNames = {"input.dll"}
    Isos <- MCIsos
    MaxInject = 6
    MaxSetupPaths = 2
    MaxSetupFiles = 20
    MaxSetupDirs = 3
    MaxSetupDepth = 2
    TooLong = {}
    Touched = {6, 10}
    Patches <- MCPatches
    Excludable = {2}
    Archives <- MCArchives
INVARIANTS SetupMeetsNoBroken NothingGoodIsLost InjectionIsSound
CHECK_DEADLOCK FALSE
