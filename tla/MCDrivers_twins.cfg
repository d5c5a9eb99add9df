SPECIFICATION Spec
CONSTANTS
    Files <- MCTwins
    Folders <- MCTwinFolders
    ValidNames = {"a", "b", "c"}
    InfNames = {"raid.inf", "net.inf"}
    WinpeNames = {"raid.inf", "net.inf", "raid.sys", "pci.sys", "raid.cat"}
    UsefulNames = {"raid.inf", "net.inf", "raid.sys", "pci.sys", "raid.cat", "log.dll"}
    SystemNames = {"input.dll"}
    Isos <- MCIsos
    MaxInject = 6
    MaxSetupPaths = 2
    MaxSetupFiles = 20
    MaxSetupDirs = 20
    MaxSetupDepth = 8
    TooLong = {}
    Touched = {}
    Patches <- MCInject
    Excludable = {}
    Archives <- MCTwinArchives
INVARIANT InjectedInfHasItsFiles
CHECK_DEADLOCK FALSE
