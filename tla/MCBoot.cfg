CONSTANTS
    Ids = {"ufficio", "banco", "server"}
    IdsOf <- MCIdsOf
    Isos <- MCIsos
    Requests = {r1, r2}
    InitialAnswers <- MCInitialAnswers
    NewAnswers <- MCNewAnswers
    Updates <- MCUpdates
    Patches <- MCPatches
    MaxCreated = 4
    MaxRequests = 2
    MaxRestarts = 1
    GroupLabels <- MCGroupLabels
    AnswerLabels <- MCAnswerLabels
    NetTries = 2
    LogTries = 2
    Catalogue <- MCCatalogue
    IsoType <- MCIsoType
    Platform = "efi"
    AutoBoots = {"", "old"}
    Menus <- MCMenus
    Windows <- MCWindows
    FirstSettings <- MCFirstSettings
    HasDrivers = FALSE
    ProfileName <- MCProfileName
SPECIFICATION Spec
INVARIANTS MenusAreClosed GetsWhatWasChosen ScriptStaysOpen
PROPERTIES NobodyGainsAnAnswer PcReachesAnEnd
