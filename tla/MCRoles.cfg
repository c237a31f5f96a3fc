SPECIFICATION SpecRoles
CONSTANTS
    d1 = d1  d2 = d2
    Deciders = {d1, d2}
    Voters = {v1}
    Gates = {g1}
    Clients <- AnyClient
    Stoppable = {"decider", "voter", "gate"}
    DeciderPage = 2
    GatePage = 1
    MaxLog = 7
    MaxFaults = 1
    MaxMailBuffer = 2
    MailPollLimit = 2
    MaxMailLog = 4
    MaxMailFaults = 1
    Texts <- ShortTexts
    BusIds <- ShortIds
    MaxBusIdLen = 2
    BadRegexes <- BadPatterns
    RegexMatches <- Matches
    RuleConfigs <- MessageConfigs
    FileConfigs <- FileOfRules
    Prompts <- Overrides
    FactoryConfigs <- AnyConfig
    Answers <- AnyAnswer
SYMMETRY Symmetry
INVARIANTS
    DecisionsAreLogVerdicts
    PlayedMeansDone
    MailArrives
    VotersFollowConfig
CHECK_DEADLOCK FALSE
