SPECIFICATION Spec
CONSTANTS
    ShellWorlds <- MCShellWorlds
    GuiWorlds <- MCGuiWorlds
    Drifts <- MCDrifts
    MaxDrifts = 1
    MaxActs = 2
    MaxTools = 1
    MaxBuilds = 3
    Bases <- MCBases
    Offsets <- MCOffsets
    Picks = {"standard", "strict"}
    Reports <- MCReports
    Phases <- MCPhases
    Intents = {"strict"}
    Hints <- MCHints
    Counters = {0, 1}
INVARIANTS VerdictsAgree ViewsAgree GateJudgesRecentFacts
PROPERTIES FailureShown ProfileHasCause GeneratedProfilesSound BusyEnds
CHECK_DEADLOCK FALSE
