SPECIFICATION Spec
CONSTANTS
    ShellWorlds <- OneWorld
    GuiWorlds = {}
    Drifts = {}
    MaxDrifts = 0
    MaxActs = 0
    MaxTools = 1
    MaxBuilds = 0
    Bases = {}
    Offsets = {}
    Picks = {}
    Reports <- MCReports
    Phases <- MCPhases
    Intents = {"strict"}
    Hints <- MCHints
    Counters = {0, 1}
PROPERTY WinnerWasApplied
CHECK_DEADLOCK FALSE
