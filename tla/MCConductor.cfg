SPECIFICATION LiveSpec
CONSTANTS
    Stories <- One
    Deps <- OneNoDeps
    Units <- OneUnit
    Executor = "copilot"
    MaxConcurrency = 1
    notFoundDeathThreshold = 2
    staleLabelThreshold = 2
    MaterialiseTicks = 0
    Webhooks = TRUE
    Buttons = TRUE
    Faults = {"read", "channel", "label", "noURL", "lostAnswer"}
    MaxEvents = 1
    MaxAgents = 2
INVARIANT OneAgentPerStory
PROPERTY LostAgentIsFreed IssueDecides
