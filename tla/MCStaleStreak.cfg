SPECIFICATION Spec
CONSTANTS
    Stories <- One
    Deps <- OneNoDeps
    Units <- OneUnit
    Executor = "claude_action"
    MaxConcurrency = 1
    notFoundDeathThreshold = 2
    staleLabelThreshold = 2
    MaterialiseTicks = 1
    Webhooks = FALSE
    Buttons = FALSE
    Faults = {}
    MaxEvents = 0
    MaxAgents = 3
INVARIANT OneAgentPerStory
