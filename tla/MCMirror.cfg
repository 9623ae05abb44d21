\* Two stories, the second may depend on the first; two exports at a time.
SPECIFICATION LiveSpec
CONSTANTS
    Nobody = 0
    Planned = {1, 2}
    Offset = 10
    Exporters = {1, 2}
    Importers = {"i1"}
    Callers = {"button", "published"}
    MaxIssues = 3
    MaxExports = 3
    MaxEvents = 2
INVARIANT OneIssuePerStory
PROPERTIES SuccessMeansMirrored EveryExportEnds
CHECK_DEADLOCK FALSE
