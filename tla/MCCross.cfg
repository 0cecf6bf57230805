CONSTANTS
    Workspaces <- MCWorkspaces
    Replacements <- MCReplacements
    Analyses <- MCAnalyses
    MaxEdits = 1
    MaxYamlNesting = 3
    MaxRefDepth = 2
    MaxSchemas = 2
    MaxPathItems = 2
    MaxOperations = 2
    MaxFields = 4
    MaxGaps = 3
    MaxEvidence = 8
    MaxRepositories = 4
    MaxClients = 3
    MaxContractBytes = 4
    MaxManifestBytes = 4
    MaxMemory = 10
    MaxConfirmed = 2
    MaxCandidates = 2
    MaxRejections = 2
    MaxDiffs = 2
    Blocks = {"a", "b"}
    Files = {"f1", "f2"}
    FirstFile = "f1"
    FirstContent <- TwoFiles
    MaxLength = 3
    Maximum = 2
    MaxWrites <- Writes
    WritesPerTick = 5
    MaxTicks = 1
SPECIFICATION CrossSpec
INVARIANTS
    FieldsAreExact
    ReportOfBoundBytes
    EachCallSiteSettledOnce
    ReportsAreReadable
    AffectedIsExact
    
