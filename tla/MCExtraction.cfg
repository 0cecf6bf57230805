SPECIFICATION ExtractionSpec
CONSTANTS
    Programs <- MCPrograms
    FreeFunctions = {}
    CurrentModule = "m"
    Constructors = {"Some", "None"}
    MaxBodyDepth = 8
    MaxParameters = 2
    MaxBodyFacts = 30
    MaxExpressions = 60
    MaxBindings = 20
    MaxArguments = 3
    MaxExpressionDepth = 8
    MaxNestedBranches = 2
    MaxBlocks = 20
    MaxFlowNodes = 12
    Sources <- MCSources
    Primitives <- Types
    WideBits = 3
    MaxSyntaxNodes = 8
    MaxDirectDependencies = 2
    MaxDependencyLevels = 2
INVARIANTS
    
    FlowIsExact
    
    
    AccountedOnce
