SPECIFICATION SurfacesSpec
CONSTANTS
    g1 = g1
    g2 = g2
    None = None
    Session = {c1, c2}
    Command <- OneOfEachShape
    Publisher = {p1, p2}
    Generation = {g1, g2}
    DocumentsOf <- TwoSnapshots
    MaxStops = 2
    BytesOf <- ExplorerFiles
    MaxFaults = 2
INVARIANTS
    PublishedStoreOpens
    ManifestMeansComplete
    ReportedStaysInTurn
    
PROPERTIES
    RetriesCommit
