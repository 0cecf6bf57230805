SPECIFICATION DocsSpec
CONSTANTS
    g1 = g1
    g2 = g2
    None = None
    Session = {c1, c2}
    Command <- OneOfEachShape
    Publisher = {p1, p2}
    Generation = {g1}
    DocumentsOf <- OneSnapshot
    MaxStops = 2
    BytesOf <- ExplorerFiles
    MaxFaults = 2
INVARIANTS
    AbandonedStagingResumes
