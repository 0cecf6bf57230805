SPECIFICATION PowerLossSpec
CONSTANTS
    p1 = p1  p2 = p2
    r1 = r1  r2 = r2
    s1 = s1  s2 = s2  t1 = t1
    a1 = a1  a2 = a2
    w1 = w1  w2 = w2
    Publisher = {p1, p2}
    Sweeper = {w1}
    Repository = {r1, r2}
    Snapshot = {s1, s2, t1}
    Artifact = {a1, a2}
    ArtifactsOf <- MCArtifactsOf
    RepositoryOf <- MCRepositoryOf
    NoSnapshot = NoSnapshot
    NoPublisher = NoPublisher
    MaxGeneration = 2
INVARIANT CommittedContentDurable
