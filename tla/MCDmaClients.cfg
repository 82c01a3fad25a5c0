CONSTANTS
    Superpages = {s1, s2}
    TransferCapacity = 1
    PagesPerSuperpage = 2
    MaxPages = 3
    None = None
    DataOutSize = 1
    Droppers = {main, sampler}
    NoPage = NoPage
    MaxOverlapped = 1
    bench = bench
    readout = readout
    Procs = {bench, readout}
    Forcing = {bench}
    BenchProc = bench
    ReadoutProc = readout
    Nobody = Nobody
    MaxRemoved = 1
    MaxCrashes = 1
SPECIFICATION FairSpec
INVARIANTS BenchConsistent PagesApart OneOwner CrashIsNoticed
PROPERTIES BenchEnds PagesCirculate
