SPECIFICATION Spec
CONSTANTS
    p1 = p1
    p2 = p2
    NoProc = NoProc
    Proc = {p1, p2}
    BSIZE = 2
    NDIRECT = 2
    NBLOCKS = 6
    NINODES = 4
    MAXOPBLOCKS = 6
    ImageFiles <- OneFile
    Workloads <- AllWorkloads
INVARIANTS RefsExact LinksExact BlocksExact InodesWrittenBack IputNeverBlocks NoPanic
PROPERTIES LastPutFreesUnlessReused ImplementsFiles
