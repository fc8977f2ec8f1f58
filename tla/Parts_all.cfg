CONSTANTS
    Parts = {"arena", "set", "dict", "types", "document", "lexer", "names", "typed", "vector", "listing", "foreign", "libraries", "units", "literals"}
    Payload = 8
    BaseAlign = 4
    Sizes = {1, 4}
    Aligns = {1, 4}
    Bound = 6
    Uses = {"scratch", "flat"}
    Deep = FALSE
    k1 = k1
    k2 = k2
    k3 = k3
    k4 = k4
    Key = {k1, k2, k3, k4}
    NoKey = NoKey
    Hash <- MCHash
    InitialSize = 1
    DictKeys = {0, 1, 3, 4, 6}
    IntSpace = 16
    t1 = t1
    t2 = t2
    t3 = t3
    TypeThread = {t1, t2, t3}
    Requests <- MCRequests
    Basic = {0, 1}
    AddressSpace = 16
    KeySpace = 64
    Letter = {"x"}
    Newline = "n"
    MaxText = 4
    MaxInsert = 2
    Sources <- MCSources
    Keywords <- MCKeywords
    CharSize = 3
    Scenes <- MCScenes
    LINEAR_SEARCH_THRESHOLD = 2
    Internal = {"true", "x"}
    Spacing = 4
    Width <- MCWidth
    Definitions <- MCDefinitions
    Expressions <- MCExpressions
    New <- MCNew
    Targets = {"U8", "I64"}
    VectorPrograms <- MCVectorPrograms
    VectorVariables <- MCVectorVariables
    VectorCells <- MCVectorCells
    Scratch = 40
    ScratchCells = 24
    Listings <- MCListings
    MaxDepth = 1
    CallsMade <- MCCalls
    LibThread = {t1, t2}
    LibFunction = {"f", "g", "missing"}
    LibImport = {"i", "j"}
    LibFile = {"x"}
    ImportOf <- MCImportOf
    FileOf <- MCFileOf
    Exported = {"f", "g"}
    Bases = {1, 2}
    Work <- MCWork
    UnitTexts <- MCUnitTexts
    LiteralTexts <- MCLiteralTexts
    InsertionMost = 3
SPECIFICATION FairSpec
INVARIANTS
    ContainersInOrder
    TypesAreOne
    DocumentIsClients
    TokensAreText
    NamesMeanTheirs
    ComputesAsMeant
    VectorsAsMeant
    ListingIsCode
    ForeignAsMeant
    LibrariesStay
PROPERTIES
    ImplementsContainers
    PartsGoOn
CHECK_DEADLOCK FALSE
