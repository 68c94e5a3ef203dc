SPECIFICATION Spec
CONSTANTS
    TraceNames = {"strace.1", "strace.2"}
    OtherNames = {"strace.log"}
    Unquoted = "unquoted"
    Request = "request"
    Payload <- MCPayload
    CanonicalOf <- MCCanonicalOf
    Checkout = "tree"
    NONE = NONE
    RawTraces <- MCRawTraces
    Builds <- MCBuilds
    OtherBuilds <- MCOtherBuilds
    Scans <- MCScans
    SwapSets <- MCSwapSets
    MaxAttempts = 2
    MaxSwaps = 1
    TraceBound = 3
    SpdxBound = 4
    SdistBound = 4
    WheelBound = 4
    Document = Document
    Refused = Refused
    NotArchive = NotArchive
INVARIANTS
    RecordIsSound
    RecordedIsSigned
    HonestIsAccepted
    RecordedIsOneRun
    TraceReductionsAgree
    SpdxNormalizersAgree
    ArchivesAreConfirmed
PROPERTIES
    EvidenceIsDecided
CHECK_DEADLOCK FALSE
