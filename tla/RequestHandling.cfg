\* Reads may end anywhere; two requests of 39 kinds on one connection.
SPECIFICATION Spec
CONSTANTS
    Symbol <- Sym
    Requests <- MCRequests
    Cuts = {"url", "field", "value", "body"}
    Authorization <- MCAuthorization
    AcceptEncoding <- MCAccept
    Token <- MCToken
    Lz4 <- MCLz4
    Deflate <- MCDeflate
    MetricsUrl <- MCMetrics
    ConfigUrl <- MCConfig
    Objects <- MCObjects
    OtherValues <- MCValues
    MaxMessages = 2
INVARIANTS TypeOK Reassembled GrantNeedsToken
PROPERTIES AnswerIsRight
CHECK_DEADLOCK FALSE
