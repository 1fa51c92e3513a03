\* One authorised request, cut anywhere.
SPECIFICATION Spec
CONSTANTS
    Symbol <- Sym
    Requests <- MCOne
    Cuts = {"url", "field", "value", "body"}
    Authorization <- MCAuthorization
    AcceptEncoding <- MCAccept
    Token <- MCToken
    Lz4 <- MCLz4
    Deflate <- MCDeflate
    MetricsUrl <- MCMetrics
    ConfigUrl <- MCConfig
    Objects <- MCObjects
    OtherValues <- MCValues
    MaxMessages = 1
INVARIANTS AuthorisationIsRight
CHECK_DEADLOCK FALSE
